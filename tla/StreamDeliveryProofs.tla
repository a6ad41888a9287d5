------------------------ MODULE StreamDeliveryProofs ------------------------
(***************************************************************************)
(* Theorems about StreamDelivery, for every number of runs, items,         *)
(* messages, retries, failures and restarts: what the channel accepted is  *)
(* not sent again and a reply has no gaps (ShownOnceInOrder), a compaction *)
(* and nothing else is silenced (OnlyCompactSilent), and a reply whose     *)
(* turn has ended was shown or deferred (ReplyAccounted).                  *)
(***************************************************************************)
EXTENDS StreamDelivery, WellFoundedInduction, TLAPS

USE BoundsAssumption DEF Runs, Items, Pieces, Tokens, None

-----------------------------------------------------------------------------
\* The inductive invariant: the types.

Kinds == {"none", "user", "system", "compact"}
Stages == {"unused", "sending", "accepted", "done"}
Phases == {"none", "live", "over"}
Gens == {0, 1}
Providers == {"none", "weixin", "system"}
RunRecords ==
  [kind : Kinds, cause : Tokens, gen : Gens, token : Tokens, stage : Stages,
   turn : Phases, done : Nat]
Targets == [provider : Providers, token : Tokens, cause : Tokens, gen : Gens]
States ==
  [here : BOOLEAN, target : Targets, attached : BOOLEAN, suppress : BOOLEAN,
   prefix : SUBSET Pieces, known : SUBSET Items, sent : SUBSET Items]
Sends ==
  [run : 0..NRun, todo : SUBSET Items, tries : Nat, token : Tokens,
   fresh : BOOLEAN, end : BOOLEAN]

\* The variables hold values of the program's types.
TypeOK ==
  /\ runtime \in {"codex", "claudecode"}
  /\ run \in [Runs -> RunRecords] /\ nrun \in 0..NRun
  /\ inbound \in 0..NInbound /\ waiting \in Tokens
  /\ deferred \in [Runs -> SUBSET Pieces] /\ bound \in [Runs -> Tokens]
  /\ superseded \in SUBSET Runs /\ token \in Tokens
  /\ prefix \in SUBSET Pieces
  /\ binding \in [{"weixin", "system"} -> Tokens]
  /\ turnTarget \in [Runs -> Targets]
  /\ suppressed \in Nat /\ compacting \in 0..NRun
  /\ st \in [Runs -> States] /\ sending \in Sends
  /\ faults \in Nat /\ restarts \in Nat
  /\ cls \in [Pieces -> {"unsaid", "text", "mute"}] /\ acked \in [Pieces -> Nat]
  /\ broken \in SUBSET Runs /\ kept \in SUBSET Pieces /\ primed \in SUBSET Pieces

-----------------------------------------------------------------------------
\* The inductive invariant: the runs, the chain and the targets.

\* A run of the user's thread whose events matter: its turn is not over, or the
\* chain is at its send.
Active(r) ==
  /\ run[r].kind \in {"user", "compact"} /\ r \notin superseded
  /\ run[r].turn # "over" \/ sending.run = r

\* Runs are begun in order, and nothing is known of one that is not begun.
RunsBegun ==
  /\ \A r \in Runs :
       /\ r > nrun => /\ run[r] = NoRun /\ st[r] = NoState
                      /\ turnTarget[r] = NoTarget /\ r \notin superseded
       /\ r <= nrun => run[r].stage # "unused" /\ run[r].kind # "none"
  /\ compacting # None =>
       /\ compacting = nrun + 1 /\ compacting \in Runs
       /\ sending = Idle /\ runtime = "claudecode"
  /\ runtime = "claudecode" => superseded = {}

\* An active run holds the gate of its scope, so there is one at a time.
OneActive ==
  /\ \A r \in Runs : Active(r) => run[r].stage \in {"sending", "accepted"}
  /\ \A q, r \in Runs : Active(q) /\ Active(r) => q = r
  /\ compacting # None => \A r \in Runs : ~Active(r)

\* A suppression waits only for a compaction's turn to start, while no reply to
\* the user can come; the compaction's run takes it.
Silence ==
  /\ suppressed > 0 =>
       /\ suppressed = 1 /\ runtime = "claudecode"
       /\ compacting = None =>
            /\ nrun \in Runs /\ run[nrun].kind = "compact"
            /\ run[nrun].turn = "none"
  /\ compacting # None => suppressed > 0
  /\ \A r \in Runs :
       /\ run[r].kind = "compact" =>
            /\ runtime = "claudecode"
            /\ run[r].turn = "none" => suppressed > 0
            /\ st[r].here => st[r].suppress
            /\ run[r].turn = "live" => st[r].here
            /\ sending.run = r => sending.todo = {}
       /\ st[r].here /\ st[r].suppress /\ run[r].kind = "user" => r \in superseded

\* What the chain is sending is an item of a run that has a state, said by its
\* turn and not sent before.
AtSend ==
  /\ sending.run = None => sending = Idle
  /\ sending.run # None =>
       LET r == sending.run
       IN /\ r <= nrun /\ st[r].here /\ run[r].turn # "none"
          /\ sending.todo \subseteq st[r].known \ st[r].sent
          /\ sending.end <=> run[r].turn = "over"
          /\ ~sending.end => /\ Provider(r) = "weixin"
                             /\ sending.todo \subseteq 1..run[r].done

\* Every run answers where its messages come from.
Targeted ==
  /\ inbound > 0 => token # None /\ binding["weixin"] # None
  /\ waiting # None => inbound > 0
  /\ sending.fresh => sending.token # None
  /\ \A r \in Runs :
       /\ run[r].kind = "user" => inbound > 0
       /\ turnTarget[r] # NoTarget => turnTarget[r].provider = Provider(r)
       /\ st[r].here =>
            /\ st[r].target.provider \in {"none", Provider(r)}
            /\ run[r].kind = "user" => st[r].target.provider = "weixin"

\* A state knows the items its turn has said, all of them while the bridge has
\* not been restarted.
Known ==
  \A r \in Runs :
    /\ run[r].turn = "none" => run[r].done = 0 /\ ~st[r].here
    /\ st[r].known \subseteq 1..(run[r].done + 1)
    /\ run[r].turn # "over" => st[r].sent \subseteq 1..run[r].done
    /\ run[r].kind = "system" /\ run[r].turn # "over" => st[r].sent = {}
    /\ ~st[r].here => st[r] = NoState
    /\ restarts = 0 /\ run[r].kind = "user" =>
         /\ run[r].turn = "live" /\ r \notin superseded => st[r].here
         /\ st[r].here => 1..run[r].done \subseteq st[r].known

Control ==
  RunsBegun /\ OneActive /\ Silence /\ AtSend /\ Targeted /\ Known

-----------------------------------------------------------------------------
\* The inductive invariant: the pieces.

\* A piece that its own run may still send.
CanSend(r, i) ==
  \/ sending.run = r /\ i \in sending.todo
  \/ /\ run[r].turn # "over"
     /\ i > run[r].done \/ i \in st[r].known \ st[r].sent

Out(p) == acked[p] > 0 \/ p \in kept

\* What was shown or deferred is not sent by its own run again.
SentOnce == \A r \in Runs, i \in Items : Out(<<r, i>>) => ~CanSend(r, i)

\* A deferred piece that was not shown is in one place at most: in the store, in
\* the prefix that waits, or in that of a run's state.
OnePlace ==
  /\ prefix \subseteq kept
  /\ \A r \in Runs : deferred[r] \subseteq kept /\ st[r].prefix \subseteq kept
  /\ \A p \in Pieces :
       /\ acked[p] <= 1
       /\ acked[p] > 0 =>
            /\ p \notin prefix
            /\ \A r \in Runs : p \notin deferred[r] /\ p \notin st[r].prefix
       /\ p \in prefix =>
            \A r \in Runs : p \notin deferred[r] /\ p \notin st[r].prefix
       /\ \A q, r \in Runs :
            /\ p \in deferred[q] => p \notin st[r].prefix
            /\ p \in deferred[q] /\ p \in deferred[r] => q = r
            /\ p \in st[q].prefix /\ p \in st[r].prefix => q = r

\* Nothing of a compaction is out.
CompactUnseen ==
  \A r \in Runs, i \in Items : run[r].kind = "compact" => ~Out(<<r, i>>)

\* What counts as sent and has something to show is out; and while the bridge
\* has not been restarted an item is out only when those before it are, for
\* what is sent with it is all that was unsent before it.
NoGaps ==
  \A r \in Runs :
    run[r].kind = "user" =>
      /\ \A i \in Items :
           i \in st[r].sent /\ cls[<<r, i>>] = "text" => Out(<<r, i>>)
      /\ restarts = 0 =>
           /\ \A i, j \in Items :
                Out(<<r, j>>) /\ i < j /\ cls[<<r, i>>] = "text" => Out(<<r, i>>)
           /\ sending.run = r =>
                \A i, j \in Items :
                  /\ j \in sending.todo /\ i < j
                  /\ i \in st[r].known /\ i \notin st[r].sent
                  => i \in sending.todo
      /\ sending.run = r /\ sending.end /\ ~st[r].suppress /\ r \notin broken =>
           st[r].known \subseteq st[r].sent \union sending.todo

Placed == SentOnce /\ OnePlace /\ CompactUnseen /\ NoGaps

IInv == TypeOK /\ Control /\ Placed

-----------------------------------------------------------------------------
\* Values.

\* What the variables hold at first is of their types.
LEMMA FirstValues ==
  /\ NoTarget \in Targets /\ NoState \in States /\ NoRun \in RunRecords
  /\ Idle \in Sends
BY DEF NoTarget, NoState, NoRun, Idle, Targets, States, RunRecords, Sends,
     Kinds, Stages, Phases, Gens, Providers

\* A state of which some fields are set: the others stay.
LEMMA WithTarget ==
  ASSUME NEW s \in States, NEW t \in Targets
  PROVE  LET a == [s EXCEPT !.target = t]
         IN /\ a \in States /\ a.here = s.here /\ a.target = t
            /\ a.suppress = s.suppress /\ a.prefix = s.prefix
            /\ a.known = s.known /\ a.sent = s.sent
BY DEF States

LEMMA WithAttached ==
  ASSUME NEW s \in States, NEW t \in Targets
  PROVE  LET a == [s EXCEPT !.target = t, !.attached = TRUE]
         IN /\ a \in States /\ a.here = s.here /\ a.target = t
            /\ a.suppress = s.suppress /\ a.prefix = s.prefix
            /\ a.known = s.known /\ a.sent = s.sent
BY DEF States

LEMMA WithPrefix ==
  ASSUME NEW s \in States, NEW P \in SUBSET Pieces
  PROVE  LET a == [s EXCEPT !.prefix = P]
         IN /\ a \in States /\ a.here = s.here /\ a.target = s.target
            /\ a.suppress = s.suppress /\ a.prefix = P
            /\ a.known = s.known /\ a.sent = s.sent
BY DEF States

LEMMA WithKnown ==
  ASSUME NEW s \in States, NEW K \in SUBSET Items
  PROVE  LET a == [s EXCEPT !.known = K]
         IN /\ a \in States /\ a.here = s.here /\ a.target = s.target
            /\ a.suppress = s.suppress /\ a.prefix = s.prefix
            /\ a.known = K /\ a.sent = s.sent
BY DEF States

LEMMA WithSent ==
  ASSUME NEW s \in States, NEW D \in SUBSET Items
  PROVE  LET a == [s EXCEPT !.sent = D, !.prefix = {}]
         IN /\ a \in States /\ a.here = s.here /\ a.target = s.target
            /\ a.suppress = s.suppress /\ a.prefix = {}
            /\ a.known = s.known /\ a.sent = D
BY DEF States

LEMMA WithSuppress ==
  ASSUME NEW s \in States
  PROVE  LET a == [s EXCEPT !.suppress = TRUE]
         IN /\ a \in States /\ a.here = s.here /\ a.target = s.target
            /\ a.suppress /\ a.prefix = s.prefix
            /\ a.known = s.known /\ a.sent = s.sent
BY DEF States

\* What ensureRunState returns: the state that is there, or a new one that takes
\* the suppression and the prefix if the run is of the user's thread.
LEMMA EnsuredFacts ==
  ASSUME TypeOK, NEW r \in Runs
  PROVE  LET s == Ensured(r)
         IN /\ s \in States /\ s.here
            /\ st[r].here => s = st[r]
            /\ ~st[r].here =>
                 /\ s.suppress <=> (UserThread(r) /\ suppressed > 0)
                 /\ s.prefix = IF UserThread(r) THEN prefix ELSE {}
                 /\ s.known = {} /\ s.sent = {}
                 /\ turnTarget[r] # NoTarget => s.target = turnTarget[r]
                 /\ turnTarget[r] = NoTarget =>
                      s.target.provider = IF binding[Provider(r)] # None
                                            THEN Provider(r) ELSE "none"
<1>1. st[r] \in States /\ turnTarget[r] \in Targets /\ prefix \in SUBSET Pieces
  BY DEF TypeOK
<1>2. CASE st[r].here
  BY <1>1, <1>2 DEF Ensured
<1>3. CASE ~st[r].here
  <2> DEFINE sup == UserThread(r) /\ suppressed > 0
             n == [NoState EXCEPT !.here = TRUE, !.suppress = sup]
             k == binding[Provider(r)]
             w == [NoTarget EXCEPT !.provider = Provider(r), !.token = k]
             a == Attached(r, n)
  <2>1. /\ n \in States /\ n.here /\ n.suppress = sup /\ n.prefix = {}
        /\ n.known = {} /\ n.sent = {} /\ n.target.provider = "none"
    <3>1. /\ NoState.prefix = {} /\ NoState.known = {} /\ NoState.sent = {}
          /\ NoState.target.provider = "none"
      BY DEF NoState, NoTarget
    <3>2. sup \in BOOLEAN
      OBVIOUS
    <3> HIDE DEF sup
    <3> QED
      BY <3>1, <3>2, FirstValues DEF States
  <2>2. Provider(r) \in {"weixin", "system"} /\ k \in Tokens
    BY DEF Provider, TypeOK
  <2>3. w \in Targets /\ w.provider = Provider(r)
    <3> HIDE DEF k
    <3> QED
      BY <2>2, FirstValues DEF Targets, Providers
  <2>4. a = IF turnTarget[r] # NoTarget
              THEN [n EXCEPT !.target = turnTarget[r], !.attached = TRUE]
              ELSE IF k # None THEN [n EXCEPT !.target = w] ELSE n
    BY DEF Attached
  <2>5. Ensured(r) = IF UserThread(r) THEN [a EXCEPT !.prefix = prefix] ELSE a
    BY <1>3 DEF Ensured
  <2>6. sup <=> (UserThread(r) /\ suppressed > 0)
    OBVIOUS
  <2>7. k = binding[Provider(r)]
    OBVIOUS
  <2> HIDE DEF a, n, w, k, sup
  <2>8. /\ a \in States /\ a.here /\ a.suppress = sup /\ a.prefix = {}
        /\ a.known = {} /\ a.sent = {}
        /\ turnTarget[r] # NoTarget => a.target = turnTarget[r]
        /\ turnTarget[r] = NoTarget =>
             a.target.provider = IF k # None THEN Provider(r) ELSE "none"
    <3>1. CASE turnTarget[r] # NoTarget
      <4>1. PICK t \in Targets : t = turnTarget[r]
        BY <1>1
      <4> DEFINE b == [n EXCEPT !.target = t, !.attached = TRUE]
      <4>2. a = b
        BY <2>4, <3>1, <4>1
      <4>3. /\ b \in States /\ b.here = n.here /\ b.target = t
            /\ b.suppress = n.suppress /\ b.prefix = n.prefix
            /\ b.known = n.known /\ b.sent = n.sent
        BY <2>1, WithAttached
      <4> HIDE DEF b
      <4> QED
        BY <2>1, <3>1, <4>1, <4>2, <4>3
    <3>2. CASE turnTarget[r] = NoTarget /\ k # None
      BY <2>1, <2>3, <2>4, <3>2, WithTarget
    <3>3. CASE turnTarget[r] = NoTarget /\ k = None
      BY <2>1, <2>4, <3>3
    <3> QED
      BY <3>1, <3>2, <3>3
  <2>9. CASE UserThread(r)
    <3>1. Ensured(r) = [a EXCEPT !.prefix = prefix]
      BY <2>5, <2>9
    <3> QED
      BY <1>1, <1>3, <2>6, <2>7, <2>8, <2>9, <3>1, WithPrefix
  <2>10. CASE ~UserThread(r)
    BY <1>3, <2>5, <2>6, <2>7, <2>8, <2>10
  <2> QED
    BY <2>9, <2>10
<1> QED
  BY <1>2, <1>3 DEF TypeOK, States

-----------------------------------------------------------------------------
\* Moves of a run, and sends.

\* Run r moves on; what it is of stays, and so do the other runs.
RunMoved(r) ==
  /\ run' \in [Runs -> RunRecords]
  /\ \A q \in Runs : q # r => run'[q] = run[q]
  /\ run'[r].kind = run[r].kind

\* The state of run r changes, no other one does.
StateSet(r) ==
  /\ st' \in [Runs -> States]
  /\ \A q \in Runs : q # r => st'[q] = st[q]

\* A turn goes into another phase.
LEMMA MoveTurn ==
  ASSUME TypeOK, NEW r \in Runs, NEW t \in Phases,
         run' = [run EXCEPT ![r].turn = t]
  PROVE  RunMoved(r) /\ run'[r].turn = t /\ run'[r].done = run[r].done
           /\ run'[r].stage = run[r].stage
<1>1. run \in [Runs -> RunRecords]
  BY DEF TypeOK
<1> DEFINE x == [run[r] EXCEPT !.turn = t]
<1>2. run[r] \in RunRecords
  BY <1>1
<1>3. /\ x \in RunRecords /\ x.kind = run[r].kind /\ x.stage = run[r].stage
      /\ x.turn = t /\ x.done = run[r].done
  BY <1>2 DEF RunRecords
<1>4. run' = [run EXCEPT ![r] = x]
  BY <1>1
<1> HIDE DEF x
<1> QED
  BY <1>1, <1>3, <1>4 DEF RunMoved

\* The next item of a turn has been said.
LEMMA MoveDone ==
  ASSUME TypeOK, NEW r \in Runs, NEW d \in Nat, run' = [run EXCEPT ![r].done = d]
  PROVE  RunMoved(r) /\ run'[r].turn = run[r].turn /\ run'[r].done = d
           /\ run'[r].stage = run[r].stage
<1>1. run \in [Runs -> RunRecords]
  BY DEF TypeOK
<1> DEFINE x == [run[r] EXCEPT !.done = d]
<1>2. run[r] \in RunRecords
  BY <1>1
<1>3. /\ x \in RunRecords /\ x.kind = run[r].kind /\ x.stage = run[r].stage
      /\ x.turn = run[r].turn /\ x.done = d
  BY <1>2 DEF RunRecords
<1>4. run' = [run EXCEPT ![r] = x]
  BY <1>1
<1> HIDE DEF x
<1> QED
  BY <1>1, <1>3, <1>4 DEF RunMoved

\* A turn ends with its result.
LEMMA MoveOver ==
  ASSUME TypeOK, NEW r \in Runs, 
         run' = [run EXCEPT ![r].turn = "over", ![r].done = 1]
  PROVE  RunMoved(r) /\ run'[r].turn = "over" /\ run'[r].done = 1
           /\ run'[r].stage = run[r].stage
<1>1. run' = [run EXCEPT ![r] = [run[r] EXCEPT !.turn = "over", !.done = 1]]
  BY DEF TypeOK
<1>2. run[r] \in RunRecords /\ "over" \in Phases /\ 1 \in Nat
  BY DEF TypeOK, Phases
<1> DEFINE x == [run[r] EXCEPT !.turn = "over", !.done = 1]
<1>3. x \in RunRecords /\ x.kind = run[r].kind /\ x.stage = run[r].stage
      /\ x.turn = "over" /\ x.done = 1
  BY <1>2 DEF RunRecords
<1> HIDE DEF x
<1>4. run' = [run EXCEPT ![r] = x]
  BY <1>1 DEF x
<1> QED
  BY <1>3, <1>4 DEF TypeOK, RunMoved

\* The handler of the end of a turn releases its gate.
LEMMA MoveReleased ==
  ASSUME TypeOK, NEW r \in Runs, run' = Released(r)
  PROVE  RunMoved(r) /\ run'[r].turn = "over" /\ run'[r].done = run[r].done
           /\ run'[r].stage \in {run[r].stage, "done"}
<1> DEFINE g == IF run[r].stage = "accepted" THEN "done" ELSE run[r].stage
<1>1. run' = [run EXCEPT ![r] = [run[r] EXCEPT !.stage = g, !.turn = "over"]]
  BY DEF TypeOK, Released
<1>2. g \in Stages /\ g \in {run[r].stage, "done"}
  BY DEF TypeOK, RunRecords, Stages
<1> HIDE DEF g
<1>3. run[r] \in RunRecords /\ "over" \in Phases
  BY DEF TypeOK, Phases
<1> DEFINE x == [run[r] EXCEPT !.stage = g, !.turn = "over"]
<1>4. x \in RunRecords /\ x.kind = run[r].kind /\ x.stage = g
      /\ x.turn = "over" /\ x.done = run[r].done
  BY <1>2, <1>3 DEF RunRecords
<1> HIDE DEF x
<1>5. run' = [run EXCEPT ![r] = x]
  BY <1>1 DEF x
<1> QED
  BY <1>2, <1>4, <1>5 DEF TypeOK, RunMoved

\* The state of a run is replaced.
LEMMA MoveState ==
  ASSUME TypeOK, NEW r \in Runs, NEW s \in States, st' = [st EXCEPT ![r] = s]
  PROVE  StateSet(r) /\ st'[r] = s
BY DEF TypeOK, StateSet

\* Creating a state keeps the types and takes the prefix and a suppression.
LEMMA TakenFacts ==
  ASSUME TypeOK, NEW r \in Runs, Taken(r)
  PROVE  /\ prefix' \in SUBSET Pieces /\ suppressed' \in Nat
         /\ st[r].here \/ ~UserThread(r) => prefix' = prefix /\ suppressed' = suppressed
         /\ ~st[r].here /\ UserThread(r) => 
              /\ prefix' = {}
              /\ suppressed > 0 => suppressed' = suppressed - 1
              /\ suppressed = 0 => suppressed' = 0
BY DEF TypeOK, Taken

\* What a flush sends, at the end of a turn and before.
EndFits(r, s, todo) ==
  LET d == Send(r, s, todo, TRUE)
  IN /\ d \in Sends /\ ~d.fresh /\ d.run = r /\ d.end
     /\ d.todo = IF s.suppress \/ s.target.provider = "none" THEN {} ELSE todo

LEMMA SendEnd ==
  ASSUME NEW r \in Runs, NEW s \in States, NEW todo \in SUBSET Items
  PROVE  EndFits(r, s, todo)
<1> DEFINE none == s.suppress \/ s.target.provider = "none"
           c == [run |-> r, todo |-> IF none THEN {} ELSE todo, tries |-> 0,
                 token |-> s.target.token, fresh |-> FALSE, end |-> TRUE]
<1>1. s.target.token \in Tokens /\ s.suppress \in BOOLEAN
  BY DEF States, Targets
<1>2. c \in Sends /\ ~c.fresh /\ c.run = r /\ c.end
      /\ c.todo = IF none THEN {} ELSE todo
  BY <1>1 DEF Sends
<1>3. Send(r, s, todo, TRUE) = c
  BY DEF Send
<1> HIDE DEF c
<1> QED
  BY <1>2, <1>3 DEF EndFits

\* What flushNow starts while the turn goes on.
SendFits(r, s, todo) ==
  LET d == Send(r, s, todo, FALSE)
  IN /\ d \in Sends /\ ~d.fresh /\ ~d.end
     /\ d = Idle \/ d.run = r
     /\ d.todo = IF s.suppress \/ s.target.provider = "none" THEN {} ELSE todo

LEMMA SendOn ==
  ASSUME NEW r \in Runs, NEW s \in States, NEW todo \in SUBSET Items
  PROVE  SendFits(r, s, todo)
<1> DEFINE none == s.suppress \/ s.target.provider = "none"
           c == [run |-> r, todo |-> IF none THEN {} ELSE todo, tries |-> 0,
                 token |-> s.target.token, fresh |-> FALSE, end |-> FALSE]
<1>1. s.target.token \in Tokens /\ s.suppress \in BOOLEAN
  BY DEF States, Targets
<1>2. c \in Sends /\ ~c.fresh /\ c.run = r /\ ~c.end
      /\ c.todo = IF none THEN {} ELSE todo
  BY <1>1 DEF Sends
<1>3. Send(r, s, todo, FALSE) = IF none \/ todo = {} THEN Idle ELSE c
  BY DEF Send
<1>4. Idle \in Sends /\ ~Idle.fresh /\ Idle.todo = {} /\ ~Idle.end
  BY FirstValues DEF Idle
<1> HIDE DEF c
<1> QED
  BY <1>2, <1>3, <1>4 DEF SendFits

\* A run of which something was heard has begun.
LEMMA HeardBegun ==
  ASSUME IInv, NEW r \in Runs, run[r].turn # "none"
  PROVE  r <= nrun /\ run[r].stage # "unused" /\ run[r].kind # "none"
<1>1. nrun \in Nat
  BY DEF IInv, TypeOK
<1>2. r > nrun => run[r] = NoRun
  BY DEF IInv, Control, RunsBegun
<1>3. r <= nrun
  BY <1>1, <1>2 DEF NoRun
<1> QED
  BY <1>3 DEF IInv, Control, RunsBegun

-----------------------------------------------------------------------------
\* Events of a run that is not superseded.

\* The handler hears an event of run r: the run goes on, by one item at most.
HeardRun(r) ==
  /\ r \notin superseded /\ sending = Idle /\ compacting = None
  /\ run[r].stage # "unused" /\ run[r].turn # "over"
  /\ RunMoved(r) /\ run'[r].stage = run[r].stage
  /\ run'[r].turn \in {"live", "over"}
  /\ run'[r].done \in {run[r].done, run[r].done + 1}
  /\ cls' \in [Pieces -> {"unsaid", "text", "mute"}]
  /\ \A p \in Pieces : p # <<r, run[r].done + 1>> => cls'[p] = cls[p]
  /\ UNCHANGED <<runtime, nrun, inbound, waiting, token, restarts, deferred,
                 bound, superseded, binding, turnTarget, compacting, faults,
                 history>>

\* Its state is ensured, and may know one item more.
HeardState(r) ==
  LET s == st'[r]
  IN /\ StateSet(r) /\ s.here /\ s.sent = st[r].sent
     /\ st[r].known \subseteq s.known
     /\ s.known \subseteq st[r].known \union {run[r].done + 1}
     /\ run'[r].done # run[r].done => run'[r].done \in s.known
     /\ s.suppress = Ensured(r).suppress /\ s.prefix = Ensured(r).prefix
     /\ s.target = Ensured(r).target
     /\ Taken(r)

\* It may start a send.
HeardSend(r) ==
  LET s == st'[r]
      d == sending'
  IN /\ d \in Sends /\ ~d.fresh
     /\ d = Idle \/ (d.run = r /\ (d.end <=> run'[r].turn = "over"))
     /\ run'[r].turn = "over" => d.run = r
     /\ d.todo \subseteq s.known \ s.sent
     /\ s.suppress => d.todo = {}
     /\ d.run = r /\ ~d.end =>
          UserThread(r) /\ d.todo \subseteq 1..run'[r].done
     /\ d.run = r /\ run[r].kind = "user" =>
          /\ \A i, j \in Items : 
               j \in d.todo /\ i < j /\ i \in s.known /\ i \notin s.sent => i \in d.todo
          /\ d.end /\ ~s.suppress /\ s.target.provider # "none" =>
               s.known \subseteq s.sent \union d.todo

Heard(r) == HeardRun(r) /\ HeardState(r) /\ HeardSend(r)

\* An event that is heard keeps the types.
LEMMA HeardTypes ==
  ASSUME TypeOK, NEW r \in Runs, Heard(r)
  PROVE  TypeOK'
<1>1. prefix' \in SUBSET Pieces /\ suppressed' \in Nat
  BY TakenFacts DEF Heard, HeardState
<1> QED
  BY <1>1 DEF TypeOK, Heard, HeardRun, HeardState, HeardSend, RunMoved, StateSet, history

\* The actions that hear an event.
LEMMA StartedHeard ==
  ASSUME IInv, NEW r \in Runs, TurnStarted(r), r \notin superseded
  PROVE  Heard(r)
<1>1. TypeOK /\ Known
  BY DEF IInv, Control
<1>2. run' = [run EXCEPT ![r].turn = "live"] /\ "live" \in Phases
  BY DEF TurnStarted, Phases
<1>3. RunMoved(r) /\ run'[r].turn = "live" /\ run'[r].done = run[r].done
           /\ run'[r].stage = run[r].stage
  BY <1>1, <1>2, MoveTurn
<1>4. Ensured(r) \in States /\ Ensured(r).here 
      /\ (st[r].here => Ensured(r) = st[r])
      /\ (~st[r].here => Ensured(r).known = {} /\ Ensured(r).sent = {})
  BY <1>1, EnsuredFacts
<1>5. st' = [st EXCEPT ![r] = Ensured(r)]
  BY DEF TurnStarted, Late
<1>6. StateSet(r) /\ st'[r] = Ensured(r)
  BY <1>1, <1>4, <1>5, MoveState
<1>7. ~st[r].here => st[r].known = {} /\ st[r].sent = {}
  BY <1>1 DEF Known, NoState
<1>8. Idle \in Sends /\ ~Idle.fresh /\ Idle.todo = {} /\ Idle.run = None
  BY FirstValues DEF Idle
<1>9. sending = Idle /\ compacting = None /\ sending' = sending
  BY DEF TurnStarted, Late, ChainFree
<1>10. cls' = cls /\ cls \in [Pieces -> {"unsaid", "text", "mute"}]
  BY <1>1 DEF TurnStarted, Late, TypeOK
<1>11. run[r].stage # "unused" /\ run[r].turn # "over" /\ Taken(r)
      /\ UNCHANGED <<runtime, nrun, inbound, waiting, token, restarts, deferred,
                    bound, superseded, binding, turnTarget, compacting, faults,
                    history>>
  BY DEF TurnStarted, Late, turns
<1>12. HeardRun(r)
  BY <1>3, <1>9, <1>10, <1>11 DEF HeardRun
<1>13. HeardState(r)
  BY <1>3, <1>4, <1>6, <1>7, <1>11 DEF HeardState
<1>14. HeardSend(r)
  BY <1>3, <1>8, <1>9 DEF HeardSend
<1> QED
  BY <1>12, <1>13, <1>14 DEF Heard

\* Every nonempty set of natural numbers has a least member.
LEMMA LeastNat ==
  ASSUME NEW T \in SUBSET Nat, T # {}
  PROVE  \E x \in T : \A y \in T : x <= y
<1> DEFINE R == {ss \in Nat \X Nat : ss[1] < ss[2]}
<1>1. IsWellFoundedOn(R, Nat)
  BY NatLessThanWellFounded DEF OpToRel
<1>2. \A x, y \in Nat : y < x => <<y, x>> \in R
  OBVIOUS
<1> HIDE DEF R
<1>3. PICK x \in T : \A y \in T : ~(<<y, x>> \in R)
  BY <1>1, WFMin
<1>4. ASSUME NEW y \in T PROVE x <= y
  <2>1. x \in Nat /\ y \in Nat /\ ~(y < x)
    BY <1>2, <1>3
  <2> QED
    BY <2>1
<1> QED
  BY <1>4

\* The least member of a set of items.
LEMMA MinFacts ==
  ASSUME NEW S \in SUBSET Items, S # {}
  PROVE  Min(S) \in S /\ \A y \in S : Min(S) <= y
<1>1. S \in SUBSET Nat
  OBVIOUS
<1>2. \E x \in S : \A y \in S : x <= y
  BY <1>1, LeastNat
<1> QED
  BY <1>2 DEF Min

\* What a flush may send is known and was not sent.
LEMMA PendingAll ==
  ASSUME NEW s \in States, NEW d \in Nat
  PROVE  /\ Pending(s, d, TRUE) = s.known \ s.sent
         /\ Pending(s, d, TRUE) \in SUBSET Items
BY DEF Pending, States

\* What is pending of the items that are complete.
LEMMA PendingDone ==
  ASSUME NEW s \in States, NEW d \in Nat
  PROVE  LET P == Pending(s, d, FALSE)
         IN /\ P \in SUBSET Items /\ P \subseteq s.known \ s.sent
            /\ P \subseteq 1..d
            /\ \A i, j \in Items :
                 j \in P /\ i < j /\ i \in s.known /\ i \notin s.sent => i \in P
BY DEF Pending, States

\* What the answer of a system run may be sent as.
LEMMA SystemTodoFacts ==
  ASSUME NEW s \in States, NEW todo \in SystemTodo(s)
  PROVE  todo \subseteq s.known /\ todo \in SUBSET Items
<1>1. s.known \in SUBSET Items
  BY DEF States
<1>2. s.known # {} => Min(s.known) \in s.known
  BY <1>1, MinFacts
<1>3. todo = {} \/ (s.known # {} /\ todo = {Min(s.known)})
  BY DEF SystemTodo
<1> QED
  BY <1>1, <1>2, <1>3

\* What the state of a run holds before an event that it hears.
LEMMA HeardFrom ==
  ASSUME IInv, NEW r \in Runs, r \notin superseded, run[r].turn # "over"
  PROVE  /\ st[r] \in States /\ Ensured(r) \in States /\ Ensured(r).here
         /\ Ensured(r).known = st[r].known /\ Ensured(r).sent = st[r].sent
         /\ st[r].known \subseteq 1..(run[r].done + 1)
         /\ st[r].sent \subseteq 1..run[r].done
         /\ run[r].kind = "system" => st[r].sent = {}
         /\ run[r].done \in Nat
<1>1. TypeOK /\ Known
  BY DEF IInv, Control
<1>2. ~st[r].here => st[r].known = {} /\ st[r].sent = {}
  BY <1>1 DEF Known, NoState
<1>3. run[r].done \in Nat
  BY <1>1 DEF TypeOK, RunRecords
<1> QED
  BY <1>1, <1>2, <1>3, EnsuredFacts DEF Known, TypeOK

\* A run answers where its messages come from.
LEMMA EnsuredTarget ==
  ASSUME IInv, NEW r \in Runs
  PROVE  /\ Ensured(r).target.provider \in {"none", Provider(r)}
         /\ run[r].kind = "user" => Ensured(r).target.provider = "weixin"
<1>1. TypeOK /\ Targeted
  BY DEF IInv, Control
<1>2. run[r].kind = "user" => Provider(r) = "weixin" /\ binding["weixin"] # None
  BY <1>1 DEF Targeted, Provider, TypeOK
<1>3. CASE st[r].here
  BY <1>1, <1>3, EnsuredFacts DEF Targeted
<1>4. CASE ~st[r].here /\ turnTarget[r] # NoTarget
  BY <1>1, <1>2, <1>4, EnsuredFacts DEF Targeted
<1>5. CASE ~st[r].here /\ turnTarget[r] = NoTarget
  BY <1>1, <1>2, <1>5, EnsuredFacts
<1> QED
  BY <1>3, <1>4, <1>5

\* The end of a turn is heard.
LEMMA CompletedHeard ==
  ASSUME IInv, NEW r \in Runs, TurnCompleted(r), r \notin superseded
  PROVE  Heard(r)
<1> DEFINE s == Ensured(r)
<1>1. TypeOK
  BY DEF IInv
<1>2. /\ run' = [run EXCEPT ![r].turn = "over"] /\ "over" \in Phases
      /\ run[r].turn = "live" /\ sending = Idle /\ compacting = None
      /\ st' = [st EXCEPT ![r] = s] /\ Taken(r)
      /\ cls' = cls
      /\ UNCHANGED <<runtime, nrun, inbound, waiting, token, restarts, deferred,
                    bound, superseded, binding, turnTarget, compacting, faults,
                    history>>
  BY DEF TurnCompleted, Late, ChainFree, Phases, turns
<1>3. RunMoved(r) /\ run'[r].turn = "over" /\ run'[r].done = run[r].done
           /\ run'[r].stage = run[r].stage
  BY <1>1, <1>2, MoveTurn
<1>4. /\ st[r] \in States /\ s \in States /\ s.here
      /\ s.known = st[r].known /\ s.sent = st[r].sent
      /\ run[r].kind = "system" => st[r].sent = {}
      /\ run[r].done \in Nat
  BY <1>2, HeardFrom
<1>5. StateSet(r) /\ st'[r] = s
  BY <1>1, <1>2, <1>4, MoveState
<1>6. PICK todo \in IF Provider(r) = "system" THEN SystemTodo(s)
                                               ELSE {Pending(s, run[r].done, TRUE)} :
         sending' = Send(r, s, todo, TRUE)
  BY DEF TurnCompleted, Late
<1>7. /\ todo \in SUBSET Items /\ todo \subseteq s.known \ s.sent
      /\ run[r].kind = "user" => todo = s.known \ s.sent
  <2>1. CASE Provider(r) = "system"
    <3>1. todo \in SystemTodo(s) /\ run[r].kind = "system"
      BY <1>6, <2>1 DEF Provider
    <3> QED
      BY <1>4, <3>1, SystemTodoFacts
  <2>2. CASE Provider(r) # "system"
    <3>1. todo = Pending(s, run[r].done, TRUE)
      BY <1>6, <2>2
    <3> QED
      BY <1>4, <3>1, PendingAll
  <2> QED
    BY <2>1, <2>2
<1>8. /\ sending' \in Sends /\ ~sending'.fresh /\ sending'.run = r /\ sending'.end
      /\ sending'.todo = IF s.suppress \/ s.target.provider = "none" THEN {} ELSE todo
  <2> HIDE DEF s
  <2>1. LET d == Send(r, s, todo, TRUE)
        IN /\ d \in Sends /\ ~d.fresh /\ d.run = r /\ d.end
           /\ d.todo = IF s.suppress \/ s.target.provider = "none" THEN {} ELSE todo
    <3>1. r \in Runs /\ s \in States /\ todo \in SUBSET Items
      BY <1>4, <1>7
    <3>2. EndFits(r, s, todo)
      BY <3>1, SendEnd
    <3> QED
      BY <3>2, Zenon DEF EndFits
  <2> QED
    BY <1>6, <2>1
<1>9. run[r].stage # "unused"
  BY <1>2, HeardBegun
<1>10. Idle.run = None /\ r # None
  BY DEF Idle
<1>11. HeardRun(r)
  BY <1>1, <1>2, <1>3, <1>9 DEF HeardRun, TypeOK
<1>12. HeardState(r)
  BY <1>2, <1>3, <1>4, <1>5 DEF HeardState
<1>13. HeardSend(r)
  BY <1>3, <1>5, <1>7, <1>8, <1>10 DEF HeardSend
<1> QED
  BY <1>11, <1>12, <1>13 DEF Heard

\* The result of a turn that has said nothing is heard as its only item.
LEMMA TextHeard ==
  ASSUME IInv, NEW r \in Runs, NEW kind \in {"text", "mute"},
         TurnCompletedWithText(r, kind)
  PROVE  Heard(r)
<1> DEFINE e == Ensured(r)
           s == [e EXCEPT !.known = {1}]
<1>1. TypeOK
  BY DEF IInv
<1>2. /\ run' = [run EXCEPT ![r].turn = "over", ![r].done = 1]
      /\ run[r].turn = "live" /\ sending = Idle /\ compacting = None
      /\ run[r].done = 0 /\ st[r].known = {} /\ r \notin superseded
      /\ cls' = [cls EXCEPT ![<<r, 1>>] = kind]
      /\ st' = [st EXCEPT ![r] = s] /\ Taken(r)
      /\ UNCHANGED <<runtime, nrun, inbound, waiting, token, restarts, deferred,
                    bound, superseded, binding, turnTarget, compacting, faults,
                    history>>
  BY DEF TurnCompletedWithText, ChainFree, turns
<1>3. RunMoved(r) /\ run'[r].turn = "over" /\ run'[r].done = 1
           /\ run'[r].stage = run[r].stage
  BY <1>1, <1>2, MoveOver
<1>4. /\ e \in States /\ e.here /\ e.known = {} /\ e.sent = st[r].sent
      /\ st[r].sent = {}
  BY <1>2, HeardFrom
<1>5. PICK todo \in IF Provider(r) = "system" THEN SystemTodo(s) ELSE {{1}} :
         sending' = Send(r, s, todo, TRUE)
  BY DEF TurnCompletedWithText
<1>6. 1 \in Items /\ {1} \in SUBSET Items
  OBVIOUS
<1>7. s \in States /\ s.here /\ s.suppress = e.suppress /\ s.prefix = e.prefix
      /\ s.target = e.target /\ s.known = {1} /\ s.sent = {}
  <2> HIDE DEF e
  <2> QED
    BY <1>4, <1>6 DEF States
<1> HIDE DEF s
<1>8. todo \subseteq {1} /\ (run[r].kind = "user" => todo = {1})
  <2>1. CASE Provider(r) = "system"
    <3>1. todo \in SystemTodo(s) /\ run[r].kind = "system"
      BY <1>5, <2>1 DEF Provider
    <3> QED
      BY <1>7, <3>1, SystemTodoFacts
  <2>2. CASE Provider(r) # "system"
    BY <1>5, <2>2
  <2> QED
    BY <2>1, <2>2
<1>9. /\ sending' \in Sends /\ ~sending'.fresh /\ sending'.run = r /\ sending'.end
      /\ sending'.todo = IF s.suppress \/ s.target.provider = "none" THEN {} ELSE todo
  <2>1. r \in Runs /\ s \in States /\ todo \in SUBSET Items
    BY <1>6, <1>7, <1>8
  <2>2. LET d == Send(r, s, todo, TRUE)
        IN /\ d \in Sends /\ ~d.fresh /\ d.run = r /\ d.end
           /\ d.todo = IF s.suppress \/ s.target.provider = "none" THEN {} ELSE todo
    <3>1. EndFits(r, s, todo)
      BY <2>1, SendEnd
    <3> QED
      BY <3>1, Zenon DEF EndFits
  <2> QED
    BY <1>5, <2>2
<1>10. StateSet(r) /\ st'[r] = s
  BY <1>1, <1>2, <1>7, MoveState
<1>11. run[r].stage # "unused"
  BY <1>2, HeardBegun
<1>12. cls' \in [Pieces -> {"unsaid", "text", "mute"}]
       /\ \A p \in Pieces : p # <<r, 1>> => cls'[p] = cls[p]
  BY <1>1, <1>2, <1>6 DEF TypeOK
<1>13. HeardRun(r)
  BY <1>1, <1>2, <1>3, <1>11, <1>12 DEF HeardRun
<1>14. HeardState(r)
  BY <1>2, <1>3, <1>4, <1>7, <1>10 DEF HeardState
<1>15. HeardSend(r)
  BY <1>3, <1>7, <1>8, <1>9, <1>10 DEF HeardSend
<1> QED
  BY <1>13, <1>14, <1>15 DEF Heard

\* An item of a reply is heard.
LEMMA ItemHeard ==
  ASSUME IInv, NEW r \in Runs, NEW kind \in {"text", "mute"}, NEW complete \in BOOLEAN,
         ReplyItem(r, kind, complete), r \notin superseded
  PROVE  Heard(r)
<1> DEFINE e == Ensured(r)
           i == run[r].done + 1
           s == [e EXCEPT !.known = @ \union {i}]
           d == IF complete THEN i ELSE run[r].done
<1>1. TypeOK
  BY DEF IInv
<1>2. /\ run' = [run EXCEPT ![r].done = d]
      /\ run[r].turn = "live" /\ sending = Idle /\ compacting = None
      /\ i <= NItem
      /\ cls' = [cls EXCEPT ![<<r, i>>] = kind]
      /\ st' = [st EXCEPT ![r] = s] /\ Taken(r)
      /\ sending' = IF complete /\ s.target.provider = "weixin"
                      THEN Send(r, s, Pending(s, i, FALSE), FALSE) ELSE Idle
      /\ UNCHANGED <<runtime, nrun, inbound, waiting, token, restarts, deferred,
                    bound, superseded, binding, turnTarget, compacting, faults,
                    history>>
  BY DEF ReplyItem, Late, ChainFree, turns
<1>3. /\ e \in States /\ e.here /\ e.known = st[r].known /\ e.sent = st[r].sent
      /\ run[r].done \in Nat /\ st[r].sent \subseteq 1..run[r].done
  BY <1>2, HeardFrom
<1>4. i \in Items /\ i \in Nat /\ d \in Nat /\ d \in {run[r].done, i}
  BY <1>2, <1>3
<1>5. RunMoved(r) /\ run'[r].turn = "live" /\ run'[r].done = d
           /\ run'[r].stage = run[r].stage
  <2> HIDE DEF d
  <2> QED
    BY <1>1, <1>2, <1>4, MoveDone
<1>6. s \in States /\ s.here /\ s.suppress = e.suppress /\ s.prefix = e.prefix
      /\ s.target = e.target /\ s.known = st[r].known \union {i} /\ s.sent = st[r].sent
  <2> HIDE DEF e, i
  <2> QED
    BY <1>3, <1>4 DEF States
<1> HIDE DEF s
<1>7. StateSet(r) /\ st'[r] = s
  BY <1>1, <1>2, <1>6, MoveState
<1> DEFINE P == Pending(s, i, FALSE)
<1>8. /\ P \in SUBSET Items /\ P \subseteq s.known \ s.sent /\ P \subseteq 1..i
      /\ \A k, j \in Items :
           j \in P /\ k < j /\ k \in s.known /\ k \notin s.sent => k \in P
  <2> HIDE DEF i
  <2> QED
    BY <1>4, <1>6, PendingDone
<1>9. \/ sending' = Idle
      \/ /\ complete /\ s.target.provider = "weixin"
         /\ sending' \in Sends /\ ~sending'.fresh /\ ~sending'.end
         /\ sending' = Idle \/ sending'.run = r
         /\ sending'.todo = IF s.suppress \/ s.target.provider = "none" THEN {} ELSE P
  <2> HIDE DEF P
  <2>1. r \in Runs /\ s \in States /\ P \in SUBSET Items
    BY <1>6, <1>8
  <2>2. LET c == Send(r, s, P, FALSE)
        IN /\ c \in Sends /\ ~c.fresh /\ ~c.end
           /\ c = Idle \/ c.run = r
           /\ c.todo = IF s.suppress \/ s.target.provider = "none" THEN {} ELSE P
    <3>1. SendFits(r, s, P)
      <4> HIDE DEF s
      <4> QED
        BY <2>1, SendOn
    <3> QED
      BY <3>1, Zenon DEF SendFits
  <2> QED
    BY <1>2, <2>2 DEF P
<1>10. Idle \in Sends /\ ~Idle.fresh /\ Idle.todo = {} /\ Idle.run = None /\ ~Idle.end
  BY FirstValues DEF Idle
<1>11. s.target.provider = "weixin" => UserThread(r)
  BY <1>6, EnsuredTarget DEF UserThread
<1>12. run[r].stage # "unused"
  BY <1>2, HeardBegun
<1>13. cls' \in [Pieces -> {"unsaid", "text", "mute"}]
       /\ \A p \in Pieces : p # <<r, i>> => cls'[p] = cls[p]
  BY <1>1, <1>2, <1>4 DEF TypeOK
<1>14. HeardRun(r)
  BY <1>1, <1>2, <1>4, <1>5, <1>12, <1>13 DEF HeardRun
<1>15. HeardState(r)
  BY <1>2, <1>3, <1>4, <1>5, <1>6, <1>7 DEF HeardState
<1>16. HeardSend(r)
  <2>1. complete => d = i
    OBVIOUS
  <2>2. s.sent = st[r].sent /\ s.known \in SUBSET Items /\ s.sent \in SUBSET Items
    BY <1>6 DEF States
  <2> HIDE DEF d, i, e, P
  <2>3. CASE sending' = Idle
    BY <1>5, <1>10, <2>3 DEF HeardSend
  <2>4. CASE sending' # Idle
    <3>1. /\ sending' \in Sends /\ ~sending'.fresh /\ ~sending'.end
          /\ sending'.run = r /\ sending'.todo \subseteq P
          /\ sending'.todo = {} \/ sending'.todo = P
          /\ s.suppress => sending'.todo = {}
          /\ run'[r].done = i /\ UserThread(r)
      BY <1>5, <1>9, <1>11, <2>1, <2>4
    <3>2. sending'.todo \subseteq s.known \ s.sent /\ sending'.todo \subseteq 1..run'[r].done
      BY <1>8, <3>1
    <3>3. \A k, j \in Items : j \in sending'.todo /\ k < j /\ k \in s.known
             /\ k \notin s.sent => k \in sending'.todo
      BY <1>8, <3>1
    <3> QED
      BY <1>5, <1>7, <3>1, <3>2, <3>3 DEF HeardSend
  <2> QED
    BY <2>3, <2>4
<1> QED
  BY <1>14, <1>15, <1>16 DEF Heard

\* What hearing an event does to the runs' states, field by field.
LEMMA HeardView ==
  ASSUME IInv, NEW r \in Runs, Heard(r)
  PROVE  /\ r <= nrun /\ nrun \in Nat
         /\ \A q \in Runs : run'[q].kind = run[q].kind /\ run'[q].stage = run[q].stage
         /\ st[r].here => /\ st'[r].suppress = st[r].suppress
                          /\ st'[r].prefix = st[r].prefix
                          /\ prefix' = prefix /\ suppressed' = suppressed
         /\ ~st[r].here /\ ~UserThread(r) =>
                          /\ ~st'[r].suppress /\ st'[r].prefix = {}
                          /\ prefix' = prefix /\ suppressed' = suppressed
         /\ ~st[r].here /\ UserThread(r) =>
                          /\ suppressed > 0 => st'[r].suppress
                          /\ suppressed = 0 => ~st'[r].suppress
                          /\ st'[r].prefix = prefix /\ prefix' = {}
                          /\ suppressed > 0 => suppressed' = suppressed - 1
                          /\ suppressed = 0 => suppressed' = 0
         /\ st'[r].target.provider \in {"none", Provider(r)}
         /\ run[r].kind = "user" => st'[r].target.provider = "weixin"
<1>1. TypeOK
  BY DEF IInv
<1>2. HeardRun(r) /\ HeardState(r)
  BY DEF Heard
<1>3. r <= nrun /\ nrun \in Nat
  <2>1. r > nrun => run[r] = NoRun
    BY DEF IInv, Control, RunsBegun
  <2>2. nrun \in Nat
    BY <1>1 DEF TypeOK
  <2> QED
    BY <1>2, <2>1, <2>2 DEF HeardRun, NoRun
<1>4. \A q \in Runs : run'[q].kind = run[q].kind /\ run'[q].stage = run[q].stage
  BY <1>2 DEF HeardRun, RunMoved
<1>5. /\ st'[r].suppress = Ensured(r).suppress /\ st'[r].prefix = Ensured(r).prefix
      /\ st'[r].target = Ensured(r).target /\ Taken(r)
  BY <1>2 DEF HeardState
<1>6. /\ st'[r].target.provider \in {"none", Provider(r)}
      /\ run[r].kind = "user" => st'[r].target.provider = "weixin"
  BY <1>5, EnsuredTarget
<1> DEFINE e == Ensured(r)
<1>7. /\ st[r].here => e = st[r]
      /\ ~st[r].here => /\ e.suppress <=> (UserThread(r) /\ suppressed > 0)
                        /\ e.prefix = IF UserThread(r) THEN prefix ELSE {}
  BY <1>1, EnsuredFacts
<1> HIDE DEF e
<1>8. e.suppress = st'[r].suppress /\ e.prefix = st'[r].prefix
  BY <1>5 DEF e
<1>9. CASE st[r].here
  BY <1>1, <1>3, <1>4, <1>5, <1>6, <1>7, <1>8, <1>9, TakenFacts
<1>10. CASE ~st[r].here /\ ~UserThread(r)
  BY <1>1, <1>3, <1>4, <1>5, <1>6, <1>7, <1>8, <1>10, TakenFacts
<1>11. CASE ~st[r].here /\ UserThread(r)
  <2>1. suppressed \in Nat
    BY <1>1 DEF TypeOK
  <2>2. /\ suppressed > 0 => st'[r].suppress
        /\ suppressed = 0 => ~st'[r].suppress
    BY <1>7, <1>8, <1>11, <2>1
  <2> QED
    BY <1>1, <1>3, <1>4, <1>5, <1>6, <1>7, <1>8, <1>11, <2>2, TakenFacts
<1> QED
  BY <1>9, <1>10, <1>11

\* An event that is heard keeps the runs, the chain and the targets in order.
LEMMA HeardControl ==
  ASSUME IInv, NEW r \in Runs, Heard(r)
  PROVE  Control'
<1>1. TypeOK /\ TypeOK' /\ RunsBegun /\ OneActive /\ Silence /\ AtSend /\ Targeted /\ Known
  BY HeardTypes DEF IInv, Control
<1>2. HeardRun(r) /\ HeardState(r) /\ HeardSend(r)
  BY DEF Heard
<1>3. /\ \A q \in Runs : q # r => run'[q] = run[q] /\ st'[q] = st[q]
      /\ \A q \in Runs : run'[q].kind = run[q].kind /\ run'[q].stage = run[q].stage
      /\ r <= nrun /\ nrun \in Nat /\ compacting = None
      /\ UNCHANGED <<nrun, superseded, turnTarget, compacting, runtime, restarts,
                     inbound, token, binding, waiting>>
  BY <1>2, HeardView DEF HeardRun, HeardState, RunMoved, StateSet
<1>4. /\ r \notin superseded /\ sending = Idle /\ Idle.run = None /\ Idle.todo = {}
      /\ run[r].turn # "over" /\ run'[r].turn \in {"live", "over"}
      /\ run[r].stage # "unused" /\ run[r].kind # "none"
      /\ sending' = Idle \/ sending'.run = r
  BY <1>1, <1>2, <1>3 DEF HeardRun, HeardSend, Idle, RunsBegun
<1>5. RunsBegun'
  BY <1>1, <1>3, <1>4 DEF RunsBegun
<1>6. \A q \in Runs : Active(q)' <=> Active(q) /\ (q = r => run'[r].turn = "live" \/ sending'.run = r)
  <2> SUFFICES ASSUME NEW q \in Runs
               PROVE  Active(q)' <=> Active(q) /\ (q = r => run'[r].turn = "live" \/ sending'.run = r)
    OBVIOUS
  <2>1. CASE q = r
    BY <1>3, <1>4, <2>1 DEF Active
  <2>2. CASE q # r
    <3>1. sending.run # q /\ sending'.run # q
      BY <1>4, <2>2
    <3> QED
      BY <1>3, <2>2, <3>1 DEF Active
  <2> QED
    BY <2>1, <2>2
<1>7. OneActive'
  BY <1>1, <1>3, <1>4, <1>6 DEF OneActive
<1>8. Silence'
  <2>1. suppressed > 0 => /\ suppressed = 1 /\ nrun \in Runs /\ Active(nrun)
                          /\ run[nrun].kind = "compact" /\ run[nrun].turn = "none"
    BY <1>1, <1>3 DEF Silence, Active, RunsBegun
  <2>2. UserThread(r) <=> run[r].kind # "system"
    BY DEF UserThread, Provider
  <2>3. run[r].kind \in {"user", "compact"} <=> UserThread(r)
    BY <1>1, <1>4, <2>2 DEF TypeOK, RunRecords, Kinds
  <2>4. UserThread(r) => Active(r)
    BY <1>4, <2>3 DEF Active
  <2>5. UserThread(r) /\ suppressed > 0 => r = nrun
    BY <1>1, <2>1, <2>4 DEF OneActive
  <2>6. run[r].kind = "compact" /\ run[r].turn = "live" => st[r].here
    BY <1>1 DEF Silence
  <2>7. run[r].turn = "none" => ~st[r].here
    BY <1>1 DEF Known
  <2>8. suppressed \in Nat
    BY <1>1 DEF TypeOK
  <2>9. \A q \in Runs : q # r /\ run[q].kind = "compact" /\ run[q].turn = "none" /\ q \notin superseded => ~UserThread(r)
    BY <1>1, <2>4 DEF OneActive, Active
  <2>10. superseded = {} \/ runtime = "codex"
    BY <1>1 DEF RunsBegun, TypeOK
  <2>11. st'[r].here /\ (st'[r].suppress => sending'.todo = {})
    BY <1>2 DEF HeardState, HeardSend
  <2>12. /\ suppressed' > 0 => /\ suppressed' = 1 /\ runtime = "claudecode"
                               /\ nrun \in Runs /\ run'[nrun].kind = "compact"
                               /\ run'[nrun].turn = "none"
    <3>1. CASE suppressed = 0
      BY <2>8, <3>1, HeardView
    <3>2. CASE suppressed > 0 /\ r = nrun
      <4>1. ~st[r].here /\ UserThread(r)
        BY <2>1, <2>3, <2>7, <3>2
      <4> QED
        BY <2>1, <3>2, <4>1, HeardView
    <3>3. CASE suppressed > 0 /\ r # nrun
      BY <1>1, <1>3, <2>1, <2>5, <3>3, HeardView DEF Silence
    <3> QED
      BY <2>8, <3>1, <3>2, <3>3
  <2>13. ASSUME NEW q \in Runs, q # r
         PROVE  /\ run'[q].kind = "compact" =>
                  /\ runtime = "claudecode"
                  /\ run'[q].turn = "none" => suppressed' > 0
                  /\ st'[q].here => st'[q].suppress
                  /\ run'[q].turn = "live" => st'[q].here
                  /\ sending'.run = q => sending'.todo = {}
                /\ st'[q].here /\ st'[q].suppress /\ run'[q].kind = "user" => q \in superseded
    <3>1. run'[q] = run[q] /\ st'[q] = st[q]
      BY <1>3, <2>13
    <3>2. run[q].kind = "compact" => runtime = "claudecode" /\ q \notin superseded
      BY <1>1, <2>10 DEF Silence
    <3>3. run[q].kind = "compact" /\ run[q].turn = "none" => suppressed' > 0
      BY <1>1, <2>9, <2>13, <3>2, HeardView DEF Silence
    <3>4. sending'.run # q \/ sending'.todo = {}
      BY <1>4, <2>13
    <3> QED
      BY <1>1, <3>1, <3>2, <3>3, <3>4 DEF Silence
  <2>14. /\ run'[r].kind = "compact" =>
              /\ runtime = "claudecode" 
              /\ st'[r].suppress
              /\ run'[r].turn # "none" /\ sending'.todo = {}
         /\ run'[r].kind = "user" => ~st'[r].suppress
    <3>1. CASE run[r].kind = "compact"
      <4>1. run[r].turn = "none" => suppressed > 0
        BY <1>1, <3>1 DEF Silence
      <4>2. CASE run[r].turn = "none"
        BY <1>1, <1>3, <1>4, <2>3, <2>7, <2>11, <3>1, <4>1, <4>2, HeardView DEF Silence
      <4>3. CASE run[r].turn # "none"
        <5>1. run[r].turn = "live"
          BY <1>1, <1>4, <4>3 DEF TypeOK, RunRecords, Phases
        <5> QED
          BY <1>1, <1>3, <1>4, <2>6, <2>11, <3>1, <5>1, HeardView DEF Silence
      <4> QED
        BY <4>2, <4>3
    <3>2. CASE run[r].kind = "user"
      <4>1. suppressed = 0
        BY <2>1, <2>3, <2>5, <2>8, <3>2
      <4> QED
        <5>1. CASE st[r].here
          BY <1>1, <1>3, <1>4, <3>2, <5>1, HeardView DEF Silence
        <5>2. CASE ~st[r].here
          BY <1>3, <2>3, <3>2, <4>1, <5>2, HeardView
        <5> QED
          BY <5>1, <5>2
    <3> QED
      BY <1>3, <3>1, <3>2
  <2> QED
    BY <1>1, <1>3, <2>11, <2>12, <2>13, <2>14 DEF Silence
<1>9. AtSend'
  <2>1. sending'.run # None => sending'.run = r
    BY <1>4
  <2>2. sending'.run = None => sending' = Idle
    BY <1>4
  <2>3. Provider(r)' = Provider(r)
    BY <1>3 DEF Provider
  <2>4. sending'.run = r => (sending'.end <=> run'[r].turn = "over")
    BY <1>2, <1>4 DEF HeardSend
  <2> QED
    BY <1>2, <1>3, <1>4, <2>1, <2>2, <2>3, <2>4 DEF AtSend, HeardSend, HeardState, UserThread
<1>10. Targeted'
  <2>1. \A q \in Runs : Provider(q)' = Provider(q)
    BY <1>3 DEF Provider
  <2>2. ~sending'.fresh
    BY <1>2 DEF HeardSend
  <2>3. \A q \in Runs : run'[q].kind = run[q].kind
    BY <1>3
  <2>4. \A q \in Runs : q # r => st'[q] = st[q]
    BY <1>3
  <2>5. /\ st'[r].target.provider \in {"none", Provider(r)}
        /\ run[r].kind = "user" => st'[r].target.provider = "weixin"
    BY HeardView
  <2> QED
    BY <1>1, <1>3, <2>1, <2>2, <2>3, <2>4, <2>5 DEF Targeted
<1>11. Known'
  <2>1. ASSUME NEW q \in Runs, q # r
        PROVE  run'[q] = run[q] /\ st'[q] = st[q]
    BY <1>3, <2>1
  <2>2. /\ run'[r].turn # "none" /\ st'[r].here
        /\ st'[r].sent = st[r].sent /\ st'[r].sent \subseteq 1..run[r].done
        /\ run'[r].kind = "system" => st'[r].sent = {}
        /\ run[r].done \in Nat /\ run'[r].done \in {run[r].done, run[r].done + 1}
    BY <1>2, <1>3, <1>4, HeardFrom DEF HeardState, HeardRun
  <2>3. st'[r].sent \subseteq 1..run'[r].done
    BY <2>2
  <2>4. st'[r].known \subseteq 1..(run'[r].done + 1)
    BY <1>2, <1>4, <2>2, HeardFrom DEF HeardState
  <2>5. restarts = 0 /\ run[r].kind = "user" => 1..run[r].done \subseteq st[r].known
    <3>1. restarts = 0 /\ run[r].kind = "user" /\ run[r].turn = "live" => st[r].here
      BY <1>1, <1>4 DEF Known
    <3>2. run[r].turn \in {"none", "live"}
      BY <1>1, <1>4 DEF TypeOK, RunRecords, Phases
    <3>3. run[r].turn = "none" => 1..run[r].done = {}
      BY <1>1 DEF Known
    <3> QED
      BY <1>1, <3>1, <3>2, <3>3 DEF Known
  <2>6. restarts = 0 /\ run[r].kind = "user" => 1..run'[r].done \subseteq st'[r].known
    <3>1. /\ st[r].known \subseteq st'[r].known
          /\ run'[r].done # run[r].done => run'[r].done \in st'[r].known
      BY <1>2 DEF HeardState
    <3> QED
      BY <2>2, <2>5, <3>1
  <2> QED
    BY <1>1, <1>3, <2>1, <2>2, <2>3, <2>4, <2>6 DEF Known
<1> QED
  BY <1>5, <1>7, <1>8, <1>9, <1>10, <1>11 DEF Control

\* An event that is heard keeps every piece in its place.
LEMMA HeardPlaced ==
  ASSUME IInv, NEW r \in Runs, Heard(r)
  PROVE  Placed'
<1>1. TypeOK /\ TypeOK' /\ Control /\ SentOnce /\ OnePlace /\ CompactUnseen /\ NoGaps
  BY HeardTypes DEF IInv, Placed
<1>2. HeardRun(r) /\ HeardState(r) /\ HeardSend(r)
  BY DEF Heard
<1>3. /\ \A q \in Runs : q # r => run'[q] = run[q] /\ st'[q] = st[q]
      /\ \A q \in Runs : run'[q].kind = run[q].kind
      /\ acked' = acked /\ kept' = kept /\ deferred' = deferred /\ broken' = broken
      /\ restarts' = restarts
  BY <1>2, HeardView DEF HeardRun, HeardState, RunMoved, StateSet, history
<1>4. /\ sending = Idle /\ Idle.run = None /\ Idle.todo = {}
      /\ run[r].turn # "over"
      /\ sending' = Idle \/ sending'.run = r
  BY <1>2 DEF HeardRun, HeardSend, Idle
<1>5. \A p \in Pieces : Out(p)' <=> Out(p)
  BY <1>3 DEF Out
<1>6. SentOnce'
  <2>1. ASSUME NEW i \in Items, CanSend(r, i)'
        PROVE  CanSend(r, i)
    <3>1. run[r].done \in Nat /\ st'[r].sent = st[r].sent
          /\ (run'[r].done = run[r].done \/ run'[r].done = run[r].done + 1)
      BY <1>2, <1>4, HeardFrom DEF HeardRun, HeardState
    <3>2. i \in st'[r].known \ st'[r].sent => CanSend(r, i)
      <4>1. \/ i > run[r].done \/ i \in st[r].known
            \/ i \notin st'[r].known
        BY <1>2, <3>1 DEF HeardState
      <4> QED
        BY <1>4, <3>1, <4>1 DEF CanSend
    <3>3. sending'.run = r /\ i \in sending'.todo => i \in st'[r].known \ st'[r].sent
      BY <1>2 DEF HeardSend
    <3>4. i > run'[r].done => i > run[r].done
      BY <3>1
    <3> QED
      BY <1>4, <2>1, <3>2, <3>3, <3>4 DEF CanSend
  <2>2. ASSUME NEW q \in Runs, NEW i \in Items, q # r, CanSend(q, i)'
        PROVE  CanSend(q, i)
    BY <1>3, <1>4, <2>2 DEF CanSend
  <2> QED
    BY <1>1, <1>5, <2>1, <2>2 DEF SentOnce
<1>7. OnePlace'
  <2>1. \/ /\ prefix' = prefix
           /\ \A q \in Runs : st'[q].prefix = st[q].prefix \/ st'[q].prefix = {}
        \/ /\ prefix' = {} /\ st'[r].prefix = prefix
           /\ \A q \in Runs : q # r => st'[q].prefix = st[q].prefix
    BY <1>3, HeardView
  <2> QED
    BY <1>1, <1>3, <2>1 DEF OnePlace
<1>8. CompactUnseen'
  BY <1>1, <1>3, <1>5 DEF CompactUnseen
<1>9. NoGaps'
  <2> SUFFICES ASSUME NEW q \in Runs, run[q].kind = "user"
               PROVE  /\ \A i \in Items : 
                           i \in st'[q].sent /\ cls'[<<q, i>>] = "text" => Out(<<q, i>>)
                      /\ restarts = 0 =>
                           /\ \A i, j \in Items :
                                Out(<<q, j>>) /\ i < j /\ cls'[<<q, i>>] = "text" => Out(<<q, i>>)
                           /\ sending'.run = q =>
                                \A i, j \in Items :
                                  /\ j \in sending'.todo /\ i < j
                                  /\ i \in st'[q].known /\ i \notin st'[q].sent
                                  => i \in sending'.todo
                      /\ sending'.run = q /\ sending'.end /\ ~st'[q].suppress /\ q \notin broken =>
                           st'[q].known \subseteq st'[q].sent \union sending'.todo
    BY <1>3, <1>5 DEF NoGaps
  <2>1. CASE q # r
    <3>1. st'[q] = st[q] /\ sending'.run # q
      BY <1>3, <1>4, <2>1
    <3>2. \A i \in Items : cls'[<<q, i>>] = cls[<<q, i>>]
      <4>1. \A i \in Items : <<q, i>> \in Pieces /\ <<q, i>> # <<r, run[r].done + 1>>
        BY <2>1
      <4> QED
        BY <1>2, <4>1 DEF HeardRun
    <3> QED
      BY <1>1, <3>1, <3>2 DEF NoGaps
  <2>2. CASE q = r
    <3>1. run[r].done \in Nat /\ st'[r].sent = st[r].sent /\ st[r].sent \subseteq 1..run[r].done
      BY <1>2, <1>4, HeardFrom DEF HeardState, HeardRun
    <3>2. \A i \in Items : i # run[r].done + 1 => cls'[<<r, i>>] = cls[<<r, i>>]
      <4>1. \A i \in Items : <<r, i>> \in Pieces 
        OBVIOUS
      <4>2. \A i \in Items : i # run[r].done + 1 => <<r, i>> # <<r, run[r].done + 1>>
        OBVIOUS
      <4> QED
        BY <1>2, <4>1, <4>2 DEF HeardRun
    <3>3. \A j \in Items : Out(<<r, j>>) => j <= run[r].done
      <4>1. \A j \in Items : j > run[r].done => CanSend(r, j)
        BY <1>4 DEF CanSend
      <4> QED
        BY <1>1, <3>1, <4>1 DEF SentOnce
    <3>4. \A i \in Items : 
             i \in st'[r].sent /\ cls'[<<r, i>>] = "text" => Out(<<r, i>>)
      BY <1>1, <2>2, <3>1, <3>2 DEF NoGaps
    <3>5. restarts = 0 => \A i, j \in Items :
             Out(<<r, j>>) /\ i < j /\ cls'[<<r, i>>] = "text" => Out(<<r, i>>)
      BY <1>1, <2>2, <3>1, <3>2, <3>3 DEF NoGaps
    <3>6. st'[r].target.provider # "none"
      BY <2>2, HeardView
    <3> QED
      BY <1>2, <2>2, <3>4, <3>5, <3>6 DEF HeardSend
  <2> QED
    BY <2>1, <2>2
<1> QED
  BY <1>6, <1>7, <1>8, <1>9 DEF Placed

-----------------------------------------------------------------------------
\* Events that dispose of a run's state.

\* requestAutoCompact at the end of run r.
CompactionBegun(r) ==
  /\ runtime = "claudecode" /\ run[r].kind = "user" /\ sending.run = r
  /\ compacting' = nrun + 1 /\ nrun + 1 \in Runs
  /\ suppressed' = suppressed + 1

\* The handler disposes of the state of run r: the run is superseded, or over.
Disposed(r) ==
  /\ RunMoved(r) /\ r <= nrun /\ compacting = None
  /\ run'[r].stage # "unused"
  /\ r \in superseded \/ run[r].turn # "none"
  /\ r \in superseded \/ run'[r].turn = "over"
  /\ run'[r].turn # "none"
  /\ run[r].turn = "over" => run'[r].turn = "over"
  /\ run'[r].done \in {run[r].done, run[r].done + 1}
  /\ StateSet(r) /\ st'[r] = NoState
  /\ turnTarget' = [turnTarget EXCEPT ![r] = NoTarget]
  /\ sending = Idle \/ sending.run = r
  /\ sending' = Idle
  /\ UNCHANGED <<compacting, suppressed>> \/ CompactionBegun(r)
  /\ faults' \in Nat
  /\ UNCHANGED <<turns, deferred, bound, superseded, prefix, binding, cls, history>>

\* A Codex run that was superseded.
LEMMA LateDisposed ==
  ASSUME IInv, NEW r \in Runs, r \in superseded,
         \/ TurnStarted(r)
         \/ TurnCompleted(r)
         \/ \E kind \in {"text", "mute"}, complete \in BOOLEAN : ReplyItem(r, kind, complete)
  PROVE  Disposed(r)
<1>1. TypeOK /\ RunsBegun
  BY DEF IInv, Control
<1>2. ChainFree /\ Late(r)
  BY DEF TurnStarted, TurnCompleted, ReplyItem
<1>3. st' = [st EXCEPT ![r] = NoState] /\ sending = Idle /\ sending' = Idle
      /\ turnTarget' = [turnTarget EXCEPT ![r] = NoTarget]
      /\ compacting = None
      /\ UNCHANGED <<turns, deferred, bound, superseded, prefix, binding,
                     suppressed, compacting, faults, cls, history>>
  BY <1>2 DEF Late, ChainFree
<1>4. StateSet(r) /\ st'[r] = NoState
  BY <1>1, <1>3, FirstValues, MoveState
<1>5. r <= nrun /\ run[r].stage # "unused"
  <2>1. nrun \in Nat /\ (r > nrun => r \notin superseded)
    BY <1>1 DEF TypeOK, RunsBegun
  <2>2. r <= nrun
    BY <2>1
  <2> QED
    BY <1>1, <2>2 DEF RunsBegun
<1>6. faults' \in Nat
  BY <1>1, <1>3 DEF TypeOK
<1>7. run[r].done \in Nat
  BY <1>1 DEF TypeOK, RunRecords
<1>8. /\ RunMoved(r) /\ run'[r].stage = run[r].stage /\ run'[r].turn # "none"
      /\ run[r].turn = "over" => run'[r].turn = "over"
      /\ run'[r].done \in {run[r].done, run[r].done + 1}
  <2>1. CASE TurnStarted(r)
    <3>1. run' = [run EXCEPT ![r].turn = "live"] /\ "live" \in Phases /\ run[r].turn = "none"
      BY <2>1 DEF TurnStarted, Phases
    <3> QED
      BY <1>1, <3>1, MoveTurn
  <2>2. CASE TurnCompleted(r)
    <3>1. run' = [run EXCEPT ![r].turn = "over"] /\ "over" \in Phases
      BY <2>2 DEF TurnCompleted, Phases
    <3> QED
      BY <1>1, <3>1, MoveTurn
  <2>3. ASSUME NEW kind \in {"text", "mute"}, NEW complete \in BOOLEAN,
               ReplyItem(r, kind, complete)
        PROVE  /\ RunMoved(r) /\ run'[r].stage = run[r].stage /\ run'[r].turn # "none"
               /\ run[r].turn = "over" => run'[r].turn = "over"
               /\ run'[r].done \in {run[r].done, run[r].done + 1}
    <3> DEFINE d == IF complete THEN run[r].done + 1 ELSE run[r].done
    <3>1. run' = [run EXCEPT ![r].done = d] /\ run[r].turn = "live"
      BY <2>3 DEF ReplyItem
    <3>2. d \in Nat /\ d \in {run[r].done, run[r].done + 1}
      BY <1>7
    <3> HIDE DEF d
    <3> QED
      BY <1>1, <3>1, <3>2, MoveDone
  <2> QED
    BY <2>1, <2>2, <2>3
<1> QED
  BY <1>3, <1>4, <1>5, <1>6, <1>8 DEF Disposed

\* A turn that fails disposes of its state.
LEMMA FailedDisposed ==
  ASSUME IInv, NEW r \in Runs, TurnFailed(r)
  PROVE  Disposed(r)
<1>1. TypeOK
  BY DEF IInv
<1>2. /\ run' = Released(r) /\ run[r].turn = "live"
      /\ st' = [st EXCEPT ![r] = NoState] /\ sending = Idle /\ sending' = Idle
      /\ turnTarget' = [turnTarget EXCEPT ![r] = NoTarget]
      /\ compacting = None
      /\ faults' = faults + 1
      /\ UNCHANGED <<turns, deferred, bound, superseded, prefix, binding,
                     suppressed, compacting, cls, history>>
  BY DEF TurnFailed, ChainFree, Fault
<1>3. StateSet(r) /\ st'[r] = NoState
  BY <1>1, <1>2, FirstValues, MoveState
<1>4. r <= nrun /\ run[r].stage # "unused"
  BY <1>2, HeardBegun
<1>5. faults' \in Nat
  BY <1>1, <1>2 DEF TypeOK
<1>6. /\ RunMoved(r) /\ run'[r].turn = "over" /\ run'[r].done = run[r].done
      /\ run'[r].stage \in {run[r].stage, "done"}
  BY <1>1, <1>2, MoveReleased
<1> QED
  BY <1>2, <1>3, <1>4, <1>5, <1>6 DEF Disposed

\* The end of the handler of a completed turn disposes of its state.
LEMMA FinishDisposed ==
  ASSUME IInv, ChainFinish
  PROVE  sending.run \in Runs /\ Disposed(sending.run)
<1> DEFINE r == sending.run
<1>1. TypeOK
  BY DEF IInv
<1>2. /\ run' = Released(r) /\ sending.end
      /\ st' = [st EXCEPT ![r] = NoState] /\ sending' = Idle
      /\ turnTarget' = [turnTarget EXCEPT ![r] = NoTarget]
      /\ UNCHANGED <<turns, deferred, bound, superseded, prefix, binding,
                     faults, cls, history>>
  BY DEF ChainFinish
<1>3. r # None
  BY <1>2 DEF IInv, Control, AtSend, Idle
<1>4. r \in Runs
  BY <1>1, <1>3 DEF TypeOK, Sends
<1>5. sending # Idle
  BY <1>2 DEF Idle
<1>6. compacting = None
  BY <1>5 DEF IInv, Control, RunsBegun
<1>7. run[r].turn = "over"
  BY <1>2, <1>3 DEF IInv, Control, AtSend
<1>8. r <= nrun /\ run[r].stage # "unused"
  BY <1>4, <1>7, HeardBegun
<1>9. faults' \in Nat
  BY <1>1, <1>2 DEF TypeOK
<1>10. StateSet(r) /\ st'[r] = NoState
  BY <1>1, <1>2, <1>4, FirstValues, MoveState
<1>11. /\ RunMoved(r) /\ run'[r].turn = "over" /\ run'[r].done = run[r].done
      /\ run'[r].stage \in {run[r].stage, "done"}
  BY <1>1, <1>2, <1>4, MoveReleased
<1>12. UNCHANGED <<compacting, suppressed>> \/ CompactionBegun(r)
  <2>1. nrun \in Nat
    BY <1>1 DEF TypeOK
  <2> QED
    BY <2>1 DEF ChainFinish, CompactionBegun
<1> QED
  BY <1>2, <1>4, <1>6, <1>7, <1>8, <1>9, <1>10, <1>11, <1>12 DEF Disposed

\* Disposing of a state keeps the types.
LEMMA DisposedTypes ==
  ASSUME IInv, NEW r \in Runs, Disposed(r)
  PROVE  TypeOK'
<1>1. TypeOK
  BY DEF IInv
<1>2. suppressed' \in Nat /\ compacting' \in 0..NRun
  BY <1>1 DEF TypeOK, Disposed, CompactionBegun
<1>3. turnTarget' \in [Runs -> Targets] /\ sending' \in Sends
  BY <1>1, FirstValues DEF TypeOK, Disposed
<1>4. run' \in [Runs -> RunRecords] /\ st' \in [Runs -> States] /\ faults' \in Nat
  BY DEF Disposed, RunMoved, StateSet
<1> QED
  BY <1>1, <1>2, <1>3, <1>4 DEF TypeOK, Disposed, turns, history

\* Disposing of a state keeps the runs, the chain and the targets in order.
LEMMA DisposedControl ==
  ASSUME IInv, NEW r \in Runs, Disposed(r)
  PROVE  Control'
<1>1. TypeOK /\ TypeOK' /\ RunsBegun /\ OneActive /\ Silence /\ AtSend /\ Targeted /\ Known
  BY DisposedTypes DEF IInv, Control
<1>2. /\ \A q \in Runs : q # r => /\ run'[q] = run[q] /\ st'[q] = st[q]
                                  /\ turnTarget'[q] = turnTarget[q]
      /\ \A q \in Runs : run'[q].kind = run[q].kind
      /\ r <= nrun /\ nrun \in Nat /\ compacting = None
      /\ run'[r].stage # "unused" /\ run'[r].turn # "none"
      /\ st'[r] = NoState /\ turnTarget'[r] = NoTarget
      /\ UNCHANGED <<nrun, superseded, runtime, restarts, inbound, token, binding, waiting>>
  BY <1>1 DEF Disposed, RunMoved, StateSet, turns, TypeOK
<1>3. /\ sending' = Idle /\ Idle.run = None /\ Idle.todo = {} /\ ~Idle.fresh
      /\ sending = Idle \/ sending.run = r
      /\ r \in superseded \/ run'[r].turn = "over"
      /\ r \in superseded \/ run[r].turn # "none"
  BY DEF Disposed, Idle
<1>4. NoState.here = FALSE /\ NoState.known = {} /\ NoState.sent = {} /\ NoState.prefix = {}
  BY DEF NoState
<1>5. \A q \in Runs : Active(q)' => Active(q) /\ q # r
  <2> SUFFICES ASSUME NEW q \in Runs, Active(q)'
               PROVE  Active(q) /\ q # r
    OBVIOUS
  <2>1. CASE q = r
    BY <1>2, <1>3, <2>1 DEF Active
  <2>2. CASE q # r
    BY <1>2, <1>3, <2>2 DEF Active
  <2> QED
    BY <2>1, <2>2
<1>6. CompactionBegun(r) => Active(r) /\ suppressed = 0
  <2> SUFFICES ASSUME CompactionBegun(r)
               PROVE  Active(r) /\ suppressed = 0
    OBVIOUS
  <2>1. Active(r)
    BY <1>1 DEF CompactionBegun, Active, RunsBegun
  <2>2. ASSUME suppressed > 0
        PROVE  FALSE
    <3>1. nrun \in Runs /\ run[nrun].kind = "compact" /\ run[nrun].turn = "none"
      BY <1>1, <1>2, <2>2 DEF Silence
    <3>2. Active(nrun)
      BY <1>1, <3>1 DEF Active, RunsBegun, CompactionBegun
    <3> QED
      BY <1>1, <2>1, <3>1, <3>2 DEF OneActive, CompactionBegun
  <2> QED
    BY <1>1, <2>1, <2>2 DEF TypeOK
<1>7. RunsBegun'
  BY <1>1, <1>2, <1>3 DEF RunsBegun, Disposed, CompactionBegun
<1>8. OneActive'
  <2>1. \A q \in Runs : Active(q)' => run'[q].stage \in {"sending", "accepted"}
    BY <1>1, <1>2, <1>5 DEF OneActive
  <2>2. compacting' # None => \A q \in Runs : ~Active(q)'
    <3>1. compacting' # None => CompactionBegun(r)
      BY <1>2 DEF Disposed
    <3> QED
      BY <1>1, <1>5, <1>6, <3>1 DEF OneActive
  <2> QED
    BY <1>1, <1>5, <2>1, <2>2 DEF OneActive
<1>9. Silence'
  <2>1. /\ suppressed' > 0 => /\ suppressed' = 1 /\ runtime = "claudecode"
                              /\ compacting' = None =>
                                   /\ nrun \in Runs /\ run'[nrun].kind = "compact"
                                   /\ run'[nrun].turn = "none"
        /\ compacting' # None => suppressed' > 0
    <3>1. CASE UNCHANGED <<compacting, suppressed>>
      <4>1. runtime = "claudecode" => superseded = {}
        BY <1>1 DEF RunsBegun
      <4>2. suppressed > 0 => run[nrun].turn = "none" /\ nrun # r
        BY <1>1, <1>2, <1>3, <4>1 DEF Silence
      <4> QED
        BY <1>1, <1>2, <3>1, <4>2 DEF Silence
    <3>2. CASE CompactionBegun(r)
      BY <1>2, <1>6, <3>2 DEF CompactionBegun
    <3> QED
      BY <3>1, <3>2 DEF Disposed
  <2>2. suppressed' >= suppressed /\ suppressed \in Nat
    BY <1>1 DEF TypeOK, Disposed, CompactionBegun
  <2>3. \A q \in Runs : run[q].kind = "compact" => q \notin superseded
    BY <1>1 DEF Silence, RunsBegun
  <2>4. ASSUME NEW q \in Runs
        PROVE  /\ run'[q].kind = "compact" =>
                    /\ runtime = "claudecode"
                    /\ run'[q].turn = "none" => suppressed' > 0
                    /\ st'[q].here => st'[q].suppress
                    /\ run'[q].turn = "live" => st'[q].here
               /\ st'[q].here /\ st'[q].suppress /\ run'[q].kind = "user" =>
                    q \in superseded
    <3>1. CASE q = r
      BY <1>1, <1>2, <1>3, <1>4, <2>3, <3>1 DEF Silence
    <3>2. CASE q # r
      <4>1. run'[q] = run[q] /\ st'[q] = st[q]
        BY <1>2, <3>2
      <4>2. suppressed > 0 => suppressed' > 0
        BY <1>1, <2>2 DEF TypeOK
      <4> QED
        BY <1>1, <4>1, <4>2 DEF Silence
    <3> QED
      BY <3>1, <3>2
  <2>5. runtime' = runtime /\ superseded' = superseded /\ sending'.todo = {}
        /\ nrun' = nrun
    BY <1>2, <1>3
  <2> QED
    BY <2>1, <2>4, <2>5 DEF Silence
<1>10. AtSend'
  BY <1>3 DEF AtSend
<1>11. Targeted'
  <2>1. \A q \in Runs : Provider(q)' = Provider(q)
    BY <1>2 DEF Provider
  <2> QED
    BY <1>1, <1>2, <1>3, <1>4, <2>1 DEF Targeted
<1>12. Known'
  <2>1. ASSUME NEW q \in Runs, q # r
        PROVE  run'[q] = run[q] /\ st'[q] = st[q]
    BY <1>2, <2>1
  <2> QED
    BY <1>1, <1>2, <1>3, <1>4, <2>1 DEF Known
<1> QED
  BY <1>7, <1>8, <1>9, <1>10, <1>11, <1>12 DEF Control

\* Disposing of a state keeps every piece in its place.
LEMMA DisposedPlaced ==
  ASSUME IInv, NEW r \in Runs, Disposed(r)
  PROVE  Placed'
<1>1. TypeOK /\ SentOnce /\ OnePlace /\ CompactUnseen /\ NoGaps
  BY DEF IInv, Placed
<1>2. /\ \A q \in Runs : q # r => run'[q] = run[q] /\ st'[q] = st[q]
      /\ \A q \in Runs : run'[q].kind = run[q].kind
      /\ st'[r] = NoState
      /\ run'[r].done \in {run[r].done, run[r].done + 1}
      /\ run[r].turn = "over" => run'[r].turn = "over"
      /\ UNCHANGED <<restarts, acked, kept, deferred, broken, prefix, cls>>
  BY DEF Disposed, RunMoved, StateSet, turns, history
<1>3. /\ sending' = Idle /\ Idle.run = None /\ Idle.todo = {}
      /\ NoState.known = {} /\ NoState.sent = {} /\ NoState.prefix = {}
  BY DEF Disposed, Idle, NoState
<1>4. \A p \in Pieces : Out(p)' <=> Out(p)
  BY <1>2 DEF Out
<1>5. SentOnce'
  <2>1. ASSUME NEW i \in Items, CanSend(r, i)'
        PROVE  CanSend(r, i)
    <3>1. run[r].done \in Nat
      BY <1>1 DEF TypeOK, RunRecords
    <3>2. i > run'[r].done /\ run[r].turn # "over"
      BY <1>2, <1>3, <2>1 DEF CanSend
    <3>3. i > run[r].done
      BY <1>2, <3>1, <3>2
    <3> QED
      BY <3>2, <3>3 DEF CanSend
  <2>2. ASSUME NEW q \in Runs, NEW i \in Items, q # r, CanSend(q, i)'
        PROVE  CanSend(q, i)
    BY <1>2, <1>3, <2>2 DEF CanSend
  <2> QED
    BY <1>1, <1>4, <2>1, <2>2 DEF SentOnce
<1>6. OnePlace'
  <2>1. \A q \in Runs : st'[q].prefix = st[q].prefix \/ st'[q].prefix = {}
    BY <1>2, <1>3
  <2> QED
    BY <1>1, <1>2, <2>1 DEF OnePlace
<1>7. CompactUnseen'
  BY <1>1, <1>2, <1>4 DEF CompactUnseen
<1>8. NoGaps'
  <2>1. \A q \in Runs : st'[q].sent = st[q].sent \/ st'[q].sent = {}
    BY <1>2, <1>3
  <2> QED
    BY <1>1, <1>2, <1>3, <1>4, <2>1 DEF NoGaps
<1> QED
  BY <1>5, <1>6, <1>7, <1>8 DEF Placed

-----------------------------------------------------------------------------
\* The steps of a send.

\* What the chain sends is of a run that has a state and is no compaction.
LEMMA Sender ==
  ASSUME IInv, sending.todo # {}
  PROVE  /\ sending.run \in Runs /\ sending.run <= nrun /\ sending # Idle
         /\ st[sending.run].here /\ run[sending.run].kind # "compact"
         /\ sending.todo \in SUBSET Items
         /\ Now \in sending.todo /\ \A i \in sending.todo : Now <= i
         /\ compacting = None
<1>1. sending \in Sends
  BY DEF IInv, TypeOK
<1>2. sending # Idle
  BY DEF Idle
<1>3. sending.run # None
  BY <1>2 DEF IInv, Control, AtSend
<1>4. sending.run \in Runs /\ sending.todo \in SUBSET Items
  BY <1>1, <1>3 DEF Sends
<1>5. sending.run <= nrun /\ st[sending.run].here
  BY <1>3 DEF IInv, Control, AtSend
<1>6. run[sending.run].kind # "compact"
  BY <1>4 DEF IInv, Control, Silence
<1>7. Now \in sending.todo /\ \A i \in sending.todo : Now <= i
  BY <1>4, MinFacts DEF Now
<1>8. compacting = None
  BY <1>2 DEF IInv, Control, RunsBegun
<1> QED
  BY <1>2, <1>4, <1>5, <1>6, <1>7, <1>8

\* The items D that are being sent are dealt with.
Dealt(D) ==
  LET r == sending.run
      s == st'[r]
  IN /\ sending.todo # {} /\ D \subseteq sending.todo
     /\ \A i, j \in Items : j \in D /\ i < j /\ i \in sending.todo => i \in D
     /\ StateSet(r) /\ s.here = st[r].here /\ s.suppress = st[r].suppress
     /\ s.known = st[r].known /\ s.sent = st[r].sent \union D /\ s.prefix = {}
     /\ s.target.provider = st[r].target.provider
     /\ sending' \in Sends
     /\ \/ ~sending.end /\ sending.todo \subseteq D /\ sending' = Idle
        \/ /\ sending'.run = r /\ (sending'.end <=> sending.end)
           /\ sending'.todo = sending.todo \ D
           /\ sending'.fresh => sending.fresh /\ sending'.token = sending.token
     /\ binding' \in [{"weixin", "system"} -> Tokens]
     /\ binding["weixin"] # None => binding'["weixin"] # None
     /\ \A p \in Pieces :
          /\ Out(p) => Out(p)'
          /\ Out(p)' => Out(p) \/ \E i \in D : p = <<r, i>>
     /\ \A p \in Pieces : (\E i \in D : p = <<r, i>>) /\ cls[p] = "text" => Out(p)'
     /\ UNCHANGED <<turns, run, superseded, prefix, turnTarget, suppressed,
                    compacting, cls, broken, primed>>

\* Dealing with items keeps the runs, the chain and the targets in order.
LEMMA DealtControl ==
  ASSUME IInv, NEW D \in SUBSET Items, Dealt(D)
  PROVE  Control'
<1> DEFINE r == sending.run
<1>1. TypeOK /\ RunsBegun /\ OneActive /\ Silence /\ AtSend /\ Targeted /\ Known
  BY DEF IInv, Control
<1>2. /\ r \in Runs /\ r <= nrun /\ sending # Idle /\ st[r].here
      /\ run[r].kind # "compact" /\ compacting = None
  BY Sender DEF Dealt
<1>3. /\ \A q \in Runs : q # r => st'[q] = st[q]
      /\ st'[r].here /\ st'[r].suppress = st[r].suppress
      /\ st'[r].known = st[r].known /\ st'[r].sent = st[r].sent \union D
      /\ st'[r].target.provider = st[r].target.provider
      /\ UNCHANGED <<run, nrun, superseded, runtime, restarts, inbound, token,
                     waiting, turnTarget, suppressed, compacting>>
  BY <1>2 DEF Dealt, StateSet, turns
<1>4. /\ D \subseteq sending.todo
      /\ \/ ~sending.end /\ sending' = Idle
         \/ /\ sending'.run = r /\ (sending'.end <=> sending.end)
            /\ sending'.todo = sending.todo \ D
            /\ sending'.fresh => sending.fresh /\ sending'.token = sending.token
  BY DEF Dealt
<1>5. Idle.run = None /\ Idle.todo = {} /\ ~Idle.fresh
  BY DEF Idle
<1>6. sending'.run # None => sending'.run = r
  BY <1>4, <1>5
<1>7. r # None
  BY <1>2
<1>8. RunsBegun'
  <2>1. \A q \in Runs : q > nrun => q # r
    BY <1>1, <1>2 DEF TypeOK
  <2>2. \A q \in Runs : q > nrun => st'[q] = st[q]
    BY <1>3, <2>1
  <2> QED
    BY <1>1, <1>2, <1>3, <2>2 DEF RunsBegun
<1>9. \A q \in Runs : Active(q)' => Active(q)
  BY <1>3, <1>6 DEF Active
<1>10. OneActive'
  BY <1>1, <1>2, <1>3, <1>9 DEF OneActive
<1>11. Silence'
  <2>1. ASSUME NEW q \in Runs
        PROVE  /\ run[q].kind = "compact" => st'[q] = st[q] /\ sending'.run # q
               /\ st'[q].here /\ st'[q].suppress => st[q].here /\ st[q].suppress
    <3>1. run[q].kind = "compact" => q # r
      BY <1>2
    <3>2. CASE q = r
      BY <1>2, <1>3, <3>1, <3>2
    <3>3. CASE q # r
      BY <1>3, <1>6, <3>3
    <3> QED
      BY <3>2, <3>3
  <2> QED
    BY <1>1, <1>3, <2>1 DEF Silence
<1>12. AtSend'
  <2>1. /\ st[r].here /\ run[r].turn # "none"
        /\ sending.todo \subseteq st[r].known \ st[r].sent
        /\ sending.end <=> run[r].turn = "over"
        /\ ~sending.end => Provider(r) = "weixin" /\ sending.todo \subseteq 1..run[r].done
    BY <1>1, <1>7 DEF AtSend
  <2>2. CASE sending' = Idle
    BY <1>5, <2>2 DEF AtSend
  <2>3. CASE sending' # Idle
    <3>1. /\ sending'.run = r /\ (sending'.end <=> sending.end)
          /\ sending'.todo = sending.todo \ D
      BY <1>4, <2>3
    <3>2. Provider(r)' = Provider(r)
      BY <1>3, <3>1 DEF Provider
    <3>3. sending'.todo \subseteq st'[r].known \ st'[r].sent
      BY <1>3, <2>1, <3>1
    <3>4. ~sending'.end => Provider(r)' = "weixin" /\ sending'.todo \subseteq 1..run[r].done
      BY <2>1, <3>1, <3>2
    <3>5. sending'.end <=> run'[r].turn = "over"
      BY <1>3, <2>1, <3>1
    <3> QED
      BY <1>2, <1>3, <1>7, <2>1, <3>1, <3>3, <3>4, <3>5 DEF AtSend
  <2> QED
    BY <2>2, <2>3
<1>13. Targeted'
  <2>1. \A q \in Runs : Provider(q)' = Provider(q)
    BY <1>3 DEF Provider
  <2>2. binding["weixin"] # None => binding'["weixin"] # None
    BY DEF Dealt
  <2>3. sending'.fresh => sending.fresh /\ sending'.token = sending.token
    BY <1>4, <1>5
  <2>4. \A q \in Runs : st'[q].here => st[q].here /\ st'[q].target.provider = st[q].target.provider
    BY <1>2, <1>3
  <2> QED
    BY <1>1, <1>3, <2>1, <2>2, <2>3, <2>4 DEF Targeted
<1>14. Known'
  <2>1. ~sending.end => sending.todo \subseteq 1..run[r].done /\ run[r].kind # "system"
    BY <1>1, <1>7 DEF AtSend, Provider
  <2>2. run[r].turn # "over" => D \subseteq 1..run[r].done /\ run[r].kind # "system"
    BY <1>1, <1>4, <1>7, <2>1 DEF AtSend
  <2>3. run[r].turn # "none"
    BY <1>1, <1>7 DEF AtSend
  <2>4. ASSUME NEW q \in Runs, q # r
        PROVE  st'[q] = st[q]
    BY <1>3, <2>4
  <2>5. run[r].turn # "over" => st'[r].sent \subseteq 1..run[r].done
    BY <1>1, <1>2, <1>3, <2>2 DEF Known
  <2> QED
    BY <1>1, <1>2, <1>3, <2>2, <2>3, <2>4, <2>5 DEF Known
<1> QED
  BY <1>8, <1>10, <1>11, <1>12, <1>13, <1>14 DEF Control

\* Dealing with items keeps every piece in its place.
LEMMA DealtPlaced ==
  ASSUME IInv, NEW D \in SUBSET Items, Dealt(D), OnePlace'
  PROVE  Placed'
<1>0. PICK r \in Runs : r = sending.run
  BY Sender DEF Dealt
<1>1. TypeOK /\ AtSend /\ Known /\ SentOnce /\ CompactUnseen /\ NoGaps
  BY DEF IInv, Control, Placed
<1>2. r \in Runs /\ st[r].here /\ run[r].kind # "compact" /\ r # None
  BY <1>0, Sender DEF Dealt
<1>3. /\ \A q \in Runs : q # r => st'[q] = st[q]
      /\ st'[r].known = st[r].known /\ st'[r].sent = st[r].sent \union D
      /\ st'[r].suppress = st[r].suppress
      /\ run' = run /\ cls' = cls /\ restarts' = restarts /\ broken' = broken
  BY <1>0 DEF Dealt, StateSet, turns
<1>4. /\ D \subseteq sending.todo
      /\ \/ sending' = Idle
         \/ /\ sending'.run = r /\ (sending'.end <=> sending.end)
            /\ sending'.todo = sending.todo \ D
  BY <1>0 DEF Dealt
<1>5. Idle.run = None /\ Idle.todo = {}
  BY DEF Idle
<1>6. /\ sending.todo \subseteq st[r].known \ st[r].sent
      /\ run[r].turn # "over" => sending.todo \subseteq 1..run[r].done
  BY <1>0, <1>1, <1>2 DEF AtSend
<1>7. \A p \in Pieces : /\ Out(p) => Out(p)'
                        /\ Out(p)' => Out(p) \/ \E i \in D : p = <<r, i>>
  BY <1>0 DEF Dealt
<1>8. SentOnce'
  <2>1. ASSUME NEW q \in Runs, NEW i \in Items, CanSend(q, i)'
        PROVE  CanSend(q, i) /\ ~(q = r /\ i \in D)
    <3>1. CASE q = r
      <4>1. sending'.run = r => sending'.todo = sending.todo \ D
        BY <1>2, <1>4, <1>5
      <4>2. run[r].done \in Nat
        BY <1>1, <1>2 DEF TypeOK, RunRecords
      <4>3. run[r].turn # "over" => \A j \in D : j <= run[r].done
        <5>1. run[r].turn # "over" => D \subseteq 1..run[r].done
          BY <1>4, <1>6
        <5> QED
          BY <4>2, <5>1
      <4>4. \/ i \in sending.todo \ D
            \/ run[r].turn # "over" /\ i > run[r].done
            \/ run[r].turn # "over" /\ i \in st[r].known \ (st[r].sent \union D)
        BY <1>0, <1>3, <2>1, <3>1, <4>1 DEF CanSend
      <4>5. i \notin D
        BY <4>2, <4>3, <4>4
      <4> QED
        BY <1>0, <3>1, <4>4, <4>5 DEF CanSend
    <3>2. CASE q # r
      BY <1>3, <1>4, <1>5, <2>1, <3>2 DEF CanSend
    <3> QED
      BY <3>1, <3>2
  <2>2. ASSUME NEW q \in Runs, NEW i \in Items, Out(<<q, i>>)'
        PROVE  Out(<<q, i>>) \/ (q = r /\ i \in D)
    BY <1>7, <2>2
  <2> QED
    BY <1>1, <2>1, <2>2 DEF SentOnce
<1>9. CompactUnseen'
  <2>1. ASSUME NEW q \in Runs, NEW i \in Items, run[q].kind = "compact"
        PROVE  Out(<<q, i>>)' => Out(<<q, i>>)
    BY <1>2, <1>7, <2>1
  <2> QED
    BY <1>1, <1>3, <2>1 DEF CompactUnseen
<1>10. NoGaps'
  <2> SUFFICES ASSUME NEW q \in Runs, run[q].kind = "user"
               PROVE  /\ \A i \in Items : 
                           i \in st'[q].sent /\ cls[<<q, i>>] = "text" => Out(<<q, i>>)'
                      /\ restarts = 0 =>
                           /\ \A i, j \in Items :
                                Out(<<q, j>>)' /\ i < j /\ cls[<<q, i>>] = "text" => Out(<<q, i>>)'
                           /\ sending'.run = q =>
                                \A i, j \in Items :
                                  /\ j \in sending'.todo /\ i < j
                                  /\ i \in st'[q].known /\ i \notin st'[q].sent
                                  => i \in sending'.todo
                      /\ sending'.run = q /\ sending'.end /\ ~st'[q].suppress /\ q \notin broken =>
                           st'[q].known \subseteq st'[q].sent \union sending'.todo
    BY <1>3 DEF NoGaps
  <2>1. CASE q # r
    <3>1. st'[q] = st[q] /\ sending'.run # q
      BY <1>3, <1>4, <1>5, <2>1
    <3>2. \A i \in Items : Out(<<q, i>>)' <=> Out(<<q, i>>)
      BY <1>7, <2>1
    <3> QED
      BY <1>1, <3>1, <3>2 DEF NoGaps
  <2>2. CASE q = r
    <3>1. \A i \in Items : Out(<<r, i>>) => Out(<<r, i>>)'
      <4>1. \A i \in Items : <<r, i>> \in Pieces
        BY <1>2
      <4> QED
        BY <1>7, <4>1
    <3>2. \A i \in Items : Out(<<r, i>>)' => Out(<<r, i>>) \/ i \in D
      BY <1>2, <1>7
    <3>3. \A i \in D : cls[<<r, i>>] = "text" => Out(<<r, i>>)'
      <4>1. \A i \in D : <<r, i>> \in Pieces
        BY <1>2
      <4> QED
        BY <1>0, <4>1 DEF Dealt
    <3>4. \A i \in Items :
             i \in st[r].sent /\ cls[<<r, i>>] = "text" => Out(<<r, i>>)
      BY <1>1, <2>2 DEF NoGaps
    <3>5. ASSUME restarts = 0, NEW i \in Items, NEW j \in Items,
                 Out(<<r, j>>)', i < j, cls[<<r, i>>] = "text"
          PROVE  Out(<<r, i>>)'
      <4>1. CASE Out(<<r, j>>)
        BY <1>1, <2>2, <3>1, <3>5, <4>1 DEF NoGaps
      <4>2. CASE j \in D
        <5>1. run[r].done \in Nat
          BY <1>1, <1>2 DEF TypeOK, RunRecords
        <5>2. 1..run[r].done \subseteq st[r].known /\ st[r].known \subseteq 1..(run[r].done + 1)
          BY <1>1, <1>2, <2>2, <3>5 DEF Known
        <5>3. i \in st[r].known
          BY <1>4, <1>6, <3>5, <4>2, <5>1, <5>2
        <5>4. i \in sending.todo \/ i \in st[r].sent
          BY <1>0, <1>1, <1>4, <2>2, <3>5, <4>2, <5>3 DEF NoGaps
        <5>5. CASE i \in sending.todo
          <6>1. i \in D
            BY <3>5, <4>2, <5>5 DEF Dealt
          <6> QED
            BY <3>3, <3>5, <6>1
        <5>6. CASE i \in st[r].sent
          BY <3>1, <3>4, <3>5, <5>6
        <5> QED
          BY <5>4, <5>5, <5>6
      <4> QED
        BY <3>2, <3>5, <4>1, <4>2
    <3>6. \A i \in Items : 
             i \in st'[r].sent /\ cls[<<r, i>>] = "text" => Out(<<r, i>>)'
      BY <1>3, <3>1, <3>3, <3>4
    <3>7. sending'.run = r => sending'.todo = sending.todo \ D /\ (sending'.end <=> sending.end)
      BY <1>2, <1>4, <1>5
    <3>8. restarts = 0 /\ sending'.run = r =>
            \A i, j \in Items :
               j \in sending'.todo /\ i < j /\ i \in st'[r].known /\ i \notin st'[r].sent
                 => i \in sending'.todo
      BY <1>0, <1>1, <1>3, <2>2, <3>7 DEF NoGaps
    <3>9. sending'.run = r /\ sending'.end /\ ~st'[r].suppress /\ r \notin broken =>
             st'[r].known \subseteq st'[r].sent \union sending'.todo
      BY <1>0, <1>1, <1>3, <2>2, <3>7 DEF NoGaps
    <3> QED
      BY <2>2, <3>5, <3>6, <3>8, <3>9
  <2> QED
    BY <2>1, <2>2
<1> QED
  BY <1>8, <1>9, <1>10 DEF Placed

\* The rest of a flush.
LEMMA RestFacts ==
  ASSUME IInv, sending.todo # {}, NEW t \in Targets, sending' = Rest(t)
  PROVE  /\ sending' \in Sends
         /\ \/ ~sending.end /\ sending.todo \subseteq {Now} /\ sending' = Idle
            \/ /\ sending'.run = sending.run /\ (sending'.end <=> sending.end)
               /\ sending'.todo = sending.todo \ {Now} /\ ~sending'.fresh
<1>1. sending \in Sends /\ t.token \in Tokens /\ sending.todo \ {Now} \in SUBSET Items
  BY DEF IInv, TypeOK, Sends, Targets
<1> DEFINE c == [sending EXCEPT !.todo = sending.todo \ {Now}, !.tries = 0, !.fresh = FALSE,
                                !.token = t.token]
<1>2. /\ c \in Sends /\ c.run = sending.run /\ c.end = sending.end
      /\ c.todo = sending.todo \ {Now} /\ ~c.fresh
  BY <1>1 DEF Sends
<1>3. sending' = IF sending.todo \ {Now} = {} /\ ~sending.end THEN Idle ELSE c
  BY DEF Rest
<1> HIDE DEF c
<1> QED
  BY <1>2, <1>3, FirstValues

\* A flush that gives up.
LEMMA GivenFacts ==
  ASSUME IInv, sending' = Given
  PROVE  /\ sending' \in Sends
         /\ \/ ~sending.end /\ sending' = Idle
            \/ /\ sending'.run = sending.run /\ (sending'.end <=> sending.end)
               /\ sending'.todo = {} /\ sending'.fresh = sending.fresh
               /\ sending'.token = sending.token
<1>1. sending \in Sends
  BY DEF IInv, TypeOK
<1> DEFINE c == [sending EXCEPT !.todo = {}]
<1>2. /\ c \in Sends /\ c.run = sending.run /\ c.end = sending.end
      /\ c.todo = {} /\ c.fresh = sending.fresh /\ c.token = sending.token
  BY <1>1 DEF Sends
<1>3. sending' = IF sending.end THEN c ELSE Idle
  BY DEF Given
<1> HIDE DEF c
<1> QED
  BY <1>2, <1>3, FirstValues

\* What ItemDone and deferSystemReply leave of the state of a run.
Marked(r, D) == [st EXCEPT ![r].sent = st[r].sent \union D, ![r].prefix = {}]

\* The fields of the state that is left.
LEMMA DoneFacts ==
  ASSUME TypeOK, NEW r \in Runs, NEW D \in SUBSET Items
  PROVE  LET f == Marked(r, D)
         IN
         /\ f \in [Runs -> States]
         /\ \A q \in Runs : q # r => f[q] = st[q]
         /\ f[r].here = st[r].here /\ f[r].suppress = st[r].suppress
         /\ f[r].known = st[r].known /\ f[r].sent = st[r].sent \union D
         /\ f[r].prefix = {} /\ f[r].target = st[r].target
<1>1. st \in [Runs -> States] /\ st[r] \in States
  BY DEF TypeOK
<1>2. st[r].sent \union D \in SUBSET Items
  BY <1>1 DEF States
<1> DEFINE x == [st[r] EXCEPT !.sent = st[r].sent \union D, !.prefix = {}]
<1>3. /\ x \in States /\ x.here = st[r].here /\ x.suppress = st[r].suppress
      /\ x.known = st[r].known /\ x.sent = st[r].sent \union D
      /\ x.prefix = {} /\ x.target = st[r].target
  <2>1. PICK s \in States : s = st[r]
    BY <1>1
  <2>2. PICK E \in SUBSET Items : E = st[r].sent \union D
    BY <1>2
  <2> DEFINE a == [s EXCEPT !.sent = E, !.prefix = {}]
  <2>3. /\ a \in States /\ a.here = s.here /\ a.target = s.target
        /\ a.suppress = s.suppress /\ a.prefix = {}
        /\ a.known = s.known /\ a.sent = E
    BY WithSent
  <2>4. x = a
    BY <2>1, <2>2, Zenon
  <2> HIDE DEF a, x
  <2> QED
    BY <2>1, <2>2, <2>3, <2>4
<1>4. Marked(r, D) = [st EXCEPT ![r] = x]
  BY <1>1 DEF Marked
<1> HIDE DEF x
<1> QED
  BY <1>1, <1>3, <1>4

\* The pieces of the state of a run, and of the items that are being sent.
LEMMA PieceFacts ==
  ASSUME IInv, sending.todo # {}
  PROVE  /\ \A i \in sending.todo : /\ <<sending.run, i>> \in Pieces
                                    /\ ~Out(<<sending.run, i>>)
         /\ st[sending.run].prefix \in SUBSET Pieces
         /\ st[sending.run].prefix \subseteq kept
<1>1. sending.run \in Runs /\ sending.todo \in SUBSET Items
  BY Sender
<1>2. \A i \in sending.todo : ~Out(<<sending.run, i>>)
  <2>1. \A i \in sending.todo : i \in Items /\ CanSend(sending.run, i)
    BY <1>1 DEF CanSend
  <2> QED
    BY <1>1, <2>1 DEF IInv, Placed, SentOnce
<1>3. st[sending.run].prefix \in SUBSET Pieces
  BY <1>1 DEF IInv, TypeOK, States
<1>4. st[sending.run].prefix \subseteq kept
  BY <1>1 DEF IInv, Placed, OnePlace
<1> QED
  BY <1>1, <1>2, <1>3, <1>4

\* An item with nothing to show counts as sent.
LEMMA SkipDealt ==
  ASSUME IInv, SkipMute
  PROVE  TypeOK' /\ Dealt({Now}) /\ OnePlace'
<1>1. TypeOK /\ OnePlace
  BY DEF IInv, Placed
<1>2. /\ sending.todo # {} /\ cls[<<sending.run, Now>>] = "mute"
      /\ st' = [st EXCEPT ![sending.run].sent = st[sending.run].sent \union {Now},
                          ![sending.run].prefix = {}]
      /\ sending' = Rest(st[sending.run].target)
      /\ UNCHANGED <<turns, run, deferred, bound, superseded, prefix, binding,
                     turnTarget, suppressed, compacting, faults, cls, history>>
  BY DEF SkipMute, Mute, ItemDone
<1>3. PICK r \in Runs : r = sending.run
  BY <1>2, Sender
<1>4. Now \in sending.todo /\ \A i \in sending.todo : Now <= i
  BY <1>2, Sender
<1>5. {Now} \in SUBSET Items /\ sending.todo \in SUBSET Items
  BY <1>2, <1>4, Sender
<1>6. /\ st' \in [Runs -> States]
      /\ \A q \in Runs : q # r => st'[q] = st[q]
      /\ st'[r].here = st[r].here /\ st'[r].suppress = st[r].suppress
      /\ st'[r].known = st[r].known /\ st'[r].sent = st[r].sent \union {Now}
      /\ st'[r].prefix = {} /\ st'[r].target = st[r].target
  <2>1. PICK D \in SUBSET Items : D = {Now}
    BY <1>5
  <2>2. st' = Marked(r, D)
    BY <1>2, <1>3, <2>1 DEF Marked
  <2> QED
    BY <1>1, <2>1, <2>2, DoneFacts
<1>7. st[r].target \in Targets
  BY <1>1 DEF TypeOK, States
<1>8. /\ sending' \in Sends
      /\ \/ ~sending.end /\ sending.todo \subseteq {Now} /\ sending' = Idle
         \/ /\ sending'.run = r /\ (sending'.end <=> sending.end)
            /\ sending'.todo = sending.todo \ {Now} /\ ~sending'.fresh
  BY <1>2, <1>3, <1>7, RestFacts
<1>9. TypeOK'
  BY <1>1, <1>2, <1>6, <1>8 DEF TypeOK, turns, history
<1>10. \A i, j \in Items : j \in {Now} /\ i < j /\ i \in sending.todo => i \in {Now}
  BY <1>4, <1>5
<1>11. \A p \in Pieces : Out(p)' <=> Out(p)
  BY <1>2 DEF Out, history
<1>12. Dealt({Now})
  BY <1>1, <1>2, <1>3, <1>4, <1>6, <1>8, <1>10, <1>11 DEF Dealt, StateSet, history, TypeOK
<1>13. OnePlace'
  <2>1. \A q \in Runs : st'[q].prefix = st[q].prefix \/ st'[q].prefix = {}
    BY <1>6
  <2>2. acked' = acked /\ kept' = kept /\ deferred' = deferred /\ prefix' = prefix
    BY <1>2 DEF history
  <2> QED
    BY <1>1, <2>1, <2>2 DEF OnePlace
<1> QED
  BY <1>9, <1>12, <1>13

\* A message that the channel accepts.
LEMMA OkDealt ==
  ASSUME IInv, SendOk
  PROVE  TypeOK' /\ Dealt({Now}) /\ OnePlace'
<1>1. TypeOK /\ OnePlace /\ Targeted
  BY DEF IInv, Placed, Control
<1> DEFINE target == IF sending.fresh THEN Refreshed(sending.run)
                                      ELSE st[sending.run].target
<1>2. /\ sending.todo # {}
      /\ acked' = [p \in Pieces |-> IF p \in Carried THEN acked[p] + 1 ELSE acked[p]]
      /\ st' = [ItemDone(sending.run) EXCEPT ![sending.run].target = target]
      /\ binding' = IF sending.fresh
                      THEN [binding EXCEPT ![target.provider] = target.token]
                      ELSE binding
      /\ sending' = Rest(target)
      /\ UNCHANGED <<turns, run, deferred, bound, superseded, prefix, turnTarget,
                     suppressed, compacting, faults, cls, broken, kept, primed>>
  BY DEF SendOk
<1>3. PICK r \in Runs : r = sending.run
  BY <1>2, Sender
<1>4. Now \in sending.todo /\ \A i \in sending.todo : Now <= i
  BY <1>2, Sender
<1>5. {Now} \in SUBSET Items /\ sending.todo \in SUBSET Items
  BY <1>2, <1>4, Sender
<1>6. /\ target \in Targets /\ target.provider = st[r].target.provider
      /\ sending.fresh => target.token = sending.token
  <2>1. st[r].target \in Targets /\ sending.token \in Tokens
    BY <1>1 DEF TypeOK, States, Sends
  <2>2. /\ Refreshed(r) \in Targets /\ Refreshed(r).provider = st[r].target.provider
        /\ Refreshed(r).token = sending.token
    <3>1. st[r].target.provider \in Providers
      BY <2>1 DEF Targets
    <3>2. Refreshed(r) = [NoTarget EXCEPT !.provider = st[r].target.provider,
                                          !.token = sending.token]
      BY DEF Refreshed
    <3> QED
      BY <2>1, <3>1, <3>2, FirstValues DEF Targets
  <2> QED
    BY <1>3, <2>1, <2>2
<1> HIDE DEF target
<1>7. /\ st' \in [Runs -> States]
      /\ \A q \in Runs : q # r => st'[q] = st[q]
      /\ st'[r].here = st[r].here /\ st'[r].suppress = st[r].suppress
      /\ st'[r].known = st[r].known /\ st'[r].sent = st[r].sent \union {Now}
      /\ st'[r].prefix = {} /\ st'[r].target.provider = st[r].target.provider
  <2>1. PICK D \in SUBSET Items : D = {Now}
    BY <1>5
  <2> DEFINE f == Marked(r, D)
  <2>2. /\ f \in [Runs -> States]
        /\ \A q \in Runs : q # r => f[q] = st[q]
        /\ f[r].here = st[r].here /\ f[r].suppress = st[r].suppress
        /\ f[r].known = st[r].known /\ f[r].sent = st[r].sent \union D
        /\ f[r].prefix = {} /\ f[r].target = st[r].target
    BY <1>1, <2>1, DoneFacts
  <2>3. ItemDone(sending.run) = f
    BY <1>3, <2>1 DEF ItemDone, Marked
  <2> HIDE DEF f
  <2>4. st' = [f EXCEPT ![r].target = target]
    BY <1>2, <1>3, <2>3
  <2> DEFINE x == [f[r] EXCEPT !.target = target]
  <2>5. /\ x \in States /\ x.here = st[r].here /\ x.suppress = st[r].suppress
        /\ x.known = st[r].known /\ x.sent = st[r].sent \union D
        /\ x.prefix = {} /\ x.target = target
    BY <1>6, <2>2 DEF States
  <2>6. st' = [f EXCEPT ![r] = x]
    BY <2>2, <2>4
  <2> HIDE DEF x
  <2> QED
    BY <1>6, <2>1, <2>2, <2>5, <2>6
<1>8. /\ sending' \in Sends
      /\ \/ ~sending.end /\ sending.todo \subseteq {Now} /\ sending' = Idle
         \/ /\ sending'.run = r /\ (sending'.end <=> sending.end)
            /\ sending'.todo = sending.todo \ {Now} /\ ~sending'.fresh
  BY <1>2, <1>3, <1>6, RestFacts
<1>9. /\ binding' \in [{"weixin", "system"} -> Tokens]
      /\ binding["weixin"] # None => binding'["weixin"] # None
  <2>1. sending.fresh => target.token # None
    BY <1>1, <1>6 DEF Targeted
  <2>2. target.token \in Tokens
    BY <1>6 DEF Targets
  <2> QED
    BY <1>1, <1>2, <2>1, <2>2 DEF TypeOK
<1>10. /\ Carried = {<<r, Now>>} \union st[r].prefix
       /\ Carried \in SUBSET Pieces /\ <<r, Now>> \in Pieces
       /\ ~Out(<<r, Now>>) /\ st[r].prefix \subseteq kept
  BY <1>2, <1>3, <1>4, PieceFacts DEF Carried
<1>11. acked \in [Pieces -> Nat] /\ acked' \in [Pieces -> Nat]
       /\ \A p \in Pieces : acked'[p] = IF p \in Carried THEN acked[p] + 1 ELSE acked[p]
  <2>1. acked \in [Pieces -> Nat]
    BY <1>1 DEF TypeOK
  <2>2. \A p \in Pieces : acked'[p] = IF p \in Carried THEN acked[p] + 1 ELSE acked[p]
    BY <1>2, Zenon
  <2>3. \A p \in Pieces : (IF p \in Carried THEN acked[p] + 1 ELSE acked[p]) \in Nat
    BY <2>1
  <2>4. acked' \in [Pieces -> Nat]
    BY <1>2, <2>3, Zenon
  <2> QED
    BY <2>1, <2>2, <2>4
<1>12. TypeOK'
  BY <1>1, <1>2, <1>7, <1>8, <1>9, <1>11 DEF TypeOK, turns
<1>13. \A i, j \in Items : j \in {Now} /\ i < j /\ i \in sending.todo => i \in {Now}
  BY <1>4, <1>5
<1>14. kept' = kept
  BY <1>2
<1>15. \A p \in Pieces : /\ Out(p) => Out(p)'
                         /\ Out(p)' => Out(p) \/ \E i \in {Now} : p = <<r, i>>
                         /\ p = <<r, Now>> => Out(p)'
  BY <1>10, <1>11, <1>14 DEF Out
<1>16. Dealt({Now})
  <2>11. PICK D : D = {Now}
    OBVIOUS
  <2>1. sending.todo # {} /\ D \subseteq sending.todo
    BY <1>2, <1>4, <2>11
  <2>2. StateSet(sending.run)
    BY <1>3, <1>7 DEF StateSet
  <2>3. /\ st'[sending.run].here = st[sending.run].here
        /\ st'[sending.run].suppress = st[sending.run].suppress
        /\ st'[sending.run].known = st[sending.run].known
        /\ st'[sending.run].sent = st[sending.run].sent \union D
        /\ st'[sending.run].prefix = {}
        /\ st'[sending.run].target.provider = st[sending.run].target.provider
    BY <1>3, <1>7, <2>11
  <2>4. \/ ~sending.end /\ sending.todo \subseteq D /\ sending' = Idle
        \/ /\ sending'.run = sending.run /\ (sending'.end <=> sending.end)
           /\ sending'.todo = sending.todo \ D
           /\ sending'.fresh => sending.fresh /\ sending'.token = sending.token
    BY <1>3, <1>8, <2>11
  <2>5. \A p \in Pieces :
          /\ Out(p) => Out(p)'
          /\ Out(p)' => Out(p) \/ \E i \in D : p = <<sending.run, i>>
    BY <1>3, <1>15, <2>11
  <2>6. \A p \in Pieces : (\E i \in D : p = <<sending.run, i>>) /\ cls[p] = "text" => Out(p)'
    BY <1>3, <1>15, <2>11
  <2>7. UNCHANGED <<turns, run, superseded, prefix, turnTarget, suppressed,
                    compacting, cls, broken, primed>>
    BY <1>2
  <2>8. sending' \in Sends
    BY <1>8
  <2>9. \A i, j \in Items : j \in D /\ i < j /\ i \in sending.todo => i \in D
    BY <1>13, <2>11, Zenon
  <2> HIDE DEF Pieces, Items, Runs
  <2>10. Dealt(D)
    BY <1>9, <2>1, <2>2, <2>3, <2>4, <2>5, <2>6, <2>7, <2>8, <2>9, Zenon DEF Dealt
  <2> QED
    BY <2>10, <2>11
<1>17. OnePlace'
  <2>1. \A p \in Carried : acked[p] = 0 /\ p \notin prefix
                           /\ \A q \in Runs : p \notin deferred[q] /\ (q # r => p \notin st[q].prefix)
    <3>1. ASSUME NEW p \in st[r].prefix
          PROVE  acked[p] = 0 /\ p \notin prefix
                 /\ \A q \in Runs : p \notin deferred[q] /\ (q # r => p \notin st[q].prefix)
      <4>1. p \in Pieces
        BY <1>10, <3>1
      <4> QED
        BY <1>1, <1>11, <3>1, <4>1 DEF OnePlace
    <3>2. acked[<<r, Now>>] = 0 /\ <<r, Now>> \notin kept
      BY <1>10, <1>11 DEF Out
    <3>3. <<r, Now>> \notin prefix /\ \A q \in Runs : <<r, Now>> \notin deferred[q]
                                                      /\ <<r, Now>> \notin st[q].prefix
      BY <1>1, <3>2 DEF OnePlace
    <3> QED
      BY <1>10, <3>1, <3>2, <3>3
  <2>2. \A q \in Runs : /\ st'[q].prefix \subseteq st[q].prefix
                        /\ q = r => st'[q].prefix = {}
    BY <1>7
  <2>3. deferred' = deferred /\ prefix' = prefix /\ kept' = kept
    BY <1>2
  <2>4. \A p \in Pieces : p \in Carried => 
           /\ acked'[p] = 1 /\ p \notin prefix
           /\ \A q \in Runs : p \notin deferred[q] /\ p \notin st'[q].prefix
    BY <1>11, <2>1, <2>2
  <2>5. \A p \in Pieces : p \notin Carried => acked'[p] = acked[p]
    BY <1>11
  <2> QED
    BY <1>1, <2>2, <2>3, <2>4, <2>5 DEF OnePlace
<1> QED
  BY <1>12, <1>16, <1>17

\* A batch that goes to the store.
LEMMA DeferDealt ==
  ASSUME IInv, Defer, sending.todo # {}, ~Mute, faults' \in Nat
  PROVE  TypeOK' /\ Dealt(sending.todo) /\ OnePlace'
<1>1. TypeOK /\ OnePlace
  BY DEF IInv, Placed
<1>2. PICK r \in Runs : r = sending.run
  BY Sender
<1>3. /\ deferred' = [deferred EXCEPT ![r] = @ \union Unsent]
      /\ bound' = [bound EXCEPT ![r] =
                     IF (st[r].target.gen > 0 \/ @ # None) /\ st[r].target.cause # None 
                       THEN st[r].target.cause ELSE @]
      /\ kept' = kept \union Unsent
      /\ st' = Marked(r, sending.todo)
      /\ sending' = Given
      /\ UNCHANGED <<turns, run, superseded, prefix, binding, turnTarget,
                     suppressed, compacting, cls, acked, broken, primed>>
  BY <1>2 DEF Defer, Marked
<1>4. sending.todo \in SUBSET Items
  BY Sender
<1>5. /\ st' \in [Runs -> States]
      /\ \A q \in Runs : q # r => st'[q] = st[q]
      /\ st'[r].here = st[r].here /\ st'[r].suppress = st[r].suppress
      /\ st'[r].known = st[r].known /\ st'[r].sent = st[r].sent \union sending.todo
      /\ st'[r].prefix = {} /\ st'[r].target = st[r].target
  <2>1. PICK D \in SUBSET Items : D = sending.todo
    BY <1>4
  <2> DEFINE f == Marked(r, D)
  <2>2. /\ f \in [Runs -> States]
        /\ \A q \in Runs : q # r => f[q] = st[q]
        /\ f[r].here = st[r].here /\ f[r].suppress = st[r].suppress
        /\ f[r].known = st[r].known /\ f[r].sent = st[r].sent \union D
        /\ f[r].prefix = {} /\ f[r].target = st[r].target
    BY <1>1, DoneFacts
  <2>3. st' = f
    BY <1>3, <2>1
  <2> HIDE DEF f
  <2> QED
    BY <2>1, <2>2, <2>3
<1>6. /\ sending' \in Sends
      /\ \/ ~sending.end /\ sending' = Idle
         \/ /\ sending'.run = r /\ (sending'.end <=> sending.end)
            /\ sending'.todo = {} /\ sending'.fresh = sending.fresh
            /\ sending'.token = sending.token
  BY <1>2, <1>3, GivenFacts
<1> DEFINE B == {i \in sending.todo : cls[<<r, i>>] = "text" \/ Provider(r) = "system"}
<1>7. Unsent = {<<r, i>> : i \in B} \union st[r].prefix
  BY <1>2 DEF Unsent
<1>8. /\ Unsent \in SUBSET Pieces
      /\ \A i \in sending.todo : <<r, i>> \in Pieces /\ ~Out(<<r, i>>)
      /\ st[r].prefix \subseteq kept
  <2>1. /\ \A i \in sending.todo : <<r, i>> \in Pieces /\ ~Out(<<r, i>>)
        /\ st[r].prefix \in SUBSET Pieces /\ st[r].prefix \subseteq kept
    BY <1>2, PieceFacts
  <2>2. {<<r, i>> : i \in B} \subseteq Pieces
    <3>1. B \subseteq sending.todo
      OBVIOUS
    <3> HIDE DEF B, Pieces
    <3> QED
      BY <2>1, <3>1
  <2> HIDE DEF B
  <2> QED
    BY <1>7, <2>1, <2>2
<1>9. bound' \in [Runs -> Tokens]
  <2>1. st[r].target.cause \in Tokens
    BY <1>1 DEF TypeOK, States, Targets
  <2> QED
    BY <1>1, <1>3, <2>1 DEF TypeOK
<1>10. deferred' \in [Runs -> SUBSET Pieces] /\ kept' \in SUBSET Pieces
       /\ \A q \in Runs : deferred'[q] = IF q = r THEN deferred[q] \union Unsent ELSE deferred[q]
  BY <1>1, <1>3, <1>8 DEF TypeOK
<1>11. TypeOK'
  BY <1>1, <1>3, <1>5, <1>6, <1>9, <1>10 DEF TypeOK, turns
<1>12. \A p \in Pieces : /\ Out(p) => Out(p)'
                         /\ Out(p)' => Out(p) \/ \E i \in sending.todo : p = <<r, i>>
                         /\ (\E i \in sending.todo : p = <<r, i>>) /\ cls[p] = "text" => Out(p)'
  BY <1>3, <1>7, <1>8 DEF Out
<1>13. Dealt(sending.todo)
  BY <1>1, <1>2, <1>3, <1>5, <1>6, <1>12 DEF Dealt, StateSet, TypeOK
<1>14. OnePlace'
  <2>1. \A p \in Unsent : acked[p] = 0 /\ p \notin prefix
                          /\ \A q \in Runs : q # r => p \notin deferred[q] /\ p \notin st[q].prefix
    <3>1. ASSUME NEW p \in st[r].prefix
          PROVE  acked[p] = 0 /\ p \notin prefix
                 /\ \A q \in Runs : q # r => p \notin deferred[q] /\ p \notin st[q].prefix
      <4>1. p \in Pieces /\ acked \in [Pieces -> Nat]
        BY <1>1, <1>7, <1>8, <3>1 DEF TypeOK
      <4> QED
        BY <1>1, <3>1, <4>1 DEF OnePlace
    <3>2. ASSUME NEW i \in B
          PROVE  acked[<<r, i>>] = 0 /\ <<r, i>> \notin kept
      BY <1>1, <1>8 DEF Out, TypeOK
    <3>3. ASSUME NEW i \in B
          PROVE  <<r, i>> \notin prefix /\ \A q \in Runs : <<r, i>> \notin deferred[q]
                                                           /\ <<r, i>> \notin st[q].prefix
      BY <1>1, <3>2 DEF OnePlace
    <3>4. ASSUME NEW p \in Unsent, p \notin st[r].prefix
          PROVE  \E i \in B : p = <<r, i>>
      BY <1>7, <3>4
    <3> HIDE DEF B
    <3> QED
      BY <3>1, <3>2, <3>3, <3>4
  <2>2. \A q \in Runs : /\ st'[q].prefix \subseteq st[q].prefix
                        /\ q = r => st'[q].prefix = {}
                        /\ q # r => st'[q].prefix = st[q].prefix
    BY <1>5
  <2>3. prefix' = prefix /\ kept' = kept \union Unsent /\ acked' = acked
    BY <1>3
  <2>4. \A q \in Runs : /\ q # r => deferred'[q] = deferred[q]
                        /\ q = r => deferred'[q] = deferred[q] \union Unsent
    BY <1>10
  <2> QED
    BY <1>1, <2>1, <2>2, <2>3, <2>4 DEF OnePlace
<1> QED
  BY <1>11, <1>13, <1>14

\* An attempt fails: the send is tried again or given up.
Attempted ==
  /\ sending.todo # {} /\ sending' \in Sends
  /\ \/ ~sending.end /\ sending' = Idle
     \/ /\ sending'.run = sending.run /\ (sending'.end <=> sending.end)
        /\ \/ sending'.todo = sending.todo
           \/ sending'.todo = {} /\ sending.run \in broken'
        /\ sending'.fresh => sending'.token # None
  /\ broken \subseteq broken' /\ broken' \subseteq Runs
  /\ faults' \in Nat
  /\ Unchanged

\* A failure that is only logged.
LEMMA BrokenAttempted ==
  ASSUME IInv, SendBroken
  PROVE  Attempted
<1>1. TypeOK /\ Targeted
  BY DEF IInv, Control
<1>2. /\ sending.todo # {} /\ sending' = Given /\ Unchanged
      /\ broken' = broken \union {sending.run} /\ faults' = faults + 1
  BY DEF SendBroken, Fault
<1>3. sending.run \in Runs
  BY <1>2, Sender
<1>4. broken \subseteq Runs /\ faults' \in Nat
  BY <1>1, <1>2 DEF TypeOK
<1>5. sending.fresh => sending.token # None
  BY <1>1 DEF Targeted
<1> QED
  BY <1>2, <1>3, <1>4, <1>5, GivenFacts DEF Attempted

\* A failed attempt is tried again, or its batch goes to the store.
LEMMA RetryAttempted ==
  ASSUME IInv, SendTransient \/ SendRejected
  PROVE  Attempted \/ (Defer /\ sending.todo # {} /\ ~Mute /\ faults' \in Nat)
<1>1. TypeOK /\ Targeted
  BY DEF IInv, Control
<1>2. sending \in Sends /\ token \in Tokens /\ faults \in Nat /\ broken \subseteq Runs
  BY <1>1 DEF TypeOK
<1>3. sending.fresh => sending.token # None
  BY <1>1 DEF Targeted
<1>4. faults' \in Nat /\ sending.todo # {} /\ ~Mute
  BY <1>2 DEF SendTransient, SendRejected, Fault
<1>5. CASE SendTransient
  <2>1. CASE Defer
    BY <1>4, <2>1
  <2>2. CASE /\ sending' = [sending EXCEPT !.tries = @ + 1]
             /\ UNCHANGED broken /\ Unchanged
    <3>1. /\ sending' \in Sends /\ sending'.run = sending.run /\ sending'.end = sending.end
          /\ sending'.todo = sending.todo /\ sending'.fresh = sending.fresh
          /\ sending'.token = sending.token
      BY <1>2, <2>2 DEF Sends
    <3> QED
      BY <1>2, <1>3, <1>4, <2>2, <3>1 DEF Attempted
  <2> QED
    BY <1>5, <2>1, <2>2 DEF SendTransient
<1>6. CASE SendRejected
  <2>1. CASE Defer
    BY <1>4, <2>1
  <2>2. CASE /\ sending' = [sending EXCEPT !.token = token, !.tries = 0, !.fresh = TRUE]
             /\ token # None
             /\ UNCHANGED broken /\ Unchanged
    <3>1. /\ sending' \in Sends /\ sending'.run = sending.run /\ sending'.end = sending.end
          /\ sending'.todo = sending.todo /\ sending'.token = token
      BY <1>2, <2>2 DEF Sends
    <3> QED
      BY <1>2, <1>4, <2>2, <3>1 DEF Attempted
  <2> QED
    BY <1>6, <2>1, <2>2 DEF SendRejected
<1> QED
  BY <1>5, <1>6

\* A failed attempt preserves the invariant.
LEMMA AttemptedIInv ==
  ASSUME IInv, Attempted
  PROVE  IInv'
<1>1. TypeOK /\ RunsBegun /\ OneActive /\ Silence /\ AtSend /\ Targeted /\ Known
  BY DEF IInv, Control
<1>2. SentOnce /\ OnePlace /\ CompactUnseen /\ NoGaps
  BY DEF IInv, Placed
<1>3. PICK r \in Runs : r = sending.run
  BY Sender DEF Attempted
<1>4. /\ sending # Idle /\ compacting = None /\ run[r].kind # "compact" /\ r # None
  BY <1>3, Sender DEF Attempted
<1>5. /\ \/ ~sending.end /\ sending' = Idle
         \/ /\ sending'.run = r /\ (sending'.end <=> sending.end)
            /\ sending'.todo = sending.todo \/ (sending'.todo = {} /\ r \in broken')
            /\ sending'.fresh => sending'.token # None
      /\ broken \subseteq broken'
  BY <1>3 DEF Attempted
<1>6. /\ UNCHANGED <<runtime, nrun, inbound, waiting, token, restarts, run, deferred,
                     superseded, prefix, binding, turnTarget, suppressed,
                     compacting, st, cls, acked, kept>>
  BY DEF Attempted, Unchanged, turns
<1>7. Idle.run = None /\ Idle.todo = {} /\ ~Idle.fresh /\ ~Idle.end
  BY DEF Idle
<1>8. TypeOK'
  BY <1>1 DEF TypeOK, Attempted, Unchanged, turns
<1>9. sending'.todo \subseteq sending.todo /\ sending'.run \in {None, r}
  BY <1>5, <1>7
<1>10. RunsBegun'
  BY <1>1, <1>4, <1>6 DEF RunsBegun
<1>11. \A q \in Runs : Active(q)' => Active(q)
  BY <1>3, <1>6, <1>9 DEF Active
<1>12. OneActive'
  BY <1>1, <1>4, <1>6, <1>11 DEF OneActive
<1>13. Silence'
  BY <1>1, <1>4, <1>6, <1>9 DEF Silence
<1>14. AtSend'
  <2>1. CASE sending' = Idle
    BY <1>7, <2>1 DEF AtSend
  <2>2. CASE sending' # Idle
    <3>1. /\ r <= nrun /\ st[r].here /\ run[r].turn # "none"
          /\ sending.todo \subseteq st[r].known \ st[r].sent
          /\ sending.end <=> run[r].turn = "over"
          /\ ~sending.end => Provider(r) = "weixin" /\ sending.todo \subseteq 1..run[r].done
      BY <1>1, <1>3, <1>4 DEF AtSend
    <3>2. sending'.run = r /\ (sending'.end <=> sending.end)
      BY <1>5, <2>2
    <3>3. Provider(r)' = Provider(r)
      BY <1>6 DEF Provider
    <3>4. sending'.todo \subseteq st[r].known \ st[r].sent
          /\ (~sending'.end => sending'.todo \subseteq 1..run[r].done)
      BY <1>9, <3>1, <3>2
    <3> QED
      BY <1>4, <1>6, <3>1, <3>2, <3>3, <3>4 DEF AtSend
  <2> QED
    BY <2>1, <2>2
<1>15. Targeted'
  <2>1. \A q \in Runs : Provider(q)' = Provider(q)
    BY <1>6 DEF Provider
  <2>2. sending'.fresh => sending'.token # None
    BY <1>5, <1>7
  <2> QED
    BY <1>1, <1>6, <2>1, <2>2 DEF Targeted
<1>16. Known'
  BY <1>1, <1>6 DEF Known
<1>17. \A p \in Pieces : Out(p)' <=> Out(p)
  BY <1>6 DEF Out
<1>18. SentOnce'
  <2>1. \A q \in Runs, i \in Items : CanSend(q, i)' => CanSend(q, i)
    BY <1>3, <1>4, <1>6, <1>9 DEF CanSend
  <2> QED
    BY <1>2, <1>17, <2>1 DEF SentOnce
<1>19. OnePlace'
  BY <1>2, <1>6 DEF OnePlace
<1>20. CompactUnseen'
  BY <1>2, <1>6, <1>17 DEF CompactUnseen
<1>21. NoGaps'
  <2>1. sending'.run # None =>
          /\ sending'.run = r /\ (sending'.end <=> sending.end)
          /\ sending'.todo = sending.todo \/ (sending'.todo = {} /\ r \in broken')
    BY <1>5, <1>7
  <2> SUFFICES ASSUME NEW q \in Runs, run[q].kind = "user"
               PROVE  /\ restarts = 0 /\ sending'.run = q =>
                                \A i, j \in Items :
                                  /\ j \in sending'.todo /\ i < j
                                  /\ i \in st[q].known /\ i \notin st[q].sent
                                  => i \in sending'.todo
                      /\ sending'.run = q /\ sending'.end /\ ~st[q].suppress /\ q \notin broken' =>
                           st[q].known \subseteq st[q].sent \union sending'.todo
    BY <1>2, <1>6, <1>17 DEF NoGaps
  <2>2. q # None
    OBVIOUS
  <2> QED
    BY <1>2, <1>3, <1>5, <2>1, <2>2 DEF NoGaps
<1> QED
  BY <1>8, <1>10, <1>12, <1>13, <1>14, <1>15, <1>16, <1>18, <1>19, <1>20, <1>21
     DEF IInv, Control, Placed

-----------------------------------------------------------------------------
\* Runs that begin.

\* The run n begins; a recovery supersedes another one.
Begins(n) ==
  /\ n = nrun + 1 /\ n \in Runs /\ nrun' = n
  /\ run' \in [Runs -> RunRecords]
  /\ \A q \in Runs : q # n => run'[q] = run[q]
  /\ run'[n].kind \in {"user", "system", "compact"}
  /\ run'[n].stage \in {"sending", "accepted"}
  /\ run'[n].turn = "none" /\ run'[n].done = 0
  /\ run'[n].kind = "user" => inbound > 0
  /\ run'[n].kind # "system" => \A q \in Runs : Active(q) => q \in superseded'
  /\ suppressed > 0 => run'[n].kind = "compact"
  /\ run'[n].kind = "compact" => suppressed > 0
  /\ compacting' = None /\ waiting' \in {waiting, None}
  /\ superseded \subseteq superseded' /\ superseded' \subseteq 1..nrun
  /\ runtime = "claudecode" => superseded' = {}
  /\ st' \in [Runs -> States] /\ st'[n] = st[n]
  /\ \A q \in Runs :
       /\ st'[q].here = st[q].here /\ st'[q].target = st[q].target
       /\ st'[q].prefix = st[q].prefix
       /\ st'[q].known = st[q].known /\ st'[q].sent = st[q].sent
       /\ st[q].suppress => st'[q].suppress
       /\ st'[q] = st[q] \/ (st[q].here /\ q \in superseded')
  /\ turnTarget' \in [Runs -> Targets]
  /\ \A q \in Runs : turnTarget'[q] \in {turnTarget[q], NoTarget}
  /\ deferred' \in [Runs -> SUBSET Pieces]
  /\ \A q \in Runs : deferred'[q] \subseteq deferred[q]
  /\ bound' \in [Runs -> Tokens] /\ faults' \in Nat
  /\ UNCHANGED <<runtime, inbound, token, restarts, prefix, binding, suppressed,
                 sending, cls, history>>

\* A new run keeps the runs, the chain and the targets in order.
LEMMA BeginsControl ==
  ASSUME IInv, NEW n \in Runs, Begins(n)
  PROVE  Control'
<1>1. TypeOK /\ RunsBegun /\ OneActive /\ Silence /\ AtSend /\ Targeted /\ Known
  BY DEF IInv, Control
<1>2. /\ n = nrun + 1 /\ nrun' = n /\ nrun \in Nat
      /\ \A q \in Runs : q # n => run'[q] = run[q]
      /\ compacting' = None /\ waiting' \in {waiting, None}
      /\ superseded \subseteq superseded' /\ superseded' \subseteq 1..nrun
      /\ runtime = "claudecode" => superseded' = {}
      /\ st'[n] = st[n]
      /\ UNCHANGED <<runtime, inbound, token, restarts, prefix, binding, suppressed,
                     sending>>
  BY <1>1 DEF Begins, TypeOK
<1>3. /\ \A q \in Runs : q > nrun => run[q] = NoRun /\ st[q] = NoState
                                     /\ turnTarget[q] = NoTarget /\ q \notin superseded
      /\ \A q \in Runs : q <= nrun => run[q].stage # "unused" /\ run[q].kind # "none"
  BY <1>1 DEF RunsBegun
<1>4. /\ run[n] = NoRun /\ st[n] = NoState /\ turnTarget[n] = NoTarget
      /\ NoRun.turn = "none" /\ NoRun.kind = "none" /\ NoRun.done = 0
      /\ NoState.here = FALSE
      /\ NoState.known = {} /\ NoState.sent = {} 
  <2>1. n > nrun
    BY <1>2
  <2> QED
    BY <1>3, <2>1 DEF NoRun, NoState
<1>5. /\ run'[n].kind \in {"user", "system", "compact"}
      /\ run'[n].stage \in {"sending", "accepted"}
      /\ run'[n].turn = "none" /\ run'[n].done = 0
  BY DEF Begins
<1>6. sending.run # n
  <2>1. sending.run = None \/ sending.run <= nrun
    BY <1>1 DEF AtSend
  <2> QED
    BY <1>2, <2>1
<1>7. n \notin superseded'
  BY <1>2
<1>8. RunsBegun'
  <2>1. ASSUME NEW q \in Runs, q > n
        PROVE  /\ run'[q] = NoRun /\ st'[q] = NoState
               /\ turnTarget'[q] = NoTarget /\ q \notin superseded'
    <3>1. q > nrun /\ q # n
      BY <1>2, <2>1
    <3>2. q \notin superseded'
      BY <1>2, <3>1
    <3>3. st'[q] = st[q] /\ turnTarget'[q] \in {turnTarget[q], NoTarget}
      BY <1>2, <1>3, <1>4, <3>1 DEF Begins
    <3> QED
      BY <1>2, <1>3, <3>1, <3>2, <3>3
  <2>2. ASSUME NEW q \in Runs, q <= n
        PROVE  run'[q].stage # "unused" /\ run'[q].kind # "none"
    <3>1. CASE q = n
      BY <1>5, <3>1
    <3>2. CASE q # n
      <4>1. q <= nrun
        BY <1>2, <2>2, <3>2
      <4> QED
        BY <1>2, <1>3, <3>2, <4>1
    <3> QED
      BY <3>1, <3>2
  <2> QED
    BY <1>2, <2>1, <2>2 DEF RunsBegun
<1>9. \A q \in Runs : q # n /\ Active(q)' => Active(q) /\ q \notin superseded'
  BY <1>2 DEF Active
<1>10. OneActive'
  <2>1. \A q \in Runs : Active(q)' => run'[q].stage \in {"sending", "accepted"}
    BY <1>1, <1>2, <1>5, <1>9 DEF OneActive
  <2>2. Active(n)' => \A q \in Runs : Active(q) => q \in superseded'
    BY DEF Active, Begins
  <2> QED
    BY <1>1, <1>2, <1>9, <2>1, <2>2 DEF OneActive
<1>11. Silence'
  <2>1. suppressed > 0 => suppressed = 1 /\ runtime = "claudecode" /\ run'[n].kind = "compact"
    BY <1>1 DEF Silence, Begins
  <2>2. \A q \in Runs : st'[q] = st[q] \/ (st[q].here /\ q \in superseded')
    BY DEF Begins
  <2>3. run'[n].kind = "compact" => suppressed > 0
    BY DEF Begins
  <2>4. ASSUME NEW q \in Runs, q # n
        PROVE  /\ run'[q].kind = "compact" =>
                    /\ runtime = "claudecode"
                    /\ run'[q].turn = "none" => suppressed > 0
                    /\ st'[q].here => st'[q].suppress
                    /\ run'[q].turn = "live" => st'[q].here
                    /\ sending.run = q => sending.todo = {}
               /\ st'[q].here /\ st'[q].suppress /\ run'[q].kind = "user" =>
                    q \in superseded'
    <3>1. run'[q] = run[q]
      BY <1>2, <2>4
    <3>2. CASE st'[q] = st[q]
      BY <1>1, <1>2, <3>1, <3>2 DEF Silence
    <3>3. CASE st[q].here /\ q \in superseded'
      BY <1>1, <1>2, <3>1, <3>3 DEF Silence
    <3> QED
      BY <2>2, <3>2, <3>3
  <2> QED
    BY <1>2, <1>4, <1>5, <1>6, <2>1, <2>3, <2>4 DEF Silence
<1>12. AtSend'
  <2>1. \A q \in Runs : q # n => Provider(q)' = Provider(q)
    BY <1>2 DEF Provider
  <2>2. ASSUME sending.run # None
        PROVE  LET r == sending.run
               IN /\ r \in Runs /\ r # n /\ r <= nrun /\ st[r].here /\ run[r].turn # "none"
                  /\ sending.todo \subseteq st[r].known \ st[r].sent
                  /\ sending.end <=> run[r].turn = "over"
                  /\ ~sending.end => /\ Provider(r) = "weixin"
                                     /\ sending.todo \subseteq 1..run[r].done
    <3>1. sending.run \in Runs
      BY <1>1, <2>2 DEF TypeOK, Sends
    <3> QED
      BY <1>1, <1>6, <2>2, <3>1 DEF AtSend
  <2>3. ASSUME NEW r \in Runs, sending.run = r, r # n
        PROVE  /\ run'[r] = run[r] /\ st'[r].here = st[r].here
               /\ st'[r].known = st[r].known /\ st'[r].sent = st[r].sent
               /\ Provider(r)' = Provider(r)
    BY <1>2, <2>1, <2>3 DEF Begins
  <2>4. \A r \in Runs : r <= nrun => r <= n
    BY <1>2
  <2>5. sending.run = None => sending = Idle
    BY <1>1 DEF AtSend
  <2>6. CASE sending.run = None
    BY <1>2, <2>5, <2>6 DEF AtSend
  <2>7. CASE sending.run # None
    <3>1. PICK r \in Runs : r = sending.run
      BY <2>2, <2>7
    <3>2. r # n /\ sending'.run = r /\ r <= n
      BY <1>2, <1>6, <2>2, <2>4, <2>7, <3>1
    <3>3. /\ st'[r].here /\ run'[r].turn # "none"
          /\ sending.todo \subseteq st'[r].known \ st'[r].sent
          /\ sending.end <=> run'[r].turn = "over"
          /\ ~sending.end => /\ Provider(r)' = "weixin"
                             /\ sending.todo \subseteq 1..run'[r].done
      BY <2>2, <2>3, <2>7, <3>1, <3>2
    <3> QED
      BY <1>2, <2>7, <3>1, <3>2, <3>3 DEF AtSend
  <2> QED
    BY <2>6, <2>7
<1>13. Targeted'
  <2>1. \A q \in Runs : q # n => Provider(q)' = Provider(q)
    BY <1>2 DEF Provider
  <2>2. ASSUME NEW q \in Runs
        PROVE  /\ run'[q].kind = "user" => inbound > 0
               /\ turnTarget'[q] # NoTarget => turnTarget'[q].provider = Provider(q)'
               /\ st'[q].here =>
                    /\ st'[q].target.provider \in {"none", Provider(q)'}
                    /\ run'[q].kind = "user" => st'[q].target.provider = "weixin"
    <3>1. CASE q = n
      BY <1>2, <1>4, <3>1 DEF Begins
    <3>2. CASE q # n
      <4>1. /\ run'[q] = run[q] /\ turnTarget'[q] \in {turnTarget[q], NoTarget}
            /\ st'[q].here = st[q].here /\ st'[q].target = st[q].target
            /\ Provider(q)' = Provider(q)
        BY <1>2, <2>1, <3>2 DEF Begins
      <4> QED
        BY <1>1, <4>1 DEF Targeted
    <3> QED
      BY <3>1, <3>2
  <2> QED
    BY <1>1, <1>2, <2>2 DEF Targeted
<1>14. Known'
  <2>1. ASSUME NEW q \in Runs
        PROVE  /\ run'[q].turn = "none" => run'[q].done = 0 /\ ~st'[q].here
               /\ st'[q].known \subseteq 1..(run'[q].done + 1)
               /\ run'[q].turn # "over" => st'[q].sent \subseteq 1..run'[q].done
               /\ run'[q].kind = "system" /\ run'[q].turn # "over" => st'[q].sent = {}
               /\ ~st'[q].here => st'[q] = NoState
               /\ restarts = 0 /\ run'[q].kind = "user" =>
                    /\ run'[q].turn = "live" /\ q \notin superseded' => st'[q].here
                    /\ st'[q].here => 1..run'[q].done \subseteq st'[q].known
    <3>1. CASE q = n
      BY <1>2, <1>4, <1>5, <3>1
    <3>2. CASE q # n
      <4>1. /\ run'[q] = run[q] /\ st'[q].here = st[q].here
            /\ st'[q].known = st[q].known /\ st'[q].sent = st[q].sent
            /\ st'[q] = st[q] \/ st[q].here
        BY <1>2, <3>2 DEF Begins
      <4> QED
        BY <1>1, <1>2, <4>1 DEF Known
    <3> QED
      BY <3>1, <3>2
  <2> QED
    BY <1>2, <2>1 DEF Known
<1> QED
  BY <1>8, <1>10, <1>11, <1>12, <1>13, <1>14 DEF Control

\* A new run keeps every piece in its place.
LEMMA BeginsPlaced ==
  ASSUME IInv, NEW n \in Runs, Begins(n)
  PROVE  Placed'
<1>1. TypeOK /\ RunsBegun /\ AtSend /\ SentOnce /\ OnePlace /\ CompactUnseen /\ NoGaps
  BY DEF IInv, Placed, Control
<1>2. /\ n = nrun + 1 /\ nrun \in Nat
      /\ \A q \in Runs : q # n => run'[q] = run[q]
      /\ run'[n].turn = "none" /\ run'[n].done = 0
      /\ \A q \in Runs : /\ st'[q].prefix = st[q].prefix
                         /\ st'[q].known = st[q].known /\ st'[q].sent = st[q].sent
                         /\ st[q].suppress => st'[q].suppress
      /\ \A q \in Runs : deferred'[q] \subseteq deferred[q]
      /\ UNCHANGED <<restarts, prefix, sending, cls, acked, broken, kept>>
  BY <1>1 DEF Begins, TypeOK, history
<1>3. run[n] = NoRun /\ st[n] = NoState
  <2>1. n > nrun
    BY <1>2
  <2> QED
    BY <1>1, <2>1 DEF RunsBegun
<1>4. NoRun.turn = "none" /\ NoRun.done = 0 /\ NoState.known = {} /\ NoState.sent = {}
  BY DEF NoRun, NoState
<1>5. sending.run # n
  <2>1. sending.run = None \/ sending.run <= nrun
    BY <1>1 DEF AtSend
  <2> QED
    BY <1>2, <2>1
<1>6. \A p \in Pieces : Out(p)' <=> Out(p)
  BY <1>2 DEF Out
<1>7. \A i \in Items : ~Out(<<n, i>>)
  <2>1. \A i \in Items : i > run[n].done /\ run[n].turn # "over"
    BY <1>3, <1>4
  <2>2. \A i \in Items : CanSend(n, i)
    BY <2>1 DEF CanSend
  <2> QED
    BY <1>1, <2>2 DEF SentOnce
<1>8. SentOnce'
  <2>1. \A q \in Runs, i \in Items : q # n /\ CanSend(q, i)' => CanSend(q, i)
    BY <1>2 DEF CanSend
  <2> QED
    BY <1>1, <1>6, <1>7, <2>1 DEF SentOnce
<1>9. OnePlace'
  BY <1>1, <1>2 DEF OnePlace
<1>10. CompactUnseen'
  <2>1. ASSUME NEW q \in Runs, NEW i \in Items, run'[q].kind = "compact"
        PROVE  ~Out(<<q, i>>)'
    <3>1. CASE q = n
      BY <1>6, <1>7, <3>1
    <3>2. CASE q # n
      BY <1>1, <1>2, <1>6, <2>1, <3>2 DEF CompactUnseen
    <3> QED
      BY <3>1, <3>2
  <2> QED
    BY <2>1 DEF CompactUnseen
<1>11. NoGaps'
  <2> SUFFICES ASSUME NEW q \in Runs, run'[q].kind = "user"
               PROVE  /\ \A i \in Items : 
                           i \in st[q].sent /\ cls[<<q, i>>] = "text" => Out(<<q, i>>)
                      /\ restarts = 0 =>
                           /\ \A i, j \in Items :
                                Out(<<q, j>>) /\ i < j /\ cls[<<q, i>>] = "text" => Out(<<q, i>>)
                           /\ sending.run = q =>
                                \A i, j \in Items :
                                  /\ j \in sending.todo /\ i < j
                                  /\ i \in st[q].known /\ i \notin st[q].sent
                                  => i \in sending.todo
                      /\ sending.run = q /\ sending.end /\ ~st[q].suppress /\ q \notin broken =>
                           st[q].known \subseteq st[q].sent \union sending.todo
    BY <1>2, <1>6 DEF NoGaps
  <2>1. CASE q = n
    BY <1>3, <1>4, <1>5, <1>7, <2>1
  <2>2. CASE q # n
    BY <1>1, <1>2, <2>2 DEF NoGaps
  <2> QED
    BY <2>1, <2>2
<1> QED
  BY <1>8, <1>9, <1>10, <1>11 DEF Placed

\* A new run preserves the invariant.
LEMMA BeginsIInv ==
  ASSUME IInv, NEW n \in Runs, Begins(n)
  PROVE  IInv'
<1>1. TypeOK
  BY DEF IInv
<1>2. compacting' \in 0..NRun /\ waiting' \in Tokens /\ superseded' \in SUBSET Runs
      /\ nrun' \in 0..NRun
  BY <1>1 DEF TypeOK, Begins
<1>3. TypeOK'
  BY <1>1, <1>2 DEF TypeOK, Begins, history
<1> QED
  BY <1>3, BeginsControl, BeginsPlaced DEF IInv

\* A new run.
LEMMA NewRun ==
  ASSUME TypeOK, nrun + 1 \in Runs, NEW x \in RunRecords,
         x.turn = "none", x.done = 0, run' = [run EXCEPT ![nrun + 1] = x]
  PROVE  /\ run' \in [Runs -> RunRecords] /\ run'[nrun + 1] = x
         /\ \A q \in Runs : q # nrun + 1 => run'[q] = run[q]
BY DEF TypeOK

Fresh(k, c, g, t, s) ==
  [NoRun EXCEPT !.kind = k, !.cause = c, !.gen = g, !.token = t, !.stage = s]

\* The record of a new run.
LEMMA NewRecord ==
  \A k \in {"user", "system", "compact"}, c \in Tokens, g \in Gens, t \in Tokens,
     s \in {"sending", "accepted"} :
       LET x == Fresh(k, c, g, t, s)
       IN x \in RunRecords /\ x.kind = k /\ x.stage = s /\ x.turn = "none" /\ x.done = 0
<1> TAKE k \in {"user", "system", "compact"}, c \in Tokens, g \in Gens, t \in Tokens,
         s \in {"sending", "accepted"}
<1> DEFINE x == [NoRun EXCEPT !.kind = k, !.cause = c, !.gen = g, !.token = t, !.stage = s]
<1>1. k \in Kinds /\ s \in Stages
  BY DEF Kinds, Stages
<1>2. NoRun \in RunRecords /\ NoRun.turn = "none" /\ NoRun.done = 0
  BY FirstValues DEF NoRun
<1> HIDE DEF Tokens
<1>3. x \in RunRecords /\ x.kind = k /\ x.stage = s /\ x.turn = NoRun.turn /\ x.done = NoRun.done
  BY <1>1, <1>2 DEF RunRecords
<1> QED
  BY <1>2, <1>3 DEF Fresh

\* A run of the user's thread whose events matter holds its gate.
LEMMA ActiveOpen ==
  ASSUME IInv, NEW q \in Runs, Active(q)
  PROVE  Open(q)
BY DEF IInv, Control, OneActive, Active, Open

\* While no run of the user's thread is open nothing is suppressed.
LEMMA Quiet ==
  ASSUME IInv, ~Busy({"user", "compact"}), compacting = None
  PROVE  suppressed = 0 /\ \A q \in Runs : ~Active(q)
<1>1. \A q \in Runs : ~Active(q)
  BY ActiveOpen DEF Busy, Active
<1>2. suppressed > 0 => nrun \in Runs /\ Active(nrun)
  BY DEF IInv, Control, Silence, RunsBegun, Active
<1> QED
  BY <1>1, <1>2 DEF IInv, TypeOK

\* The dispatch of a message begins a run.
LEMMA UserBegins ==
  ASSUME IInv, DispatchUser
  PROVE  nrun + 1 \in Runs /\ Begins(nrun + 1)
<1>1. TypeOK /\ RunsBegun /\ Targeted
  BY DEF IInv, Control
<1> DEFINE x == [NoRun EXCEPT !.kind = "user", !.cause = waiting, !.gen = 0,
                              !.token = waiting, !.stage = "sending"]
<1>2. /\ waiting # None /\ ~Busy({"user", "compact"}) /\ compacting = None
      /\ nrun < NRun /\ nrun' = nrun + 1
      /\ run' = [run EXCEPT ![nrun + 1] = x]
      /\ waiting' = None
      /\ UNCHANGED <<runtime, inbound, deferred, bound, superseded, token, prefix,
                     binding, turnTarget, suppressed, compacting, st, sending,
                     faults, restarts, cls, history>>
  BY DEF DispatchUser, Begun
<1>3. nrun + 1 \in Runs
  BY <1>1, <1>2 DEF TypeOK
<1>4. /\ x \in RunRecords /\ x.kind = "user" /\ x.stage = "sending"
      /\ x.turn = "none" /\ x.done = 0
  <2>1. waiting \in Tokens /\ None \in Tokens /\ 0 \in Gens
    BY <1>1 DEF TypeOK, Gens
  <2>2. "user" \in {"user", "system", "compact"} /\ "sending" \in {"sending", "accepted"}
    OBVIOUS
  <2>3. x = Fresh("user", waiting, 0, waiting, "sending")
    BY DEF Fresh
  <2> HIDE DEF x
  <2> QED
    BY <2>1, <2>2, <2>3, NewRecord
<1> HIDE DEF x
<1>5. /\ run' \in [Runs -> RunRecords] /\ run'[nrun + 1] = x
      /\ \A q \in Runs : q # nrun + 1 => run'[q] = run[q]
  BY <1>1, <1>2, <1>3, <1>4, NewRun
<1>6. suppressed = 0 /\ \A q \in Runs : ~Active(q)
  BY <1>2, Quiet
<1>7. inbound > 0
  BY <1>1, <1>2 DEF Targeted
<1>8. superseded \subseteq 1..nrun
  BY <1>1 DEF RunsBegun, TypeOK
<1>9. /\ st \in [Runs -> States] /\ turnTarget \in [Runs -> Targets]
      /\ deferred \in [Runs -> SUBSET Pieces] /\ bound \in [Runs -> Tokens] /\ faults \in Nat
  BY <1>1 DEF TypeOK
<1>10. runtime = "claudecode" => superseded = {}
  BY <1>1 DEF RunsBegun
<1> QED
  BY <1>2, <1>3, <1>4, <1>5, <1>6, <1>7, <1>8, <1>9, <1>10 DEF Begins

\* The dispatch of a system message begins a run.
LEMMA SystemBegins ==
  ASSUME IInv, DispatchSystem
  PROVE  nrun + 1 \in Runs /\ Begins(nrun + 1)
<1>1. TypeOK /\ RunsBegun /\ Targeted
  BY DEF IInv, Control
<1> DEFINE x == [NoRun EXCEPT !.kind = "system", !.cause = None, !.gen = 0,
                              !.token = token, !.stage = "sending"]
<1>2. /\ ~Busy({"user", "compact", "system"}) /\ compacting = None
      /\ nrun < NRun /\ nrun' = nrun + 1
      /\ run' = [run EXCEPT ![nrun + 1] = x]
      /\ UNCHANGED <<runtime, inbound, waiting, deferred, bound, superseded, token, prefix,
                     binding, turnTarget, suppressed, compacting, st, sending,
                     faults, restarts, cls, history>>
  BY DEF DispatchSystem, Begun
<1>3. nrun + 1 \in Runs
  BY <1>1, <1>2 DEF TypeOK
<1>4. /\ x \in RunRecords /\ x.kind = "system" /\ x.stage = "sending"
      /\ x.turn = "none" /\ x.done = 0
  <2>1. token \in Tokens /\ None \in Tokens /\ 0 \in Gens
    BY <1>1 DEF TypeOK, Gens
  <2>2. "system" \in {"user", "system", "compact"} /\ "sending" \in {"sending", "accepted"}
    OBVIOUS
  <2>3. x = Fresh("system", None, 0, token, "sending")
    BY DEF Fresh
  <2> HIDE DEF x
  <2> QED
    BY <2>1, <2>2, <2>3, NewRecord
<1> HIDE DEF x
<1>5. /\ run' \in [Runs -> RunRecords] /\ run'[nrun + 1] = x
      /\ \A q \in Runs : q # nrun + 1 => run'[q] = run[q]
  BY <1>1, <1>2, <1>3, <1>4, NewRun
<1>6. suppressed = 0 /\ \A q \in Runs : ~Active(q)
  <2>1. ~Busy({"user", "compact"})
    BY <1>2 DEF Busy
  <2> QED
    BY <1>2, <2>1, Quiet
<1>7. superseded \subseteq 1..nrun
  BY <1>1 DEF RunsBegun, TypeOK
<1>8. /\ st \in [Runs -> States] /\ turnTarget \in [Runs -> Targets]
      /\ deferred \in [Runs -> SUBSET Pieces] /\ bound \in [Runs -> Tokens] /\ faults \in Nat
  BY <1>1 DEF TypeOK
<1>9. runtime = "claudecode" => superseded = {}
  BY <1>1 DEF RunsBegun
<1> QED
  BY <1>2, <1>3, <1>4, <1>5, <1>6, <1>7, <1>8, <1>9 DEF Begins

\* A recovery supersedes its run and begins another.
LEMMA RecoverBegins ==
  ASSUME IInv, NEW r \in Runs, Recover(r)
  PROVE  nrun + 1 \in Runs /\ Begins(nrun + 1)
<1>1. TypeOK /\ RunsBegun /\ Targeted /\ OneActive /\ Silence
  BY DEF IInv, Control
<1> DEFINE x == [NoRun EXCEPT !.kind = "user", !.cause = run[r].cause, !.gen = 1,
                              !.token = run[r].token, !.stage = "sending"]
<1>2. /\ runtime = "codex" /\ run[r].kind = "user" /\ Open(r)
      /\ run[r].turn = "none" \/ (run[r].turn = "over" /\ sending.run = r)
      /\ nrun < NRun /\ nrun' = nrun + 1
      /\ run' = [run EXCEPT ![nrun + 1] = x]
      /\ superseded' = superseded \union {r}
      /\ st' = IF st[r].here THEN [st EXCEPT ![r].suppress = TRUE] ELSE st
      /\ turnTarget' = [turnTarget EXCEPT ![r] = NoTarget]
      /\ deferred' = [deferred EXCEPT ![r] = {}]
      /\ bound' = [bound EXCEPT ![r] = None]
      /\ faults' = faults + 1
      /\ UNCHANGED <<runtime, inbound, waiting, token, prefix, binding, suppressed,
                     compacting, sending, restarts, cls, history>>
  BY DEF Recover, Fault
<1>3. nrun + 1 \in Runs /\ nrun \in Nat
  <2>1. nrun \in 0..NRun
    BY <1>1 DEF TypeOK
  <2>2. nrun < NRun
    BY <1>2
  <2> HIDE DEF x
  <2> QED
    BY <2>1, <2>2
<1>4. /\ x \in RunRecords /\ x.kind = "user" /\ x.stage = "sending"
      /\ x.turn = "none" /\ x.done = 0
  <2>1. run[r].cause \in Tokens /\ run[r].token \in Tokens /\ 1 \in Gens
    BY <1>1 DEF TypeOK, RunRecords, Gens
  <2>2. "user" \in {"user", "system", "compact"} /\ "sending" \in {"sending", "accepted"}
    OBVIOUS
  <2>3. x = Fresh("user", run[r].cause, 1, run[r].token, "sending")
    BY DEF Fresh
  <2> HIDE DEF x
  <2> QED
    BY <2>1, <2>2, <2>3, NewRecord
<1> HIDE DEF x
<1>5. /\ run' \in [Runs -> RunRecords] /\ run'[nrun + 1] = x
      /\ \A q \in Runs : q # nrun + 1 => run'[q] = run[q]
  BY <1>1, <1>2, <1>3, <1>4, NewRun
<1>6. r <= nrun
  <2>1. r > nrun => run[r] = NoRun
    BY <1>1 DEF RunsBegun
  <2> QED
    BY <1>2, <1>3, <2>1 DEF NoRun
<1>7. suppressed = 0 /\ compacting = None
  <2>1. suppressed \in Nat
    BY <1>1 DEF TypeOK
  <2>2. ~(suppressed > 0)
    BY <1>1, <1>2 DEF Silence
  <2>3. compacting = None
    BY <1>1, <2>2 DEF Silence
  <2> QED
    BY <2>1, <2>2, <2>3
<1>8. \A q \in Runs : Active(q) => q \in superseded'
  <2>1. Active(r)
    BY <1>2 DEF Active, Open
  <2> QED
    BY <1>1, <1>2, <2>1 DEF OneActive
<1>9. inbound > 0
  BY <1>1, <1>2 DEF Targeted
<1>10. superseded' \subseteq 1..nrun
  <2>1. superseded \subseteq 1..nrun
    BY <1>1 DEF RunsBegun, TypeOK
  <2> QED
    BY <1>2, <1>3, <1>6, <2>1
<1>11. /\ st' \in [Runs -> States] /\ st'[nrun + 1] = st[nrun + 1]
       /\ \A q \in Runs :
            /\ st'[q].here = st[q].here /\ st'[q].target = st[q].target
            /\ st'[q].prefix = st[q].prefix
            /\ st'[q].known = st[q].known /\ st'[q].sent = st[q].sent
            /\ st[q].suppress => st'[q].suppress
            /\ st'[q] = st[q] \/ (st[q].here /\ q \in superseded')
  <2>1. st \in [Runs -> States] /\ st[r] \in States
    BY <1>1 DEF TypeOK
  <2>2. CASE ~st[r].here
    <3>1. st' = st
      BY <1>2, <2>2
    <3> QED
      BY <2>1, <3>1
  <2>3. CASE st[r].here
    <3> DEFINE a == [st[r] EXCEPT !.suppress = TRUE]
    <3>1. /\ a \in States /\ a.here = st[r].here /\ a.target = st[r].target
          /\ a.suppress /\ a.prefix = st[r].prefix
          /\ a.known = st[r].known /\ a.sent = st[r].sent
      BY <2>1, WithSuppress
    <3>2. st' = [st EXCEPT ![r] = a]
      BY <1>2, <2>1, <2>3
    <3> HIDE DEF a
    <3>3. nrun + 1 # r
      BY <1>3, <1>6
    <3> QED
      BY <1>2, <1>3, <2>1, <2>3, <3>1, <3>2, <3>3
  <2> QED
    BY <2>2, <2>3
<1>12. /\ turnTarget' \in [Runs -> Targets]
       /\ \A q \in Runs : turnTarget'[q] \in {turnTarget[q], NoTarget}
  BY <1>1, <1>2, FirstValues DEF TypeOK
<1>13. /\ deferred' \in [Runs -> SUBSET Pieces]
       /\ \A q \in Runs : deferred'[q] \subseteq deferred[q]
  BY <1>1, <1>2 DEF TypeOK
<1>14. bound' \in [Runs -> Tokens] /\ faults' \in Nat
  <2>1. bound \in [Runs -> Tokens] /\ faults \in Nat
    BY <1>1 DEF TypeOK
  <2>2. bound' = [bound EXCEPT ![r] = None] /\ faults' = faults + 1
    BY <1>2
  <2> QED
    BY <2>1, <2>2
<1> QED
  BY <1>2, <1>3, <1>4, <1>5, <1>7, <1>8, <1>9, <1>10, <1>11, <1>12, <1>13, <1>14 DEF Begins

\* A compaction that is announced begins a run.
LEMMA CompactBegins ==
  ASSUME IInv, CompactStarted
  PROVE  nrun + 1 \in Runs /\ Begins(nrun + 1)
<1>1. TypeOK /\ RunsBegun /\ OneActive /\ Silence
  BY DEF IInv, Control
<1> DEFINE x == [NoRun EXCEPT !.kind = "compact", !.token = token, !.stage = "accepted"]
<1>2. /\ compacting # None /\ compacting = nrun + 1 /\ nrun + 1 \in Runs
      /\ runtime = "claudecode" /\ superseded = {}
  BY <1>1 DEF CompactStarted, RunsBegun
<1>3. /\ nrun' = nrun + 1
      /\ run' = [run EXCEPT ![nrun + 1] = x]
      /\ compacting' = None
      /\ UNCHANGED <<runtime, inbound, waiting, deferred, bound, superseded, token,
                     prefix, binding, turnTarget, suppressed, st, sending, faults,
                     restarts, cls, history>>
  BY <1>2 DEF CompactStarted
<1>4. /\ x \in RunRecords /\ x.kind = "compact" /\ x.stage = "accepted"
      /\ x.turn = "none" /\ x.done = 0
  <2>1. token \in Tokens /\ "compact" \in Kinds /\ "accepted" \in Stages
    BY <1>1 DEF TypeOK, Kinds, Stages
  <2>2. NoRun \in RunRecords /\ NoRun.turn = "none" /\ NoRun.done = 0
    BY FirstValues DEF NoRun
  <2> HIDE DEF Tokens
  <2>3. /\ x \in RunRecords /\ x.kind = "compact" /\ x.stage = "accepted"
        /\ x.turn = NoRun.turn /\ x.done = NoRun.done
    BY <2>1, <2>2 DEF RunRecords
  <2> QED
    BY <2>2, <2>3
<1> HIDE DEF x
<1>5. /\ run' \in [Runs -> RunRecords] /\ run'[nrun + 1] = x
      /\ \A q \in Runs : q # nrun + 1 => run'[q] = run[q]
  BY <1>1, <1>2, <1>3, <1>4, NewRun
<1>6. suppressed > 0 /\ \A q \in Runs : ~Active(q)
  BY <1>1, <1>2 DEF Silence, OneActive
<1>7. /\ st \in [Runs -> States] /\ turnTarget \in [Runs -> Targets]
      /\ deferred \in [Runs -> SUBSET Pieces] /\ bound \in [Runs -> Tokens] /\ faults \in Nat
  BY <1>1 DEF TypeOK
<1> QED
  BY <1>2, <1>3, <1>4, <1>5, <1>6, <1>7 DEF Begins

-----------------------------------------------------------------------------
\* The other actions.

\* compactThread fails.
LEMMA CompactFailedIInv ==
  ASSUME IInv, CompactFailed
  PROVE  IInv'
<1>1. TypeOK /\ RunsBegun /\ OneActive /\ Silence /\ AtSend /\ Targeted /\ Known
  BY DEF IInv, Control
<1>2. SentOnce /\ OnePlace /\ CompactUnseen /\ NoGaps
  BY DEF IInv, Placed
<1>3. /\ compacting # None /\ compacting' = None /\ faults' = faults + 1
      /\ suppressed' = IF suppressed <= 1 THEN 0 ELSE suppressed - 1
      /\ UNCHANGED <<turns, run, deferred, bound, superseded, prefix, binding,
                     turnTarget, st, sending, cls, history>>
  BY DEF CompactFailed, Fault
<1>4. suppressed = 1 /\ suppressed' = 0 /\ \A q \in Runs : ~Active(q)
  BY <1>1, <1>3 DEF Silence, OneActive
<1>5. TypeOK'
  <2>1. faults' \in Nat /\ suppressed' \in Nat /\ compacting' \in 0..NRun
    BY <1>1, <1>3, <1>4 DEF TypeOK
  <2>2. UNCHANGED <<turns, run, deferred, bound, superseded, prefix, binding,
                    turnTarget, st, sending, cls, history>>
    BY <1>3
  <2> QED
    BY <1>1, <2>1, <2>2 DEF TypeOK, turns, history
<1>6. RunsBegun'
  BY <1>1, <1>3 DEF RunsBegun, turns
<1>7. \A q \in Runs : ~Active(q)'
  BY <1>3, <1>4 DEF Active
<1>8. OneActive'
  BY <1>3, <1>7 DEF OneActive
<1>9. Silence'
  <2>1. \A q \in Runs : run[q].kind = "compact" => run[q].turn = "over"
    BY <1>1, <1>3, <1>4 DEF Active, RunsBegun
  <2> QED
    BY <1>1, <1>3, <1>4, <2>1 DEF Silence, turns
<1>10. AtSend'
  BY <1>1, <1>3 DEF AtSend, Provider, turns
<1>11. Targeted'
  <2>1. \A q \in Runs : Provider(q)' = Provider(q)
    BY <1>3 DEF Provider
  <2> QED
    BY <1>1, <1>3, <2>1 DEF Targeted, turns
<1>12. Known'
  BY <1>1, <1>3 DEF Known, turns
<1>13. \A p \in Pieces : Out(p)' <=> Out(p)
  BY <1>3 DEF Out, history
<1>14. SentOnce'
  <2>1. \A q \in Runs, i \in Items : CanSend(q, i)' => CanSend(q, i)
    BY <1>3 DEF CanSend
  <2> QED
    BY <1>2, <1>13, <2>1 DEF SentOnce
<1>15. OnePlace'
  BY <1>2, <1>3 DEF OnePlace, history
<1>16. CompactUnseen' /\ NoGaps'
  BY <1>2, <1>3, <1>13 DEF CompactUnseen, NoGaps, turns, history
<1> QED
  BY <1>5, <1>6, <1>8, <1>9, <1>10, <1>11, <1>12, <1>14, <1>15, <1>16
     DEF IInv, Control, Placed

\* The answer to turn/start: only the stage of the run and its targets change.
LEMMA AcceptIInv ==
  ASSUME IInv, NEW r \in Runs, Accept(r)
  PROVE  IInv'
<1>1. TypeOK /\ RunsBegun /\ OneActive /\ Silence /\ AtSend /\ Targeted /\ Known
  BY DEF IInv, Control
<1>2. SentOnce /\ OnePlace /\ CompactUnseen /\ NoGaps
  BY DEF IInv, Placed
<1>3. PICK g \in {"done", "accepted"} :
        /\ g = IF run[r].turn = "over" /\ sending.run # r THEN "done" ELSE "accepted"
        /\ run' = [run EXCEPT ![r].stage = g]
  BY DEF Accept
<1>4. /\ run[r].stage = "sending" /\ run[r].kind # "compact" /\ r \notin superseded
      /\ turnTarget' = [turnTarget EXCEPT ![r] = TargetOf(r)]
      /\ st' = IF st[r].here
                 THEN [st EXCEPT ![r].target = TargetOf(r), ![r].attached = TRUE]
                 ELSE st
      /\ UNCHANGED <<turns, deferred, bound, superseded, prefix, binding,
                     suppressed, compacting, sending, faults, cls, history>>
  BY DEF Accept
<1>5. /\ run \in [Runs -> RunRecords] /\ st \in [Runs -> States]
      /\ turnTarget \in [Runs -> Targets] /\ nrun \in Nat
  BY <1>1 DEF TypeOK
<1>6. /\ run' \in [Runs -> RunRecords]
      /\ \A q \in Runs : q # r => run'[q] = run[q]
      /\ run'[r].stage = g /\ run'[r].kind = run[r].kind
      /\ run'[r].turn = run[r].turn /\ run'[r].done = run[r].done
  <2>1. g \in Stages
    BY DEF Stages
  <2>2. run[r] \in RunRecords
    BY <1>5
  <2> DEFINE x == [run[r] EXCEPT !.stage = g]
  <2>3. /\ x \in RunRecords /\ x.stage = g /\ x.kind = run[r].kind
        /\ x.turn = run[r].turn /\ x.done = run[r].done
    BY <2>1, <2>2 DEF RunRecords
  <2>4. run' = [run EXCEPT ![r] = x]
    BY <1>3, <1>5
  <2> HIDE DEF x
  <2> QED
    BY <1>5, <2>3, <2>4
<1>7. TargetOf(r) \in Targets /\ TargetOf(r).provider = Provider(r)
  <2>1. Provider(r) \in Providers
    BY DEF Provider, Providers
  <2>2. run[r].token \in Tokens /\ run[r].cause \in Tokens /\ run[r].gen \in Gens
    BY <1>5 DEF RunRecords
  <2> HIDE DEF Tokens
  <2> QED
    BY <2>1, <2>2 DEF TargetOf, Targets
<1>8. /\ st' \in [Runs -> States]
      /\ \A q \in Runs : q # r => st'[q] = st[q]
      /\ st'[r].here = st[r].here /\ st'[r].suppress = st[r].suppress
      /\ st'[r].prefix = st[r].prefix
      /\ st'[r].known = st[r].known /\ st'[r].sent = st[r].sent
      /\ st'[r].here => st'[r].target = TargetOf(r)
      /\ ~st'[r].here => st'[r] = st[r]
  <2>1. CASE ~st[r].here
    BY <1>4, <1>5, <2>1
  <2>2. CASE st[r].here
    <3>1. PICK t \in Targets : t = TargetOf(r)
      BY <1>7
    <3> DEFINE a == [st[r] EXCEPT !.target = t, !.attached = TRUE]
    <3>2. /\ a \in States /\ a.here = st[r].here /\ a.target = t
          /\ a.suppress = st[r].suppress /\ a.prefix = st[r].prefix
          /\ a.known = st[r].known /\ a.sent = st[r].sent
      BY <1>5, WithAttached
    <3>3. st' = [st EXCEPT ![r] = a]
      BY <1>4, <1>5, <2>2, <3>1
    <3> HIDE DEF a
    <3> QED
      BY <1>5, <2>2, <3>1, <3>2, <3>3
  <2> QED
    BY <2>1, <2>2
<1>9. /\ turnTarget' \in [Runs -> Targets] /\ turnTarget'[r] = TargetOf(r)
      /\ \A q \in Runs : q # r => turnTarget'[q] = turnTarget[q]
  BY <1>4, <1>5, <1>7
<1>10. TypeOK'
  BY <1>1, <1>4, <1>6, <1>8, <1>9 DEF TypeOK, turns, history
<1>11. \A q \in Runs :
         /\ run'[q].kind = run[q].kind /\ run'[q].turn = run[q].turn
         /\ run'[q].done = run[q].done
         /\ st'[q].here = st[q].here /\ st'[q].suppress = st[q].suppress
         /\ st'[q].prefix = st[q].prefix
         /\ st'[q].known = st[q].known /\ st'[q].sent = st[q].sent
  BY <1>6, <1>8
<1>12. UNCHANGED <<runtime, nrun, inbound, waiting, token, restarts, deferred, bound,
                   superseded, prefix, binding, suppressed, compacting, sending, cls,
                   acked, broken, kept>>
  BY <1>4 DEF turns, history
<1>13. r <= nrun
  <2>1. r > nrun => run[r] = NoRun
    BY <1>1 DEF RunsBegun
  <2> QED
    BY <1>4, <1>5, <2>1 DEF NoRun
<1>14. RunsBegun'
  <2>1. /\ \A q \in Runs : q > nrun => run'[q] = NoRun /\ st'[q] = NoState
                                       /\ turnTarget'[q] = NoTarget
    BY <1>1, <1>5, <1>6, <1>8, <1>9, <1>13 DEF RunsBegun
  <2>2. \A q \in Runs : q <= nrun => run'[q].stage # "unused" /\ run'[q].kind # "none"
    BY <1>1, <1>3, <1>6, <1>11 DEF RunsBegun
  <2> QED
    BY <1>1, <1>4, <2>1, <2>2 DEF RunsBegun, turns
<1>15. \A q \in Runs : Active(q)' <=> Active(q)
  BY <1>4, <1>11 DEF Active
<1>16. OneActive'
  <2>1. ASSUME NEW q \in Runs, Active(q)
        PROVE  run'[q].stage \in {"sending", "accepted"}
    <3>1. CASE q = r
      BY <1>3, <1>6, <2>1, <3>1 DEF Active
    <3>2. CASE q # r
      BY <1>1, <1>6, <2>1, <3>2 DEF OneActive
    <3> QED
      BY <3>1, <3>2
  <2> QED
    BY <1>1, <1>4, <1>15, <2>1 DEF OneActive
<1>17. Silence'
  BY <1>1, <1>11, <1>12 DEF Silence
<1>18. \A q \in Runs : Provider(q)' = Provider(q)
  BY <1>11 DEF Provider
<1>19. AtSend'
  <2>1. sending.run # None => sending.run \in Runs
    BY <1>1 DEF TypeOK, Sends
  <2>2. sending' = sending /\ nrun' = nrun
    BY <1>12
  <2>3. CASE sending.run = None
    BY <1>1, <2>2, <2>3 DEF AtSend
  <2>4. CASE sending.run # None
    <3>1. PICK q \in Runs : q = sending.run
      BY <2>1, <2>4
    <3>2. /\ run'[q].turn = run[q].turn /\ run'[q].done = run[q].done
          /\ st'[q].here = st[q].here /\ st'[q].known = st[q].known
          /\ st'[q].sent = st[q].sent /\ Provider(q)' = Provider(q)
      BY <1>11, <1>18
    <3>3. /\ q <= nrun /\ st[q].here /\ run[q].turn # "none"
          /\ sending.todo \subseteq st[q].known \ st[q].sent
          /\ sending.end <=> run[q].turn = "over"
          /\ ~sending.end => /\ Provider(q) = "weixin"
                             /\ sending.todo \subseteq 1..run[q].done
      BY <1>1, <2>4, <3>1 DEF AtSend
    <3> QED
      BY <2>2, <2>4, <3>1, <3>2, <3>3 DEF AtSend
  <2> QED
    BY <2>3, <2>4
<1>20. Targeted'
  <2>1. ASSUME NEW q \in Runs
        PROVE  /\ turnTarget'[q] # NoTarget => turnTarget'[q].provider = Provider(q)
               /\ st'[q].here =>
                    /\ st'[q].target.provider \in {"none", Provider(q)}
                    /\ run[q].kind = "user" => st'[q].target.provider = "weixin"
    <3>1. CASE q = r
      BY <1>7, <1>8, <1>9, <3>1 DEF Provider
    <3>2. CASE q # r
      BY <1>1, <1>8, <1>9, <3>2 DEF Targeted
    <3> QED
      BY <3>1, <3>2
  <2>2. /\ inbound' > 0 => token' # None /\ binding'["weixin"] # None
        /\ waiting' # None => inbound' > 0
        /\ sending'.fresh => sending'.token # None
    BY <1>1, <1>12 DEF Targeted
  <2>3. \A q \in Runs : run'[q].kind = "user" => inbound' > 0
    BY <1>1, <1>11, <1>12 DEF Targeted
  <2>4. ASSUME NEW q \in Runs
        PROVE  /\ turnTarget'[q] # NoTarget => turnTarget'[q].provider = Provider(q)'
               /\ st'[q].here =>
                    /\ st'[q].target.provider \in {"none", Provider(q)'}
                    /\ run'[q].kind = "user" => st'[q].target.provider = "weixin"
    BY <1>11, <1>18, <2>1
  <2> QED
    BY <2>2, <2>3, <2>4 DEF Targeted
<1>21. Known'
  <2>1. \A q \in Runs : ~st'[q].here => st'[q] = NoState
    BY <1>1, <1>8 DEF Known
  <2> QED
    BY <1>1, <1>11, <1>12, <2>1 DEF Known
<1>22. \A p \in Pieces : Out(p)' <=> Out(p)
  BY <1>4 DEF Out, history
<1>23. SentOnce'
  <2>1. \A q \in Runs, i \in Items : CanSend(q, i)' => CanSend(q, i)
    BY <1>4, <1>11 DEF CanSend
  <2> QED
    BY <1>2, <1>22, <2>1 DEF SentOnce
<1>24. OnePlace'
  BY <1>2, <1>11, <1>12 DEF OnePlace
<1>25. CompactUnseen' /\ NoGaps'
  BY <1>2, <1>11, <1>22, <1>12 DEF CompactUnseen, NoGaps
<1> QED
  BY <1>10, <1>14, <1>16, <1>17, <1>19, <1>20, <1>21, <1>23, <1>24, <1>25
     DEF IInv, Control, Placed

\* A message to the bridge: the store is drained of what it may show, and what
\* is drained waits for the next state of a run.
LEMMA InboundIInv ==
  ASSUME IInv, NEW isCommand \in BOOLEAN, NEW expired \in SUBSET Runs,
         Inbound(isCommand, expired)
  PROVE  IInv'
<1>1. TypeOK /\ RunsBegun /\ OneActive /\ Silence /\ AtSend /\ Targeted /\ Known
  BY DEF IInv, Control
<1>2. SentOnce /\ OnePlace /\ CompactUnseen /\ NoGaps
  BY DEF IInv, Placed
<1>3. PICK drained \in SUBSET Runs :
        /\ prefix' = Primed(drained)
        /\ primed' = primed \union UNION {deferred[r] : r \in drained}
        /\ deferred' = [r \in Runs |-> IF r \in drained \union expired
                                       THEN {} ELSE deferred[r]]
        /\ bound' = [r \in Runs |-> IF r \in drained \union expired
                                    THEN None ELSE bound[r]]
  <2> DEFINE held    == {r \in Runs : deferred[r] # {}}
             drained == {r \in held \ expired : bound[r] \in {None, inbound + 1}}
  <2>1. /\ drained \in SUBSET Runs
        /\ prefix' = Primed(drained)
        /\ primed' = primed \union UNION {deferred[r] : r \in drained}
        /\ deferred' = [r \in Runs |-> IF r \in drained \union expired
                                       THEN {} ELSE deferred[r]]
        /\ bound' = [r \in Runs |-> IF r \in drained \union expired
                                    THEN None ELSE bound[r]]
    BY DEF Inbound
  <2> HIDE DEF drained
  <2> QED
    BY <2>1
<1>4. /\ inbound < NInbound /\ inbound' = inbound + 1 /\ token' = inbound + 1
      /\ binding' = [binding EXCEPT !["weixin"] = inbound + 1]
      /\ waiting' \in {waiting, inbound + 1}
      /\ UNCHANGED <<runtime, run, nrun, superseded, turnTarget, suppressed,
                     compacting, st, sending, faults, restarts, cls, acked, broken, kept>>
  BY DEF Inbound
<1>5. inbound \in Nat /\ inbound + 1 \in Tokens /\ inbound + 1 # None
  <2>1. inbound \in 0..NInbound
    BY <1>1 DEF TypeOK
  <2>2. inbound < NInbound
    BY <1>4
  <2> QED
    BY <2>1, <2>2
<1>6. /\ deferred \in [Runs -> SUBSET Pieces] /\ bound \in [Runs -> Tokens]
      /\ prefix \in SUBSET Pieces /\ primed \in SUBSET Pieces
  BY <1>1 DEF TypeOK
<1>7. /\ deferred' \in [Runs -> SUBSET Pieces] /\ bound' \in [Runs -> Tokens]
      /\ \A q \in Runs : deferred'[q] = IF q \in drained \union expired THEN {} ELSE deferred[q]
  <2>1. None \in Tokens
    OBVIOUS
  <2>2. \A q \in Runs : (IF q \in drained \union expired THEN None ELSE bound[q]) \in Tokens
    BY <1>6, <2>1
  <2>3. bound' \in [Runs -> Tokens]
    BY <1>3, <2>2, Zenon
  <2>4. \A q \in Runs : (IF q \in drained \union expired THEN {} ELSE deferred[q]) \in SUBSET Pieces
    BY <1>6
  <2>5. deferred' \in [Runs -> SUBSET Pieces]
    BY <1>3, <2>4, Zenon
  <2>6. \A q \in Runs : deferred'[q] = IF q \in drained \union expired THEN {} ELSE deferred[q]
    BY <1>3, Zenon
  <2> QED
    BY <2>3, <2>5, <2>6
<1>8. \A p : p \in UNION {deferred[q] : q \in drained} <=> \E q \in drained : p \in deferred[q]
  OBVIOUS
<1>9. /\ prefix' \in SUBSET Pieces /\ primed' \in SUBSET Pieces
      /\ \A p \in prefix' :
           \/ p \in prefix /\ drained = {}
           \/ \E q \in drained : p \in deferred[q]
  BY <1>3, <1>6, <1>8 DEF Primed
<1>10. TypeOK'
  <2>1. binding' \in [{"weixin", "system"} -> Tokens] /\ waiting' \in Tokens
    BY <1>1, <1>4, <1>5 DEF TypeOK
  <2>2. inbound' \in 0..NInbound /\ token' \in Tokens
    BY <1>4, <1>5
  <2> QED
    BY <1>1, <1>4, <1>7, <1>9, <2>1, <2>2 DEF TypeOK
<1>11. RunsBegun' /\ Silence'
  BY <1>1, <1>4 DEF RunsBegun, Silence
<1>12. OneActive'
  BY <1>1, <1>4 DEF OneActive, Active
<1>13. \A q \in Runs : Provider(q)' = Provider(q)
  BY <1>4 DEF Provider
<1>14. AtSend' /\ Known'
  BY <1>1, <1>4 DEF AtSend, Provider, Known
<1>15. Targeted'
  <2>1. /\ inbound' > 0 /\ token' # None
    BY <1>4, <1>5
  <2>2. binding'["weixin"] # None
    BY <1>1, <1>4, <1>5 DEF TypeOK
  <2> QED
    BY <1>1, <1>4, <1>13, <2>1, <2>2 DEF Targeted
<1>16. \A p \in Pieces : Out(p)' <=> Out(p)
  BY <1>4 DEF Out
<1>17. SentOnce'
  <2>1. \A q \in Runs, i \in Items : CanSend(q, i)' => CanSend(q, i)
    BY <1>4 DEF CanSend
  <2> QED
    BY <1>2, <1>16, <2>1 DEF SentOnce
<1>18. OnePlace'
  <2>1. \A q \in Runs : /\ st'[q].prefix = st[q].prefix
                        /\ deferred'[q] \subseteq deferred[q]
                        /\ q \in drained => deferred'[q] = {}
    BY <1>4, <1>7
  <2>2. acked' = acked /\ kept' = kept
    BY <1>4
  <2>3. prefix' \subseteq kept' /\ \A q \in Runs : deferred'[q] \subseteq kept' /\ st'[q].prefix \subseteq kept'
    BY <1>2, <1>9, <2>1, <2>2 DEF OnePlace
  <2>4. ASSUME NEW p \in Pieces
        PROVE  /\ acked'[p] <= 1
               /\ acked'[p] > 0 => /\ p \notin prefix'
                                   /\ \A q \in Runs : p \notin deferred'[q] /\ p \notin st'[q].prefix
               /\ p \in prefix' =>
                    \A q \in Runs : p \notin deferred'[q] /\ p \notin st'[q].prefix
               /\ \A q, r \in Runs :
                    /\ p \in deferred'[q] => p \notin st'[r].prefix
                    /\ p \in deferred'[q] /\ p \in deferred'[r] => q = r
                    /\ p \in st'[q].prefix /\ p \in st'[r].prefix => q = r
    <3>1. p \in prefix' => acked[p] = 0 \/ ~(acked[p] > 0)
      BY <1>2, <1>9 DEF OnePlace
    <3>2. p \in prefix' => \A q \in Runs : p \notin deferred'[q] /\ p \notin st'[q].prefix
      <4>1. CASE p \in prefix /\ drained = {}
        BY <1>2, <2>1, <4>1 DEF OnePlace
      <4>2. ASSUME NEW a \in drained, p \in deferred[a]
            PROVE  \A q \in Runs : p \notin deferred'[q] /\ p \notin st'[q].prefix
        BY <1>2, <2>1, <4>2 DEF OnePlace
      <4> QED
        BY <1>9, <4>1, <4>2
    <3>3. acked[p] <= 1 /\ (acked[p] > 0 => \A q \in Runs : p \notin deferred'[q] /\ p \notin st'[q].prefix)
      BY <1>2, <2>1 DEF OnePlace
    <3>4. \A q, r \in Runs :
            /\ p \in deferred'[q] => p \notin st'[r].prefix
            /\ p \in deferred'[q] /\ p \in deferred'[r] => q = r
            /\ p \in st'[q].prefix /\ p \in st'[r].prefix => q = r
      BY <1>2, <2>1 DEF OnePlace
    <3> QED
      BY <2>2, <3>1, <3>2, <3>3, <3>4
  <2> QED
    BY <2>3, <2>4 DEF OnePlace
<1>19. CompactUnseen' /\ NoGaps'
  BY <1>2, <1>4, <1>16 DEF CompactUnseen, NoGaps
<1> QED
  BY <1>10, <1>11, <1>12, <1>14, <1>15, <1>17, <1>18, <1>19 DEF IInv, Control, Placed

\* The bridge starts again: no state is left, and a run that is still heard of
\* is one that was active.
LEMMA RestartIInv ==
  ASSUME IInv, Restart
  PROVE  IInv'
<1>1. TypeOK /\ RunsBegun /\ OneActive /\ Silence /\ Targeted /\ Known
  BY DEF IInv, Control
<1>2. SentOnce /\ OnePlace /\ CompactUnseen /\ NoGaps
  BY DEF IInv, Placed
<1>3. /\ restarts' = restarts + 1 /\ faults' = faults + 1
      /\ waiting' = None /\ prefix' = {} /\ suppressed' = 0 /\ compacting' = None
      /\ sending' = Idle
      /\ UNCHANGED <<runtime, nrun, inbound, deferred, bound, superseded, token,
                     cls, acked, broken, kept, primed>>
  BY DEF Restart, Fault, history
<1>4. /\ run \in [Runs -> RunRecords] /\ token \in Tokens /\ restarts \in Nat
      /\ nrun \in Nat /\ faults \in Nat
  BY <1>1 DEF TypeOK
<1>5. /\ st' \in [Runs -> States] /\ turnTarget' \in [Runs -> Targets]
      /\ \A q \in Runs : st'[q] = NoState /\ turnTarget'[q] = NoTarget
  <2>1. turnTarget' = [r \in Runs |-> NoTarget] /\ st' = [r \in Runs |-> NoState]
    BY DEF Restart
  <2>2. \A q \in Runs : NoState \in States /\ NoTarget \in Targets
    BY FirstValues
  <2> QED
    BY <2>1, <2>2, Zenon
<1>6. /\ binding' \in [{"weixin", "system"} -> Tokens] /\ binding'["weixin"] = token
  <2>1. binding' = [b \in {"weixin", "system"} |-> IF b = "weixin" THEN token ELSE None]
    BY DEF Restart
  <2>2. \A b \in {"weixin", "system"} : (IF b = "weixin" THEN token ELSE None) \in Tokens
    BY <1>4
  <2> QED
    BY <2>1, <2>2
<1> DEFINE Heeded(q) == runtime = "codex" /\ UserThread(q) /\ run[q].turn # "over"
           Again(q) == IF run[q].stage = "unused" THEN run[q]
                       ELSE IF Heeded(q) THEN [run[q] EXCEPT !.stage = "accepted"]
                       ELSE [run[q] EXCEPT !.stage = "done", !.turn = "over"]
<1>7. ASSUME NEW q \in Runs
      PROVE  /\ Again(q) \in RunRecords
             /\ Again(q).kind = run[q].kind /\ Again(q).done = run[q].done
             /\ run[q].stage = "unused" => Again(q) = run[q]
             /\ run[q].stage # "unused" =>
                  /\ Again(q).stage # "unused"
                  /\ Heeded(q) => Again(q).stage = "accepted" /\ Again(q).turn = run[q].turn
                  /\ ~Heeded(q) => Again(q).turn = "over"
  <2>1. run[q] \in RunRecords
    BY <1>4
  <2>2. PICK x \in RunRecords : x = run[q]
    BY <2>1
  <2>3. PICK a \in Stages, d \in Stages, o \in Phases : a = "accepted" /\ d = "done" /\ o = "over"
    BY DEF Stages, Phases
  <2>4. a # "unused" /\ d # "unused"
    BY <2>3
  <2>5. LET y == [x EXCEPT !.stage = a]
        IN y \in RunRecords /\ y.kind = x.kind /\ y.done = x.done /\ y.stage = a /\ y.turn = x.turn
    BY DEF RunRecords
  <2>6. LET y == [x EXCEPT !.stage = d, !.turn = o]
        IN y \in RunRecords /\ y.kind = x.kind /\ y.done = x.done /\ y.stage = d /\ y.turn = o
    BY DEF RunRecords
  <2>7. Again(q) = IF x.stage = "unused" THEN x
                   ELSE IF Heeded(q) THEN [x EXCEPT !.stage = a]
                   ELSE [x EXCEPT !.stage = d, !.turn = o]
    BY <2>2, <2>3
  <2> HIDE DEF Again, Heeded
  <2> QED
    BY <2>2, <2>3, <2>4, <2>5, <2>6, <2>7
<1>8. run' = [q \in Runs |-> Again(q)]
  BY DEF Restart
<1> HIDE DEF Again
<1>9. /\ run' \in [Runs -> RunRecords]
      /\ \A q \in Runs : run'[q] = Again(q)
  BY <1>7, <1>8, Zenon
<1>10. TypeOK'
  <2>1. Idle \in Sends
    BY FirstValues
  <2> QED
    BY <1>1, <1>3, <1>4, <1>5, <1>6, <1>9, <2>1 DEF TypeOK
<1>11. \A q \in Runs :
         /\ run'[q].kind = run[q].kind /\ run'[q].done = run[q].done
         /\ run'[q].turn # "over" => run'[q].turn = run[q].turn
         /\ run[q].stage # "unused" /\ run'[q].turn # "over" =>
              Heeded(q) /\ run'[q].stage = "accepted"
  <2>1. ASSUME NEW q \in Runs
        PROVE  /\ run'[q].kind = run[q].kind /\ run'[q].done = run[q].done
               /\ run'[q].turn # "over" => run'[q].turn = run[q].turn
               /\ run[q].stage # "unused" /\ run'[q].turn # "over" =>
                    Heeded(q) /\ run'[q].stage = "accepted"
    <3> HIDE DEF Heeded
    <3>1. CASE run[q].stage = "unused"
      BY <1>7, <1>9, <3>1
    <3>2. CASE run[q].stage # "unused" /\ Heeded(q)
      BY <1>7, <1>9, <3>2
    <3>3. CASE run[q].stage # "unused" /\ ~Heeded(q)
      BY <1>7, <1>9, <3>3
    <3> QED
      BY <3>1, <3>2, <3>3
  <2> QED
    BY <2>1
<1>12. \A q \in Runs : run[q].kind # "none" => q <= nrun /\ run[q].stage # "unused"
  BY <1>1, <1>4 DEF RunsBegun, NoRun
<1>13. RunsBegun'
  <2>1. ASSUME NEW q \in Runs, q > nrun
        PROVE  run'[q] = NoRun
    <3>1. run[q] = NoRun
      BY <1>1, <2>1 DEF RunsBegun
    <3>2. run[q].stage = "unused"
      BY <3>1 DEF NoRun
    <3> QED
      BY <1>7, <1>9, <3>1, <3>2
  <2>2. ASSUME NEW q \in Runs, q <= nrun
        PROVE  run'[q].stage # "unused" /\ run'[q].kind # "none"
    <3>1. run[q].stage # "unused" /\ run[q].kind # "none"
      BY <1>1, <2>2 DEF RunsBegun
    <3> QED
      BY <1>7, <1>9, <3>1
  <2> QED
    BY <1>1, <1>3, <1>5, <2>1, <2>2 DEF RunsBegun
<1>14. \A q \in Runs : Active(q)' => Active(q) /\ run'[q].stage = "accepted"
  <2>1. ASSUME NEW q \in Runs, Active(q)'
        PROVE  Active(q) /\ run'[q].stage = "accepted"
    <3>1. /\ run'[q].kind \in {"user", "compact"} /\ q \notin superseded
          /\ run'[q].turn # "over"
      BY <1>3, <2>1 DEF Active, Idle
    <3>2. run[q].kind \in {"user", "compact"} /\ run[q].stage # "unused"
      BY <1>11, <1>12, <3>1
    <3> QED
      BY <1>11, <3>1, <3>2 DEF Active
  <2> QED
    BY <2>1
<1>15. OneActive'
  BY <1>1, <1>3, <1>14 DEF OneActive
<1>16. Silence'
  <2>1. \A q \in Runs : run[q].kind = "compact" => run'[q].turn = "over"
    BY <1>1, <1>11, <1>12 DEF Silence
  <2> QED
    BY <1>1, <1>3, <1>5, <1>11, <2>1 DEF Silence, NoState, Idle
<1>17. AtSend'
  BY <1>3 DEF AtSend, Idle
<1>18. Targeted'
  BY <1>1, <1>3, <1>5, <1>6, <1>11 DEF Targeted, Idle, NoState
<1>19. Known'
  <2>1. restarts' # 0
    BY <1>3, <1>4
  <2>2. NoState.known = {} /\ NoState.sent = {} /\ NoState.here = FALSE
    BY DEF NoState
  <2> QED
    BY <1>1, <1>5, <1>11, <2>1, <2>2 DEF Known
<1>20. \A p \in Pieces : Out(p)' <=> Out(p)
  BY <1>3 DEF Out
<1>21. SentOnce'
  <2>1. ASSUME NEW q \in Runs, NEW i \in Items, CanSend(q, i)'
        PROVE  CanSend(q, i)
    <3>1. run'[q].turn # "over" /\ i > run'[q].done
      BY <1>3, <1>5, <2>1 DEF CanSend, Idle, NoState
    <3> QED
      BY <1>11, <3>1 DEF CanSend
  <2> QED
    BY <1>2, <1>20, <2>1 DEF SentOnce
<1>22. OnePlace'
  <2>1. \A q \in Runs : st'[q].prefix = {}
    BY <1>5 DEF NoState
  <2> QED
    BY <1>2, <1>3, <2>1 DEF OnePlace
<1>23. CompactUnseen'
  BY <1>2, <1>11, <1>20 DEF CompactUnseen
<1>24. NoGaps'
  <2>1. restarts' # 0 /\ ~sending'.end /\ \A q \in Runs : st'[q].sent = {}
    BY <1>3, <1>4, <1>5 DEF NoState, Idle
  <2> QED
    BY <2>1 DEF NoGaps
<1> QED
  BY <1>10, <1>13, <1>15, <1>16, <1>17, <1>18, <1>19, <1>21, <1>22, <1>23, <1>24
     DEF IInv, Control, Placed

-----------------------------------------------------------------------------
\* The theorems.

\* The invariant holds at first.
LEMMA InitIInv ==
  ASSUME Init
  PROVE  IInv
<1>1. /\ runtime \in {"codex", "claudecode"}
      /\ nrun = 0 /\ inbound = 0 /\ waiting = None /\ superseded = {} /\ token = None
      /\ prefix = {} /\ suppressed = 0 /\ compacting = None /\ sending = Idle
      /\ faults = 0 /\ restarts = 0 /\ broken = {} /\ kept = {} /\ primed = {}
  BY DEF Init
<1>2. /\ run = [r \in Runs |-> NoRun] /\ st = [r \in Runs |-> NoState]
      /\ turnTarget = [r \in Runs |-> NoTarget]
      /\ deferred = [r \in Runs |-> {}] /\ bound = [r \in Runs |-> None]
      /\ binding = [b \in {"weixin", "system"} |-> None]
      /\ cls = [p \in Pieces |-> "unsaid"] /\ acked = [p \in Pieces |-> 0]
  BY DEF Init
<1>3. \A r \in Runs : /\ run[r] = NoRun /\ st[r] = NoState /\ turnTarget[r] = NoTarget
                      /\ deferred[r] = {}
  BY <1>2, Zenon
<1>4. \A p \in Pieces : acked[p] = 0 /\ ~Out(p)
  <2>1. \A p \in Pieces : acked[p] = 0
    BY <1>2, Zenon
  <2> QED
    BY <1>1, <2>1 DEF Out
<1>5. TypeOK
  <2>1. /\ run \in [Runs -> RunRecords] /\ st \in [Runs -> States]
        /\ turnTarget \in [Runs -> Targets] /\ sending \in Sends
    <3>1. \A r \in Runs : NoRun \in RunRecords /\ NoState \in States /\ NoTarget \in Targets
      BY FirstValues
    <3>2. Idle \in Sends
      BY FirstValues
    <3> QED
      BY <1>1, <1>2, <3>1, <3>2, Zenon
  <2>2. deferred \in [Runs -> SUBSET Pieces] /\ bound \in [Runs -> Tokens]
    BY <1>2
  <2>3. binding \in [{"weixin", "system"} -> Tokens]
    BY <1>2
  <2>4. cls \in [Pieces -> {"unsaid", "text", "mute"}] /\ acked \in [Pieces -> Nat]
    <3>1. \A p \in Pieces : "unsaid" \in {"unsaid", "text", "mute"} /\ 0 \in Nat
      OBVIOUS
    <3> QED
      BY <1>2, <3>1, Zenon
  <2> QED
    BY <1>1, <2>1, <2>2, <2>3, <2>4 DEF TypeOK
<1>6. /\ NoRun.kind = "none" /\ NoRun.turn = "none" /\ NoRun.done = 0
      /\ NoState.here = FALSE /\ NoState.known = {} /\ NoState.sent = {}
      /\ NoState.prefix = {}
      /\ Idle.run = None /\ Idle.end = FALSE /\ Idle.fresh = FALSE /\ Idle.todo = {}
  BY DEF NoRun, NoState, Idle
<1>7. RunsBegun /\ OneActive /\ Silence /\ AtSend /\ Targeted /\ Known
  BY <1>1, <1>3, <1>6 DEF RunsBegun, OneActive, Active, Silence, AtSend, Targeted, Known
<1>8. OnePlace
  BY <1>1, <1>3, <1>4, <1>6 DEF OnePlace
<1>9. SentOnce /\ CompactUnseen /\ NoGaps
  BY <1>1, <1>3, <1>4, <1>6 DEF SentOnce, CompactUnseen, NoGaps
<1> QED
  BY <1>5, <1>7, <1>8, <1>9 DEF IInv, Control, Placed

\* A step that handles an event of a run.
LEMMA RunIInv ==
  ASSUME IInv, NEW r \in Runs, RunStep(r)
  PROVE  IInv'
<1>1. CASE Accept(r)
  BY <1>1, AcceptIInv
<1>2. CASE Recover(r)
  BY <1>2, RecoverBegins, BeginsIInv
<1>3. ASSUME Heard(r)
      PROVE  IInv'
  BY <1>3, HeardTypes, HeardControl, HeardPlaced DEF IInv
<1>4. ASSUME Disposed(r)
      PROVE  IInv'
  BY <1>4, DisposedTypes, DisposedControl, DisposedPlaced DEF IInv
<1>5. CASE TurnStarted(r)
  BY <1>3, <1>4, <1>5, StartedHeard, LateDisposed
<1>6. CASE TurnCompleted(r)
  BY <1>3, <1>4, <1>6, CompletedHeard, LateDisposed
<1>7. CASE TurnFailed(r)
  BY <1>4, <1>7, FailedDisposed
<1>8. ASSUME NEW kind \in {"text", "mute"}, TurnCompletedWithText(r, kind)
      PROVE  IInv'
  BY <1>3, <1>8, TextHeard
<1>9. ASSUME NEW kind \in {"text", "mute"}, NEW complete \in BOOLEAN,
             ReplyItem(r, kind, complete)
      PROVE  IInv'
  <2>1. CASE r \notin superseded
    BY <1>3, <1>9, <2>1, ItemHeard
  <2>2. CASE r \in superseded
    <3>1. \E k \in {"text", "mute"}, c \in BOOLEAN : ReplyItem(r, k, c)
      BY <1>9
    <3> QED
      BY <1>4, <2>2, <3>1, LateDisposed
  <2> QED
    BY <2>1, <2>2
<1> QED
  BY <1>1, <1>2, <1>5, <1>6, <1>7, <1>8, <1>9 DEF RunStep

\* A step of the send that is under way.
LEMMA SendIInv ==
  ASSUME IInv, SendStep
  PROVE  IInv'
<1>1. CASE SkipMute
  <2>1. PICK D \in SUBSET Items : D = {Now}
    BY <1>1, Sender DEF SkipMute
  <2> QED
    BY <1>1, <2>1, SkipDealt, DealtControl, DealtPlaced DEF IInv
<1>2. CASE SendOk
  <2>1. PICK D \in SUBSET Items : D = {Now}
    BY <1>2, Sender DEF SendOk
  <2> QED
    BY <1>2, <2>1, OkDealt, DealtControl, DealtPlaced DEF IInv
<1>3. CASE Defer /\ sending.todo # {} /\ ~Mute /\ faults' \in Nat
  <2>1. PICK D \in SUBSET Items : D = sending.todo
    BY <1>3, Sender
  <2> QED
    BY <1>3, <2>1, DeferDealt, DealtControl, DealtPlaced DEF IInv
<1>4. CASE Attempted
  BY <1>4, AttemptedIInv
<1> QED
  BY <1>1, <1>2, <1>3, <1>4, BrokenAttempted, RetryAttempted DEF SendStep

\* Every step preserves the invariant.
LEMMA NextIInv ==
  ASSUME IInv, [Next]_vars
  PROVE  IInv'
<1>1. CASE UNCHANGED vars
  <2>1. TypeOK'
    BY <1>1 DEF IInv, TypeOK, vars
  <2>2. RunsBegun' /\ OneActive' /\ Silence'
    BY <1>1 DEF IInv, Control, RunsBegun, OneActive, Active, Silence, vars
  <2>3. AtSend' /\ Targeted' /\ Known'
    BY <1>1 DEF IInv, Control, AtSend, Targeted, Known, Provider, vars
  <2>4. SentOnce' /\ OnePlace'
    BY <1>1 DEF IInv, Placed, SentOnce, CanSend, Out, OnePlace, vars
  <2>5. CompactUnseen' /\ NoGaps'
    BY <1>1 DEF IInv, Placed, CompactUnseen, NoGaps, Out, vars
  <2> QED
    BY <2>1, <2>2, <2>3, <2>4, <2>5 DEF IInv, Control, Placed
<1>2. ASSUME NEW isCommand \in BOOLEAN, NEW expired \in SUBSET Runs,
             Inbound(isCommand, expired)
      PROVE  IInv'
  BY <1>2, InboundIInv
<1>3. CASE DispatchUser
  BY <1>3, UserBegins, BeginsIInv
<1>4. CASE DispatchSystem
  BY <1>4, SystemBegins, BeginsIInv
<1>5. ASSUME NEW r \in Runs, RunStep(r)
      PROVE  IInv'
  BY <1>5, RunIInv
<1>6. CASE SendStep
  BY <1>6, SendIInv
<1>7. CASE ChainFinish
  BY <1>7, FinishDisposed, DisposedTypes, DisposedControl, DisposedPlaced DEF IInv
<1>8. CASE CompactStarted
  BY <1>8, CompactBegins, BeginsIInv
<1>9. CASE CompactFailed
  BY <1>9, CompactFailedIInv
<1>10. CASE Restart
  BY <1>10, RestartIInv
<1> QED
  BY <1>1, <1>2, <1>3, <1>4, <1>5, <1>6, <1>7, <1>8, <1>9, <1>10 DEF Next

\* The invariant holds of every behaviour.
LEMMA AlwaysIInv == Spec => []IInv
BY InitIInv, NextIInv, PTL DEF Spec

\* The variables hold values of the program's types.
THEOREM StreamTypeCorrect == Spec => []TypeOK
<1>1. IInv => TypeOK
  BY DEF IInv
<1> QED
  BY <1>1, AlwaysIInv, PTL

\* A reply is shown once and without gaps, whichever way its items go.
THEOREM RepliesShownOnce == Spec => []ShownOnceInOrder
<1>1. IInv => ShownOnceInOrder
  <2> SUFFICES ASSUME IInv
               PROVE  ShownOnceInOrder
    OBVIOUS
  <2>1. OnePlace /\ NoGaps /\ restarts \in Nat
    BY DEF IInv, Placed, TypeOK
  <2>2. \A p \in Pieces : acked[p] <= 1
    BY <2>1 DEF OnePlace
  <2>3. ASSUME NEW r \in Runs, NEW i \in Items, NEW j \in Items,
               acked[<<r, j>>] > 0, i < j, run[r].kind = "user", cls[<<r, i>>] = "text"
        PROVE  acked[<<r, i>>] > 0 \/ <<r, i>> \in kept \/ restarts > 0
    BY <2>1, <2>3 DEF NoGaps, Out
  <2> QED
    BY <2>2, <2>3 DEF ShownOnceInOrder
<1> QED
  BY <1>1, AlwaysIInv, PTL

\* A compaction is silenced, and no reply to the user takes its suppression.
THEOREM CompactionsSilent == Spec => []OnlyCompactSilent
<1>1. IInv => OnlyCompactSilent
  <2> SUFFICES ASSUME IInv
               PROVE  OnlyCompactSilent
    OBVIOUS
  <2>1. CompactUnseen /\ Silence /\ acked \in [Pieces -> Nat]
    BY DEF IInv, Placed, Control, TypeOK
  <2>2. \A r \in Runs, i \in Items : run[r].kind = "compact" =>
          acked[<<r, i>>] = 0 /\ <<r, i>> \notin kept
    BY <2>1 DEF CompactUnseen, Out
  <2> QED
    BY <2>1, <2>2 DEF OnlyCompactSilent, Silence
<1> QED
  BY <1>1, AlwaysIInv, PTL

\* A send at the end of a turn goes on to ChainFinish, except in a restart.
LEMMA EndsInFinish ==
  ASSUME IInv, Next, sending.end, sending' = Idle, restarts' = restarts
  PROVE  ChainFinish
<1>1. Idle.end = FALSE /\ sending' # sending
  BY DEF Idle
<1>2. ASSUME NEW isCommand \in BOOLEAN, NEW expired \in SUBSET Runs,
             Inbound(isCommand, expired)
      PROVE  FALSE
  BY <1>1, <1>2 DEF Inbound
<1>3. CASE DispatchUser \/ DispatchSystem \/ CompactStarted \/ CompactFailed
  BY <1>1, <1>3 DEF DispatchUser, DispatchSystem, CompactStarted, CompactFailed
<1>4. ASSUME NEW r \in Runs, RunStep(r)
      PROVE  FALSE
  <2>1. CASE Accept(r) \/ Recover(r)
    BY <1>1, <2>1 DEF Accept, Recover
  <2>2. CASE ChainFree
    BY <1>1, <2>2 DEF ChainFree
  <2>3. ~(Accept(r) \/ Recover(r)) => ChainFree
    BY <1>4 DEF RunStep, TurnStarted, TurnCompleted, TurnFailed, TurnCompletedWithText, ReplyItem
  <2> QED
    BY <2>1, <2>2, <2>3
<1>5. CASE SendStep
  <2>1. CASE SkipMute
    <3>1. sending.todo # {} /\ sending' = Rest(st[sending.run].target)
      BY <2>1 DEF SkipMute
    <3>2. st[sending.run].target \in Targets
      BY <3>1, Sender DEF IInv, TypeOK, States
    <3> QED
      BY <1>1, <3>1, <3>2, RestFacts
  <2>2. CASE SendOk
    <3>1. PICK D \in SUBSET Items : D = {Now}
      BY <2>2, Sender DEF SendOk
    <3>2. Dealt(D)
      BY <2>2, <3>1, OkDealt
    <3> QED
      BY <1>1, <3>2 DEF Dealt
  <2>3. CASE Defer
    BY <1>1, <2>3, GivenFacts DEF Defer
  <2>4. CASE Attempted
    BY <1>1, <2>4 DEF Attempted
  <2> QED
    BY <1>5, <2>1, <2>2, <2>3, <2>4, BrokenAttempted, RetryAttempted DEF SendStep
<1>6. CASE Restart
  <2>1. restarts \in Nat /\ restarts' = restarts + 1
    BY <1>6 DEF Restart, IInv, TypeOK
  <2> QED
    BY <2>1
<1> QED
  BY <1>2, <1>3, <1>4, <1>5, <1>6 DEF Next

\* When the turn of a message has ended, what its reply had to show was shown or
\* deferred, unless a send of it failed in a way that is only logged.
THEOREM RepliesAccounted == Spec => ReplyAccounted
<1>1. IInv /\ [Next]_vars =>
        [LET r == sending.run
         IN sending.end /\ sending' = Idle /\ restarts' = restarts
              /\ run[r].kind = "user" /\ ~st[r].suppress /\ r \notin broken
            => \A i \in st[r].known :
                 cls[<<r, i>>] = "text" => acked[<<r, i>>] > 0 \/ <<r, i>> \in kept]_vars
  <2> DEFINE r == sending.run
  <2> SUFFICES ASSUME IInv, Next, sending.end, sending' = Idle, restarts' = restarts,
                      run[r].kind = "user", ~st[r].suppress, r \notin broken,
                      NEW i \in st[r].known, cls[<<r, i>>] = "text"
               PROVE  Out(<<r, i>>)
    BY DEF Out
  <2>1. ChainFinish
    BY EndsInFinish
  <2>2. r \in Runs /\ sending.todo = {}
    BY <2>1, FinishDisposed DEF ChainFinish
  <2>3. i \in Items
    BY <2>2 DEF IInv, TypeOK, States
  <2>4. /\ \A j \in Items : j \in st[r].sent /\ cls[<<r, j>>] = "text" => Out(<<r, j>>)
        /\ st[r].known \subseteq st[r].sent \union sending.todo
    BY <2>2 DEF IInv, Placed, NoGaps
  <2> QED
    BY <2>2, <2>3, <2>4
<1> QED
  BY <1>1, AlwaysIInv, PTL DEF Spec, ReplyAccounted
=============================================================================
