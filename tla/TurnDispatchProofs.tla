------------------------- MODULE TurnDispatchProofs -------------------------
(***************************************************************************)
(* Theorems about TurnDispatch, for every number of messages, runs, faults *)
(* and resets.  Under every set of faults: its type invariant, that a      *)
(* message is armed for redispatch once (RecoverOnce), that a pending gate *)
(* has a run that will release it (GateOwned), and that the end of a       *)
(* superseded run is not delivered (SupersededSilent).                     *)
(*                                                                         *)
(* Under the faults whose recovery the bridge itself controls, a refused   *)
(* turn/start and a turn whose first event never comes: a running turn     *)
(* keeps the gate or its thread's state (GateTracksTurn) and no message is *)
(* answered twice (AnswerOnce); and when no turn is refused either, no     *)
(* message is lost (NoSilentLoss) and the bridge keeps the promise of      *)
(* ConversationTurns (KeepsPromise).  The other faults break each of these *)
(* properties, and TLC shows how.                                          *)
(***************************************************************************)
EXTENDS TurnDispatch, WellFoundedInduction, TLAPS

USE TurnDispatchAssumption DEF Messages, Runs, Threads, None

-----------------------------------------------------------------------------
\* Merge.

\* Every nonempty set of natural numbers has a least member.
LEMMA LeastNat ==
  ASSUME NEW T \in SUBSET Nat, T # {}
  PROVE  \E x \in T : \A y \in T : x <= y
<1> DEFINE R == {ss \in Nat \X Nat : ss[1] < ss[2]}
<1>1. IsWellFoundedOn(R, Nat)
  BY NatLessThanWellFounded DEF OpToRel
<1>2. \A x, y \in Nat : y < x => <<y, x>> \in R
  OBVIOUS
<1> HIDE DEF R
<1>3. PICK x \in T : \A y \in T : ~(<<y, x>> \in R)
  BY <1>1, WFMin
<1>4. ASSUME NEW y \in T PROVE x <= y
  <2>1. x \in Nat /\ y \in Nat /\ ~(y < x)
    BY <1>2, <1>3
  <2> QED
    BY <2>1
<1> QED
  BY <1>4

\* A nonempty draft has a message with the least key, and one with the
\* greatest.
LEMMA KeyBounds ==
  ASSUME NEW S \in SUBSET Prepared, S # {}
  PROVE  /\ \E p \in S : \A q \in S : p.key <= q.key
         /\ \E p \in S : \A q \in S : p.key >= q.key
<1>0. \A p \in S : p.key \in 1..NMsg
  BY DEF Prepared
<1>1. \E p \in S : \A q \in S : p.key <= q.key
  <2> DEFINE Keys == {p.key : p \in S}
  <2>1. Keys \in SUBSET Nat /\ Keys # {}
    BY <1>0
  <2>2. PICK k \in Keys : \A l \in Keys : k <= l
    BY <2>1, LeastNat
  <2> QED
    BY <2>2
<1>2. \E p \in S : \A q \in S : p.key >= q.key
  <2> DEFINE Keys == {NMsg - p.key : p \in S}
  <2>1. Keys \in SUBSET Nat /\ Keys # {}
    BY <1>0
  <2>2. PICK k \in Keys : \A l \in Keys : k <= l
    BY <2>1, LeastNat
  <2>3. PICK p \in S : k = NMsg - p.key
    BY <2>2
  <2>4. ASSUME NEW q \in S PROVE p.key >= q.key
    <3>1. NMsg - p.key <= NMsg - q.key
      BY <2>2, <2>3
    <3> QED
      BY <1>0, <3>1
  <2> QED
    BY <2>4
<1> QED
  BY <1>1, <1>2

\* The batch made of a nonempty draft is a prepared message.
LEMMA MergePrepared ==
  ASSUME NEW draft \in SUBSET Prepared, draft # {}
  PROVE  Merge(draft) \in Prepared
<1> DEFINE retried == {p \in draft : p.gen = 1}
           Lowest(S) == CHOOSE p \in S : \A q \in S : p.key <= q.key
           Highest(S) == CHOOSE p \in S : \A q \in S : p.key >= q.key
<1>1. retried # {} => Lowest(retried) \in retried
  BY KeyBounds
<1>2. Highest(draft) \in draft
  BY KeyBounds
<1>3. UNION {p.body : p \in draft} \in SUBSET Messages
  BY DEF Prepared
<1>4. \A p \in draft : p.key \in Messages
  BY DEF Prepared
<1> HIDE DEF Lowest, Highest
<1>5. Merge(draft) = [key |-> IF retried # {} THEN Lowest(retried).key
                              ELSE Highest(draft).key,
                      body |-> UNION {p.body : p \in draft},
                      gen |-> IF retried # {} THEN 1 ELSE 0]
  BY DEF Merge, Lowest, Highest
<1> QED
  BY <1>1, <1>2, <1>3, <1>4, <1>5 DEF Prepared

-----------------------------------------------------------------------------
\* The inductive invariant.  TypeOK needs to know which runs have been begun,
\* that those have a key, and that a run whose request is out or whose timers
\* are set has a thread.
RunsBegun ==
  \A r \in Runs :
    /\ r > nrun => /\ run[r].stage = "unused"
                   /\ firstEvent[r] = "off" /\ stall[r] = "off"
    /\ r <= nrun => run[r].stage # "unused"
    /\ run[r].stage # "unused" => run[r].key \in Messages
    /\ run[r].parent <= nrun
    /\ run[r].stage \in {"sending", "accepted"} => run[r].thread \in Threads
    /\ firstEvent[r] # "off" \/ stall[r] # "off" => run[r].thread \in Threads

TypeInv == TypeOK /\ RunsBegun

\* The shape of a dispatch: one more run, its stage "opening", the others as in
\* "runs".
LEMMA DispatchShape ==
  ASSUME TypeInv,
         NEW runs \in [Runs -> RunRecords], NEW prepared \in Prepared,
         NEW caller \in Callers, NEW parent \in 0..NRun,
         NEW draft \in SUBSET Prepared,
         Dispatch(runs, prepared, caller, parent, draft)
  PROVE  /\ nrun + 1 \in Runs /\ nrun' = nrun + 1
         /\ gate' = TRUE
         /\ run' \in [Runs -> RunRecords]
         /\ run'[nrun + 1].stage = "opening"
         /\ run'[nrun + 1].key = prepared.key
         /\ run'[nrun + 1].parent = parent
         /\ \A q \in Runs : q # nrun + 1 => run'[q] = runs[q]
<1>1. nrun + 1 \in Runs /\ nrun' = nrun + 1 /\ gate' = TRUE
  BY DEF Dispatch, TypeInv, TypeOK
<1> DEFINE new == [stage |-> "opening", key |-> prepared.key,
                   body |-> prepared.body, gen |-> prepared.gen,
                   thread |-> None, caller |-> caller, parent |-> parent,
                   draft |-> draft]
<1>2. new \in RunRecords
  <2>1. prepared.key \in 0..NMsg /\ prepared.body \in SUBSET Messages
          /\ prepared.gen \in {0, 1}
    BY DEF Prepared
  <2> QED
    BY <2>1 DEF RunRecords, RunStages
<1>3. run' = [runs EXCEPT ![nrun + 1] = new]
  BY DEF Dispatch
<1> HIDE DEF new
<1>4. run' \in [Runs -> RunRecords] /\ run'[nrun + 1] = new
        /\ \A q \in Runs : q # nrun + 1 => run'[q] = runs[q]
  BY <1>1, <1>2, <1>3
<1> QED
  BY <1>1, <1>4 DEF new

\* A dispatch keeps RunsBegun, when no run is further than it was but the one
\* that may await it, and timers are at most cleared.
LEMMA DispatchBegun ==
  ASSUME TypeInv,
         NEW runs \in [Runs -> RunRecords], NEW prepared \in Prepared,
         NEW caller \in Callers, NEW parent \in 0..nrun,
         NEW draft \in SUBSET Prepared,
         Dispatch(runs, prepared, caller, parent, draft),
         \A q \in Runs :
           /\ runs[q].key = run[q].key /\ runs[q].thread = run[q].thread
           /\ runs[q].parent = run[q].parent
           /\ \/ runs[q].stage = run[q].stage
              \/ runs[q].stage = "recovering" /\ run[q].stage # "unused",
         \A q \in Runs : firstEvent'[q] # "off" \/ stall'[q] # "off"
                          => firstEvent[q] # "off" \/ stall[q] # "off"
  PROVE  RunsBegun'
<1>1. nrun \in 0..NRun /\ parent \in 0..NRun
  BY DEF TypeInv, TypeOK
<1>2. /\ nrun + 1 \in Runs /\ nrun' = nrun + 1
      /\ run'[nrun + 1].stage = "opening"
      /\ run'[nrun + 1].key = prepared.key
      /\ run'[nrun + 1].parent = parent
      /\ \A q \in Runs : q # nrun + 1 => run'[q] = runs[q]
  BY <1>1, DispatchShape
<1>3. prepared.key \in Messages
  BY DEF Prepared
<1>4. RunsBegun
  BY DEF TypeInv
<1> SUFFICES ASSUME NEW r \in Runs
             PROVE  /\ r > nrun' => /\ run'[r].stage = "unused"
                                    /\ firstEvent'[r] = "off" /\ stall'[r] = "off"
                    /\ r <= nrun' => run'[r].stage # "unused"
                    /\ run'[r].stage # "unused" => run'[r].key \in Messages
                    /\ run'[r].parent <= nrun'
                    /\ run'[r].stage \in {"sending", "accepted"}
                         => run'[r].thread \in Threads
                    /\ firstEvent'[r] # "off" \/ stall'[r] # "off"
                         => run'[r].thread \in Threads
  BY DEF RunsBegun
<1>5. CASE r = nrun + 1
  <2>1. firstEvent'[r] = "off" /\ stall'[r] = "off"
    BY <1>1, <1>4, <1>5 DEF RunsBegun
  <2> QED
    BY <1>1, <1>2, <1>3, <1>5, <2>1
<1>6. CASE r # nrun + 1
  <2>1. run'[r] = runs[r]
    BY <1>2, <1>6
  <2>2. (r > nrun' <=> r > nrun) /\ (r <= nrun' <=> r <= nrun)
    BY <1>1, <1>2, <1>6
  <2>3. run[r].parent \in Nat
    BY DEF TypeInv, TypeOK, RunRecords
  <2>4. /\ runs[r].key = run[r].key /\ runs[r].thread = run[r].thread
        /\ runs[r].parent = run[r].parent
        /\ \/ runs[r].stage = run[r].stage
           \/ runs[r].stage = "recovering" /\ run[r].stage # "unused"
    OBVIOUS
  <2>5. /\ r > nrun => /\ run[r].stage = "unused"
                       /\ firstEvent[r] = "off" /\ stall[r] = "off"
        /\ r <= nrun => run[r].stage # "unused"
        /\ run[r].stage # "unused" => run[r].key \in Messages
        /\ run[r].parent <= nrun
        /\ run[r].stage \in {"sending", "accepted"} => run[r].thread \in Threads
        /\ firstEvent[r] # "off" \/ stall[r] # "off" => run[r].thread \in Threads
    BY <1>4 DEF RunsBegun
  <2>6. firstEvent'[r] # "off" \/ stall'[r] # "off" => firstEvent[r] # "off" \/ stall[r] # "off"
    OBVIOUS
  <2>7. run[r].parent <= nrun'
    BY <1>1, <1>2, <2>3, <2>5
  <2>8. r <= nrun \/ r > nrun
    BY <1>1
  <2> HIDE DEF Threads, Messages
  <2> QED
    BY <2>1, <2>2, <2>4, <2>5, <2>6, <2>7, <2>8
<1> QED
  BY <1>5, <1>6

\* A change of one run's stage.
LEMMA StageShape ==
  ASSUME TypeInv, NEW r \in Runs, NEW stage \in RunStages
  PROVE  LET runs == [run EXCEPT ![r].stage = stage]
         IN /\ runs \in [Runs -> RunRecords]
            /\ runs[r].stage = stage /\ runs[r].thread = run[r].thread
            /\ runs[r].key = run[r].key /\ runs[r].parent = run[r].parent
            /\ \A q \in Runs : q # r => runs[q] = run[q]
<1> DEFINE new == [stage |-> stage, key |-> run[r].key, body |-> run[r].body,
                   gen |-> run[r].gen, thread |-> run[r].thread,
                   caller |-> run[r].caller, parent |-> run[r].parent,
                   draft |-> run[r].draft]
<1>1. run \in [Runs -> RunRecords]
  BY DEF TypeInv, TypeOK
<1>2. new \in RunRecords
  BY <1>1 DEF RunRecords
<1>3. [run[r] EXCEPT !.stage = stage] = new
  BY <1>1 DEF RunRecords
<1>4. [run EXCEPT ![r].stage = stage] = [run EXCEPT ![r] = new]
  <2>1. [run EXCEPT ![r].stage = stage]
          = [run EXCEPT ![r] = [run[r] EXCEPT !.stage = stage]]
    OBVIOUS
  <2> QED
    BY <1>3, <2>1
<1> QED
  BY <1>1, <1>2, <1>4

\* The shape of a return: the run's stage changes, and its parent's.
LEMMA ReturnShape ==
  ASSUME TypeInv,
         NEW r \in Runs, NEW ok \in BOOLEAN, NEW stage \in RunStages,
         Return(r, ok, stage, pending)
  PROVE  /\ run' \in [Runs -> RunRecords]
         /\ pending' \in SUBSET Prepared
         /\ main' \in 0..NRun
         /\ chain' \in [stage : {"idle", "deliver", "flush", "await", "close"},
                        run : 0..NRun]
         /\ \A q \in Runs :
              /\ run'[q].stage = IF q = r THEN stage
                                 ELSE IF q = run[r].parent THEN "lost"
                                 ELSE run[q].stage
              /\ run'[q].key = run[q].key /\ run'[q].thread = run[q].thread
              /\ run'[q].parent = run[q].parent
<1>0. run \in [Runs -> RunRecords] /\ pending \in SUBSET Prepared
  BY DEF TypeInv, TypeOK
<1>1. run' = [q \in Runs |->
                IF q = r THEN [run[q] EXCEPT !.stage = stage]
                ELSE IF q = run[r].parent THEN [run[q] EXCEPT !.stage = "lost"]
                ELSE run[q]]
  BY DEF Return
<1>2. \A q \in Runs : \A s \in RunStages :
        /\ [run[q] EXCEPT !.stage = s] \in RunRecords
        /\ [run[q] EXCEPT !.stage = s].stage = s
        /\ [run[q] EXCEPT !.stage = s].key = run[q].key
        /\ [run[q] EXCEPT !.stage = s].thread = run[q].thread
        /\ [run[q] EXCEPT !.stage = s].parent = run[q].parent
  BY <1>0 DEF RunRecords
<1>3. "lost" \in RunStages
  BY DEF RunStages
<1>4. /\ run' \in [Runs -> RunRecords]
      /\ \A q \in Runs :
           /\ run'[q].stage = IF q = r THEN stage
                              ELSE IF q = run[r].parent THEN "lost"
                              ELSE run[q].stage
           /\ run'[q].key = run[q].key /\ run'[q].thread = run[q].thread
           /\ run'[q].parent = run[q].parent
  BY <1>0, <1>1, <1>2, <1>3
<1>5. \A q \in Runs : run[q].draft \in SUBSET Prepared
  BY <1>0 DEF RunRecords
<1>6. pending' \in SUBSET Prepared
  <2>1. run[r].parent = None \/ run[r].parent \in Runs
    BY <1>0 DEF RunRecords
  <2> QED
    BY <1>0, <1>5, <2>1 DEF Return, Restored
<1>7. main' \in 0..NRun
  BY DEF Return, TypeInv, TypeOK
<1>8. chain' \in [stage : {"idle", "deliver", "flush", "await", "close"},
                 run : 0..NRun]
  BY DEF Return, TypeInv, TypeOK
<1> QED
  BY <1>4, <1>6, <1>7, <1>8

\* The invariant holds of the initial states.
LEMMA InitTypeInv == Init => TypeInv
<1> SUFFICES ASSUME Init PROVE TypeInv
  OBVIOUS
<1>1. IdleRun \in RunRecords
  BY DEF IdleRun, RunRecords, RunStages, Callers
<1>2. TypeOK
  <2>1. run \in [Runs -> RunRecords] /\ recovered \in [Messages -> Nat]
          /\ answers \in [Messages -> Nat] /\ running \in [Threads -> 0..NRun]
    BY <1>1 DEF Init
  <2>2. events \in Seq(Runs)
    BY DEF Init
  <2>3. chain \in [stage : {"idle", "deliver", "flush", "await", "close"},
                  run : 0..NRun]
    BY DEF Init
  <2>4. /\ firstEvent \in [Runs -> {"off", "armed", "typing", "cancelling"}]
        /\ stall \in [Runs -> {"off", "armed", "cancelling"}]
        /\ turn \in [Runs -> {"none", "live", "over"}]
    BY DEF Init
  <2>5. /\ pending \in SUBSET Prepared /\ gateThread \in SUBSET Threads
        /\ superseded \in SUBSET Threads /\ usedKeys \in SUBSET Messages
        /\ told \in SUBSET Messages
    BY DEF Init
  <2>6. arrived = 0 /\ main = 0 /\ session = 0 /\ nrun = 0 /\ faults = 0
          /\ resets = 0
    BY DEF Init
  <2>7. /\ arrived \in 0..NMsg /\ main \in 0..NRun /\ session \in 0..NRun
        /\ nrun \in 0..NRun /\ faults \in Nat /\ resets \in Nat
    BY <2>6
  <2>8. gate \in BOOLEAN /\ boundary \in BOOLEAN
    BY DEF Init
  <2> QED
    BY <2>1, <2>2, <2>3, <2>4, <2>5, <2>7, <2>8 DEF TypeOK
<1>3. RunsBegun
  BY DEF Init, RunsBegun, IdleRun
<1> QED
  BY <1>2, <1>3 DEF TypeInv

\* A run in flight has been begun and has a key.
LEMMA InFlightBegun ==
  ASSUME TypeInv, NEW r \in Runs, InFlight(r)
  PROVE  r <= nrun /\ run[r].key \in Messages /\ PreparedOf(r) \in Prepared
<1>1. r <= nrun /\ run[r].key \in Messages
  BY DEF TypeInv, RunsBegun, InFlight, TypeOK
<1>2. run[r] \in RunRecords
  BY DEF TypeInv, TypeOK
<1> QED
  BY <1>1, <1>2 DEF RunRecords, PreparedOf, Prepared

\* The retry that a recovery buffers is a prepared message.
LEMMA RetryDraft ==
  ASSUME TypeInv, NEW r \in Runs, run[r].key \in Messages
  PROVE  LET draft == Buffered([PreparedOf(r) EXCEPT !.gen = 1])
         IN draft \in SUBSET Prepared /\ draft # {} /\ Merge(draft) \in Prepared
<1>1. [PreparedOf(r) EXCEPT !.gen = 1] \in Prepared
  <2>1. run[r].body \in SUBSET Messages
    BY DEF TypeInv, TypeOK, RunRecords
  <2>2. [PreparedOf(r) EXCEPT !.gen = 1]
          = [key |-> run[r].key, body |-> run[r].body, gen |-> 1]
    BY DEF PreparedOf
  <2> QED
    BY <2>1, <2>2 DEF Prepared
<1>2. Buffered([PreparedOf(r) EXCEPT !.gen = 1]) \in SUBSET Prepared
  BY <1>1 DEF Buffered, TypeInv, TypeOK
<1>3. Buffered([PreparedOf(r) EXCEPT !.gen = 1]) # {}
  BY DEF Buffered
<1> QED
  BY <1>2, <1>3, MergePrepared

\* A fault is counted.
LEMMA FaultType ==
  ASSUME TypeInv, NEW kind, Fault(kind)
  PROVE  faults' \in Nat
BY DEF Fault, TypeInv, TypeOK

\* Messages in.
LEMMA InboundTypeInv ==
  ASSUME TypeInv, BufferInbound \/ RouteInbound \/ PollFlush \/ FreshThread
  PROVE  TypeInv'
<1>0. arrived < NMsg => Arrived \in Prepared
  BY DEF Arrived, Prepared, TypeInv, TypeOK
<1>1. CASE BufferInbound
  <2>1. TypeOK'
    BY <1>0, <1>1 DEF BufferInbound, Buffered, TypeInv, TypeOK, history
  <2>2. RunsBegun'
    BY <1>1 DEF BufferInbound, TypeInv, RunsBegun
  <2> QED
    BY <2>1, <2>2 DEF TypeInv
<1>2. CASE RouteInbound
  <2>1. Dispatch(run, Arrived, "route", None, {})
    BY <1>2 DEF RouteInbound
  <2>2. /\ Arrived \in Prepared /\ run \in [Runs -> RunRecords]
        /\ "route" \in Callers /\ None \in 0..NRun /\ {} \in SUBSET Prepared
    BY <1>0, <1>2 DEF RouteInbound, TypeInv, TypeOK, Callers
  <2>3. /\ nrun + 1 \in Runs /\ nrun' = nrun + 1
        /\ gate' = TRUE
        /\ run' \in [Runs -> RunRecords]
        /\ run'[nrun + 1].stage = "opening"
        /\ run'[nrun + 1].key = Arrived.key
        /\ run'[nrun + 1].parent = None
        /\ \A q \in Runs : q # nrun + 1 => run'[q] = run[q]
    BY <2>1, <2>2, DispatchShape
  <2>4. TypeOK'
    <3>1. nrun' \in 0..NRun /\ main' \in 0..NRun /\ arrived' \in 0..NMsg
            /\ pending' \in SUBSET Prepared /\ gate' \in BOOLEAN
      BY <1>2, <2>3 DEF RouteInbound, TypeInv, TypeOK
    <3> QED
      BY <1>2, <2>3, <3>1 DEF RouteInbound, TypeInv, TypeOK, history
  <2>5. RunsBegun'
    <3>1. None \in 0..nrun /\ firstEvent' = firstEvent /\ stall' = stall
      BY <1>2 DEF RouteInbound, TypeInv, TypeOK
    <3> QED
      BY <2>1, <2>2, <3>1, DispatchBegun
  <2> QED
    BY <2>4, <2>5 DEF TypeInv
<1>3. CASE PollFlush
  <2>1. Dispatch(run, Merge(pending), "poll", None, pending)
    BY <1>3 DEF PollFlush
  <2>2. /\ Merge(pending) \in Prepared /\ run \in [Runs -> RunRecords]
        /\ "poll" \in Callers /\ None \in 0..NRun
        /\ pending \in SUBSET Prepared
    BY <1>3, MergePrepared DEF PollFlush, TypeInv, TypeOK, Callers
  <2>3. /\ nrun + 1 \in Runs /\ nrun' = nrun + 1
        /\ gate' = TRUE
        /\ run' \in [Runs -> RunRecords]
        /\ run'[nrun + 1].stage = "opening"
        /\ run'[nrun + 1].key = Merge(pending).key
        /\ run'[nrun + 1].parent = None
        /\ \A q \in Runs : q # nrun + 1 => run'[q] = run[q]
    BY <2>1, <2>2, DispatchShape
  <2>4. TypeOK'
    <3>1. nrun' \in 0..NRun /\ main' \in 0..NRun /\ arrived' \in 0..NMsg
            /\ pending' \in SUBSET Prepared /\ gate' \in BOOLEAN
      BY <1>3, <2>3 DEF PollFlush, TypeInv, TypeOK
    <3> QED
      BY <1>3, <2>3, <3>1 DEF PollFlush, TypeInv, TypeOK, history
  <2>5. RunsBegun'
    <3>1. None \in 0..nrun /\ firstEvent' = firstEvent /\ stall' = stall
      BY <1>3 DEF PollFlush, TypeInv, TypeOK
    <3> QED
      BY <2>1, <2>2, <3>1, DispatchBegun
  <2> QED
    BY <2>4, <2>5 DEF TypeInv
<1>4. CASE FreshThread
  <2>1. session' \in 0..NRun /\ resets' \in Nat
    BY <1>4 DEF FreshThread, TypeInv, TypeOK
  <2>2. TypeOK'
    BY <1>4, <2>1 DEF FreshThread, TypeInv, TypeOK, history
  <2>3. RunsBegun'
    BY <1>4 DEF FreshThread, TypeInv, RunsBegun
  <2> QED
    BY <2>2, <2>3 DEF TypeInv
<1> QED
  BY <1>1, <1>2, <1>3, <1>4

\* A return keeps RunsBegun: the parent was begun, and nothing else moves on.
LEMMA ReturnBegun ==
  ASSUME TypeInv,
         NEW r \in Runs, NEW ok \in BOOLEAN,
         NEW stage \in RunStages \ {"unused", "sending"}, InFlight(r),
         stage = "accepted" => run[r].thread \in Threads,
         Return(r, ok, stage, pending), nrun' = nrun,
         \A q \in Runs : firstEvent'[q] # "off" \/ stall'[q] # "off"
           => \/ firstEvent[q] # "off" \/ stall[q] # "off"
              \/ q = r /\ stage = "accepted"
  PROVE  RunsBegun'
<1>1. nrun \in 0..NRun /\ \A q \in Runs : run[q].parent \in 0..nrun
  BY DEF TypeInv, TypeOK, RunsBegun, RunRecords
<1>2. r <= nrun /\ run[r].key \in Messages
  BY InFlightBegun
<1>3. \A q \in Runs :
        /\ run'[q].stage = IF q = r THEN stage
                           ELSE IF q = run[r].parent THEN "lost"
                           ELSE run[q].stage
        /\ run'[q].key = run[q].key /\ run'[q].thread = run[q].thread
        /\ run'[q].parent = run[q].parent
  BY ReturnShape
<1>4. RunsBegun
  BY DEF TypeInv
<1> QED
  BY <1>1, <1>2, <1>3, <1>4 DEF RunsBegun

\* Clearing watchdogs only clears.
LEMMA ClearOnly ==
  ASSUME TypeInv, NEW t
  PROVE  /\ ClearFirstEvent(t) \in [Runs -> {"off", "armed", "typing", "cancelling"}]
         /\ \A q \in Runs : ClearFirstEvent(t)[q] # "off" => firstEvent[q] # "off"
BY DEF ClearFirstEvent, TypeInv, TypeOK

\* A dispatch after its first await.
LEMMA DispatchTypeInv ==
  ASSUME TypeInv, NEW r \in Runs, DispatchStep(r)
  PROVE  TypeInv'
<1>1. CASE OpenThread(r)
  <2>1. PICK t \in {r} \cup ({session} \ {None}) :
          /\ session' = t
          /\ run' = [run EXCEPT ![r].stage = "sending", ![r].thread = t]
    BY <1>1 DEF OpenThread
  <2>2. t \in Threads /\ run \in [Runs -> RunRecords]
    BY <2>1 DEF TypeInv, TypeOK
  <2>3. /\ run' \in [Runs -> RunRecords]
        /\ run'[r].stage = "sending" /\ run'[r].thread = t
        /\ run'[r].key = run[r].key /\ run'[r].parent = run[r].parent
        /\ \A q \in Runs : q # r => run'[q] = run[q]
    <3> DEFINE new == [stage |-> "sending", key |-> run[r].key,
                       body |-> run[r].body, gen |-> run[r].gen, thread |-> t,
                       caller |-> run[r].caller, parent |-> run[r].parent,
                       draft |-> run[r].draft]
    <3>1. [[run[r] EXCEPT !.stage = "sending"] EXCEPT !.thread = t] = new
      <4> DEFINE mid == [stage |-> "sending", key |-> run[r].key,
                         body |-> run[r].body, gen |-> run[r].gen,
                         thread |-> run[r].thread, caller |-> run[r].caller,
                         parent |-> run[r].parent, draft |-> run[r].draft]
      <4>1. [run[r] EXCEPT !.stage = "sending"] = mid
        BY <2>2 DEF RunRecords
      <4>2. [mid EXCEPT !.thread = t] = new
        OBVIOUS
      <4> QED
        BY <4>1, <4>2
    <3>2. new \in RunRecords
      BY <2>2 DEF RunRecords, RunStages
    <3>3. [run EXCEPT ![r].stage = "sending", ![r].thread = t]
            = [run EXCEPT ![r] = [[run[r] EXCEPT !.stage = "sending"]
                                    EXCEPT !.thread = t]]
      BY <2>2
    <3> QED
      BY <2>1, <2>2, <3>1, <3>2, <3>3
  <2>4. TypeOK'
    <3>1. session' \in 0..NRun
      BY <2>1, <2>2
    <3> QED
      BY <1>1, <2>3, <3>1 DEF OpenThread, TypeInv, TypeOK, history
  <2>5. RunsBegun'
    <3>1. r <= nrun /\ run[r].key \in Messages /\ RunsBegun
      BY <1>1, InFlightBegun DEF OpenThread, InFlight, TypeInv
    <3>2. nrun' = nrun /\ firstEvent' = firstEvent /\ stall' = stall
      BY <1>1 DEF OpenThread
    <3>3. nrun \in 0..NRun
      BY DEF TypeInv, TypeOK
    <3> QED
      BY <2>2, <2>3, <3>1, <3>2, <3>3 DEF RunsBegun
  <2> QED
    BY <2>4, <2>5 DEF TypeInv
<1>2. CASE Accept(r)
  <2>1. /\ InFlight(r) /\ Return(r, TRUE, "accepted", pending)
        /\ TRUE \in BOOLEAN /\ "accepted" \in RunStages \ {"unused", "sending"}
    BY <1>2 DEF Accept, InFlight, RunStages
  <2>2. /\ run' \in [Runs -> RunRecords]
        /\ pending' \in SUBSET Prepared
        /\ main' \in 0..NRun
        /\ chain' \in [stage : {"idle", "deliver", "flush", "await", "close"},
                       run : 0..NRun]
    BY <2>1, ReturnShape
  <2>3. run[r].thread \in Threads /\ TypeOK
    BY <1>2 DEF Accept, TypeInv, RunsBegun
  <2>4. /\ firstEvent' \in [Runs -> {"off", "armed", "typing", "cancelling"}]
        /\ stall' \in [Runs -> {"off", "armed", "cancelling"}]
        /\ \A q \in Runs : firstEvent'[q] # "off" \/ stall'[q] # "off"
             => firstEvent[q] # "off" \/ stall[q] # "off" \/ q = r
    BY <1>2, ClearOnly DEF Accept, TypeInv, TypeOK
  <2>5. gateThread' \in SUBSET Threads
    BY <1>2, <2>3 DEF Accept, Attached, TypeOK
  <2>6. TypeOK'
    BY <1>2, <2>2, <2>3, <2>4, <2>5 DEF Accept, TypeOK, history
  <2>7. RunsBegun'
    <3>1. nrun' = nrun
      BY <1>2 DEF Accept
    <3> QED
      BY <2>1, <2>3, <2>4, <3>1, ReturnBegun
  <2> QED
    BY <2>6, <2>7 DEF TypeInv
<1>3. CASE Reject(r)
  <2>1. /\ InFlight(r) /\ Return(r, FALSE, "rejected", pending)
        /\ FALSE \in BOOLEAN /\ "rejected" \in RunStages \ {"unused", "sending"}
    BY <1>3 DEF Reject, InFlight, RunStages
  <2>2. /\ run' \in [Runs -> RunRecords]
        /\ pending' \in SUBSET Prepared
        /\ main' \in 0..NRun
        /\ chain' \in [stage : {"idle", "deliver", "flush", "await", "close"},
                       run : 0..NRun]
    BY <2>1, ReturnShape
  <2>3. told' \in SUBSET Messages /\ faults' \in Nat
    <3>1. run[r].body \in SUBSET Messages /\ told \in SUBSET Messages
      BY DEF TypeInv, TypeOK, RunRecords
    <3> QED
      BY <1>3, <3>1, FaultType DEF Reject
  <2>4. TypeOK'
    BY <1>3, <2>2, <2>3 DEF Reject, TypeInv, TypeOK, history
  <2>5. RunsBegun'
    <3>1. nrun' = nrun /\ firstEvent' = firstEvent /\ stall' = stall
      BY <1>3 DEF Reject
    <3> QED
      BY <2>1, <3>1, ReturnBegun
  <2> QED
    BY <2>4, <2>5 DEF TypeInv
<1>4. CASE TransportFailNoRetry(r)
  <2>1. /\ InFlight(r) /\ Return(r, (~ThreadRunning(session)), "lost", pending)
        /\ (~ThreadRunning(session)) \in BOOLEAN /\ "lost" \in RunStages \ {"unused", "sending"}
    BY <1>4 DEF TransportFailNoRetry, InFlight, RunStages
  <2>2. /\ run' \in [Runs -> RunRecords]
        /\ pending' \in SUBSET Prepared
        /\ main' \in 0..NRun
        /\ chain' \in [stage : {"idle", "deliver", "flush", "await", "close"},
                       run : 0..NRun]
    BY <2>1, ReturnShape
  <2>3. told' \in SUBSET Messages /\ faults' \in Nat
    <3>1. run[r].body \in SUBSET Messages /\ told \in SUBSET Messages
      BY DEF TypeInv, TypeOK, RunRecords
    <3> QED
      BY <1>4, <3>1, FaultType DEF TransportFailNoRetry
  <2>4. TypeOK'
    BY <1>4, <2>2, <2>3 DEF TransportFailNoRetry, TypeInv, TypeOK, history
  <2>5. RunsBegun'
    <3>1. nrun' = nrun /\ firstEvent' = firstEvent /\ stall' = stall
      BY <1>4 DEF TransportFailNoRetry
    <3> QED
      BY <2>1, <3>1, ReturnBegun
  <2> QED
    BY <2>4, <2>5 DEF TypeInv
<1>5. CASE TransportFailThrow(r)
  <2>1. InFlight(r) /\ run' = [run EXCEPT ![r].stage = "rejected"]
    BY <1>5 DEF TransportFailThrow
  <2>2. /\ run' \in [Runs -> RunRecords]
        /\ run'[r].stage = "rejected" /\ run'[r].thread = run[r].thread
        /\ run'[r].key = run[r].key /\ run'[r].parent = run[r].parent
        /\ \A q \in Runs : q # r => run'[q] = run[q]
    BY <2>1, StageShape DEF RunStages
  <2>3. r <= nrun /\ run[r].key \in Messages
    BY <2>1, InFlightBegun
  <2>4. /\ usedKeys' \in SUBSET Messages /\ faults' \in Nat
        /\ main' \in 0..NRun
        /\ chain' \in [stage : {"idle", "deliver", "flush", "await", "close"},
                       run : 0..NRun]
    <3>1. usedKeys' \in SUBSET Messages
      BY <1>5, <2>3 DEF TransportFailThrow, TypeInv, TypeOK
    <3>2. faults' \in Nat
      BY <1>5, FaultType DEF TransportFailThrow
    <3>3. main' \in 0..NRun
      BY <1>5 DEF TransportFailThrow, TypeInv, TypeOK
    <3>4. chain' \in [stage : {"idle", "deliver", "flush", "await", "close"},
                     run : 0..NRun]
      BY <1>5 DEF TransportFailThrow, TypeInv, TypeOK
    <3> QED
      BY <3>1, <3>2, <3>3, <3>4
  <2>5. TypeOK'
    BY <1>5, <2>2, <2>4 DEF TransportFailThrow, TypeInv, TypeOK, history
  <2>6. RunsBegun'
    BY <1>5, <2>2, <2>3 DEF TransportFailThrow, TypeInv, RunsBegun
  <2> QED
    BY <2>5, <2>6 DEF TypeInv
<1>6. CASE TransportFailRecover(r)
  <2> DEFINE draft == Buffered([PreparedOf(r) EXCEPT !.gen = 1])
             runs == [run EXCEPT ![r].stage = "recovering"]
  <2>1. InFlight(r) /\ Dispatch(runs, Merge(draft), "recovery", r, draft)
    BY <1>6 DEF TransportFailRecover
  <2>2. /\ runs \in [Runs -> RunRecords]
        /\ runs[r].stage = "recovering" /\ runs[r].thread = run[r].thread
        /\ runs[r].key = run[r].key /\ runs[r].parent = run[r].parent
        /\ \A q \in Runs : q # r => runs[q] = run[q]
    BY StageShape DEF RunStages
  <2>3. r <= nrun /\ run[r].key \in Messages /\ run[r].stage # "unused"
    BY <2>1, InFlightBegun DEF InFlight
  <2>4. draft \in SUBSET Prepared /\ Merge(draft) \in Prepared
    BY <2>3, RetryDraft
  <2>5. /\ "recovery" \in Callers /\ r \in 0..NRun /\ r \in 0..nrun
        /\ firstEvent' = firstEvent /\ stall' = stall
    BY <1>6, <2>3 DEF TransportFailRecover, Callers, TypeInv, TypeOK
  <2> HIDE DEF draft, runs
  <2>6. /\ nrun + 1 \in Runs /\ nrun' = nrun + 1
        /\ gate' = TRUE
        /\ run' \in [Runs -> RunRecords]
    BY <2>1, <2>2, <2>4, <2>5, DispatchShape
  <2>7. /\ usedKeys' \in SUBSET Messages /\ faults' \in Nat
        /\ superseded' \in SUBSET Threads /\ gateThread' \in SUBSET Threads
        /\ recovered' \in [Messages -> Nat]
        /\ session' \in 0..NRun /\ pending' \in SUBSET Prepared
        /\ nrun' \in 0..NRun /\ gate' \in BOOLEAN
    <3>1. usedKeys' \in SUBSET Messages /\ recovered' \in [Messages -> Nat]
      <4>1. /\ usedKeys' = usedKeys \cup {run[r].key}
            /\ recovered' = [recovered EXCEPT ![run[r].key] = @ + 1]
        BY <1>6 DEF TransportFailRecover
      <4>2. usedKeys \in SUBSET Messages /\ recovered \in [Messages -> Nat]
        BY DEF TypeInv, TypeOK
      <4>3. usedKeys' \in SUBSET Messages
        BY <2>3, <4>1, <4>2
      <4>4. recovered' \in [Messages -> Nat]
        BY <2>3, <4>1, <4>2
      <4> QED
        BY <4>3, <4>4
    <3>2. faults' \in Nat
      BY <1>6, FaultType DEF TransportFailRecover
    <3>3. superseded' \in SUBSET Threads /\ gateThread' \in SUBSET Threads
      BY <1>6 DEF TransportFailRecover, TypeInv, TypeOK
    <3>4. session' \in 0..NRun /\ pending' \in SUBSET Prepared
      BY <1>6 DEF TransportFailRecover
    <3>5. nrun' \in 0..NRun /\ gate' \in BOOLEAN
      BY <2>6
    <3> QED
      BY <3>1, <3>2, <3>3, <3>4, <3>5
  <2>8. TypeOK'
    BY <1>6, <2>6, <2>7 DEF TransportFailRecover, TypeInv, TypeOK
  <2>9. RunsBegun'
    BY <2>1, <2>2, <2>3, <2>4, <2>5, DispatchBegun
  <2> QED
    BY <2>8, <2>9 DEF TypeInv
<1> QED
  BY <1>1, <1>2, <1>3, <1>4, <1>5, <1>6 DEF DispatchStep

\* The watchdogs.
LEMMA TimerTypeInv ==
  ASSUME TypeInv, NEW r \in Runs, TimerStep(r)
  PROVE  TypeInv'
<1>0. run[r].body \in SUBSET Messages /\ told \in SUBSET Messages
  BY DEF TypeInv, TypeOK, RunRecords
<1>1. CASE FirstEventTimeout(r)
  <2>1. faults' \in Nat
    BY <1>1, FaultType DEF FirstEventTimeout
  <2>2. firstEvent' \in [Runs -> {"off", "armed", "typing", "cancelling"}]
    BY <1>1 DEF FirstEventTimeout, TypeInv, TypeOK
  <2>3. TypeOK'
    BY <1>1, <2>1, <2>2 DEF FirstEventTimeout, TypeInv, TypeOK, history
  <2>4. RunsBegun'
    BY <1>1 DEF FirstEventTimeout, TypeInv, TypeOK, RunsBegun
  <2> QED
    BY <2>3, <2>4 DEF TypeInv
<1>2. CASE FirstEventNotice(r)
  <2>1. told' \in SUBSET Messages
    BY <1>0, <1>2 DEF FirstEventNotice
  <2>2. firstEvent' \in [Runs -> {"off", "armed", "typing", "cancelling"}]
    BY <1>2 DEF FirstEventNotice, TypeInv, TypeOK
  <2>3. TypeOK'
    BY <1>2, <2>1, <2>2 DEF FirstEventNotice, TypeInv, TypeOK, history
  <2>4. RunsBegun'
    BY <1>2 DEF FirstEventNotice, TypeInv, TypeOK, RunsBegun
  <2> QED
    BY <2>3, <2>4 DEF TypeInv
<1>3. CASE FirstEventSupersede(r)
  <2>1. run[r].thread \in Threads /\ run[r].key \in Messages
    BY <1>3 DEF FirstEventSupersede, TypeInv, TypeOK, RunsBegun
  <2>2. firstEvent' \in [Runs -> {"off", "armed", "typing", "cancelling"}]
    BY <1>3 DEF FirstEventSupersede, TypeInv, TypeOK
  <2>3. superseded' \in SUBSET Threads
    BY <1>3, <2>1 DEF FirstEventSupersede, TypeInv, TypeOK
  <2>4. usedKeys' \in SUBSET Messages
    BY <1>3, <2>1 DEF FirstEventSupersede, TypeInv, TypeOK
  <2>5. recovered' \in [Messages -> Nat]
    <3>1. recovered' = [recovered EXCEPT ![run[r].key] = @ + 1]
      BY <1>3 DEF FirstEventSupersede
    <3>2. recovered \in [Messages -> Nat]
      BY DEF TypeInv, TypeOK
    <3>3. PICK k \in Messages : k = run[r].key
      BY <2>1
    <3>4. recovered[k] + 1 \in Nat
      BY <3>2
    <3> QED
      BY <3>1, <3>2, <3>3, <3>4, Zenon
  <2>6. session' \in 0..NRun
    BY <1>3 DEF FirstEventSupersede
  <2>7. TypeOK'
    BY <1>3, <2>2, <2>3, <2>4, <2>5, <2>6
       DEF FirstEventSupersede, TypeInv, TypeOK, history
  <2>8. RunsBegun'
    <3>1. /\ firstEvent[r] # "off" /\ firstEvent' = [firstEvent EXCEPT ![r] = "cancelling"]
          /\ UNCHANGED <<nrun, run, stall>>
      BY <1>3 DEF FirstEventSupersede
    <3>2. \A q \in Runs : firstEvent'[q] = "off" <=> firstEvent[q] = "off"
      BY <3>1 DEF TypeInv, TypeOK
    <3> QED
      BY <3>1, <3>2 DEF TypeInv, RunsBegun
  <2> QED
    BY <2>7, <2>8 DEF TypeInv
<1>4. CASE FirstEventRequeue(r)
  <2> DEFINE draft == Buffered([PreparedOf(r) EXCEPT !.gen = 1])
  <2>1. /\ firstEvent[r] = "cancelling"
        /\ firstEvent' = [firstEvent EXCEPT ![r] = "off"]
        /\ gateThread' = gateThread \ {run[r].thread}
        /\ UNCHANGED <<arrived, main, boundary, session, running, superseded,
                       usedKeys, stall, events, chain, turn, faults, resets,
                       history>>
    BY <1>4 DEF FirstEventRequeue
  <2>2. r <= nrun /\ run[r].key \in Messages
    BY <2>1 DEF TypeInv, TypeOK, RunsBegun
  <2>3. draft \in SUBSET Prepared /\ Merge(draft) \in Prepared
    BY <2>2, RetryDraft
  <2>4. /\ firstEvent' \in [Runs -> {"off", "armed", "typing", "cancelling"}]
        /\ \A q \in Runs : firstEvent'[q] # "off" => firstEvent[q] # "off"
    BY <2>1 DEF TypeInv, TypeOK
  <2>5. gateThread' \in SUBSET Threads
    BY <2>1 DEF TypeInv, TypeOK
  <2>6. \/ gate' = FALSE /\ pending' = draft /\ UNCHANGED <<nrun, run>>
        \/ pending' = {} /\ Dispatch(run, Merge(draft), "timer", None, draft)
    BY <1>4 DEF FirstEventRequeue
  <2> HIDE DEF draft
  <2>7. CASE gate' = FALSE /\ pending' = draft /\ UNCHANGED <<nrun, run>>
    <3>1. TypeOK'
      BY <2>1, <2>3, <2>4, <2>5, <2>7 DEF TypeInv, TypeOK, history
    <3>2. RunsBegun'
      BY <2>1, <2>4, <2>7 DEF TypeInv, RunsBegun
    <3> QED
      BY <3>1, <3>2 DEF TypeInv
  <2>8. CASE pending' = {} /\ Dispatch(run, Merge(draft), "timer", None, draft)
    <3>1. /\ run \in [Runs -> RunRecords] /\ "timer" \in Callers
          /\ None \in 0..NRun /\ None \in 0..nrun /\ stall' = stall
      BY <2>1 DEF TypeInv, TypeOK, Callers
    <3>2. /\ nrun + 1 \in Runs /\ nrun' = nrun + 1 /\ gate' = TRUE
          /\ run' \in [Runs -> RunRecords]
      BY <2>3, <2>8, <3>1, DispatchShape
    <3>3. nrun' \in 0..NRun /\ pending' \in SUBSET Prepared /\ gate' \in BOOLEAN
      BY <2>8, <3>2
    <3>4. TypeOK'
      BY <2>1, <2>4, <2>5, <3>2, <3>3 DEF TypeInv, TypeOK, history
    <3>5. RunsBegun'
      BY <2>3, <2>4, <2>8, <3>1, DispatchBegun
    <3> QED
      BY <3>4, <3>5 DEF TypeInv
  <2> QED
    BY <2>6, <2>7, <2>8
<1>5. CASE StallTimeout(r)
  <2>1. faults' \in Nat
    BY <1>5, FaultType DEF StallTimeout
  <2>2. stall' \in [Runs -> {"off", "armed", "cancelling"}]
    BY <1>5 DEF StallTimeout, TypeInv, TypeOK
  <2>3. told' \in SUBSET Messages
    BY <1>0, <1>5 DEF StallTimeout
  <2>4. TypeOK'
    BY <1>5, <2>1, <2>2, <2>3 DEF StallTimeout, TypeInv, TypeOK, history
  <2>5. RunsBegun'
    <3>1. /\ stall[r] # "off" /\ stall' = [stall EXCEPT ![r] = "cancelling"]
          /\ UNCHANGED <<nrun, run, firstEvent>>
      BY <1>5 DEF StallTimeout
    <3>2. \A q \in Runs : stall'[q] = "off" <=> stall[q] = "off"
      BY <3>1 DEF TypeInv, TypeOK
    <3> QED
      BY <3>1, <3>2 DEF TypeInv, RunsBegun
  <2> QED
    BY <2>4, <2>5 DEF TypeInv
<1>6. CASE StallRelease(r)
  <2>1. /\ stall[r] = "cancelling"
        /\ stall' = [stall EXCEPT ![r] = "off"]
        /\ gateThread' = gateThread \ {run[r].thread}
        /\ UNCHANGED <<arrived, main, boundary, session, running, superseded,
                       usedKeys, firstEvent, events, chain, turn, faults,
                       resets, history>>
    BY <1>6 DEF StallRelease
  <2>2. /\ stall' \in [Runs -> {"off", "armed", "cancelling"}]
        /\ \A q \in Runs : stall'[q] # "off" => stall[q] # "off"
    BY <2>1 DEF TypeInv, TypeOK
  <2>3. gateThread' \in SUBSET Threads
    BY <2>1 DEF TypeInv, TypeOK
  <2>4. \/ /\ gate' = GateAfterRelease(run[r].thread)
           /\ UNCHANGED <<pending, nrun, run>>
        \/ /\ pending # {} /\ pending' = {}
           /\ Dispatch(run, Merge(pending), "timer", None, pending)
    BY <1>6 DEF StallRelease
  <2>5. CASE /\ gate' = GateAfterRelease(run[r].thread)
             /\ UNCHANGED <<pending, nrun, run>>
    <3>1. gate' \in BOOLEAN
      BY <2>5 DEF GateAfterRelease
    <3>2. TypeOK'
      BY <2>1, <2>2, <2>3, <2>5, <3>1 DEF TypeInv, TypeOK, history
    <3>3. RunsBegun'
      BY <2>1, <2>2, <2>5 DEF TypeInv, RunsBegun
    <3> QED
      BY <3>2, <3>3 DEF TypeInv
  <2>6. CASE /\ pending # {} /\ pending' = {}
             /\ Dispatch(run, Merge(pending), "timer", None, pending)
    <3>1. /\ run \in [Runs -> RunRecords] /\ "timer" \in Callers
          /\ None \in 0..NRun /\ None \in 0..nrun
          /\ firstEvent' = firstEvent /\ pending \in SUBSET Prepared
      BY <2>1 DEF TypeInv, TypeOK, Callers
    <3>2. Merge(pending) \in Prepared
      BY <2>6, <3>1, MergePrepared
    <3>3. /\ nrun + 1 \in Runs /\ nrun' = nrun + 1 /\ gate' = TRUE
          /\ run' \in [Runs -> RunRecords]
      BY <2>6, <3>1, <3>2, DispatchShape
    <3>4. nrun' \in 0..NRun /\ pending' \in SUBSET Prepared /\ gate' \in BOOLEAN
      BY <2>6, <3>3
    <3>5. TypeOK'
      BY <2>1, <2>2, <2>3, <3>3, <3>4 DEF TypeInv, TypeOK, history
    <3>6. RunsBegun'
      BY <2>2, <2>6, <3>1, <3>2, DispatchBegun
    <3> QED
      BY <3>5, <3>6 DEF TypeInv
  <2> QED
    BY <2>4, <2>5, <2>6
<1> QED
  BY <1>1, <1>2, <1>3, <1>4, <1>5, <1>6 DEF TimerStep

\* The runtime.
LEMMA RuntimeTypeInv ==
  ASSUME TypeInv, NEW r \in Runs, RuntimeStep(r)
  PROVE  TypeInv'
<1> DEFINE t == run[r].thread
<1>0. t \in 0..NRun
  BY DEF TypeInv, TypeOK, RunRecords
<1>1. CASE TurnStarted(r)
  <2>1. turn' \in [Runs -> {"none", "live", "over"}]
    BY <1>1 DEF TurnStarted, TypeInv, TypeOK
  <2>2. running' = running \/ running' = [running EXCEPT ![t] = r]
    BY <1>1 DEF TurnStarted
  <2>3. running' \in [Threads -> 0..NRun]
    <3>1. running \in [Threads -> 0..NRun] /\ r \in 0..NRun
      BY DEF TypeInv, TypeOK
    <3>2. [running EXCEPT ![t] = r] \in [Threads -> 0..NRun]
      BY <3>1
    <3> QED
      BY <2>2, <3>1, <3>2
  <2>4. TypeOK'
    BY <1>1, <2>1, <2>3 DEF TurnStarted, TypeInv, TypeOK, history
  <2>5. RunsBegun'
    BY <1>1 DEF TurnStarted, TypeInv, RunsBegun
  <2> QED
    BY <2>4, <2>5 DEF TypeInv
<1>2. CASE TurnOutput(r)
  <2>1. /\ firstEvent' \in [Runs -> {"off", "armed", "typing", "cancelling"}]
        /\ \A q \in Runs : firstEvent'[q] # "off" => firstEvent[q] # "off"
    BY <1>2, ClearOnly DEF TurnOutput
  <2>2. TypeOK'
    BY <1>2, <2>1 DEF TurnOutput, TypeInv, TypeOK, history
  <2>3. RunsBegun'
    BY <1>2, <2>1 DEF TurnOutput, TypeInv, RunsBegun
  <2> QED
    BY <2>2, <2>3 DEF TypeInv
<1>3. CASE TurnEnded(r)
  <2>1. turn' \in [Runs -> {"none", "live", "over"}]
    BY <1>3 DEF TurnEnded, TypeInv, TypeOK
  <2>2. \/ UNCHANGED <<running, firstEvent, stall, events>>
        \/ /\ running' = [running EXCEPT ![t] = None]
           /\ firstEvent' = ClearFirstEvent(t)
           /\ stall' = stall \/ stall' = [stall EXCEPT ![r] = "off"]
           /\ events' = Append(events, r)
    BY <1>3 DEF TurnEnded
  <2>3. running' \in [Threads -> 0..NRun]
    <3>1. running \in [Threads -> 0..NRun] /\ None \in 0..NRun
      BY DEF TypeInv, TypeOK
    <3>2. [running EXCEPT ![t] = None] \in [Threads -> 0..NRun]
      BY <3>1
    <3> QED
      BY <2>2, <3>1, <3>2
  <2>4. /\ firstEvent' \in [Runs -> {"off", "armed", "typing", "cancelling"}]
        /\ \A q \in Runs : firstEvent'[q] # "off" => firstEvent[q] # "off"
    <3>1. firstEvent' = firstEvent \/ firstEvent' = ClearFirstEvent(t)
      BY <2>2
    <3>2. firstEvent \in [Runs -> {"off", "armed", "typing", "cancelling"}]
      BY DEF TypeInv, TypeOK
    <3> QED
      BY <3>1, <3>2, ClearOnly
  <2>5. /\ stall' \in [Runs -> {"off", "armed", "cancelling"}]
        /\ \A q \in Runs : stall'[q] # "off" => stall[q] # "off"
    BY <2>2 DEF TypeInv, TypeOK
  <2>6. events' \in Seq(Runs)
    <3>1. events \in Seq(Runs) /\ (events' = events \/ events' = Append(events, r))
      BY <2>2 DEF TypeInv, TypeOK
    <3> QED
      BY <3>1
  <2>7. TypeOK'
    BY <1>3, <2>1, <2>3, <2>4, <2>5, <2>6 DEF TurnEnded, TypeInv, TypeOK, history
  <2>8. RunsBegun'
    BY <1>3, <2>4, <2>5 DEF TurnEnded, TypeInv, RunsBegun
  <2> QED
    BY <2>7, <2>8 DEF TypeInv
<1> QED
  BY <1>1, <1>2, <1>3 DEF RuntimeStep

\* The event chain.
LEMMA ChainTypeInv ==
  ASSUME TypeInv, ChainStep
  PROVE  TypeInv'
<1> DEFINE ChainType == [stage : {"idle", "deliver", "flush", "await", "close"},
                         run : 0..NRun]
<1>0. chain \in ChainType
  BY DEF TypeInv, TypeOK
<1>1. CASE ChainDeliver
  <2>1. Head(events) \in Runs /\ events' \in Seq(Runs)
    BY <1>1 DEF ChainDeliver, TypeInv, TypeOK
  <2>2. \/ UNCHANGED <<chain, answers>>
        \/ /\ chain' = [stage |-> "deliver", run |-> Head(events)]
           /\ answers' = [m \in Messages |->
                            IF m \in run[Head(events)].body THEN answers[m] + 1
                            ELSE answers[m]]
    BY <1>1 DEF ChainDeliver
  <2>3. chain' \in ChainType
    BY <1>0, <2>1, <2>2
  <2>4. answers' \in [Messages -> Nat]
    <3>1. answers \in [Messages -> Nat]
      BY DEF TypeInv, TypeOK
    <3>2. [m \in Messages |-> IF m \in run[Head(events)].body THEN answers[m] + 1
                              ELSE answers[m]] \in [Messages -> Nat]
      BY <3>1
    <3> QED
      BY <2>2, <3>1, <3>2
  <2>5. TypeOK'
    BY <1>1, <2>1, <2>3, <2>4 DEF ChainDeliver, TypeInv, TypeOK
  <2>6. RunsBegun'
    BY <1>1 DEF ChainDeliver, TypeInv, RunsBegun
  <2> QED
    BY <2>5, <2>6 DEF TypeInv
<1>2. CASE ChainRelease
  <2>1. chain' \in ChainType
    BY <1>0, <1>2 DEF ChainRelease
  <2>2. gateThread' \in SUBSET Threads
    BY <1>2 DEF ChainRelease, TypeInv, TypeOK
  <2>3. gate' \in BOOLEAN /\ boundary' \in BOOLEAN
    BY <1>2 DEF ChainRelease, GateAfterRelease
  <2>4. TypeOK'
    BY <1>2, <2>1, <2>2, <2>3 DEF ChainRelease, TypeInv, TypeOK, history
  <2>5. RunsBegun'
    BY <1>2 DEF ChainRelease, TypeInv, RunsBegun
  <2> QED
    BY <2>4, <2>5 DEF TypeInv
<1>3. CASE ChainFlush
  <2>1. /\ UNCHANGED <<arrived, main, gateThread, boundary, session, running,
                       superseded, usedKeys, firstEvent, stall, events, turn,
                       faults, resets, history>>
        /\ \/ /\ chain' = [chain EXCEPT !.stage = "close"]
              /\ UNCHANGED <<pending, gate, nrun, run>>
           \/ /\ pending # {} /\ pending' = {}
              /\ chain' = [chain EXCEPT !.stage = "await"]
              /\ Dispatch(run, Merge(pending), "chain", None, pending)
    BY <1>3 DEF ChainFlush
  <2>2. chain' \in ChainType
    BY <1>0, <2>1
  <2>3. CASE UNCHANGED <<pending, gate, nrun, run>>
    <3>1. TypeOK'
      BY <2>1, <2>2, <2>3 DEF TypeInv, TypeOK, history
    <3>2. RunsBegun'
      BY <2>1, <2>3 DEF TypeInv, RunsBegun
    <3> QED
      BY <3>1, <3>2 DEF TypeInv
  <2>4. CASE /\ pending # {} /\ pending' = {}
             /\ Dispatch(run, Merge(pending), "chain", None, pending)
    <3>1. /\ run \in [Runs -> RunRecords] /\ "chain" \in Callers
          /\ None \in 0..NRun /\ None \in 0..nrun
          /\ firstEvent' = firstEvent /\ stall' = stall
          /\ pending \in SUBSET Prepared
      BY <2>1 DEF TypeInv, TypeOK, Callers
    <3>2. Merge(pending) \in Prepared
      BY <2>4, <3>1, MergePrepared
    <3>3. /\ nrun + 1 \in Runs /\ nrun' = nrun + 1 /\ gate' = TRUE
          /\ run' \in [Runs -> RunRecords]
      BY <2>4, <3>1, <3>2, DispatchShape
    <3>4. nrun' \in 0..NRun /\ pending' \in SUBSET Prepared /\ gate' \in BOOLEAN
      BY <2>4, <3>3
    <3>5. TypeOK'
      BY <2>1, <2>2, <3>3, <3>4 DEF TypeInv, TypeOK, history
    <3>6. RunsBegun'
      BY <2>4, <3>1, <3>2, DispatchBegun
    <3> QED
      BY <3>5, <3>6 DEF TypeInv
  <2> QED
    BY <2>1, <2>3, <2>4
<1>4. CASE ChainClose
  <2>1. chain' \in ChainType /\ boundary' \in BOOLEAN
    <3>1. chain' = [stage |-> "idle", run |-> None] /\ boundary' = FALSE
      BY <1>4 DEF ChainClose
    <3>2. [stage |-> "idle", run |-> None] \in ChainType
      OBVIOUS
    <3> QED
      BY <3>1, <3>2
  <2>2. TypeOK'
    BY <1>4, <2>1 DEF ChainClose, TypeInv, TypeOK, history
  <2>3. RunsBegun'
    BY <1>4 DEF ChainClose, TypeInv, RunsBegun
  <2> QED
    BY <2>2, <2>3 DEF TypeInv
<1> QED
  BY <1>1, <1>2, <1>3, <1>4 DEF ChainStep

\* Every step keeps the invariant.
LEMMA NextTypeInv == TypeInv /\ [Next]_vars => TypeInv'
<1> SUFFICES ASSUME TypeInv, [Next]_vars PROVE TypeInv'
  OBVIOUS
<1>1. CASE BufferInbound \/ RouteInbound \/ PollFlush \/ FreshThread
  BY <1>1, InboundTypeInv
<1>2. CASE ChainStep
  BY <1>2, ChainTypeInv
<1>3. CASE \E r \in Runs : DispatchStep(r) \/ TimerStep(r) \/ RuntimeStep(r)
  BY <1>3, DispatchTypeInv, TimerTypeInv, RuntimeTypeInv
<1>4. CASE UNCHANGED vars
  BY <1>4 DEF vars, appVars, history, TypeInv, TypeOK, RunsBegun
<1> QED
  BY <1>1, <1>2, <1>3, <1>4 DEF Next

\* The variables always hold values of their types, and what has been begun is
\* what has a key and a thread.
THEOREM TypeCorrect == Spec => []TypeOK
<1>1. Spec => []TypeInv
  BY InitTypeInv, NextTypeInv, PTL DEF Spec
<1>2. TypeInv => TypeOK
  BY DEF TypeInv
<1> QED
  BY <1>1, <1>2, PTL

-----------------------------------------------------------------------------
\* One redispatch for a message.

\* A message that has been armed for redispatch is marked as used; it is the
\* mark that keeps a second recovery, of whatever kind, from arming it again.
RecoveredUsed ==
  \A m \in Messages : recovered[m] <= 1 /\ (recovered[m] > 0 => m \in usedKeys)

\* Arming a message that is not marked, and marking it, keeps RecoveredUsed.
LEMMA ArmUnused ==
  ASSUME TypeInv, RecoveredUsed, NEW key \in Messages, key \notin usedKeys,
         recovered' = [recovered EXCEPT ![key] = @ + 1],
         usedKeys' = usedKeys \cup {key}
  PROVE  RecoveredUsed'
<1>1. recovered \in [Messages -> Nat]
  BY DEF TypeInv, TypeOK
<1>2. recovered[key] = 0
  BY <1>1 DEF RecoveredUsed
<1>3. \A m \in Messages : recovered'[m] = IF m = key THEN 1 ELSE recovered[m]
  BY <1>1, <1>2
<1> QED
  BY <1>3 DEF RecoveredUsed

LEMMA NextRecoveredUsed ==
  TypeInv /\ RecoveredUsed /\ [Next]_vars => RecoveredUsed'
<1> SUFFICES ASSUME TypeInv, RecoveredUsed, [Next]_vars PROVE RecoveredUsed'
  OBVIOUS
<1>1. ASSUME UNCHANGED <<recovered, usedKeys>> PROVE RecoveredUsed'
  BY <1>1 DEF RecoveredUsed
<1>2. CASE BufferInbound \/ RouteInbound \/ PollFlush \/ FreshThread
  BY <1>1, <1>2 DEF BufferInbound, RouteInbound, PollFlush, FreshThread, history
<1>3. CASE ChainStep
  BY <1>1, <1>3
     DEF ChainStep, ChainDeliver, ChainRelease, ChainFlush, ChainClose, history
<1>4. ASSUME NEW r \in Runs, DispatchStep(r) PROVE RecoveredUsed'
  <2>1. CASE OpenThread(r)
    BY <1>1, <2>1 DEF OpenThread, history
  <2>2. CASE Accept(r)
    BY <1>1, <2>2 DEF Accept, history
  <2>3. CASE Reject(r)
    BY <1>1, <2>3 DEF Reject
  <2>4. CASE TransportFailNoRetry(r)
    BY <1>1, <2>4 DEF TransportFailNoRetry
  <2>5. CASE TransportFailThrow(r)
    <3>1. recovered' = recovered /\ usedKeys' = usedKeys \cup {run[r].key}
      BY <2>5 DEF TransportFailThrow, history
    <3> QED
      BY <3>1 DEF RecoveredUsed
  <2>6. CASE TransportFailRecover(r)
    <3>1. /\ run[r].key \notin usedKeys
          /\ recovered' = [recovered EXCEPT ![run[r].key] = @ + 1]
          /\ usedKeys' = usedKeys \cup {run[r].key}
      BY <2>6 DEF TransportFailRecover, RedispatchUsed
    <3>2. run[r].key \in Messages
      BY <2>6, InFlightBegun DEF TransportFailRecover
    <3> QED
      BY <3>1, <3>2, ArmUnused
  <2> QED
    BY <1>4, <2>1, <2>2, <2>3, <2>4, <2>5, <2>6 DEF DispatchStep
<1>5. ASSUME NEW r \in Runs, TimerStep(r) PROVE RecoveredUsed'
  <2>1. CASE FirstEventSupersede(r)
    <3>1. /\ firstEvent[r] = "typing" /\ run[r].key \notin usedKeys
          /\ recovered' = [recovered EXCEPT ![run[r].key] = @ + 1]
          /\ usedKeys' = usedKeys \cup {run[r].key}
      BY <2>1 DEF FirstEventSupersede, RedispatchUsed
    <3>2. run[r].key \in Messages
      BY <3>1 DEF TypeInv, TypeOK, RunsBegun
    <3> QED
      BY <3>1, <3>2, ArmUnused
  <2>2. CASE FirstEventTimeout(r) \/ FirstEventNotice(r) \/ StallTimeout(r)
    BY <1>1, <2>2 DEF FirstEventTimeout, FirstEventNotice, StallTimeout, history
  <2>3. CASE FirstEventRequeue(r) \/ StallRelease(r)
    BY <1>1, <2>3 DEF FirstEventRequeue, StallRelease, history
  <2> QED
    BY <1>5, <2>1, <2>2, <2>3 DEF TimerStep
<1>6. ASSUME NEW r \in Runs, RuntimeStep(r) PROVE RecoveredUsed'
  BY <1>1, <1>6 DEF RuntimeStep, TurnStarted, TurnOutput, TurnEnded, history
<1>7. CASE UNCHANGED vars
  BY <1>1, <1>7 DEF vars, appVars, history
<1> QED
  BY <1>2, <1>3, <1>4, <1>5, <1>6, <1>7 DEF Next

\* However the failures of a dispatch and the timeouts of its first event
\* interleave, a message is armed for redispatch at most once.
THEOREM RedispatchedOnce == Spec => []RecoverOnce
<1>1. Init => RecoveredUsed
  BY DEF Init, RecoveredUsed
<1>2. Spec => [](TypeInv /\ RecoveredUsed)
  BY <1>1, InitTypeInv, NextTypeInv, NextRecoveredUsed, PTL DEF Spec
<1>3. RecoveredUsed => RecoverOnce
  BY DEF RecoveredUsed, RecoverOnce
<1> QED
  BY <1>2, <1>3, PTL

-----------------------------------------------------------------------------
\* A pending gate has an owner.

\* The dispatch that took the gate owns it until it is accepted or fails.
LEMMA DispatchOwns ==
  ASSUME TypeInv,
         NEW runs, DOMAIN runs = Runs, NEW prepared, NEW caller, NEW parent,
         NEW draft, Dispatch(runs, prepared, caller, parent, draft)
  PROVE  GateOwned'
<1>1. nrun + 1 \in Runs
  BY DEF Dispatch, TypeInv, TypeOK
<1> DEFINE new == [stage |-> "opening", key |-> prepared.key,
                   body |-> prepared.body, gen |-> prepared.gen,
                   thread |-> None, caller |-> caller, parent |-> parent,
                   draft |-> draft]
<1>2. run' = [runs EXCEPT ![nrun + 1] = new]
  BY DEF Dispatch
<1>3. new.stage = "opening"
  OBVIOUS
<1> HIDE DEF new
<1>4. run'[nrun + 1].stage = "opening"
  BY <1>1, <1>2, <1>3
<1> QED
  BY <1>1, <1>4 DEF GateOwned, InFlight

LEMMA NextGateOwned ==
  TypeInv /\ GateOwned /\ [Next]_vars => GateOwned'
<1> SUFFICES ASSUME TypeInv, GateOwned, [Next]_vars PROVE GateOwned'
  OBVIOUS
<1>0. DOMAIN run = Runs
  BY DEF TypeInv, TypeOK
<1>1. ASSUME UNCHANGED <<gate, gateThread, run>> PROVE GateOwned'
  BY <1>1 DEF GateOwned, InFlight
\* releaseThread leaves a gate pending only when the thread was not mapped.
<1>2. ASSUME NEW t, gate' = GateAfterRelease(t), gateThread' = gateThread \ {t},
             run' = run
      PROVE  GateOwned'
  BY <1>2 DEF GateOwned, InFlight, GateAfterRelease
<1>3. ASSUME gate' = FALSE PROVE GateOwned'
  BY <1>3 DEF GateOwned
<1>4. CASE BufferInbound \/ RouteInbound \/ PollFlush \/ FreshThread
  <2>1. CASE BufferInbound \/ FreshThread
    BY <1>1, <2>1 DEF BufferInbound, FreshThread
  <2>2. CASE RouteInbound
    <3>1. Dispatch(run, Arrived, "route", None, {})
      BY <2>2 DEF RouteInbound
    <3> QED
      BY <1>0, <3>1, DispatchOwns
  <2>3. CASE PollFlush
    <3>1. Dispatch(run, Merge(pending), "poll", None, pending)
      BY <2>3 DEF PollFlush
    <3> QED
      BY <1>0, <3>1, DispatchOwns
  <2> QED
    BY <1>4, <2>1, <2>2, <2>3
<1>5. CASE ChainStep
  <2>1. CASE ChainDeliver \/ ChainClose
    BY <1>1, <2>1 DEF ChainDeliver, ChainClose
  <2>2. CASE ChainRelease
    BY <1>2, <2>2 DEF ChainRelease
  <2>3. CASE ChainFlush
    <3>1. \/ UNCHANGED <<gate, gateThread, run>>
          \/ Dispatch(run, Merge(pending), "chain", None, pending)
      BY <2>3 DEF ChainFlush
    <3> QED
      BY <1>0, <1>1, <3>1, DispatchOwns
  <2> QED
    BY <1>5, <2>1, <2>2, <2>3 DEF ChainStep
<1>6. ASSUME NEW r \in Runs, DispatchStep(r) PROVE GateOwned'
  <2>1. CASE OpenThread(r)
    <3>1. /\ run[r].stage = "opening"
          /\ UNCHANGED <<gate, gateThread>>
          /\ \E t : run' = [run EXCEPT ![r].stage = "sending", ![r].thread = t]
      BY <2>1 DEF OpenThread
    <3>2. run'[r].stage = "sending" /\ \A q \in Runs : q # r => run'[q] = run[q]
      <4>1. PICK t : run' = [run EXCEPT ![r].stage = "sending", ![r].thread = t]
        BY <3>1
      <4>2. run \in [Runs -> RunRecords]
        BY DEF TypeInv, TypeOK
      <4>3. run' = [run EXCEPT ![r] = [[run[r] EXCEPT !.stage = "sending"]
                                         EXCEPT !.thread = t]]
        BY <4>1, <4>2
      <4>4. run'[r] = [[run[r] EXCEPT !.stage = "sending"] EXCEPT !.thread = t]
              /\ \A q \in Runs : q # r => run'[q] = run[q]
        BY <4>2, <4>3
      <4>5. [run[r] EXCEPT !.stage = "sending"]
              = [stage |-> "sending", key |-> run[r].key, body |-> run[r].body,
                 gen |-> run[r].gen, thread |-> run[r].thread,
                 caller |-> run[r].caller, parent |-> run[r].parent,
                 draft |-> run[r].draft]
        BY <4>2 DEF RunRecords
      <4>6. run'[r].stage = "sending"
        BY <4>4, <4>5
      <4> QED
        BY <4>4, <4>6
    <3> QED
      BY <3>1, <3>2 DEF GateOwned, InFlight
  <2>2. CASE Accept(r)
    <3>1. /\ Return(r, TRUE, "accepted", pending) /\ "accepted" \in RunStages
          /\ gateThread' = gateThread \cup {run[r].thread}
      BY <2>2 DEF Accept, Attached, RunStages
    <3>2. run'[r].stage = "accepted" /\ run'[r].thread = run[r].thread
      <4>1. /\ run'[r].stage = IF r = r THEN "accepted"
                              ELSE IF r = run[r].parent THEN "lost" ELSE run[r].stage
            /\ run'[r].thread = run[r].thread
        <5>1. PICK ok \in BOOLEAN, stage \in RunStages :
                     stage = "accepted" /\ Return(r, ok, stage, pending)
          BY <3>1
        <5>2. \A q \in Runs :
                /\ run'[q].stage = IF q = r THEN stage
                                   ELSE IF q = run[r].parent THEN "lost"
                                   ELSE run[q].stage
                /\ run'[q].thread = run[q].thread
          BY <5>1, ReturnShape
        <5> QED
          BY <5>1, <5>2
      <4> QED
        BY <4>1
    <3> QED
      BY <3>1, <3>2 DEF GateOwned
  <2>3. CASE Reject(r) \/ TransportFailNoRetry(r) \/ TransportFailThrow(r)
    BY <1>3, <2>3 DEF Reject, TransportFailNoRetry, TransportFailThrow
  <2>4. CASE TransportFailRecover(r)
    <3> DEFINE retried == Buffered([PreparedOf(r) EXCEPT !.gen = 1])
               runs == [run EXCEPT ![r].stage = "recovering"]
    <3>1. Dispatch(runs, Merge(retried), "recovery", r, retried)
      BY <2>4 DEF TransportFailRecover
    <3>2. DOMAIN runs = Runs
      BY <1>0
    <3> HIDE DEF retried, runs
    <3> QED
      BY <3>1, <3>2, DispatchOwns
  <2> QED
    BY <1>6, <2>1, <2>2, <2>3, <2>4 DEF DispatchStep
<1>7. ASSUME NEW r \in Runs, TimerStep(r) PROVE GateOwned'
  <2>1. CASE \/ FirstEventTimeout(r) \/ FirstEventNotice(r)
             \/ FirstEventSupersede(r) \/ StallTimeout(r)
    BY <1>1, <2>1 DEF FirstEventTimeout, FirstEventNotice, FirstEventSupersede,
                      StallTimeout
  <2>2. CASE FirstEventRequeue(r)
    <3> DEFINE retried == Buffered([PreparedOf(r) EXCEPT !.gen = 1])
    <3>1. gate' = FALSE \/ Dispatch(run, Merge(retried), "timer", None, retried)
      BY <2>2 DEF FirstEventRequeue
    <3> HIDE DEF retried
    <3> QED
      BY <1>0, <1>3, <3>1, DispatchOwns
  <2>3. CASE StallRelease(r)
    <3>1. \/ /\ gate' = GateAfterRelease(run[r].thread) /\ run' = run
             /\ gateThread' = gateThread \ {run[r].thread}
          \/ Dispatch(run, Merge(pending), "timer", None, pending)
      BY <2>3 DEF StallRelease
    <3> QED
      BY <1>0, <1>2, <3>1, DispatchOwns
  <2> QED
    BY <1>7, <2>1, <2>2, <2>3 DEF TimerStep
<1>8. ASSUME NEW r \in Runs, RuntimeStep(r) PROVE GateOwned'
  BY <1>1, <1>8 DEF RuntimeStep, TurnStarted, TurnOutput, TurnEnded
<1>9. CASE UNCHANGED vars
  BY <1>1, <1>9 DEF vars, appVars
<1> QED
  BY <1>4, <1>5, <1>6, <1>7, <1>8, <1>9 DEF Next

\* The gate never stays pending for want of a run to release it: while it is
\* pending, a dispatch is under way or an accepted turn's thread is mapped to
\* the scope, so that the turn's end releases it.
THEOREM GateNeverLeaks == Spec => []GateOwned
<1>1. Init => GateOwned
  BY DEF Init, GateOwned
<1> QED
  BY <1>1, InitTypeInv, NextTypeInv, NextGateOwned, PTL DEF Spec

-----------------------------------------------------------------------------
\* The faults of the theorems.
Recoverable == Faults \subseteq {"firstEvent", "reject"}
FirstEventOnly == Faults \subseteq {"firstEvent"}

-----------------------------------------------------------------------------
\* The inductive invariant.

\* The messages of a draft.
BodyOf(draft) == UNION {p.body : p \in draft}

\* A run that is done with the conversation: refused, or accepted and its turn
\* over or superseded.
Past(r) ==
  /\ firstEvent[r] = "off"
  /\ \/ run[r].stage = "rejected" /\ turn[r] = "none"
     \/ run[r].stage = "accepted" /\ (turn[r] = "over" \/ Suppressed(run[r].thread))

\* The run that holds the gate, being dispatched: nothing of it is queued.
Dispatching(r) ==
  /\ firstEvent[r] = "off" /\ gateThread = {} /\ events = <<>>
  /\ chain.stage # "deliver"
  /\ \/ run[r].stage = "opening" /\ turn[r] = "none"
     \/ /\ run[r].stage = "sending" /\ turn[r] \in {"none", "live"}
        /\ ~Suppressed(run[r].thread)

\* The same, accepted: its turn goes on, or its end waits for the chain or is
\* being handled there, or its recovery awaits the cancellation.
Accepted(r) ==
  /\ run[r].stage = "accepted" /\ gateThread = {run[r].thread}
  /\ \/ /\ ~Suppressed(run[r].thread) /\ turn[r] \in {"none", "live"}
        /\ firstEvent[r] # "cancelling"
        /\ events = <<>> /\ chain.stage # "deliver"
     \/ /\ ~Suppressed(run[r].thread) /\ turn[r] = "over"
        /\ firstEvent[r] = "off"
        /\ \/ events = <<r>> /\ chain.stage # "deliver"
           \/ events = <<>> /\ chain.stage = "deliver" /\ chain.run = r
     \/ /\ Suppressed(run[r].thread) /\ firstEvent[r] = "cancelling"
        /\ events = <<>> /\ chain.stage # "deliver"

\* Only the run begun last can hold the gate.
OneAtATime ==
  /\ \A r \in Runs : (r < nrun => Past(r)) /\ (r > nrun => turn[r] = "none")
  /\ gate => nrun \in Runs /\ (Dispatching(nrun) \/ Accepted(nrun))
  /\ ~gate => /\ nrun \in Runs => Past(nrun)
              /\ gateThread = {} /\ events = <<>> /\ chain.stage # "deliver"

\* A thread is marked as running only for the turn that holds the gate.
RunningHasGate ==
  \A t \in Threads :
    running[t] # None =>
      /\ gate /\ nrun \in Runs /\ run[nrun].thread = t /\ t \notin superseded
      /\ run[nrun].stage \in {"sending", "accepted"} /\ turn[nrun] = "live"

\* The conversation's thread is not a superseded one, and no run that is yet
\* to open its thread finds its own among them.
ThreadsFresh ==
  LET last == IF gate /\ nrun \in Runs /\ run[nrun].stage = "opening"
                THEN nrun - 1 ELSE nrun
  IN /\ session \notin superseded /\ session <= nrun
     /\ superseded \subseteq 1..last
     /\ \A r \in Runs : run[r].thread <= r

\* What the two faults never lead to: a dispatch inside a dispatch, and a
\* running turn given up.
NoRecovery ==
  \A r \in Runs :
    /\ run[r].parent = None /\ run[r].caller # "recovery"
    /\ stall[r] # "cancelling"

\* The messages of a run are what was in the draft it was begun with, and all
\* have arrived.
BodiesArrived ==
  /\ \A p \in pending : p.body # {} /\ p.body \subseteq 1..arrived
  /\ \A r \in Runs :
       run[r].stage # "unused" =>
         /\ run[r].body # {} /\ run[r].body \subseteq 1..arrived
         /\ run[r].caller # "route" =>
              /\ BodyOf(run[r].draft) = run[r].body
              /\ \A p \in run[r].draft : p.body # {}

\* The messages that are yet to be answered: none is both buffered and being
\* worked on, and none has been answered.
Unanswered ==
  /\ \A m \in Messages : answers[m] <= 1
  /\ \A m \in Messages :
       (m > arrived \/ m \in BodyOf(pending)) => answers[m] = 0
  /\ gate => \A m \in run[nrun].body :
               /\ m \notin BodyOf(pending)
               /\ chain.stage # "deliver" => answers[m] = 0

TurnInv == OneAtATime /\ RunningHasGate /\ ThreadsFresh /\ NoRecovery
MessageInv == BodiesArrived /\ Unanswered

\* Without refusals: no run is refused, and every message that arrived is
\* buffered or in a run's batch.
AllTaken ==
  /\ \A r \in Runs : run[r].stage # "rejected"
  /\ \A m \in 1..arrived :
       \/ m \in BodyOf(pending)
       \/ \E r \in Runs : run[r].stage # "unused" /\ m \in run[r].body

-----------------------------------------------------------------------------
\* The control of the dispatches.

\* A run that is in flight, or whose timer runs, or whose turn has not ended and
\* is not superseded, is the last one, and holds the gate.
LEMMA LastRun ==
  ASSUME TypeInv, TurnInv, NEW r \in Runs,
         \/ InFlight(r)
         \/ firstEvent[r] # "off"
         \/ /\ run[r].stage = "accepted" /\ turn[r] # "over"
            /\ ~Suppressed(run[r].thread)
  PROVE  gate /\ r = nrun /\ (Dispatching(r) \/ Accepted(r))
<1>1. ~Past(r)
  BY DEF Past, InFlight
<1>2. r <= nrun
  BY DEF TypeInv, TypeOK, RunsBegun, InFlight
<1>3. nrun \in 0..NRun
  BY DEF TypeInv, TypeOK
<1>4. r = nrun
  BY <1>1, <1>2, <1>3 DEF TurnInv, OneAtATime
<1> QED
  BY <1>1, <1>4 DEF TurnInv, OneAtATime

\* A return of a dispatch that no other dispatch made.
LEMMA ReturnAlone ==
  ASSUME TypeInv, NEW r \in Runs, run[r].parent = None,
         NEW ok \in BOOLEAN, NEW stage \in RunStages,
         Return(r, ok, stage, pending)
  PROVE  /\ run'[r].stage = stage
         /\ \A q \in Runs :
              /\ q # r => run'[q] = run[q]
              /\ run'[q].key = run[q].key /\ run'[q].thread = run[q].thread
              /\ run'[q].parent = run[q].parent
              /\ run'[q].body = run[q].body /\ run'[q].draft = run[q].draft
              /\ run'[q].caller = run[q].caller
         /\ pending' = Restored(r, ok, pending)
         /\ chain'.run = chain.run
         /\ chain'.stage = chain.stage \/ chain'.stage = "close"
<1>0. run \in [Runs -> RunRecords] /\ 0 \notin Runs
  BY DEF TypeInv, TypeOK
<1>1. run' = [q \in Runs |->
                IF q = r THEN [run[q] EXCEPT !.stage = stage]
                ELSE IF q = run[r].parent THEN [run[q] EXCEPT !.stage = "lost"]
                ELSE run[q]]
  BY DEF Return
<1>2. /\ run'[r] = [run[r] EXCEPT !.stage = stage]
      /\ \A q \in Runs : q # r => run'[q] = run[q]
  BY <1>0, <1>1
<1>3. [run[r] EXCEPT !.stage = stage]
        = [stage |-> stage, key |-> run[r].key, body |-> run[r].body,
           gen |-> run[r].gen, thread |-> run[r].thread,
           caller |-> run[r].caller, parent |-> run[r].parent,
           draft |-> run[r].draft]
  BY <1>0 DEF RunRecords
<1>4. pending' = Restored(r, ok, pending)
  BY DEF Return
<1>5. /\ chain'.run = chain.run
      /\ chain'.stage = chain.stage \/ chain'.stage = "close"
  <2>1. chain' = chain \/ chain' = [chain EXCEPT !.stage = "close"]
    BY DEF Return
  <2>2. chain \in [stage : {"idle", "deliver", "flush", "await", "close"},
                   run : 0..NRun]
    BY DEF TypeInv, TypeOK
  <2> QED
    BY <2>1, <2>2
<1>6. run'[r].stage = stage
  BY <1>2, <1>3
<1>7. \A q \in Runs :
        /\ q # r => run'[q] = run[q]
        /\ run'[q].key = run[q].key /\ run'[q].thread = run[q].thread
        /\ run'[q].parent = run[q].parent
        /\ run'[q].body = run[q].body /\ run'[q].draft = run[q].draft
        /\ run'[q].caller = run[q].caller
  BY <1>2, <1>3
<1> QED
  BY <1>4, <1>5, <1>6, <1>7

\* The run that a dispatch begins.
LEMMA DispatchNew ==
  ASSUME TypeInv, NEW prepared \in Prepared, NEW caller \in Callers,
         NEW draft \in SUBSET Prepared,
         Dispatch(run, prepared, caller, None, draft)
  PROVE  /\ nrun \in Nat /\ nrun + 1 \in Runs /\ nrun' = nrun + 1 /\ gate' = TRUE
         /\ run'[nrun + 1] = [stage |-> "opening", key |-> prepared.key,
                              body |-> prepared.body, gen |-> prepared.gen,
                              thread |-> None, caller |-> caller,
                              parent |-> None, draft |-> draft]
         /\ \A q \in Runs : q # nrun + 1 => run'[q] = run[q]
<1>1. nrun + 1 \in Runs /\ nrun' = nrun + 1 /\ gate' = TRUE /\ nrun \in Nat
  BY DEF Dispatch, TypeInv, TypeOK
<1> DEFINE new == [stage |-> "opening", key |-> prepared.key,
                   body |-> prepared.body, gen |-> prepared.gen,
                   thread |-> None, caller |-> caller, parent |-> None,
                   draft |-> draft]
<1>2. run' = [run EXCEPT ![nrun + 1] = new] /\ DOMAIN run = Runs
  BY DEF Dispatch, TypeInv, TypeOK
<1> HIDE DEF new
<1>3. run'[nrun + 1] = new /\ \A q \in Runs : q # nrun + 1 => run'[q] = run[q]
  BY <1>1, <1>2
<1> QED
  BY <1>1, <1>3 DEF new

\* A dispatch keeps TurnInv when every run before is past and nothing is queued.
LEMMA DispatchTurnInv ==
  ASSUME TypeInv, TurnInv, NEW prepared \in Prepared,
         NEW caller \in Callers, caller # "recovery",
         NEW draft \in SUBSET Prepared,
         Dispatch(run, prepared, caller, None, draft),
         UNCHANGED <<turn, superseded, session, running, stall>>,
         \A r \in Runs : firstEvent'[r] = "off",
         \A r \in Runs : r <= nrun =>
           \/ run[r].stage = "rejected" /\ turn[r] = "none"
           \/ /\ run[r].stage = "accepted"
              /\ turn[r] = "over" \/ Suppressed(run[r].thread),
         gateThread' = {}, events' = <<>>, chain'.stage # "deliver",
         \A t \in Threads : running[t] = None
  PROVE  TurnInv'
<1>1. /\ nrun \in Nat /\ nrun + 1 \in Runs /\ nrun' = nrun + 1 /\ gate' = TRUE
      /\ run'[nrun + 1] = [stage |-> "opening", key |-> prepared.key,
                           body |-> prepared.body, gen |-> prepared.gen,
                           thread |-> None, caller |-> caller,
                           parent |-> None, draft |-> draft]
      /\ \A q \in Runs : q # nrun + 1 => run'[q] = run[q]
  BY DispatchNew
<1>2. OneAtATime'
  <2>1. ASSUME NEW r \in Runs, r < nrun' PROVE Past(r)'
    <3>1. r <= nrun /\ r # nrun + 1
      BY <1>1, <2>1
    <3> QED
      BY <1>1, <3>1 DEF Past, Suppressed
  <2>2. \A r \in Runs : r > nrun' => turn'[r] = "none"
    BY <1>1 DEF TurnInv, OneAtATime
  <2>3. turn'[nrun + 1] = "none"
    BY <1>1 DEF TurnInv, OneAtATime
  <2>4. Dispatching(nrun)'
    BY <1>1, <2>3 DEF Dispatching
  <2> QED
    BY <1>1, <2>1, <2>2, <2>4 DEF OneAtATime
<1>3. RunningHasGate'
  BY DEF RunningHasGate
<1>4. ThreadsFresh'
  <2>1. superseded \subseteq 1..nrun
    BY <1>1 DEF TurnInv, ThreadsFresh
  <2>2. gate' /\ nrun' \in Runs /\ run'[nrun'].stage = "opening" /\ nrun' - 1 = nrun
    BY <1>1
  <2>3. session \notin superseded /\ session <= nrun /\ session \in 0..NRun
    BY DEF TurnInv, ThreadsFresh, TypeInv, TypeOK
  <2>4. \A r \in Runs : run'[r].thread <= r
    BY <1>1 DEF TurnInv, ThreadsFresh
  <2>5. session' \notin superseded' /\ session' <= nrun'
    BY <1>1, <2>3
  <2> QED
    BY <2>1, <2>2, <2>4, <2>5 DEF ThreadsFresh
<1>5. NoRecovery'
  BY <1>1 DEF TurnInv, NoRecovery
<1> QED
  BY <1>2, <1>3, <1>4, <1>5 DEF TurnInv

\* While the gate is open every run is past, and no thread runs.
LEMMA GateOpen ==
  ASSUME TypeInv, TurnInv, ~gate
  PROVE  /\ \A r \in Runs : r <= nrun => Past(r)
         /\ gateThread = {} /\ events = <<>> /\ chain.stage # "deliver"
         /\ \A t \in Threads : running[t] = None
         /\ \A r \in Runs : firstEvent[r] = "off"
<1>1. nrun \in 0..NRun
  BY DEF TypeInv, TypeOK
<1>2. \A r \in Runs : r <= nrun => Past(r)
  BY <1>1 DEF TurnInv, OneAtATime
<1>3. \A r \in Runs : firstEvent[r] = "off"
  BY <1>1, <1>2 DEF Past, TypeInv, RunsBegun
<1> QED
  BY <1>2, <1>3 DEF TurnInv, OneAtATime, RunningHasGate

\* A dispatch through the open gate.
LEMMA DispatchOpenGate ==
  ASSUME TypeInv, TurnInv, ~gate, NEW prepared \in Prepared,
         NEW caller \in Callers, caller # "recovery",
         NEW draft \in SUBSET Prepared,
         Dispatch(run, prepared, caller, None, draft),
         UNCHANGED <<turn, superseded, session, running, stall, firstEvent,
                     gateThread, events>>,
         chain'.stage # "deliver"
  PROVE  TurnInv'
<1>1. /\ \A r \in Runs : r <= nrun => Past(r)
      /\ gateThread = {} /\ events = <<>>
      /\ \A t \in Threads : running[t] = None
      /\ \A r \in Runs : firstEvent[r] = "off"
  BY GateOpen
<1>2. \A r \in Runs : r <= nrun =>
           \/ run[r].stage = "rejected" /\ turn[r] = "none"
           \/ /\ run[r].stage = "accepted"
              /\ turn[r] = "over" \/ Suppressed(run[r].thread)
  BY <1>1 DEF Past
<1>3. gateThread' = {} /\ events' = <<>> /\ \A r \in Runs : firstEvent'[r] = "off"
  BY <1>1
<1>4. UNCHANGED <<turn, superseded, session, running, stall>>
  OBVIOUS
<1> HIDE DEF Dispatch
<1> QED
  BY <1>1, <1>2, <1>3, <1>4, DispatchTurnInv

\* An inbound message.
LEMMA ArrivedPrepared ==
  ASSUME TypeInv, arrived < NMsg
  PROVE  Arrived \in Prepared
<1>1. arrived + 1 \in Messages
  BY DEF TypeInv, TypeOK
<1> QED
  BY <1>1 DEF Arrived, Prepared

\* Nothing that TurnInv speaks of changes.
LEMMA TurnInvUnchanged ==
  ASSUME TurnInv,
         UNCHANGED <<gate, gateThread, session, running, nrun, run, superseded,
                     firstEvent, stall, events, chain, turn>>
  PROVE  TurnInv'
<1>1. OneAtATime'
  BY DEF TurnInv, OneAtATime, Past, Dispatching, Accepted, Suppressed
<1>2. RunningHasGate'
  BY DEF TurnInv, RunningHasGate
<1>3. ThreadsFresh'
  BY DEF TurnInv, ThreadsFresh
<1>4. NoRecovery'
  BY DEF TurnInv, NoRecovery
<1> QED
  BY <1>1, <1>2, <1>3, <1>4 DEF TurnInv

LEMMA InboundTurnInv ==
  ASSUME TypeInv, TurnInv,
         BufferInbound \/ RouteInbound \/ PollFlush \/ FreshThread
  PROVE  TurnInv'
<1>1. CASE BufferInbound
  BY <1>1, TurnInvUnchanged DEF BufferInbound
<1>2. CASE RouteInbound
  <2>1. /\ ~gate /\ Arrived \in Prepared
        /\ "route" \in Callers /\ "route" # "recovery" /\ {} \in SUBSET Prepared
        /\ chain.stage # "deliver"
    BY <1>2, ArrivedPrepared DEF RouteInbound, Blocked, Callers, TurnInv, OneAtATime
  <2>2. /\ Dispatch(run, Arrived, "route", None, {})
        /\ UNCHANGED <<turn, superseded, session, running, stall, firstEvent,
                       gateThread, events, chain>>
    BY <1>2 DEF RouteInbound
  <2> QED
    BY <2>1, <2>2, DispatchOpenGate
<1>3. CASE PollFlush
  <2>1. /\ ~gate /\ pending \in SUBSET Prepared /\ Merge(pending) \in Prepared
        /\ "poll" \in Callers /\ "poll" # "recovery"
        /\ chain.stage # "deliver"
    BY <1>3, MergePrepared
       DEF PollFlush, Blocked, Callers, TypeInv, TypeOK, TurnInv, OneAtATime
  <2>2. /\ Dispatch(run, Merge(pending), "poll", None, pending)
        /\ UNCHANGED <<turn, superseded, session, running, stall, firstEvent,
                       gateThread, events, chain>>
    BY <1>3 DEF PollFlush
  <2> QED
    BY <2>1, <2>2, DispatchOpenGate
<1>4. CASE FreshThread
  <2>1. /\ UNCHANGED <<gate, gateThread, running, nrun, run, superseded,
                       firstEvent, stall, events, chain, turn>>
        /\ session' = 0
    BY <1>4 DEF FreshThread
  <2>2. superseded \in SUBSET Threads /\ nrun \in 0..NRun
    BY DEF TypeInv, TypeOK
  <2>3. OneAtATime' /\ RunningHasGate' /\ NoRecovery'
    BY <2>1 DEF TurnInv, OneAtATime, Past, Dispatching, Accepted, Suppressed,
                RunningHasGate, NoRecovery
  <2>4. ThreadsFresh'
    BY <2>1, <2>2 DEF TurnInv, ThreadsFresh
  <2> QED
    BY <2>3, <2>4 DEF TurnInv
<1> QED
  BY <1>1, <1>2, <1>3, <1>4

LEMMA ChainTurnInv ==
  ASSUME TypeInv, TurnInv, ChainStep
  PROVE  TurnInv'
<1>0. /\ chain \in [stage : {"idle", "deliver", "flush", "await", "close"},
                    run : 0..NRun]
      /\ nrun \in 0..NRun
  BY DEF TypeInv, TypeOK
<1>1. CASE ChainDeliver
  <2>1. /\ chain.stage = "idle" /\ events # <<>> /\ events' = Tail(events)
        /\ UNCHANGED <<gate, gateThread, session, running, nrun, run,
                       superseded, firstEvent, stall, turn>>
    BY <1>1 DEF ChainDeliver
  <2>2. gate /\ nrun \in Runs /\ Accepted(nrun) /\ events = <<nrun>>
    BY <2>1 DEF TurnInv, OneAtATime, Dispatching, Accepted
  <2>3. Head(events) = nrun /\ events' = <<>>
    BY <2>1, <2>2
  <2>4. ~Suppressed(run[nrun].thread)
    BY <2>2, <2>1 DEF Accepted
  <2>5. chain' = [stage |-> "deliver", run |-> nrun]
    BY <1>1, <2>3, <2>4 DEF ChainDeliver
  <2>6. Accepted(nrun)'
    BY <2>1, <2>2, <2>3, <2>5 DEF Accepted, Suppressed
  <2>7. OneAtATime'
    BY <2>1, <2>2, <2>6 DEF TurnInv, OneAtATime, Past, Suppressed
  <2>8. RunningHasGate' /\ ThreadsFresh' /\ NoRecovery'
    BY <2>1 DEF TurnInv, RunningHasGate, ThreadsFresh, NoRecovery
  <2> QED
    BY <2>7, <2>8 DEF TurnInv
<1>2. CASE ChainRelease
  <2>1. /\ chain.stage = "deliver" /\ chain' = [chain EXCEPT !.stage = "flush"]
        /\ gateThread' = gateThread \ {run[chain.run].thread}
        /\ gate' = (gate /\ run[chain.run].thread \notin gateThread)
        /\ UNCHANGED <<session, running, nrun, run, superseded, firstEvent,
                       stall, events, turn>>
    BY <1>2 DEF ChainRelease, GateAfterRelease
  <2>2. gate /\ nrun \in Runs /\ Accepted(nrun)
    BY <2>1 DEF TurnInv, OneAtATime, Dispatching
  <2>3. chain.run = nrun /\ gateThread = {run[nrun].thread} /\ turn[nrun] = "over"
          /\ run[nrun].stage = "accepted" /\ events = <<>> /\ firstEvent[nrun] = "off"
    BY <2>1, <2>2 DEF Accepted
  <2>4. gateThread' = {} /\ gate' = FALSE /\ chain'.stage = "flush"
    BY <1>0, <2>1, <2>3
  <2>5. Past(nrun)'
    BY <2>1, <2>3 DEF Past
  <2>6. OneAtATime'
    BY <2>1, <2>3, <2>4, <2>5 DEF TurnInv, OneAtATime, Past, Suppressed
  <2>7. RunningHasGate'
    BY <2>1, <2>3 DEF TurnInv, RunningHasGate
  <2>8. ThreadsFresh'
    BY <2>1, <2>3, <2>4 DEF TurnInv, ThreadsFresh
  <2>9. NoRecovery'
    BY <2>1 DEF TurnInv, NoRecovery
  <2> QED
    BY <2>6, <2>7, <2>8, <2>9 DEF TurnInv
<1>3. ASSUME chain.stage # "deliver", chain'.stage # "deliver",
             UNCHANGED <<gate, gateThread, session, running, nrun, run,
                         superseded, firstEvent, stall, events, turn>>
      PROVE  TurnInv'
  <2>1. OneAtATime'
    BY <1>3 DEF TurnInv, OneAtATime, Past, Dispatching, Accepted, Suppressed
  <2>2. RunningHasGate' /\ ThreadsFresh' /\ NoRecovery'
    BY <1>3 DEF TurnInv, RunningHasGate, ThreadsFresh, NoRecovery
  <2> QED
    BY <2>1, <2>2 DEF TurnInv
<1>4. CASE ChainFlush
  <2>1. /\ chain.stage = "flush"
        /\ UNCHANGED <<gateThread, session, running, superseded, firstEvent,
                       stall, events, turn>>
        /\ \/ /\ chain' = [chain EXCEPT !.stage = "close"]
              /\ UNCHANGED <<gate, nrun, run>>
           \/ /\ pending # {} /\ ~gate
              /\ chain' = [chain EXCEPT !.stage = "await"]
              /\ Dispatch(run, Merge(pending), "chain", None, pending)
    BY <1>4 DEF ChainFlush, Blocked
  <2>2. chain'.stage # "deliver"
    BY <1>0, <2>1
  <2>3. CASE UNCHANGED <<gate, nrun, run>>
    BY <1>3, <2>1, <2>2, <2>3
  <2>4. CASE /\ pending # {} /\ ~gate
             /\ Dispatch(run, Merge(pending), "chain", None, pending)
    <3>1. /\ pending \in SUBSET Prepared /\ Merge(pending) \in Prepared
          /\ "chain" \in Callers /\ "chain" # "recovery"
      BY <2>4, MergePrepared DEF Callers, TypeInv, TypeOK
    <3> QED
      BY <2>1, <2>2, <2>4, <3>1, DispatchOpenGate
  <2> QED
    BY <2>1, <2>3, <2>4
<1>5. CASE ChainClose
  <2>1. /\ chain.stage # "deliver" /\ chain'.stage # "deliver"
        /\ UNCHANGED <<gate, gateThread, session, running, nrun, run,
                       superseded, firstEvent, stall, events, turn>>
    BY <1>5 DEF ChainClose
  <2> QED
    BY <1>3, <2>1
<1> QED
  BY <1>1, <1>2, <1>4, <1>5 DEF ChainStep

\* The faults that do not happen.
LEMMA NoOtherFault ==
  ASSUME Recoverable
  PROVE  /\ ~Fault("transport") /\ ~Fault("stall")
         /\ "lateEvent" \notin Faults
BY DEF Recoverable, Fault

\* The record of a run after it has opened its thread.
LEMMA OpenShape ==
  ASSUME TypeInv, NEW r \in Runs, NEW t \in Threads,
         run' = [run EXCEPT ![r].stage = "sending", ![r].thread = t]
  PROVE  /\ run'[r] = [stage |-> "sending", key |-> run[r].key,
                       body |-> run[r].body, gen |-> run[r].gen, thread |-> t,
                       caller |-> run[r].caller, parent |-> run[r].parent,
                       draft |-> run[r].draft]
         /\ \A q \in Runs : q # r => run'[q] = run[q]
<1>0. run \in [Runs -> RunRecords]
  BY DEF TypeInv, TypeOK
<1> DEFINE mid == [stage |-> "sending", key |-> run[r].key,
                   body |-> run[r].body, gen |-> run[r].gen,
                   thread |-> run[r].thread, caller |-> run[r].caller,
                   parent |-> run[r].parent, draft |-> run[r].draft]
           new == [stage |-> "sending", key |-> run[r].key,
                   body |-> run[r].body, gen |-> run[r].gen, thread |-> t,
                   caller |-> run[r].caller, parent |-> run[r].parent,
                   draft |-> run[r].draft]
<1>1. [run[r] EXCEPT !.stage = "sending"] = mid
  BY <1>0 DEF RunRecords
<1>2. [mid EXCEPT !.thread = t] = new
  OBVIOUS
<1>3. run' = [run EXCEPT ![r] = [[run[r] EXCEPT !.stage = "sending"]
                                   EXCEPT !.thread = t]]
  BY <1>0
<1> QED
  BY <1>0, <1>1, <1>2, <1>3

LEMMA DispatchStepTurnInv ==
  ASSUME Recoverable, TypeInv, TurnInv, NEW r \in Runs, DispatchStep(r)
  PROVE  TurnInv'
<1>0. nrun \in 0..NRun /\ session \in 0..NRun
  BY DEF TypeInv, TypeOK
<1>1. CASE OpenThread(r)
  <2>1. PICK t \in {r} \cup ({session} \ {None}) :
          /\ session' = t
          /\ run' = [run EXCEPT ![r].stage = "sending", ![r].thread = t]
    BY <1>1 DEF OpenThread
  <2>2. /\ run[r].stage = "opening"
        /\ UNCHANGED <<gate, gateThread, running, nrun, superseded, firstEvent,
                       stall, events, chain, turn>>
    BY <1>1 DEF OpenThread
  <2>3. gate /\ r = nrun /\ Dispatching(r)
    BY <2>2, LastRun DEF InFlight, Accepted
  <2>4. t \in Threads /\ t <= nrun
    BY <1>0, <2>1, <2>3 DEF TurnInv, ThreadsFresh
  <2>5. t \notin superseded
    BY <1>0, <2>1, <2>2, <2>3 DEF TurnInv, ThreadsFresh
  <2>6. /\ run'[r].stage = "sending" /\ run'[r].thread = t
        /\ run'[r].caller = run[r].caller /\ run'[r].parent = run[r].parent
        /\ \A q \in Runs : q # r => run'[q] = run[q]
    <3>1. run' = [run EXCEPT ![r].stage = "sending", ![r].thread = t]
      BY <2>1
    <3>2. /\ run'[r] = [stage |-> "sending", key |-> run[r].key,
                        body |-> run[r].body, gen |-> run[r].gen, thread |-> t,
                        caller |-> run[r].caller, parent |-> run[r].parent,
                        draft |-> run[r].draft]
          /\ \A q \in Runs : q # r => run'[q] = run[q]
      BY <2>4, <3>1, OpenShape
    <3> QED
      BY <3>2
  <2>7. Dispatching(r)'
    BY <2>2, <2>3, <2>5, <2>6 DEF Dispatching, Suppressed
  <2>8. OneAtATime'
    BY <1>0, <2>2, <2>3, <2>6, <2>7 DEF TurnInv, OneAtATime, Past, Suppressed
  <2>9. RunningHasGate'
    BY <2>2, <2>3 DEF TurnInv, RunningHasGate
  <2>10. ThreadsFresh'
    <3>1. superseded \subseteq 1..nrun /\ \A q \in Runs : run[q].thread <= q
      BY <1>0, <2>2, <2>3 DEF TurnInv, ThreadsFresh
    <3>2. session' \notin superseded' /\ session' <= nrun'
      BY <2>1, <2>2, <2>4, <2>5
    <3>3. \A q \in Runs : run'[q].thread <= q
      BY <2>3, <2>4, <2>6, <3>1
    <3>4. ~(run'[nrun'].stage = "opening")
      BY <2>2, <2>3, <2>6
    <3> QED
      BY <2>2, <3>1, <3>2, <3>3, <3>4 DEF ThreadsFresh
  <2>11. NoRecovery'
    BY <2>2, <2>6 DEF TurnInv, NoRecovery
  <2> QED
    BY <2>8, <2>9, <2>10, <2>11 DEF TurnInv
<1>2. ASSUME NEW ok \in BOOLEAN, NEW stage \in RunStages, InFlight(r),
             Return(r, ok, stage, pending)
      PROVE  /\ gate /\ r = nrun /\ Dispatching(r)
             /\ run'[r].stage = stage
             /\ \A q \in Runs :
                  /\ q # r => run'[q] = run[q]
                  /\ run'[q].thread = run[q].thread
                  /\ run'[q].parent = run[q].parent
                  /\ run'[q].caller = run[q].caller
             /\ chain'.stage # "deliver"
  <2>1. gate /\ r = nrun /\ Dispatching(r)
    BY <1>2, LastRun DEF InFlight, Accepted
  <2>2. run[r].parent = None
    BY DEF TurnInv, NoRecovery
  <2>3. chain'.stage = chain.stage \/ chain'.stage = "close"
    BY <1>2, <2>2, ReturnAlone
  <2>4. /\ run'[r].stage = stage
        /\ \A q \in Runs :
             /\ q # r => run'[q] = run[q]
             /\ run'[q].thread = run[q].thread
             /\ run'[q].parent = run[q].parent
             /\ run'[q].caller = run[q].caller
    BY <1>2, <2>2, ReturnAlone
  <2> QED
    BY <2>1, <2>3, <2>4 DEF Dispatching
<1>3. CASE Accept(r)
  <2>1. /\ run[r].stage = "sending"
        /\ gateThread' = gateThread \cup {run[r].thread}
        /\ firstEvent' = [ClearFirstEvent(run[r].thread) EXCEPT ![r] = "armed"]
        /\ stall' = [stall EXCEPT ![r] = "armed"]
        /\ Return(r, TRUE, "accepted", pending)
        /\ UNCHANGED <<gate, session, running, nrun, superseded, events, turn>>
    BY <1>3 DEF Accept, Attached
  <2>2. /\ gate /\ r = nrun /\ Dispatching(r)
        /\ run'[r].stage = "accepted"
        /\ \A q \in Runs :
             /\ q # r => run'[q] = run[q]
             /\ run'[q].thread = run[q].thread
             /\ run'[q].parent = run[q].parent
             /\ run'[q].caller = run[q].caller
        /\ chain'.stage # "deliver"
    BY <1>2, <2>1 DEF InFlight, RunStages
  <2>3. /\ firstEvent'[r] = "armed"
        /\ \A q \in Runs : q # r /\ firstEvent[q] = "off" => firstEvent'[q] = "off"
    BY <2>1 DEF ClearFirstEvent
  <2>4. Accepted(r)'
    BY <2>1, <2>2, <2>3 DEF Dispatching, Accepted, Suppressed
  <2>5. OneAtATime'
    BY <1>0, <2>1, <2>2, <2>3, <2>4 DEF TurnInv, OneAtATime, Past, Suppressed
  <2>6. RunningHasGate'
    BY <2>1, <2>2 DEF TurnInv, RunningHasGate
  <2>7. ThreadsFresh'
    BY <1>0, <2>1, <2>2 DEF TurnInv, ThreadsFresh
  <2>8. NoRecovery'
    BY <2>1, <2>2 DEF TurnInv, NoRecovery, TypeInv, TypeOK
  <2> QED
    BY <2>5, <2>6, <2>7, <2>8 DEF TurnInv
<1>4. CASE Reject(r)
  <2>1. /\ InFlight(r) /\ turn[r] = "none" /\ gate' = FALSE
        /\ Return(r, FALSE, "rejected", pending)
        /\ UNCHANGED <<gateThread, session, running, nrun, superseded,
                       firstEvent, stall, events, turn>>
    BY <1>4 DEF Reject
  <2>2. /\ gate /\ r = nrun /\ Dispatching(r)
        /\ run'[r].stage = "rejected"
        /\ \A q \in Runs :
             /\ q # r => run'[q] = run[q]
             /\ run'[q].thread = run[q].thread
             /\ run'[q].parent = run[q].parent
             /\ run'[q].caller = run[q].caller
        /\ chain'.stage # "deliver"
    BY <1>2, <2>1 DEF RunStages
  <2>3. Past(r)'
    BY <2>1, <2>2 DEF Dispatching, Past
  <2>4. OneAtATime'
    BY <1>0, <2>1, <2>2, <2>3 DEF TurnInv, OneAtATime, Past, Dispatching, Suppressed
  <2>5. RunningHasGate'
    BY <2>1, <2>2 DEF TurnInv, RunningHasGate
  <2>6. ThreadsFresh'
    <3>1. superseded \subseteq 1..nrun
      BY <1>0 DEF TurnInv, ThreadsFresh
    <3> QED
      BY <2>1, <2>2, <3>1 DEF TurnInv, ThreadsFresh
  <2>7. NoRecovery'
    BY <2>1, <2>2 DEF TurnInv, NoRecovery
  <2> QED
    BY <2>4, <2>5, <2>6, <2>7 DEF TurnInv
<1>5. CASE TransportFailNoRetry(r) \/ TransportFailThrow(r) \/ TransportFailRecover(r)
  BY <1>5, NoOtherFault
     DEF TransportFailNoRetry, TransportFailThrow, TransportFailRecover
<1> QED
  BY <1>1, <1>3, <1>4, <1>5 DEF DispatchStep

LEMMA TimerTurnInv ==
  ASSUME Recoverable, TypeInv, TurnInv, NEW r \in Runs, TimerStep(r)
  PROVE  TurnInv'
<1>0. /\ nrun \in 0..NRun /\ session \in 0..NRun
      /\ firstEvent \in [Runs -> {"off", "armed", "typing", "cancelling"}]
      /\ running \in [Threads -> 0..NRun] /\ superseded \in SUBSET Threads
  BY DEF TypeInv, TypeOK
\* The timer of a run that is not yet superseded changes.
<1>1. ASSUME firstEvent[r] \in {"armed", "typing"},
             firstEvent' = [firstEvent EXCEPT ![r] = "typing"]
               \/ firstEvent' = [firstEvent EXCEPT ![r] = "off"],
             UNCHANGED <<gate, gateThread, session, running, nrun, run,
                         superseded, stall, events, chain, turn>>
      PROVE  TurnInv'
  <2>1. gate /\ r = nrun /\ Accepted(r)
    BY <1>1, LastRun DEF Dispatching
  <2>2. /\ firstEvent'[r] \in {"typing", "off"}
        /\ \A q \in Runs : q # r => firstEvent'[q] = firstEvent[q]
    BY <1>0, <1>1
  <2>3. Accepted(r)'
    BY <1>1, <2>1, <2>2 DEF Accepted, Suppressed
  <2>4. OneAtATime'
    BY <1>0, <1>1, <2>1, <2>2, <2>3 DEF TurnInv, OneAtATime, Past, Suppressed
  <2>5. RunningHasGate' /\ ThreadsFresh' /\ NoRecovery'
    BY <1>1 DEF TurnInv, RunningHasGate, ThreadsFresh, NoRecovery
  <2> QED
    BY <2>4, <2>5 DEF TurnInv
<1>2. CASE FirstEventTimeout(r) \/ FirstEventNotice(r)
  BY <1>1, <1>2 DEF FirstEventTimeout, FirstEventNotice
<1>3. CASE FirstEventSupersede(r)
  <2>1. /\ firstEvent[r] = "typing" /\ ~ThreadRunning(run[r].thread)
        /\ firstEvent' = [firstEvent EXCEPT ![r] = "cancelling"]
        /\ superseded' = superseded \cup {run[r].thread}
        /\ session' = None
        /\ UNCHANGED <<gate, gateThread, running, nrun, run, stall, events,
                       chain, turn>>
    BY <1>3 DEF FirstEventSupersede
  <2>2. gate /\ r = nrun /\ Accepted(r)
    BY <2>1, LastRun DEF Dispatching
  <2>3. /\ firstEvent'[r] = "cancelling"
        /\ \A q \in Runs : q # r => firstEvent'[q] = firstEvent[q]
    BY <1>0, <2>1
  <2>4. run[r].thread \in Threads /\ run[r].thread <= r
          /\ run[r].stage = "accepted" /\ turn[r] # "over"
    BY <2>1, <2>2 DEF Accepted, TypeInv, RunsBegun, TurnInv, ThreadsFresh
  <2>5. Accepted(r)'
    BY <2>1, <2>2, <2>3, <2>4 DEF Accepted, Suppressed
  <2>6. OneAtATime'
    BY <1>0, <2>1, <2>2, <2>3, <2>5 DEF TurnInv, OneAtATime, Past, Suppressed
  <2>7. RunningHasGate'
    BY <2>1, <2>2, <2>4 DEF TurnInv, RunningHasGate, ThreadRunning
  <2>8. ThreadsFresh'
    <3>1. superseded \subseteq 1..nrun /\ \A q \in Runs : run[q].thread <= q
      BY <1>0, <2>2, <2>4 DEF TurnInv, ThreadsFresh
    <3>2. superseded' \subseteq 1..nrun
      <4>1. run[r].thread \in 1..nrun
        BY <1>0, <2>2, <2>4
      <4>2. superseded' = superseded \cup {run[r].thread}
        BY <2>1
      <4> QED
        BY <3>1, <4>1, <4>2
    <3>3. session' \notin superseded' /\ session' <= nrun'
      BY <1>0, <2>1, <2>4
    <3>4. ~(run'[nrun'].stage = "opening")
      BY <2>1, <2>2, <2>4
    <3> QED
      BY <2>1, <3>1, <3>2, <3>3, <3>4 DEF ThreadsFresh
  <2>9. NoRecovery'
    BY <2>1 DEF TurnInv, NoRecovery
  <2> QED
    BY <2>6, <2>7, <2>8, <2>9 DEF TurnInv
<1>4. CASE FirstEventRequeue(r)
  <2> DEFINE draft == Buffered([PreparedOf(r) EXCEPT !.gen = 1])
  <2>1. /\ firstEvent[r] = "cancelling"
        /\ firstEvent' = [firstEvent EXCEPT ![r] = "off"]
        /\ gateThread' = gateThread \ {run[r].thread}
        /\ UNCHANGED <<session, running, superseded, stall, events, chain, turn>>
        /\ \/ ThreadRunning(session)
           \/ Dispatch(run, Merge(draft), "timer", None, draft)
    BY <1>4 DEF FirstEventRequeue
  <2>2. run[r].key \in Messages
    BY <2>1, <1>0 DEF TypeInv, RunsBegun
  <2>3. draft \in SUBSET Prepared /\ Merge(draft) \in Prepared
    BY <2>2, RetryDraft
  <2>4. gate /\ r = nrun /\ Accepted(r)
    BY <2>1, LastRun DEF Dispatching
  <2>5. /\ run[r].stage = "accepted" /\ gateThread = {run[r].thread}
        /\ Suppressed(run[r].thread) /\ events = <<>> /\ chain.stage # "deliver"
    BY <2>1, <2>4 DEF Accepted
  <2>6. \A t \in Threads : running[t] = None
    BY <2>4, <2>5 DEF TurnInv, RunningHasGate, Suppressed
  <2>7. Dispatch(run, Merge(draft), "timer", None, draft)
    BY <1>0, <2>1, <2>6 DEF ThreadRunning
  <2> HIDE DEF draft
  <2>8. \A q \in Runs : firstEvent'[q] = "off"
    BY <1>0, <2>1, <2>4, LastRun
  <2>9. \A q \in Runs : q <= nrun =>
           \/ run[q].stage = "rejected" /\ turn[q] = "none"
           \/ /\ run[q].stage = "accepted"
              /\ turn[q] = "over" \/ Suppressed(run[q].thread)
    BY <1>0, <2>4, <2>5 DEF TurnInv, OneAtATime, Past
  <2>10. gateThread' = {} /\ events' = <<>> /\ chain'.stage # "deliver"
    BY <2>1, <2>5
  <2>11. "timer" \in Callers /\ "timer" # "recovery"
    BY DEF Callers
  <2>12. UNCHANGED <<turn, superseded, session, running, stall>>
    BY <2>1
  <2> QED
    BY <2>3, <2>6, <2>7, <2>8, <2>9, <2>10, <2>11, <2>12, DispatchTurnInv
<1>5. CASE StallTimeout(r) \/ StallRelease(r)
  BY <1>5, NoOtherFault DEF StallTimeout, StallRelease, TurnInv, NoRecovery
<1> QED
  BY <1>2, <1>3, <1>4, <1>5 DEF TimerStep

LEMMA RuntimeTurnInv ==
  ASSUME Recoverable, TypeInv, TurnInv, NEW r \in Runs, RuntimeStep(r)
  PROVE  TurnInv'
<1>0. /\ nrun \in 0..NRun /\ turn \in [Runs -> {"none", "live", "over"}]
      /\ firstEvent \in [Runs -> {"off", "armed", "typing", "cancelling"}]
      /\ running \in [Threads -> 0..NRun]
  BY DEF TypeInv, TypeOK
<1>1. CASE TurnStarted(r)
  <2>1. /\ run[r].stage \in {"sending", "accepted", "lost"} /\ run[r].thread # None
        /\ turn[r] = "none" /\ turn' = [turn EXCEPT ![r] = "live"]
        /\ running' = IF Suppressed(run[r].thread) THEN running
                      ELSE [running EXCEPT ![run[r].thread] = r]
        /\ UNCHANGED <<gate, gateThread, session, nrun, run, superseded,
                       firstEvent, stall, events, chain>>
    BY <1>1 DEF TurnStarted
  <2>2. turn'[r] = "live" /\ \A q \in Runs : q # r => turn'[q] = turn[q]
    BY <1>0, <2>1
  <2>3. r <= nrun
    BY <1>0, <2>1 DEF TypeInv, RunsBegun
  <2>4. CASE Past(r)
    <3>1. Suppressed(run[r].thread) /\ run[r].stage = "accepted"
      BY <2>1, <2>4 DEF Past
    <3>2. running' = running
      BY <2>1, <3>1
    <3>3. Past(r)'
      BY <2>1, <2>4, <3>1 DEF Past, Suppressed
    <3>4. r = nrun => ~gate
      BY <2>1, <2>4, <3>1 DEF TurnInv, OneAtATime, Past, Dispatching, Accepted
    <3>5. OneAtATime'
      <4>1. \A q \in Runs : Past(q) => Past(q)'
        BY <2>1, <2>2, <3>3 DEF Past, Suppressed
      <4>2. nrun # r => /\ Dispatching(nrun) => Dispatching(nrun)'
                        /\ Accepted(nrun) => Accepted(nrun)'
        BY <1>0, <2>1, <2>2 DEF Dispatching, Accepted, Suppressed,
                                TurnInv, OneAtATime
      <4> QED
        BY <1>0, <2>1, <2>2, <2>3, <3>4, <4>1, <4>2 DEF TurnInv, OneAtATime
    <3>6. RunningHasGate'
      BY <2>1, <2>2, <3>2, <3>4 DEF TurnInv, RunningHasGate
    <3>7. ThreadsFresh' /\ NoRecovery'
      BY <2>1 DEF TurnInv, ThreadsFresh, NoRecovery
    <3> QED
      BY <3>5, <3>6, <3>7 DEF TurnInv
  <2>5. CASE ~Past(r)
    <3>1. r = nrun /\ gate
      BY <1>0, <2>3, <2>5 DEF TurnInv, OneAtATime
    <3>2. Dispatching(r) \/ Accepted(r)
      BY <3>1 DEF TurnInv, OneAtATime
    <3>3. Dispatching(r)' \/ Accepted(r)'
      BY <2>1, <2>2, <3>2 DEF Dispatching, Accepted, Suppressed
    <3>4. OneAtATime'
      BY <1>0, <2>1, <2>2, <3>1, <3>3 DEF TurnInv, OneAtATime, Past, Suppressed
    <3>5. RunningHasGate'
      <4>1. run[r].stage \in {"sending", "accepted"}
        BY <2>1, <3>2 DEF Dispatching, Accepted
      <4> QED
        BY <1>0, <2>1, <2>2, <3>1, <4>1 DEF TurnInv, RunningHasGate, Suppressed
    <3>6. ThreadsFresh' /\ NoRecovery'
      BY <2>1 DEF TurnInv, ThreadsFresh, NoRecovery
    <3> QED
      BY <3>4, <3>5, <3>6 DEF TurnInv
  <2> QED
    BY <2>4, <2>5
<1>2. CASE TurnOutput(r)
  <2>1. /\ firstEvent' = ClearFirstEvent(run[r].thread)
        /\ UNCHANGED <<gate, gateThread, session, running, nrun, run,
                       superseded, stall, events, chain, turn>>
    BY <1>2 DEF TurnOutput
  <2>2. \A q \in Runs : \/ firstEvent'[q] = firstEvent[q]
                        \/ firstEvent'[q] = "off" /\ firstEvent[q] = "armed"
    BY <2>1 DEF ClearFirstEvent
  <2>3. OneAtATime'
    BY <2>1, <2>2 DEF TurnInv, OneAtATime, Past, Dispatching, Accepted, Suppressed
  <2>4. RunningHasGate' /\ ThreadsFresh' /\ NoRecovery'
    BY <2>1 DEF TurnInv, RunningHasGate, ThreadsFresh, NoRecovery
  <2> QED
    BY <2>3, <2>4 DEF TurnInv
<1>3. CASE TurnEnded(r)
  <2>1. /\ turn[r] = "live" /\ run[r].stage # "sending" /\ Timely(run[r].thread)
        /\ turn' = [turn EXCEPT ![r] = "over"]
        /\ UNCHANGED <<gate, gateThread, session, nrun, run, superseded, chain>>
        /\ IF Suppressed(run[r].thread)
             THEN UNCHANGED <<running, firstEvent, stall, events>>
             ELSE /\ running' = [running EXCEPT ![run[r].thread] = None]
                  /\ firstEvent' = ClearFirstEvent(run[r].thread)
                  /\ stall' = IF stall[r] = "armed"
                                THEN [stall EXCEPT ![r] = "off"] ELSE stall
                  /\ events' = Append(events, r)
    BY <1>3 DEF TurnEnded
  <2>2. turn'[r] = "over" /\ \A q \in Runs : q # r => turn'[q] = turn[q]
    BY <1>0, <2>1
  <2>3. r <= nrun
    BY <1>0, <2>1 DEF TurnInv, OneAtATime
  <2>4. CASE Suppressed(run[r].thread)
    <3>1. UNCHANGED <<running, firstEvent, stall, events>>
      BY <2>1, <2>4
    <3>2. OneAtATime'
      <4>1. \A q \in Runs : Past(q) => Past(q)'
        BY <2>1, <2>2, <3>1 DEF Past, Suppressed
      <4>2. Dispatching(r) => FALSE
        BY <2>1, <2>4 DEF Dispatching
      <4>3. gate => Dispatching(nrun)' \/ Accepted(nrun)'
        BY <1>0, <2>1, <2>2, <2>4, <3>1, <4>2
           DEF TurnInv, OneAtATime, Dispatching, Accepted, Suppressed
      <4> QED
        BY <1>0, <2>1, <2>2, <2>3, <3>1, <4>1, <4>3 DEF TurnInv, OneAtATime
    <3>3. RunningHasGate'
      BY <2>1, <2>2, <2>4, <3>1 DEF TurnInv, RunningHasGate, Suppressed
    <3>4. ThreadsFresh' /\ NoRecovery'
      BY <2>1, <3>1 DEF TurnInv, ThreadsFresh, NoRecovery
    <3> QED
      BY <3>2, <3>3, <3>4 DEF TurnInv
  <2>5. CASE ~Suppressed(run[r].thread)
    <3>1. ~Past(r)
      BY <2>1, <2>5 DEF Past
    <3>2. r = nrun /\ gate
      BY <1>0, <2>3, <3>1 DEF TurnInv, OneAtATime
    <3>3. Accepted(r)
      BY <2>1, <3>2 DEF TurnInv, OneAtATime, Dispatching
    <3>4. firstEvent[r] \in {"off", "armed"} /\ events = <<>>
            /\ chain.stage # "deliver" /\ run[r].stage = "accepted"
            /\ gateThread = {run[r].thread}
      <4>1. firstEvent[r] # "typing"
        BY <2>1, NoOtherFault DEF Timely
      <4> QED
        BY <1>0, <2>1, <2>5, <3>3, <4>1 DEF Accepted
    <3>5. firstEvent'[r] = "off" /\ events' = <<r>>
            /\ \A q \in Runs : firstEvent[q] = "off" => firstEvent'[q] = "off"
      BY <2>1, <2>5, <3>4 DEF ClearFirstEvent
    <3>6. Accepted(r)'
      BY <2>1, <2>2, <2>5, <3>4, <3>5 DEF Accepted, Suppressed
    <3>7. OneAtATime'
      BY <1>0, <2>1, <2>2, <3>2, <3>5, <3>6 DEF TurnInv, OneAtATime, Past, Suppressed
    <3>8. \A t \in Threads : running'[t] = None
      BY <1>0, <2>1, <2>5, <3>2 DEF TurnInv, RunningHasGate
    <3>9. ThreadsFresh' /\ RunningHasGate'
      BY <2>1, <3>8 DEF TurnInv, ThreadsFresh, RunningHasGate
    <3>10. NoRecovery'
      BY <2>1, <2>5 DEF TurnInv, NoRecovery, TypeInv, TypeOK
    <3> QED
      BY <3>7, <3>9, <3>10 DEF TurnInv
  <2> QED
    BY <2>4, <2>5
<1> QED
  BY <1>1, <1>2, <1>3 DEF RuntimeStep

-----------------------------------------------------------------------------
\* The messages.

\* A batch has the messages of its draft.
LEMMA MergeBody ==
  ASSUME NEW draft
  PROVE  Merge(draft).body = BodyOf(draft)
BY DEF Merge, BodyOf

\* The draft of a recovery has the messages buffered and those of the run.
LEMMA RetryBody ==
  ASSUME TypeInv, NEW r \in Runs
  PROVE  LET retry == [PreparedOf(r) EXCEPT !.gen = 1]
         IN /\ retry.body = run[r].body
            /\ BodyOf(Buffered(retry)) = BodyOf(pending) \cup run[r].body
<1> DEFINE retry == [PreparedOf(r) EXCEPT !.gen = 1]
<1>1. retry = [key |-> run[r].key, body |-> run[r].body, gen |-> 1]
  BY DEF PreparedOf
<1>2. retry.body = run[r].body
  BY <1>1
<1> HIDE DEF retry
<1>3. BodyOf(Buffered(retry)) = BodyOf(pending) \cup retry.body
  BY DEF BodyOf, Buffered
<1> QED
  BY <1>2, <1>3 DEF retry

\* A draft of messages that are not empty makes a batch that is not.
LEMMA BodyNonempty ==
  ASSUME NEW draft, draft # {}, \A p \in draft : p.body # {}
  PROVE  BodyOf(draft) # {}
BY DEF BodyOf

\* Nothing that MessageInv speaks of changes but the stage of the chain, which
\* does not leave the delivery while the gate is held.
LEMMA MessageInvUnchanged ==
  ASSUME MessageInv,
         UNCHANGED <<arrived, pending, run, nrun, answers>>,
         gate' => gate,
         gate' /\ chain.stage = "deliver" => chain'.stage = "deliver"
  PROVE  MessageInv'
<1>1. BodiesArrived'
  BY DEF MessageInv, BodiesArrived, BodyOf
<1>2. Unanswered'
  BY DEF MessageInv, Unanswered, BodyOf
<1> QED
  BY <1>1, <1>2 DEF MessageInv

\* A dispatch of messages that are not answered and no longer buffered.
LEMMA DispatchMessages ==
  ASSUME TypeInv, MessageInv, NEW prepared \in Prepared,
         NEW caller \in Callers, NEW draft \in SUBSET Prepared,
         Dispatch(run, prepared, caller, None, draft),
         arrived' \in {arrived, arrived + 1},
         prepared.body # {}, prepared.body \subseteq 1..arrived',
         caller # "route" => /\ BodyOf(draft) = prepared.body
                             /\ \A p \in draft : p.body # {},
         pending' \subseteq pending,
         \A m \in prepared.body : m \notin BodyOf(pending') /\ answers[m] = 0,
         answers' = answers
  PROVE  MessageInv'
<1>1. /\ nrun \in Nat /\ nrun + 1 \in Runs /\ nrun' = nrun + 1
      /\ run'[nrun + 1] = [stage |-> "opening", key |-> prepared.key,
                           body |-> prepared.body, gen |-> prepared.gen,
                           thread |-> None, caller |-> caller,
                           parent |-> None, draft |-> draft]
      /\ \A q \in Runs : q # nrun + 1 => run'[q] = run[q]
  BY DispatchNew
<1>2. arrived \in 0..NMsg
  BY DEF TypeInv, TypeOK
<1>3. BodiesArrived'
  <2>1. \A p \in pending' : p.body # {} /\ p.body \subseteq 1..arrived'
    BY <1>2 DEF MessageInv, BodiesArrived
  <2>2. ASSUME NEW r \in Runs, run'[r].stage # "unused"
        PROVE  /\ run'[r].body # {} /\ run'[r].body \subseteq 1..arrived'
               /\ run'[r].caller # "route" =>
                    /\ BodyOf(run'[r].draft) = run'[r].body
                    /\ \A p \in run'[r].draft : p.body # {}
    <3>1. CASE r = nrun + 1
      BY <1>1, <3>1
    <3>2. CASE r # nrun + 1
      <4>1. run'[r] = run[r]
        BY <1>1, <3>2
      <4>2. run[r].body # {} /\ run[r].body \subseteq 1..arrived
        BY <2>2, <4>1 DEF MessageInv, BodiesArrived
      <4>3. run[r].body \subseteq 1..arrived'
        BY <1>2, <4>2
      <4> QED
        BY <2>2, <4>1, <4>2, <4>3 DEF MessageInv, BodiesArrived
    <3> QED
      BY <3>1, <3>2
  <2> QED
    BY <2>1, <2>2 DEF BodiesArrived, BodyOf
<1>4. Unanswered'
  <2>1. BodyOf(pending') \subseteq BodyOf(pending)
    BY DEF BodyOf
  <2>2. \A m \in Messages : m > arrived' => m > arrived
    BY <1>2
  <2>3. \A m \in Messages :
          /\ answers'[m] <= 1
          /\ m > arrived' \/ m \in BodyOf(pending') => answers'[m] = 0
    BY <2>1, <2>2 DEF MessageInv, Unanswered
  <2>4. run'[nrun'].body = prepared.body
    BY <1>1
  <2> QED
    BY <2>3, <2>4 DEF Unanswered, BodyOf
<1> QED
  BY <1>3, <1>4 DEF MessageInv

\* The batch of everything that is buffered.
LEMMA DispatchPending ==
  ASSUME TypeInv, MessageInv, pending # {}, NEW caller \in Callers,
         Dispatch(run, Merge(pending), caller, None, pending),
         pending' = {}, arrived' = arrived, answers' = answers
  PROVE  MessageInv'
<1>1. pending \in SUBSET Prepared /\ Merge(pending) \in Prepared
  BY MergePrepared DEF TypeInv, TypeOK
<1>2. Merge(pending).body = BodyOf(pending)
  BY MergeBody
<1>3. BodyOf(pending) # {} /\ BodyOf(pending) \subseteq 1..arrived
  BY BodyNonempty DEF MessageInv, BodiesArrived, BodyOf
<1>4. \A m \in BodyOf(pending) : m \in Messages /\ answers[m] = 0
  BY <1>1 DEF MessageInv, Unanswered, BodyOf, Prepared
<1>5. BodyOf(pending') = {}
  BY DEF BodyOf
<1>6. \A p \in pending : p.body # {}
  BY DEF MessageInv, BodiesArrived
<1>7. pending' \subseteq pending /\ arrived' \in {arrived, arrived + 1}
  OBVIOUS
<1>8. Merge(pending).body # {} /\ Merge(pending).body \subseteq 1..arrived'
  BY <1>2, <1>3
<1>9. \A m \in Merge(pending).body : m \notin BodyOf(pending') /\ answers[m] = 0
  BY <1>2, <1>4, <1>5
<1>10. caller # "route" => /\ BodyOf(pending) = Merge(pending).body
                           /\ \A p \in pending : p.body # {}
  BY <1>2, <1>6
<1> QED
  BY <1>1, <1>7, <1>8, <1>9, <1>10, DispatchMessages

LEMMA InboundMessageInv ==
  ASSUME TypeInv, TurnInv, MessageInv,
         BufferInbound \/ RouteInbound \/ PollFlush \/ FreshThread
  PROVE  MessageInv'
<1>0. arrived \in 0..NMsg
  BY DEF TypeInv, TypeOK
<1>1. CASE BufferInbound
  <2>1. /\ arrived < NMsg /\ arrived' = arrived + 1
        /\ pending' = pending \cup {Arrived}
        /\ UNCHANGED <<run, nrun, gate, chain, answers>>
    BY <1>1 DEF BufferInbound, Buffered, history
  <2>2. Arrived.body = {arrived + 1}
    BY DEF Arrived
  <2>3. BodyOf(pending') = BodyOf(pending) \cup {arrived + 1}
    BY <2>1, <2>2 DEF BodyOf
  <2>4. BodiesArrived'
    <3>1. \A p \in pending' : p.body # {} /\ p.body \subseteq 1..arrived'
      BY <1>0, <2>1, <2>2 DEF MessageInv, BodiesArrived
    <3>2. \A r \in Runs : run[r].stage # "unused" =>
            run[r].body # {} /\ run[r].body \subseteq 1..arrived'
      BY <1>0, <2>1 DEF MessageInv, BodiesArrived
    <3> QED
      BY <2>1, <3>1, <3>2 DEF MessageInv, BodiesArrived, BodyOf
  <2>5. Unanswered'
    <3>1. \A m \in Messages :
            m > arrived' \/ m \in BodyOf(pending') => answers'[m] = 0
      BY <1>0, <2>1, <2>3 DEF MessageInv, Unanswered
    <3>2. gate => /\ run[nrun].body \subseteq 1..arrived
      BY DEF MessageInv, BodiesArrived, TurnInv, OneAtATime, Dispatching, Accepted
    <3>3. gate' => \A m \in run'[nrun'].body :
                     /\ m \notin BodyOf(pending')
                     /\ chain'.stage # "deliver" => answers'[m] = 0
      BY <1>0, <2>1, <2>3, <3>2 DEF MessageInv, Unanswered
    <3>4. \A m \in Messages : answers'[m] <= 1
      BY <2>1 DEF MessageInv, Unanswered
    <3> QED
      BY <3>1, <3>3, <3>4 DEF Unanswered, BodyOf
  <2> QED
    BY <2>4, <2>5 DEF MessageInv
<1>2. CASE RouteInbound
  <2>1. /\ arrived < NMsg /\ arrived' = arrived + 1
        /\ Dispatch(run, Arrived, "route", None, {})
        /\ UNCHANGED <<pending, answers>>
    BY <1>2 DEF RouteInbound, history
  <2>2. /\ Arrived \in Prepared /\ Arrived.body = {arrived + 1}
        /\ "route" \in Callers /\ {} \in SUBSET Prepared
    BY <2>1, ArrivedPrepared DEF Arrived, Callers
  <2>3. arrived + 1 \notin BodyOf(pending) /\ answers[arrived + 1] = 0
    BY <1>0, <2>1 DEF MessageInv, BodiesArrived, Unanswered, BodyOf
  <2>4. Arrived.body # {} /\ Arrived.body \subseteq 1..arrived'
    BY <1>0, <2>1, <2>2
  <2>5. \A m \in Arrived.body : m \notin BodyOf(pending') /\ answers[m] = 0
    BY <2>1, <2>2, <2>3
  <2>6. arrived' \in {arrived, arrived + 1} /\ pending' \subseteq pending
    BY <2>1
  <2> QED
    BY <2>1, <2>2, <2>4, <2>5, <2>6, DispatchMessages
<1>3. CASE PollFlush
  <2>1. /\ pending # {} /\ pending' = {} /\ "poll" \in Callers
        /\ Dispatch(run, Merge(pending), "poll", None, pending)
        /\ UNCHANGED <<arrived, answers>>
    BY <1>3 DEF PollFlush, history, Callers
  <2> QED
    BY <2>1, DispatchPending
<1>4. CASE FreshThread
  BY <1>4, MessageInvUnchanged DEF FreshThread, history
<1> QED
  BY <1>1, <1>2, <1>3, <1>4

LEMMA ChainMessageInv ==
  ASSUME TypeInv, TurnInv, MessageInv, ChainStep
  PROVE  MessageInv'
<1>0. /\ chain \in [stage : {"idle", "deliver", "flush", "await", "close"},
                    run : 0..NRun]
      /\ nrun \in 0..NRun /\ answers \in [Messages -> Nat]
      /\ \A r \in Runs : run[r].body \in SUBSET Messages
  BY DEF TypeInv, TypeOK, RunRecords
<1>1. CASE ChainDeliver
  <2>1. /\ chain.stage = "idle" /\ events # <<>>
        /\ UNCHANGED <<arrived, pending, run, nrun, gate>>
    BY <1>1 DEF ChainDeliver
  <2>2. gate /\ nrun \in Runs /\ Accepted(nrun) /\ events = <<nrun>>
    BY <2>1 DEF TurnInv, OneAtATime, Dispatching, Accepted
  <2>3. Head(events) = nrun /\ ~Suppressed(run[nrun].thread)
    BY <2>1, <2>2 DEF Accepted
  <2>4. /\ chain' = [stage |-> "deliver", run |-> nrun]
        /\ answers' = [m \in Messages |->
                         IF m \in run[nrun].body THEN answers[m] + 1
                         ELSE answers[m]]
    BY <1>1, <2>3 DEF ChainDeliver
  <2>5. BodiesArrived'
    BY <2>1 DEF MessageInv, BodiesArrived, BodyOf
  <2>6. run[nrun].body \subseteq 1..arrived
    BY <2>2 DEF MessageInv, BodiesArrived, Accepted
  <2>7. \A m \in run[nrun].body : m \notin BodyOf(pending) /\ answers[m] = 0
    BY <2>1, <2>2 DEF MessageInv, Unanswered
  <2>8. \A m \in Messages :
          /\ answers'[m] <= 1
          /\ m > arrived \/ m \in BodyOf(pending) => answers'[m] = 0
    BY <1>0, <2>4, <2>6, <2>7 DEF MessageInv, Unanswered, TypeInv, TypeOK
  <2>9. Unanswered'
    BY <2>1, <2>4, <2>7, <2>8 DEF Unanswered, BodyOf
  <2> QED
    BY <2>5, <2>9 DEF MessageInv
<1>2. CASE ChainRelease
  <2>1. /\ chain.stage = "deliver"
        /\ gate' = (gate /\ run[chain.run].thread \notin gateThread)
        /\ UNCHANGED <<arrived, pending, run, nrun, answers>>
    BY <1>2 DEF ChainRelease, GateAfterRelease, history
  <2>2. gate' = FALSE
    BY <2>1 DEF TurnInv, OneAtATime, Dispatching, Accepted
  <2> QED
    BY <2>1, <2>2, MessageInvUnchanged
<1>3. CASE ChainFlush
  <2>1. /\ chain.stage = "flush" /\ "chain" \in Callers
        /\ UNCHANGED <<arrived, answers>>
        /\ \/ UNCHANGED <<pending, gate, nrun, run>>
           \/ /\ pending # {} /\ pending' = {}
              /\ Dispatch(run, Merge(pending), "chain", None, pending)
    BY <1>3 DEF ChainFlush, history, Callers
  <2> QED
    BY <2>1, DispatchPending, MessageInvUnchanged
<1>4. CASE ChainClose
  BY <1>4, MessageInvUnchanged DEF ChainClose, history
<1> QED
  BY <1>1, <1>2, <1>3, <1>4 DEF ChainStep

LEMMA DispatchStepMessageInv ==
  ASSUME Recoverable, TypeInv, TurnInv, MessageInv, NEW r \in Runs, DispatchStep(r)
  PROVE  MessageInv'
<1>0. /\ nrun \in 0..NRun /\ session \in 0..NRun
      /\ run \in [Runs -> RunRecords]
  BY DEF TypeInv, TypeOK
\* The run's stage changes, and the buffer stays.
<1>1. ASSUME run[r].stage # "unused",
             \A q \in Runs :
               /\ q # r => run'[q] = run[q]
               /\ run'[q].body = run[q].body /\ run'[q].draft = run[q].draft
               /\ run'[q].caller = run[q].caller,
             UNCHANGED <<arrived, nrun, answers, pending>>,
             gate' => gate /\ nrun \in Runs /\ chain.stage # "deliver"
      PROVE  MessageInv'
  <2>1. BodiesArrived'
    BY <1>1 DEF MessageInv, BodiesArrived, BodyOf
  <2>2. Unanswered'
    BY <1>1 DEF MessageInv, Unanswered, BodyOf
  <2> QED
    BY <2>1, <2>2 DEF MessageInv
<1>2. ASSUME InFlight(r)
      PROVE  /\ gate /\ r = nrun /\ chain.stage # "deliver"
             /\ run[r].parent = None /\ run[r].stage # "unused"
  BY <1>2, LastRun DEF InFlight, Accepted, Dispatching, TurnInv, NoRecovery
<1>3. CASE OpenThread(r)
  <2>1. PICK t \in {r} \cup ({session} \ {None}) :
          run' = [run EXCEPT ![r].stage = "sending", ![r].thread = t]
    BY <1>3 DEF OpenThread
  <2>2. t \in Threads
    BY <1>0, <2>1
  <2>3. /\ run'[r] = [stage |-> "sending", key |-> run[r].key,
                      body |-> run[r].body, gen |-> run[r].gen, thread |-> t,
                      caller |-> run[r].caller, parent |-> run[r].parent,
                      draft |-> run[r].draft]
        /\ \A q \in Runs : q # r => run'[q] = run[q]
    BY <2>1, <2>2, OpenShape
  <2>4. \A q \in Runs :
          /\ q # r => run'[q] = run[q]
          /\ run'[q].body = run[q].body /\ run'[q].draft = run[q].draft
          /\ run'[q].caller = run[q].caller
    BY <2>3
  <2>5. InFlight(r) /\ UNCHANGED <<arrived, nrun, answers, pending, gate>>
    BY <1>3 DEF OpenThread, InFlight, history
  <2> QED
    BY <1>1, <1>2, <2>4, <2>5
<1>4. CASE Accept(r)
  <2>1. /\ InFlight(r) /\ Return(r, TRUE, "accepted", pending)
        /\ TRUE \in BOOLEAN /\ "accepted" \in RunStages
        /\ UNCHANGED <<arrived, nrun, answers, gate>>
    BY <1>4 DEF Accept, InFlight, RunStages, history
  <2>2. /\ \A q \in Runs :
             /\ q # r => run'[q] = run[q]
             /\ run'[q].body = run[q].body /\ run'[q].draft = run[q].draft
             /\ run'[q].caller = run[q].caller
        /\ pending' = Restored(r, TRUE, pending)
    BY <1>2, <2>1, ReturnAlone
  <2>3. pending' = pending
    BY <2>2 DEF Restored
  <2> QED
    BY <1>1, <1>2, <2>1, <2>2, <2>3
<1>5. CASE Reject(r)
  <2>1. /\ InFlight(r) /\ Return(r, FALSE, "rejected", pending)
        /\ FALSE \in BOOLEAN /\ "rejected" \in RunStages /\ gate' = FALSE
        /\ UNCHANGED <<arrived, nrun, answers>>
    BY <1>5 DEF Reject, RunStages
  <2>2. /\ \A q \in Runs :
             /\ q # r => run'[q] = run[q]
             /\ run'[q].body = run[q].body /\ run'[q].draft = run[q].draft
             /\ run'[q].caller = run[q].caller
        /\ pending' = Restored(r, FALSE, pending)
    BY <1>2, <2>1, ReturnAlone
  <2>3. CASE run[r].caller = "route"
    <3>1. pending' = pending
      BY <2>2, <2>3 DEF Restored
    <3> QED
      BY <1>1, <1>2, <2>1, <2>2, <3>1
  <2>4. CASE run[r].caller # "route"
    <3>1. pending' = run[r].draft
      BY <2>2, <2>4 DEF Restored
    <3>2. /\ BodyOf(run[r].draft) = run[r].body
          /\ \A p \in run[r].draft : p.body # {}
          /\ run[r].body \subseteq 1..arrived
      BY <1>2, <2>1, <2>4 DEF MessageInv, BodiesArrived
    <3>3. \A p \in pending' : p.body # {} /\ p.body \subseteq 1..arrived
      BY <3>1, <3>2 DEF BodyOf
    <3>4. BodiesArrived'
      <4>1. arrived' = arrived
        BY <2>1
      <4>2. ASSUME NEW q \in Runs, run'[q].stage # "unused"
            PROVE  run[q].stage # "unused"
        BY <1>2, <2>1, <2>2, <4>2
      <4>3. ASSUME NEW q \in Runs, run[q].stage # "unused"
            PROVE  /\ run[q].body # {} /\ run[q].body \subseteq 1..arrived
                   /\ run[q].caller # "route" =>
                        /\ BodyOf(run[q].draft) = run[q].body
                        /\ \A p \in run[q].draft : p.body # {}
        BY <4>3 DEF MessageInv, BodiesArrived
      <4>4. ASSUME NEW q \in Runs, run'[q].stage # "unused"
            PROVE  /\ run'[q].body # {} /\ run'[q].body \subseteq 1..arrived
                   /\ run'[q].caller # "route" =>
                        /\ BodyOf(run'[q].draft) = run'[q].body
                        /\ \A p \in run'[q].draft : p.body # {}
        BY <2>2, <4>2, <4>3, <4>4
      <4> QED
        BY <3>3, <4>1, <4>4 DEF BodiesArrived, BodyOf
    <3>5. \A m \in run[r].body : answers[m] = 0
      BY <1>2, <2>1 DEF MessageInv, Unanswered
    <3>6. BodyOf(pending') = run[r].body
      BY <3>1, <3>2 DEF BodyOf
    <3>7. Unanswered'
      BY <2>1, <3>5, <3>6 DEF MessageInv, Unanswered, BodyOf
    <3> QED
      BY <3>4, <3>7 DEF MessageInv
  <2> QED
    BY <2>3, <2>4
<1>6. CASE TransportFailNoRetry(r) \/ TransportFailThrow(r) \/ TransportFailRecover(r)
  BY <1>6, NoOtherFault
     DEF TransportFailNoRetry, TransportFailThrow, TransportFailRecover
<1> QED
  BY <1>3, <1>4, <1>5, <1>6 DEF DispatchStep

LEMMA TimerMessageInv ==
  ASSUME Recoverable, TypeInv, TurnInv, MessageInv, NEW r \in Runs, TimerStep(r)
  PROVE  MessageInv'
<1>1. CASE FirstEventTimeout(r) \/ FirstEventNotice(r) \/ FirstEventSupersede(r)
  BY <1>1, MessageInvUnchanged
     DEF FirstEventTimeout, FirstEventNotice, FirstEventSupersede, history
<1>2. CASE FirstEventRequeue(r)
  <2> DEFINE draft == Buffered([PreparedOf(r) EXCEPT !.gen = 1])
  <2>1. /\ firstEvent[r] = "cancelling"
        /\ UNCHANGED <<arrived, answers>>
        /\ \/ ThreadRunning(session)
           \/ pending' = {} /\ Dispatch(run, Merge(draft), "timer", None, draft)
    BY <1>2 DEF FirstEventRequeue, history
  <2>2. run[r].key \in Messages
    <3>1. firstEvent[r] = "cancelling"
      BY <1>2 DEF FirstEventRequeue
    <3> QED
      BY <3>1 DEF TypeInv, TypeOK, RunsBegun
  <2>3. draft \in SUBSET Prepared /\ Merge(draft) \in Prepared
    BY <2>2, RetryDraft
  <2>4. BodyOf(draft) = BodyOf(pending) \cup run[r].body
    BY RetryBody
  <2>5. \A p \in draft : p \in pending \/ p.body = run[r].body
    BY RetryBody DEF Buffered
  <2> HIDE DEF draft
  <2>6. gate /\ r = nrun /\ Accepted(r) /\ session \in 0..NRun
    BY <2>1, LastRun DEF Dispatching, TypeInv, TypeOK
  <2>7. Suppressed(run[r].thread) /\ chain.stage # "deliver" /\ run[r].stage = "accepted"
    BY <2>1, <2>6 DEF Accepted
  <2>8. ~ThreadRunning(session)
    BY <2>6, <2>7 DEF ThreadRunning, TurnInv, RunningHasGate, Suppressed
  <2>9. pending' = {} /\ Dispatch(run, Merge(draft), "timer", None, draft)
    BY <2>1, <2>8
  <2>10. /\ run[r].body # {} /\ run[r].body \subseteq 1..arrived
         /\ \A p \in pending : p.body # {} /\ p.body \subseteq 1..arrived
    BY <2>7 DEF MessageInv, BodiesArrived
  <2>11. BodyOf(pending) \subseteq 1..arrived
    BY <2>10 DEF BodyOf
  <2>12. \A m \in BodyOf(draft) : answers[m] = 0
    <3>1. \A m \in run[r].body : answers[m] = 0
      BY <2>6, <2>7 DEF MessageInv, Unanswered
    <3>2. arrived \in 0..NMsg
      BY DEF TypeInv, TypeOK
    <3>3. \A m \in BodyOf(pending) : answers[m] = 0
      BY <2>11, <3>2 DEF MessageInv, Unanswered
    <3> QED
      BY <2>4, <3>1, <3>3
  <2>13. Merge(draft).body = BodyOf(draft)
    BY MergeBody
  <2>14. BodyOf(pending') = {}
    BY <2>9 DEF BodyOf
  <2>15. Merge(draft).body # {} /\ Merge(draft).body \subseteq 1..arrived'
    BY <2>1, <2>4, <2>10, <2>11, <2>13
  <2>16. \A m \in Merge(draft).body : m \notin BodyOf(pending') /\ answers[m] = 0
    BY <2>12, <2>13, <2>14
  <2>17. BodyOf(draft) = Merge(draft).body /\ \A p \in draft : p.body # {}
    BY <2>5, <2>10, <2>13
  <2>18. "timer" \in Callers /\ pending' \subseteq pending
           /\ arrived' \in {arrived, arrived + 1} /\ answers' = answers
    BY <2>1, <2>9 DEF Callers
  <2> QED
    BY <2>3, <2>9, <2>15, <2>16, <2>17, <2>18, DispatchMessages
<1>3. CASE StallTimeout(r) \/ StallRelease(r)
  BY <1>3, NoOtherFault DEF StallTimeout, StallRelease, TurnInv, NoRecovery
<1> QED
  BY <1>1, <1>2, <1>3 DEF TimerStep

LEMMA RuntimeMessageInv ==
  ASSUME MessageInv, NEW r \in Runs, RuntimeStep(r)
  PROVE  MessageInv'
BY MessageInvUnchanged DEF RuntimeStep, TurnStarted, TurnOutput, TurnEnded, history

-----------------------------------------------------------------------------
\* The invariant.

LEMMA InitTurnMessageInv == Init => TurnInv /\ MessageInv
<1> SUFFICES ASSUME Init PROVE TurnInv /\ MessageInv
  OBVIOUS
<1>1. /\ \A r \in Runs : /\ run[r] = IdleRun /\ firstEvent[r] = "off"
                         /\ stall[r] = "off" /\ turn[r] = "none"
      /\ \A t \in Threads : running[t] = 0
      /\ \A m \in Messages : answers[m] = 0
      /\ nrun = 0 /\ gate = FALSE /\ gateThread = {} /\ events = <<>>
      /\ session = 0 /\ superseded = {} /\ pending = {} /\ chain.stage = "idle"
  BY DEF Init
<1>2. TurnInv
  BY <1>1 DEF TurnInv, OneAtATime, RunningHasGate, ThreadsFresh, NoRecovery, IdleRun
<1>3. MessageInv
  BY <1>1 DEF MessageInv, BodiesArrived, Unanswered, BodyOf, IdleRun
<1> QED
  BY <1>2, <1>3

LEMMA NextTurnMessageInv ==
  ASSUME Recoverable
  PROVE  TypeInv /\ TurnInv /\ MessageInv /\ [Next]_vars
           => TurnInv' /\ MessageInv'
<1> SUFFICES ASSUME TypeInv, TurnInv, MessageInv, [Next]_vars
             PROVE  TurnInv' /\ MessageInv'
  OBVIOUS
<1>1. CASE BufferInbound \/ RouteInbound \/ PollFlush \/ FreshThread
  BY <1>1, InboundTurnInv, InboundMessageInv
<1>2. CASE ChainStep
  BY <1>2, ChainTurnInv, ChainMessageInv
<1>3. CASE \E r \in Runs : DispatchStep(r)
  BY <1>3, DispatchStepTurnInv, DispatchStepMessageInv
<1>4. CASE \E r \in Runs : TimerStep(r)
  BY <1>4, TimerTurnInv, TimerMessageInv
<1>5. CASE \E r \in Runs : RuntimeStep(r)
  BY <1>5, RuntimeTurnInv, RuntimeMessageInv
<1>6. CASE UNCHANGED vars
  BY <1>6, TurnInvUnchanged, MessageInvUnchanged DEF vars, appVars, history
<1> QED
  BY <1>1, <1>2, <1>3, <1>4, <1>5, <1>6 DEF Next

LEMMA TurnMessageInv ==
  ASSUME Recoverable
  PROVE  Spec => [](TypeInv /\ TurnInv /\ MessageInv)
<1>1. Init => TypeInv /\ TurnInv /\ MessageInv
  BY InitTypeInv, InitTurnMessageInv
<1>2. TypeInv /\ TurnInv /\ MessageInv /\ [Next]_vars
        => (TypeInv /\ TurnInv /\ MessageInv)'
  BY NextTypeInv, NextTurnMessageInv
<1> QED
  BY <1>1, <1>2, PTL DEF Spec

\* While turns are at most refused, or their first event does not come, no
\* release meant for another turn opens the gate of a turn that goes on.
THEOREM GateTracksItsTurn ==
  ASSUME Recoverable
  PROVE  Spec => []GateTracksTurn
<1>1. TypeInv /\ TurnInv => GateTracksTurn
  <2> SUFFICES ASSUME TypeInv, TurnInv, NEW r \in Runs, Owns(r) PROVE gate
    BY DEF GateTracksTurn
  <2> QED
    BY LastRun DEF Owns
<1> QED
  BY <1>1, TurnMessageInv, PTL

\* Under the same faults no message is answered twice, although a message is
\* dispatched again after its turn has died, in one batch with others.
THEOREM AnsweredOnce ==
  ASSUME Recoverable
  PROVE  Spec => []AnswerOnce
<1>1. MessageInv => AnswerOnce
  BY DEF MessageInv, Unanswered, AnswerOnce
<1> QED
  BY <1>1, TurnMessageInv, PTL

\* An event of a superseded run is not delivered, whatever the faults: the
\* chain makes the check when it takes the event, not when the event came.
THEOREM SupersededStaysSilent == Spec => SupersededSilent
<1>1. ASSUME [Next]_vars, NEW r \in Runs,
             chain.stage = "idle", chain'.stage = "deliver", chain'.run = r,
             TypeInv
      PROVE  run[r].thread \notin superseded
  <2>0. /\ chain \in [stage : {"idle", "deliver", "flush", "await", "close"},
                      run : 0..NRun]
    BY <1>1 DEF TypeInv, TypeOK
  <2>1. chain' # chain
    BY <1>1
  <2>2. chain' # [chain EXCEPT !.stage = "close"]
    BY <1>1, <2>0
  <2>3. CASE ChainDeliver
    BY <1>1, <2>1, <2>3 DEF ChainDeliver, Suppressed
  <2>4. CASE ChainRelease \/ ChainFlush \/ ChainClose
    BY <1>1, <2>4 DEF ChainRelease, ChainFlush, ChainClose
  <2>5. CASE \E q \in Runs : DispatchStep(q)
    BY <2>1, <2>2, <2>5
       DEF DispatchStep, OpenThread, Accept, Reject, TransportFailNoRetry,
           TransportFailThrow, TransportFailRecover, Return
  <2>6. CASE \E q \in Runs : TimerStep(q)
    BY <2>1, <2>6 DEF TimerStep, FirstEventTimeout, FirstEventNotice,
                      FirstEventSupersede, FirstEventRequeue, StallTimeout,
                      StallRelease
  <2>7. CASE \E q \in Runs : RuntimeStep(q)
    BY <2>1, <2>7 DEF RuntimeStep, TurnStarted, TurnOutput, TurnEnded
  <2>8. CASE \/ BufferInbound \/ RouteInbound \/ PollFlush \/ FreshThread
             \/ UNCHANGED vars
    BY <2>1, <2>8
       DEF BufferInbound, RouteInbound, PollFlush, FreshThread, vars, appVars
  <2> QED
    BY <1>1, <2>3, <2>4, <2>5, <2>6, <2>7, <2>8 DEF Next, ChainStep
<1>2. TypeInv /\ [Next]_vars =>
        [\A r \in Runs :
           (chain.stage = "idle" /\ chain'.stage = "deliver" /\ chain'.run = r)
             => run[r].thread \notin superseded]_vars
  BY <1>1
<1> QED
  BY <1>2, InitTypeInv, NextTypeInv, PTL DEF Spec, SupersededSilent

-----------------------------------------------------------------------------
\* Nothing is lost.

LEMMA FirstEventRecoverable ==
  ASSUME FirstEventOnly
  PROVE  Recoverable /\ ~Fault("reject")
BY DEF FirstEventOnly, Recoverable, Fault

\* A dispatch keeps AllTaken when what is no longer buffered is in its batch.
LEMMA DispatchTaken ==
  ASSUME TypeInv, AllTaken, NEW prepared \in Prepared,
         NEW caller \in Callers, NEW draft \in SUBSET Prepared,
         Dispatch(run, prepared, caller, None, draft),
         \A m \in 1..arrived' : m \in 1..arrived \/ m \in prepared.body,
         BodyOf(pending) \subseteq prepared.body \cup BodyOf(pending')
  PROVE  AllTaken'
<1>1. /\ nrun \in Nat /\ nrun + 1 \in Runs
      /\ run'[nrun + 1] = [stage |-> "opening", key |-> prepared.key,
                           body |-> prepared.body, gen |-> prepared.gen,
                           thread |-> None, caller |-> caller,
                           parent |-> None, draft |-> draft]
      /\ \A q \in Runs : q # nrun + 1 => run'[q] = run[q]
  BY DispatchNew
<1>2. \A q \in Runs : run[q].stage # "unused" => run'[q] = run[q]
  BY <1>1 DEF TypeInv, RunsBegun
<1>3. \A r \in Runs : run'[r].stage # "rejected"
  BY <1>1 DEF AllTaken
<1>4. ASSUME NEW m \in 1..arrived'
      PROVE  \/ m \in BodyOf(pending')
             \/ \E r \in Runs : run'[r].stage # "unused" /\ m \in run'[r].body
  <2>1. CASE m \in prepared.body
    BY <1>1, <2>1
  <2>2. CASE m \in 1..arrived
    BY <1>1, <1>2, <2>1, <2>2 DEF AllTaken
  <2> QED
    BY <1>4, <2>1, <2>2
<1> QED
  BY <1>3, <1>4 DEF AllTaken, BodyOf

LEMMA TakenUnchanged ==
  ASSUME AllTaken, UNCHANGED <<arrived, pending, run>>
  PROVE  AllTaken'
BY DEF AllTaken, BodyOf

LEMMA NextAllTaken ==
  ASSUME FirstEventOnly
  PROVE  TypeInv /\ TurnInv /\ AllTaken /\ [Next]_vars => AllTaken'
<1> SUFFICES ASSUME TypeInv, TurnInv, AllTaken, [Next]_vars PROVE AllTaken'
  OBVIOUS
<1>0. /\ arrived \in 0..NMsg /\ pending \in SUBSET Prepared
      /\ session \in 0..NRun /\ Recoverable
  BY FirstEventRecoverable DEF TypeInv, TypeOK
\* A batch of everything that is buffered.
<1>1. ASSUME NEW caller \in Callers, pending # {}, pending' = {},
             Dispatch(run, Merge(pending), caller, None, pending),
             arrived' = arrived
      PROVE  AllTaken'
  <2>1. Merge(pending) \in Prepared /\ Merge(pending).body = BodyOf(pending)
    BY <1>0, <1>1, MergePrepared, MergeBody
  <2>2. BodyOf(pending) \subseteq Merge(pending).body \cup BodyOf(pending')
    BY <2>1
  <2>3. \A m \in 1..arrived' : m \in 1..arrived \/ m \in Merge(pending).body
    BY <1>1
  <2> QED
    BY <1>0, <1>1, <2>1, <2>2, <2>3, DispatchTaken
<1>2. CASE BufferInbound
  <2>1. /\ arrived' = arrived + 1 /\ pending' = pending \cup {Arrived}
        /\ run' = run
    BY <1>2 DEF BufferInbound, Buffered
  <2>2. BodyOf(pending') = BodyOf(pending) \cup {arrived + 1}
    <3>1. Arrived.body = {arrived + 1}
      BY DEF Arrived
    <3> QED
      BY <2>1, <3>1 DEF BodyOf
  <2> QED
    BY <1>0, <2>1, <2>2 DEF AllTaken, BodyOf
<1>3. CASE RouteInbound
  <2>1. /\ arrived < NMsg /\ arrived' = arrived + 1
        /\ Dispatch(run, Arrived, "route", None, {})
        /\ pending' = pending
    BY <1>3 DEF RouteInbound
  <2>2. /\ Arrived \in Prepared /\ Arrived.body = {arrived + 1}
        /\ "route" \in Callers /\ {} \in SUBSET Prepared
    BY <2>1, ArrivedPrepared DEF Arrived, Callers
  <2>3. \A m \in 1..arrived' : m \in 1..arrived \/ m \in Arrived.body
    BY <1>0, <2>1, <2>2
  <2>4. BodyOf(pending) \subseteq Arrived.body \cup BodyOf(pending')
    BY <2>1
  <2> QED
    BY <2>1, <2>2, <2>3, <2>4, DispatchTaken
<1>4. CASE PollFlush
  <2>1. /\ pending # {} /\ pending' = {} /\ "poll" \in Callers
        /\ Dispatch(run, Merge(pending), "poll", None, pending)
        /\ arrived' = arrived
    BY <1>4 DEF PollFlush, Callers
  <2> QED
    BY <1>1, <2>1
<1>5. CASE FreshThread
  BY <1>5, TakenUnchanged DEF FreshThread
<1>6. CASE ChainStep
  <2>1. CASE ChainFlush
    <3>1. /\ "chain" \in Callers /\ arrived' = arrived
          /\ \/ UNCHANGED <<pending, run>>
             \/ /\ pending # {} /\ pending' = {}
                /\ Dispatch(run, Merge(pending), "chain", None, pending)
      BY <2>1 DEF ChainFlush, Callers
    <3> QED
      BY <1>1, <3>1, TakenUnchanged
  <2> QED
    BY <1>6, <2>1, TakenUnchanged
       DEF ChainStep, ChainDeliver, ChainRelease, ChainClose
<1>7. ASSUME NEW r \in Runs, DispatchStep(r) PROVE AllTaken'
  <2>1. ASSUME \A q \in Runs :
                 /\ q # r => run'[q] = run[q]
                 /\ run'[q].body = run[q].body,
               run'[r].stage \notin {"rejected", "unused"},
               UNCHANGED <<arrived, pending>>
        PROVE  AllTaken'
    <3>1. \A q \in Runs : run[q].stage # "unused" => run'[q].stage # "unused"
      BY <2>1
    <3>2. \A q \in Runs : run'[q].stage # "rejected"
      BY <2>1 DEF AllTaken
    <3> QED
      BY <2>1, <3>1, <3>2 DEF AllTaken, BodyOf
  <2>2. CASE OpenThread(r)
    <3>1. PICK t \in {r} \cup ({session} \ {None}) :
            run' = [run EXCEPT ![r].stage = "sending", ![r].thread = t]
      BY <2>2 DEF OpenThread
    <3>2. t \in Threads
      BY <1>0, <3>1
    <3>3. /\ run'[r] = [stage |-> "sending", key |-> run[r].key,
                        body |-> run[r].body, gen |-> run[r].gen, thread |-> t,
                        caller |-> run[r].caller, parent |-> run[r].parent,
                        draft |-> run[r].draft]
          /\ \A q \in Runs : q # r => run'[q] = run[q]
      BY <3>1, <3>2, OpenShape
    <3>4. UNCHANGED <<arrived, pending>>
      BY <2>2 DEF OpenThread
    <3> QED
      BY <2>1, <3>3, <3>4
  <2>3. CASE Accept(r)
    <3>1. /\ Return(r, TRUE, "accepted", pending)
          /\ TRUE \in BOOLEAN /\ "accepted" \in RunStages
          /\ arrived' = arrived /\ run[r].parent = None
      BY <2>3 DEF Accept, RunStages, TurnInv, NoRecovery
    <3>2. /\ run'[r].stage = "accepted"
          /\ \A q \in Runs :
               /\ q # r => run'[q] = run[q]
               /\ run'[q].body = run[q].body
          /\ pending' = Restored(r, TRUE, pending)
      BY <3>1, ReturnAlone
    <3>3. pending' = pending
      BY <3>2 DEF Restored
    <3> QED
      BY <2>1, <3>1, <3>2, <3>3
  <2>4. CASE \/ Reject(r) \/ TransportFailNoRetry(r)
             \/ TransportFailThrow(r) \/ TransportFailRecover(r)
    BY <1>0, <2>4, NoOtherFault, FirstEventRecoverable
       DEF Reject, TransportFailNoRetry, TransportFailThrow, TransportFailRecover
  <2> QED
    BY <1>7, <2>2, <2>3, <2>4 DEF DispatchStep
<1>8. ASSUME NEW r \in Runs, TimerStep(r) PROVE AllTaken'
  <2>1. CASE FirstEventTimeout(r) \/ FirstEventNotice(r) \/ FirstEventSupersede(r)
    BY <2>1, TakenUnchanged
       DEF FirstEventTimeout, FirstEventNotice, FirstEventSupersede
  <2>2. CASE FirstEventRequeue(r)
    <3> DEFINE draft == Buffered([PreparedOf(r) EXCEPT !.gen = 1])
    <3>1. /\ arrived' = arrived /\ firstEvent[r] = "cancelling"
          /\ \/ pending' = draft /\ run' = run
             \/ pending' = {} /\ Dispatch(run, Merge(draft), "timer", None, draft)
      BY <2>2 DEF FirstEventRequeue
    <3>2. run[r].key \in Messages
      <4>1. firstEvent[r] = "cancelling"
        BY <2>2 DEF FirstEventRequeue
      <4> QED
        BY <4>1 DEF TypeInv, TypeOK, RunsBegun
    <3>3. draft \in SUBSET Prepared /\ Merge(draft) \in Prepared
      BY <3>2, RetryDraft
    <3>4. BodyOf(draft) = BodyOf(pending) \cup run[r].body
      BY RetryBody
    <3> HIDE DEF draft
    <3>5. CASE pending' = draft /\ run' = run
      BY <3>1, <3>4, <3>5 DEF AllTaken, BodyOf
    <3>6. CASE pending' = {} /\ Dispatch(run, Merge(draft), "timer", None, draft)
      <4>1. Merge(draft).body = BodyOf(draft) /\ "timer" \in Callers
        BY MergeBody DEF Callers
      <4>2. BodyOf(pending) \subseteq Merge(draft).body \cup BodyOf(pending')
        BY <3>4, <4>1
      <4>3. \A m \in 1..arrived' : m \in 1..arrived \/ m \in Merge(draft).body
        BY <3>1
      <4> QED
        BY <3>3, <3>6, <4>1, <4>2, <4>3, DispatchTaken
    <3> QED
      BY <3>1, <3>5, <3>6
  <2>3. CASE StallTimeout(r) \/ StallRelease(r)
    BY <1>0, <2>3, NoOtherFault DEF StallTimeout, StallRelease, TurnInv, NoRecovery
  <2> QED
    BY <1>8, <2>1, <2>2, <2>3 DEF TimerStep
<1>9. ASSUME NEW r \in Runs, RuntimeStep(r) PROVE AllTaken'
  BY <1>9, TakenUnchanged DEF RuntimeStep, TurnStarted, TurnOutput, TurnEnded
<1>10. CASE UNCHANGED vars
  BY <1>10, TakenUnchanged DEF vars, appVars
<1> QED
  BY <1>2, <1>3, <1>4, <1>5, <1>6, <1>7, <1>8, <1>9, <1>10 DEF Next

LEMMA TakenInv ==
  ASSUME FirstEventOnly
  PROVE  Spec => [](TypeInv /\ TurnInv /\ MessageInv /\ AllTaken)
<1>1. Init => AllTaken
  BY DEF Init, AllTaken, IdleRun
<1>2. Recoverable
  BY FirstEventRecoverable
<1>3. Spec => [](TypeInv /\ TurnInv /\ MessageInv)
  BY <1>2, TurnMessageInv
<1>4. TypeInv /\ TurnInv /\ AllTaken /\ [Next]_vars => AllTaken'
  BY NextAllTaken
<1> QED
  BY <1>1, <1>3, <1>4, PTL DEF Spec

\* While turns fail in no other way than that their first event does not come,
\* no message is lost, not even from a draft that a recovery merges and
\* dispatches while others arrive.
THEOREM NothingLostSilently ==
  ASSUME FirstEventOnly
  PROVE  Spec => []NoSilentLoss
<1>1. TypeInv /\ TurnInv /\ AllTaken => NoSilentLoss
  <2> SUFFICES ASSUME TypeInv, TurnInv, AllTaken, NEW m \in 1..arrived
               PROVE  Held(m)
    BY DEF NoSilentLoss
  <2>1. CASE m \in BodyOf(pending)
    BY <2>1 DEF BodyOf, Held
  <2>2. ASSUME NEW r \in Runs, run[r].stage # "unused", m \in run[r].body
        PROVE  Held(m)
    <3>1. r <= nrun /\ nrun \in 0..NRun
      <4>1. nrun \in 0..NRun
        BY DEF TypeInv, TypeOK
      <4>2. ~(r > nrun)
        BY <2>2 DEF TypeInv, RunsBegun
      <4> QED
        BY <4>1, <4>2
    <3>2. run[r].stage \in {"opening", "sending", "accepted"}
      BY <3>1 DEF TurnInv, OneAtATime, Past, Dispatching, Accepted, AllTaken
    <3> QED
      BY <2>2, <3>2 DEF Held
  <2> QED
    BY <2>1, <2>2 DEF AllTaken
<1> QED
  BY <1>1, TakenInv, PTL

-----------------------------------------------------------------------------
\* The promise of ConversationTurns.

\* What the promise sees: only the last run can be worked on, or await the
\* cancellation that puts its messages back.
Works == gate /\ Owns(nrun)
PutsBack == gate /\ firstEvent[nrun] = "cancelling"
Seen ==
  /\ Active = IF Works THEN run[nrun].body ELSE {}
  /\ Waiting = BodyOf(pending) \cup IF PutsBack THEN run[nrun].body ELSE {}

LEMMA WhatIsSeen == TypeInv /\ TurnInv => Seen
<1> SUFFICES ASSUME TypeInv, TurnInv PROVE Seen
  OBVIOUS
<1>1. gate => nrun \in Runs
  BY DEF TurnInv, OneAtATime
<1>2. \A r \in Runs : Owns(r) => gate /\ r = nrun
  BY LastRun DEF Owns
<1>3. \A r \in Runs : firstEvent[r] = "cancelling" => gate /\ r = nrun
  BY LastRun
<1>4. Active = IF Works THEN run[nrun].body ELSE {}
  <2>1. CASE Works
    <3>1. {q \in Runs : Owns(q)} = {nrun}
      BY <1>1, <1>2, <2>1 DEF Works
    <3> QED
      BY <2>1, <3>1 DEF Active
  <2>2. CASE ~Works
    <3>1. {q \in Runs : Owns(q)} = {}
      BY <1>2, <2>2 DEF Works
    <3> QED
      BY <2>2, <3>1 DEF Active
  <2> QED
    BY <2>1, <2>2
<1>5. Waiting = BodyOf(pending) \cup IF PutsBack THEN run[nrun].body ELSE {}
  <2>1. CASE PutsBack
    <3>1. {q \in Runs : firstEvent[q] = "cancelling"} = {nrun}
      BY <1>1, <1>3, <2>1 DEF PutsBack
    <3>2. UNION {run[r].body : r \in {q \in Runs : firstEvent[q] = "cancelling"}}
            = run[nrun].body
      BY <3>1
    <3>3. Waiting = BodyOf(pending) \cup run[nrun].body
      BY <3>2, Zenon DEF Waiting, BodyOf
    <3> QED
      BY <2>1, <3>3
  <2>2. CASE ~PutsBack
    <3>1. {q \in Runs : firstEvent[q] = "cancelling"} = {}
      BY <1>3, <2>2 DEF PutsBack
    <3> QED
      BY <2>2, <3>1 DEF Waiting, BodyOf
  <2> QED
    BY <2>1, <2>2
<1> QED
  BY <1>4, <1>5 DEF Seen

LEMMA WhatIsSeenNext == (TypeInv /\ TurnInv)' => Seen'
BY WhatIsSeen, PTL

\* The step of a state that keeps what the promise sees.
Unseen == UNCHANGED <<arrived, Waiting, Active>>

LEMMA NothingSeen ==
  ASSUME Seen, Seen', UNCHANGED <<arrived, pending>>,
         Works' = Works, PutsBack' = PutsBack,
         Works \/ PutsBack => run'[nrun'].body = run[nrun].body
  PROVE  Unseen
BY DEF Seen, Unseen, BodyOf

\* A dispatch works on its batch.
LEMMA DispatchSeen ==
  ASSUME TypeInv, NEW prepared \in Prepared, NEW caller \in Callers,
         NEW draft \in SUBSET Prepared,
         Dispatch(run, prepared, caller, None, draft), Seen',
         \A q \in Runs : firstEvent[q] = "off" => firstEvent'[q] = "off"
  PROVE  Active' = prepared.body /\ Waiting' = BodyOf(pending')
<1>1. /\ nrun \in Nat /\ nrun + 1 \in Runs /\ nrun' = nrun + 1 /\ gate' = TRUE
      /\ run'[nrun + 1] = [stage |-> "opening", key |-> prepared.key,
                           body |-> prepared.body, gen |-> prepared.gen,
                           thread |-> None, caller |-> caller,
                           parent |-> None, draft |-> draft]
  BY DispatchNew
<1>2. Works' /\ run'[nrun'].body = prepared.body
  BY <1>1 DEF Works, Owns, InFlight
<1>3. ~PutsBack'
  <2>1. firstEvent'[nrun + 1] = "off"
    BY <1>1 DEF TypeInv, RunsBegun
  <2> QED
    BY <1>1, <2>1 DEF PutsBack
<1> QED
  BY <1>2, <1>3 DEF Seen, BodyOf

\* The batch of everything that is buffered.
LEMMA BeginPending ==
  ASSUME TypeInv, TurnInv, MessageInv, Seen, Seen', ~gate, pending # {},
         NEW caller \in Callers,
         Dispatch(run, Merge(pending), caller, None, pending),
         pending' = {}, UNCHANGED <<arrived, firstEvent>>
  PROVE  Promise!Begin
<1>1. pending \in SUBSET Prepared /\ Merge(pending) \in Prepared
  BY MergePrepared DEF TypeInv, TypeOK
<1>2. Merge(pending).body = BodyOf(pending) /\ BodyOf(pending') = {}
  BY MergeBody DEF BodyOf
<1>3. BodyOf(pending) # {}
  BY BodyNonempty DEF MessageInv, BodiesArrived
<1>4. Active' = BodyOf(pending) /\ Waiting' = {}
  BY <1>1, <1>2, DispatchSeen
<1>5. Active = {} /\ Waiting = BodyOf(pending)
  BY DEF Seen, Works, PutsBack
<1> QED
  BY <1>3, <1>4, <1>5 DEF Promise!Begin

LEMMA NextPromise ==
  ASSUME FirstEventOnly
  PROVE  TypeInv /\ TurnInv /\ MessageInv /\ (TypeInv /\ TurnInv)' /\ [Next]_vars
           => Promise!Next \/ Unseen
<1> SUFFICES ASSUME TypeInv, TurnInv, MessageInv, (TypeInv /\ TurnInv)',
                    [Next]_vars
             PROVE  Promise!Next \/ Unseen
  OBVIOUS
<1>0. /\ Seen /\ Seen' /\ Recoverable /\ nrun \in 0..NRun
      /\ arrived \in 0..NMsg /\ session \in 0..NRun
      /\ gate => nrun \in Runs
      /\ run \in [Runs -> RunRecords]
      /\ firstEvent \in [Runs -> {"off", "armed", "typing", "cancelling"}]
      /\ turn \in [Runs -> {"none", "live", "over"}]
  BY WhatIsSeen, WhatIsSeenNext, FirstEventRecoverable
     DEF TypeInv, TypeOK, TurnInv, OneAtATime
<1>1. CASE BufferInbound
  <2>1. /\ arrived < NMsg /\ arrived' = arrived + 1 /\ pending' = pending \cup {Arrived}
        /\ UNCHANGED <<gate, nrun, run, firstEvent, turn, superseded>>
    BY <1>1 DEF BufferInbound, Buffered
  <2>2. Works' = Works /\ PutsBack' = PutsBack
    BY <2>1 DEF Works, Owns, InFlight, Suppressed, PutsBack
  <2>3. BodyOf(pending') = BodyOf(pending) \cup {arrived + 1}
    <3>1. Arrived.body = {arrived + 1}
      BY DEF Arrived
    <3> QED
      BY <2>1, <3>1 DEF BodyOf
  <2>4. Active' = Active /\ Waiting' = Waiting \cup {arrived + 1}
    BY <1>0, <2>1, <2>2, <2>3 DEF Seen, BodyOf
  <2> QED
    BY <2>1, <2>4 DEF Promise!Next, Promise!Arrive
<1>2. CASE RouteInbound
  <2>1. /\ arrived < NMsg /\ arrived' = arrived + 1 /\ ~gate
        /\ Dispatch(run, Arrived, "route", None, {})
        /\ UNCHANGED <<pending, firstEvent>>
    BY <1>2 DEF RouteInbound, Blocked
  <2>2. /\ Arrived \in Prepared /\ Arrived.body = {arrived + 1}
        /\ "route" \in Callers /\ {} \in SUBSET Prepared
    BY <2>1, ArrivedPrepared DEF Arrived, Callers
  <2>3. Active' = {arrived + 1} /\ Waiting' = BodyOf(pending')
    BY <1>0, <2>1, <2>2, DispatchSeen
  <2>4. Active = {} /\ Waiting = BodyOf(pending) /\ BodyOf(pending') = BodyOf(pending)
    BY <1>0, <2>1 DEF Seen, Works, PutsBack, BodyOf
  <2> QED
    BY <2>1, <2>3, <2>4 DEF Promise!Next, Promise!ArriveAndBegin
<1>3. CASE PollFlush
  <2>1. /\ pending # {} /\ pending' = {} /\ ~gate /\ "poll" \in Callers
        /\ Dispatch(run, Merge(pending), "poll", None, pending)
        /\ UNCHANGED <<arrived, firstEvent>>
    BY <1>3 DEF PollFlush, Blocked, Callers
  <2> QED
    BY <1>0, <2>1, BeginPending DEF Promise!Next
<1>4. CASE FreshThread \/ ChainDeliver \/ ChainClose \/ UNCHANGED vars
  <2>1. UNCHANGED <<arrived, pending, gate, nrun, run, firstEvent, turn, superseded>>
    BY <1>4 DEF FreshThread, ChainDeliver, ChainClose, vars, appVars
  <2>2. Works' = Works /\ PutsBack' = PutsBack
    BY <2>1 DEF Works, Owns, InFlight, Suppressed, PutsBack
  <2> QED
    BY <1>0, <2>1, <2>2, NothingSeen
<1>5. CASE ChainRelease
  <2>1. /\ chain.stage = "deliver"
        /\ gate' = (gate /\ run[chain.run].thread \notin gateThread)
        /\ UNCHANGED <<arrived, pending, nrun, run, firstEvent, turn, superseded>>
    BY <1>5 DEF ChainRelease, GateAfterRelease
  <2>2. gate /\ Accepted(nrun)
    BY <2>1 DEF TurnInv, OneAtATime, Dispatching
  <2>3. chain.run = nrun /\ gateThread = {run[nrun].thread} /\ turn[nrun] = "over"
          /\ run[nrun].stage = "accepted" /\ firstEvent[nrun] = "off"
    BY <2>1, <2>2 DEF Accepted
  <2>4. /\ ~Works /\ ~PutsBack
        /\ Works' = Works /\ PutsBack' = PutsBack
    BY <2>1, <2>3 DEF Works, Owns, InFlight, PutsBack
  <2> QED
    BY <1>0, <2>1, <2>4, NothingSeen
<1>6. CASE ChainFlush
  <2>1. /\ "chain" \in Callers
        /\ UNCHANGED <<arrived, firstEvent, turn, superseded>>
        /\ \/ UNCHANGED <<pending, gate, nrun, run>>
           \/ /\ pending # {} /\ pending' = {} /\ ~gate
              /\ Dispatch(run, Merge(pending), "chain", None, pending)
    BY <1>6 DEF ChainFlush, Blocked, Callers
  <2>2. CASE UNCHANGED <<pending, gate, nrun, run>>
    <3>1. Works' = Works /\ PutsBack' = PutsBack
      BY <2>1, <2>2 DEF Works, Owns, InFlight, Suppressed, PutsBack
    <3> QED
      BY <1>0, <2>1, <2>2, <3>1, NothingSeen
  <2>3. CASE /\ pending # {} /\ pending' = {} /\ ~gate
             /\ Dispatch(run, Merge(pending), "chain", None, pending)
    BY <1>0, <2>1, <2>3, BeginPending DEF Promise!Next
  <2> QED
    BY <2>1, <2>2, <2>3
<1>7. ASSUME NEW r \in Runs, OpenThread(r) PROVE Unseen
  <2>1. PICK t \in {r} \cup ({session} \ {None}) :
          run' = [run EXCEPT ![r].stage = "sending", ![r].thread = t]
    BY <1>7 DEF OpenThread
  <2>2. t \in Threads
    BY <1>0, <2>1
  <2>3. run'[r] = [stage |-> "sending", key |-> run[r].key,
                   body |-> run[r].body, gen |-> run[r].gen, thread |-> t,
                   caller |-> run[r].caller, parent |-> run[r].parent,
                   draft |-> run[r].draft]
    BY <2>1, <2>2, OpenShape
  <2>4. /\ InFlight(r)
        /\ UNCHANGED <<arrived, pending, gate, nrun, firstEvent>>
    BY <1>7 DEF OpenThread, InFlight
  <2>5. gate /\ r = nrun
    BY <2>4, LastRun
  <2>6. /\ run'[r].body = run[r].body /\ Works /\ Works'
        /\ PutsBack' = PutsBack
    BY <2>3, <2>4, <2>5 DEF Works, Owns, InFlight, PutsBack
  <2> QED
    BY <1>0, <2>4, <2>5, <2>6, NothingSeen
<1>8. ASSUME NEW r \in Runs, Accept(r) PROVE Unseen
  <2>1. /\ InFlight(r) /\ run[r].stage = "sending"
        /\ Return(r, TRUE, "accepted", pending)
        /\ TRUE \in BOOLEAN /\ "accepted" \in RunStages /\ run[r].parent = None
        /\ firstEvent' = [ClearFirstEvent(run[r].thread) EXCEPT ![r] = "armed"]
        /\ UNCHANGED <<arrived, gate, nrun, turn, superseded>>
    BY <1>8 DEF Accept, InFlight, RunStages, TurnInv, NoRecovery
  <2>2. gate /\ r = nrun /\ Dispatching(r)
    BY <2>1, LastRun DEF InFlight, Accepted
  <2>3. /\ run'[r].stage = "accepted" /\ run'[r].thread = run[r].thread
        /\ run'[r].body = run[r].body
        /\ pending' = Restored(r, TRUE, pending)
    BY <2>1, ReturnAlone
  <2>4. pending' = pending
    BY <2>3 DEF Restored
  <2>5. firstEvent'[r] = "armed" /\ firstEvent[r] = "off"
    BY <2>1, <2>2 DEF ClearFirstEvent, Dispatching
  <2>6. PutsBack' = PutsBack
    BY <2>1, <2>2, <2>5 DEF PutsBack
  <2>7. Works' = Works
    BY <2>1, <2>2, <2>3 DEF Works, Owns, InFlight, Dispatching, Suppressed
  <2> QED
    BY <1>0, <2>1, <2>2, <2>3, <2>4, <2>6, <2>7, NothingSeen
<1>9. ASSUME NEW r \in Runs, DispatchStep(r) PROVE Unseen
  BY <1>0, <1>7, <1>8, <1>9, NoOtherFault, FirstEventRecoverable
     DEF DispatchStep, Reject, TransportFailNoRetry, TransportFailThrow,
         TransportFailRecover
<1>10. ASSUME NEW r \in Runs, FirstEventTimeout(r) \/ FirstEventNotice(r)
       PROVE  Unseen
  <2>1. /\ firstEvent[r] \in {"armed", "typing"}
        /\ \/ firstEvent' = [firstEvent EXCEPT ![r] = "typing"]
           \/ firstEvent' = [firstEvent EXCEPT ![r] = "off"]
        /\ UNCHANGED <<arrived, pending, gate, nrun, run, turn, superseded>>
    BY <1>10 DEF FirstEventTimeout, FirstEventNotice
  <2>2. gate /\ r = nrun
    BY <2>1, LastRun
  <2>3. Works' = Works /\ PutsBack' = PutsBack
    BY <1>0, <2>1, <2>2 DEF Works, Owns, InFlight, Suppressed, PutsBack
  <2> QED
    BY <1>0, <2>1, <2>3, NothingSeen
<1>11. ASSUME NEW r \in Runs, FirstEventSupersede(r) PROVE Promise!Recover
  <2>1. /\ firstEvent[r] = "typing"
        /\ firstEvent' = [firstEvent EXCEPT ![r] = "cancelling"]
        /\ superseded' = superseded \cup {run[r].thread}
        /\ UNCHANGED <<arrived, pending, gate, nrun, run, turn>>
    BY <1>11 DEF FirstEventSupersede
  <2>2. gate /\ r = nrun /\ Accepted(r)
    BY <2>1, LastRun DEF Dispatching
  <2>3. /\ run[r].stage = "accepted" /\ turn[r] # "over"
        /\ ~Suppressed(run[r].thread)
    BY <2>1, <2>2 DEF Accepted
  <2>4. Works /\ ~PutsBack
    BY <2>1, <2>2, <2>3 DEF Works, Owns, PutsBack
  <2>5. ~Works' /\ PutsBack'
    BY <1>0, <2>1, <2>2, <2>3 DEF Works, Owns, InFlight, Suppressed, PutsBack
  <2>6. run[r].body # {}
    BY <2>3 DEF MessageInv, BodiesArrived
  <2>7. /\ Active = run[r].body /\ Waiting = BodyOf(pending)
        /\ Active' = {} /\ Waiting' = BodyOf(pending) \cup run[r].body
    BY <1>0, <2>1, <2>2, <2>4, <2>5 DEF Seen, BodyOf
  <2> QED
    BY <2>1, <2>6, <2>7 DEF Promise!Recover
<1>12. ASSUME NEW r \in Runs, FirstEventRequeue(r) PROVE Promise!Begin
  <2> DEFINE draft == Buffered([PreparedOf(r) EXCEPT !.gen = 1])
  <2>1. /\ firstEvent[r] = "cancelling"
        /\ firstEvent' = [firstEvent EXCEPT ![r] = "off"]
        /\ arrived' = arrived
        /\ \/ ThreadRunning(session)
           \/ pending' = {} /\ Dispatch(run, Merge(draft), "timer", None, draft)
    BY <1>12 DEF FirstEventRequeue
  <2>2. run[r].key \in Messages
    <3>1. firstEvent[r] = "cancelling"
      BY <1>12 DEF FirstEventRequeue
    <3> QED
      BY <3>1 DEF TypeInv, TypeOK, RunsBegun
  <2>3. draft \in SUBSET Prepared /\ Merge(draft) \in Prepared
    BY <2>2, RetryDraft
  <2>4. BodyOf(draft) = BodyOf(pending) \cup run[r].body
    BY RetryBody
  <2> HIDE DEF draft
  <2>5. gate /\ r = nrun /\ Accepted(r)
    BY <2>1, LastRun DEF Dispatching
  <2>6. Suppressed(run[r].thread) /\ run[r].stage = "accepted"
    BY <2>1, <2>5 DEF Accepted
  <2>7. ~ThreadRunning(session)
    BY <1>0, <2>5, <2>6 DEF ThreadRunning, TurnInv, RunningHasGate, Suppressed
  <2>8. pending' = {} /\ Dispatch(run, Merge(draft), "timer", None, draft)
    BY <2>1, <2>7
  <2>9. Merge(draft).body = BodyOf(draft) /\ "timer" \in Callers
    BY MergeBody DEF Callers
  <2>10. Active' = BodyOf(draft) /\ Waiting' = BodyOf(pending')
    <3>1. \A q \in Runs : firstEvent[q] = "off" => firstEvent'[q] = "off"
      BY <1>0, <2>1
    <3> QED
      BY <1>0, <2>3, <2>8, <2>9, <3>1, DispatchSeen
  <2>11. BodyOf(pending') = {}
    BY <2>8 DEF BodyOf
  <2>12. Active = {} /\ Waiting = BodyOf(pending) \cup run[r].body
    <3>1. ~Works /\ PutsBack
      BY <2>1, <2>5, <2>6 DEF Works, Owns, InFlight, PutsBack
    <3> QED
      BY <1>0, <2>5, <3>1 DEF Seen
  <2>13. run[r].body # {}
    BY <2>6 DEF MessageInv, BodiesArrived
  <2> QED
    BY <2>1, <2>4, <2>10, <2>11, <2>12, <2>13 DEF Promise!Begin
<1>13. ASSUME NEW r \in Runs, TimerStep(r) PROVE Promise!Next \/ Unseen
  <2>1. ~StallTimeout(r) /\ ~StallRelease(r)
    BY <1>0, NoOtherFault DEF StallTimeout, StallRelease, TurnInv, NoRecovery
  <2> QED
    BY <1>10, <1>11, <1>12, <1>13, <2>1 DEF TimerStep, Promise!Next
<1>14. ASSUME NEW r \in Runs, TurnStarted(r) PROVE Unseen
  <2>1. /\ turn[r] = "none" /\ turn' = [turn EXCEPT ![r] = "live"]
        /\ UNCHANGED <<arrived, pending, gate, nrun, run, superseded, firstEvent>>
    BY <1>14 DEF TurnStarted
  <2>2. \A q \in Runs : turn'[q] = "over" <=> turn[q] = "over"
    BY <1>0, <2>1
  <2>3. Works' = Works /\ PutsBack' = PutsBack
    BY <1>0, <2>1, <2>2 DEF Works, Owns, InFlight, Suppressed, PutsBack
  <2> QED
    BY <1>0, <2>1, <2>3, NothingSeen
<1>15. ASSUME NEW r \in Runs, TurnOutput(r) PROVE Unseen
  <2>1. /\ firstEvent' = ClearFirstEvent(run[r].thread)
        /\ UNCHANGED <<arrived, pending, gate, nrun, run, superseded, turn>>
    BY <1>15 DEF TurnOutput
  <2>2. \A q \in Runs : firstEvent'[q] = "cancelling" <=> firstEvent[q] = "cancelling"
    BY <2>1 DEF ClearFirstEvent
  <2>3. Works' = Works /\ PutsBack' = PutsBack
    BY <1>0, <2>1, <2>2 DEF Works, Owns, InFlight, Suppressed, PutsBack
  <2> QED
    BY <1>0, <2>1, <2>3, NothingSeen
<1>16. ASSUME NEW r \in Runs, TurnEnded(r) PROVE Promise!Next \/ Unseen
  <2>1. /\ turn[r] = "live" /\ run[r].stage # "sending"
        /\ turn' = [turn EXCEPT ![r] = "over"]
        /\ UNCHANGED <<arrived, pending, gate, nrun, run, superseded>>
        /\ firstEvent' = firstEvent \/ firstEvent' = ClearFirstEvent(run[r].thread)
    BY <1>16 DEF TurnEnded
  <2>2. \A q \in Runs : firstEvent'[q] = "cancelling" <=> firstEvent[q] = "cancelling"
    BY <2>1 DEF ClearFirstEvent
  <2>3. PutsBack' = PutsBack
    BY <1>0, <2>1, <2>2 DEF PutsBack
  <2>4. turn'[r] = "over" /\ \A q \in Runs : q # r => turn'[q] = turn[q]
    BY <1>0, <2>1
  <2>5. CASE r = nrun /\ Works
    <3>1. Accepted(r)
      BY <1>0, <2>1, <2>5 DEF TurnInv, OneAtATime, Dispatching, Works
    <3>2. run[r].stage = "accepted" /\ ~Suppressed(run[r].thread)
            /\ firstEvent[r] # "cancelling"
      BY <2>1, <2>5, <3>1 DEF Accepted, Works, Owns, InFlight
    <3>3. ~Works' /\ ~PutsBack
      BY <2>1, <2>4, <2>5, <3>2 DEF Works, Owns, InFlight, PutsBack
    <3>4. run[r].body # {}
      BY <3>2 DEF MessageInv, BodiesArrived
    <3>5. Active = run[r].body /\ Active' = {} /\ Waiting' = Waiting
      BY <1>0, <2>1, <2>3, <2>5, <3>3 DEF Seen, BodyOf
    <3> QED
      BY <2>1, <3>4, <3>5 DEF Promise!Next, Promise!Finish
  <2>6. CASE ~(r = nrun /\ Works)
    <3>1. Works' = Works
      BY <1>0, <2>1, <2>4, <2>6 DEF Works, Owns, InFlight, Suppressed
    <3> QED
      BY <1>0, <2>1, <2>3, <3>1, NothingSeen
  <2> QED
    BY <2>5, <2>6
<1>17. ASSUME NEW r \in Runs, RuntimeStep(r) PROVE Promise!Next \/ Unseen
  BY <1>14, <1>15, <1>16, <1>17 DEF RuntimeStep
<1> QED
  BY <1>1, <1>2, <1>3, <1>4, <1>5, <1>6, <1>9, <1>13, <1>17 DEF Next, ChainStep

\* While turns fail in no other way than that their first event does not come,
\* the gate, the buffer, the event chain and the watchdogs together implement
\* ConversationTurns: one batch at a time, taken whole, nothing dropped.
THEOREM PromiseKept ==
  ASSUME FirstEventOnly
  PROVE  Spec => KeepsPromise
<1>1. Init => Promise!Init
  <2> SUFFICES ASSUME Init PROVE Promise!Init
    OBVIOUS
  <2>1. TypeInv /\ TurnInv
    BY InitTypeInv, InitTurnMessageInv
  <2>2. Seen /\ arrived = 0 /\ gate = FALSE /\ pending = {}
    BY <2>1, WhatIsSeen DEF Init
  <2> QED
    BY <2>2 DEF Promise!Init, Seen, Works, PutsBack, BodyOf
<1>2. TypeInv /\ TurnInv /\ MessageInv /\ (TypeInv /\ TurnInv)' /\ [Next]_vars
        => [Promise!Next]_(Promise!vars)
  BY NextPromise DEF Unseen, Promise!vars
<1>3. Recoverable
  BY FirstEventRecoverable
<1>4. Spec => [](TypeInv /\ TurnInv /\ MessageInv)
  BY <1>3, TurnMessageInv
<1> QED
  BY <1>1, <1>2, <1>4, PTL DEF Spec, KeepsPromise, Promise!Spec
=============================================================================
