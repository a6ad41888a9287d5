--------------------------- MODULE IncomingProofs ---------------------------
(***************************************************************************)
(* Theorems about the two ways in.                                         *)
(*                                                                         *)
(* SystemTurns, for every number of reminders, check-ins, foreground turns *)
(* and faults, and every threshold of the circuit: its types, that a system*)
(* message is in exactly one place (MessageOnce), and that the gate and the*)
(* boundary of a scope do not outlive their reason (ScopeAccounted).  One  *)
(* inductive invariant carries all three: the places an item can be in are *)
(* pairwise apart and an item that has come to be is in one of them        *)
(* (Apart), what the event chain handles has run (EndsBegun), and the      *)
(* chain's own flush works only while an end is handled (ChainAlone).      *)
(*                                                                         *)
(* InboundIntake, for every number of messages, attachments, flushes and   *)
(* faults and every capacity of a batch: that the batching of attachments  *)
(* loses nothing, sends nothing twice, and keeps a text and an attachment  *)
(* of one poll together (BatchKept).  Its inductive invariant speaks of the*)
(* groups of prepared messages, the draft, what each flush holds and what  *)
(* was routed: a message is whole in them (Carried), once it was claimed   *)
(* (OnceClaimed), and two that belong together are in one of them or still *)
(* awaited by the poll that brought them (Coupled).                        *)
(***************************************************************************)
EXTENDS SystemTurns, Incoming, WellFoundedInduction, FiniteSetTheorems, SequenceTheorems, TLAPS

USE SystemAssumption DEF None, Flushes, Main, Chain

\* The types of the records of the model.
Ends == [item : Items \union {User}, ok : BOOLEAN, scope : {"none"}, at : {"idle"}]
Handlings ==
  [item : Items \union {None, User}, ok : BOOLEAN,
   scope : {"none", "user", "system"}, at : {"idle", "settling", "flush", "flushing"}]
Steps == {Idle} \union [item : Items, at : {"memory", "opening", "sending"}]
Circuits == [count : 0..Threshold, recent : BOOLEAN, open : BOOLEAN]

\* The type invariant.
TypeOK ==
  /\ stored \in SUBSET Reminders /\ due \in SUBSET stored
  /\ created \in Seq(Items) /\ queue \in SUBSET Items
  /\ hold \in [Flushes -> SUBSET Items] /\ step \in [Flushes -> Steps]
  /\ gate \in BOOLEAN /\ attached \in SUBSET Items /\ link \in Items \union {None}
  /\ run \in [Items -> Runs]
  /\ user \in {"idle", "busy", "ending"} /\ nuser \in 0..MaxUser
  /\ boundary \in SUBSET {"user", "system"}
  /\ events \in Seq(Ends) /\ chain \in Handlings
  /\ circuit \in Circuits /\ faults \in 0..MaxFaults

\* The message file or a flush has it.
Found(i) == i \in queue \/ Held(i)

\* An item is not in two places; what was queued is in one, and nothing is queued or
\* held that was not queued once.
Apart(i) ==
  /\ i \in stored => ~Found(i) /\ run[i] = "none" /\ i \notin ToSet(created)
  /\ Found(i) => run[i] = "none" /\ i \in ToSet(created)
  /\ i \in queue => ~Held(i)
  /\ i \in hold[Main] => i \notin hold[Chain] /\ step[Main].item # i /\ step[Chain].item # i
  /\ i \in hold[Chain] => step[Main].item # i /\ step[Chain].item # i
  /\ step[Main].item = i => step[Chain].item # i
  /\ i \in ToSet(created) => Found(i) \/ run[i] # "none"

\* The ends of turns, waiting or being handled, are ends of turns that were accepted.
EndsBegun ==
  /\ \A n \in DOMAIN events : events[n].item # User => run[events[n].item] # "none"
  /\ chain.at # "idle" => chain.item # None /\ (chain.item # User => run[chain.item] # "none")

\* The flush of the event chain holds nothing but between the end of a turn and the
\* rest of its handling, and a boundary is that of the end being handled.
ChainAlone ==
  /\ chain.at # "flushing" => hold[Chain] = {} /\ step[Chain] = Idle
  /\ boundary \subseteq {chain.scope} \ {"none"}
  /\ boundary # {} => chain.at \in {"flush", "flushing"}

\* The inductive invariant.
IInv == TypeOK /\ (\A i \in Items : Apart(i)) /\ EndsBegun /\ ChainAlone /\ ScopeAccounted

-----------------------------------------------------------------------------
\* Items and sequences.

\* Items are positive numbers, the foreground turn is none of them, and sets of
\* reminders are finite.
LEMMA ReminderItems ==
  /\ Reminders \subseteq Items /\ Checkins \subseteq Items
  /\ Items \subseteq Nat \ {0} /\ User \notin Items /\ User # None
  /\ \A S \in SUBSET Reminders : IsFiniteSet(S) /\ Cardinality(S) \in Nat
<1>1. IsFiniteSet(Reminders)
  BY FS_Interval DEF Reminders
<1>2. \A S \in SUBSET Reminders : IsFiniteSet(S) /\ Cardinality(S) \in Nat
  BY <1>1, FS_Subset, FS_CardinalityType
<1> QED
  BY <1>2 DEF Items, Reminders, Checkins, User

\* A set of reminders put in some order has all of them.
LEMMA OrderedAll ==
  ASSUME NEW S \in SUBSET Reminders, NEW s \in SetToSeqs(S)
  PROVE  s \in Seq(S) /\ ToSet(s) = S
<1> DEFINE n == Cardinality(S)
<1>1. IsFiniteSet(S) /\ n \in Nat
  BY ReminderItems
<1>2. s \in [1..n -> S] /\ \A m, l \in 1..n : m # l => s[m] # s[l]
  BY DEF SetToSeqs
<1>3. s \in Injection(1..n, S)
  BY <1>2 DEF Injection, IsInjective
<1>4. IsFiniteSet(1..n) /\ Cardinality(1..n) = n
  BY <1>1, FS_Interval
<1>5. s \in Surjection(1..n, S)
  BY <1>1, <1>3, <1>4, FS_Injection
<1>6. ToSet(s) = S
  BY <1>2, <1>5 DEF Surjection, ToSet
<1>7. s \in Seq(S)
  BY <1>1, <1>2
<1> QED
  BY <1>6, <1>7

\* The members of a sequence with one more element, and of two in a row.
LEMMA ToSetAppend ==
  ASSUME NEW T, NEW s \in Seq(T), NEW x \in T
  PROVE  ToSet(Append(s, x)) = ToSet(s) \union {x}
<1> DEFINE L == Len(s)
           a == Append(s, x)
<1>1. L \in Nat /\ DOMAIN s = 1..L /\ DOMAIN a = 1..(L + 1)
  OBVIOUS
<1>2. a[L + 1] = x /\ \A n \in 1..L : a[n] = s[n]
  OBVIOUS
<1> HIDE DEF L, a
<1>3. {a[n] : n \in 1..(L + 1)} = {s[n] : n \in 1..L} \union {x}
  <2>1. 1..(L + 1) = (1..L) \union {L + 1}
    BY <1>1
  <2> QED
    BY <1>2, <2>1
<1>4. ToSet(a) = {a[n] : n \in 1..(L + 1)}
  BY <1>1 DEF ToSet
<1>5. ToSet(s) = {s[n] : n \in 1..L}
  BY <1>1 DEF ToSet
<1> QED
  BY <1>3, <1>4, <1>5 DEF a

LEMMA ToSetConcat ==
  ASSUME NEW T, NEW s \in Seq(T), NEW u \in Seq(T)
  PROVE  s \o u \in Seq(T) /\ ToSet(s \o u) = ToSet(s) \union ToSet(u)
<1>1. s \o u \in Seq(T) /\ Len(s \o u) = Len(s) + Len(u)
  OBVIOUS
<1>2. \A n \in 1..Len(s) : (s \o u)[n] = s[n]
  OBVIOUS
<1>3. \A n \in 1..Len(u) : (s \o u)[Len(s) + n] = u[n]
  OBVIOUS
<1>4. \A n \in 1..(Len(s) + Len(u)) :
         n \in 1..Len(s) \/ \E m \in 1..Len(u) : n = Len(s) + m
  <2> SUFFICES ASSUME NEW n \in 1..(Len(s) + Len(u)), n \notin 1..Len(s)
               PROVE  \E m \in 1..Len(u) : n = Len(s) + m
    OBVIOUS
  <2>1. n - Len(s) \in 1..Len(u) /\ n = Len(s) + (n - Len(s))
    OBVIOUS
  <2> QED
    BY <2>1
<1>5. ToSet(s \o u) \subseteq ToSet(s) \union ToSet(u)
  BY <1>1, <1>2, <1>3, <1>4 DEF ToSet
<1>6. \A n \in 1..Len(u) : Len(s) + n \in 1..(Len(s) + Len(u))
  OBVIOUS
<1>7. ToSet(s) \union ToSet(u) \subseteq ToSet(s \o u)
  <2>1. DOMAIN (s \o u) = 1..(Len(s) + Len(u)) /\ DOMAIN s = 1..Len(s) /\ DOMAIN u = 1..Len(u)
    BY <1>1
  <2>2. \A n \in DOMAIN s : n \in DOMAIN (s \o u)
    BY <2>1
  <2>3. \A n \in DOMAIN u : Len(s) + n \in DOMAIN (s \o u)
    BY <1>6, <2>1
  <2> QED
    BY <1>2, <1>3, <2>1, <2>2, <2>3, Zenon DEF ToSet
<1> QED
  BY <1>1, <1>5, <1>7

-----------------------------------------------------------------------------
\* Types.

LEMMA TypeInit == Init => TypeOK
<1>1. Idle \in Steps /\ NoEvent \in Handlings /\ Closed \in Circuits
  BY DEF Steps, Handlings, Closed, Circuits, NoEvent
<1>2. ASSUME Init PROVE /\ hold \in [Flushes -> SUBSET Items] /\ step \in [Flushes -> Steps]
                        /\ run \in [Items -> Runs]
  BY <1>1, <1>2 DEF Init, Runs
<1>3. ASSUME Init PROVE created \in Seq(Items) /\ events \in Seq(Ends)
  BY <1>3 DEF Init
<1>4. ASSUME Init PROVE TypeOK
  <2>1. queue = {} /\ stored = {} /\ due = {} /\ attached = {} /\ boundary = {} /\ link = 0
          /\ gate = FALSE /\ user = "idle" /\ nuser = 0 /\ faults = 0
          /\ chain \in Handlings /\ circuit \in Circuits
    BY <1>1, <1>4 DEF Init
  <2>2. 0 \in 0..MaxUser /\ 0 \in 0..MaxFaults
    OBVIOUS
  <2> QED
    BY <1>2, <1>3, <1>4, <2>1, <2>2 DEF TypeOK
<1> QED
  BY <1>4

\* The steps of a flush, what comes into the files, the turns and the event chain keep
\* the types.
LEMMA FlushTypes ==
  ASSUME TypeOK, NEW k \in Flushes, FlushStep(k) \/ Refuse(k)
  PROVE  TypeOK'
<1> USE DEF TypeOK
<1>1. Idle \in Steps /\ \A i \in Items : \A a \in {"memory", "opening", "sending"} :
        [item |-> i, at |-> a] \in Steps
  BY DEF Steps
<1>2. ASSUME NEW i \in Items, DropCheckin(k, i) PROVE TypeOK'
  <2>1. hold' \in [Flushes -> SUBSET Items] /\ run' \in [Items -> Runs]
    BY <1>2 DEF DropCheckin, Runs
  <2> QED
    BY <1>2, <2>1 DEF DropCheckin, file, fore
<1>3. \A i \in Items : WaitForUser(k, i) => TypeOK'
  BY DEF WaitForUser, Requeued, turns, fore
<1>4. \A i \in Items : WaitForSystem(k, i) => TypeOK'
  BY DEF WaitForSystem, Requeued, fore
<1>5. ASSUME NEW i \in Items, BeginDispatch(k, i) PROVE TypeOK'
  <2>1. hold' \in [Flushes -> SUBSET Items] /\ step' \in [Flushes -> Steps]
    BY <1>1, <1>5 DEF BeginDispatch
  <2> QED
    BY <1>5, <2>1 DEF BeginDispatch, file, fore
<1>6. step[k].at # "idle" => step[k].item \in Items /\ step[k] = [item |-> step[k].item, at |-> step[k].at]
  BY DEF Steps, Idle
<1>7. TakeGate(k) => TypeOK'
  <2> SUFFICES ASSUME TakeGate(k) PROVE TypeOK'
    OBVIOUS
  <2>1. [step[k] EXCEPT !.at = "opening"] \in Steps
    BY <1>1, <1>6 DEF TakeGate, Steps
  <2> QED
    BY <2>1 DEF TakeGate, file, fore
<1>8. OpenThread(k) => TypeOK'
  <2> SUFFICES ASSUME OpenThread(k) PROVE TypeOK'
    OBVIOUS
  <2>1. [step[k] EXCEPT !.at = "sending"] \in Steps
    BY <1>1, <1>6 DEF OpenThread, Steps
  <2> QED
    BY <2>1, <1>6 DEF OpenThread, file, fore
<1>9. Accept(k) => TypeOK'
  BY <1>1, <1>6 DEF Accept, file, fore, Runs, Live
<1>10. Refuse(k) => TypeOK'
  <2> SUFFICES ASSUME Refuse(k) PROVE TypeOK'
    OBVIOUS
  <2>1. step' \in [Flushes -> Steps] /\ queue' \in SUBSET Items
    BY <1>1, <1>6 DEF Refuse, Requeued
  <2>2. faults' \in 0..MaxFaults
    BY DEF Refuse, Fault
  <2> QED
    BY <2>1, <2>2 DEF Refuse, GateAfterRefusal, fore
<1> QED
  BY <1>2, <1>3, <1>4, <1>5, <1>7, <1>8, <1>9, <1>10 DEF FlushStep

LEMMA QueueTypes ==
  ASSUME TypeOK,
         \/ CreateReminder \/ QueueCheckin \/ FlushMain
         \/ \E i \in Items : CancelReminder(i) \/ ComesDue(i) \/ Expire(i)
  PROVE  TypeOK'
<1> USE ReminderItems DEF TypeOK
<1>1. CreateReminder => TypeOK'
  BY DEF CreateReminder, flush, turns, fore
<1>2. QueueCheckin => TypeOK'
  BY DEF QueueCheckin, flush, turns, fore
<1>3. FlushMain => TypeOK'
  <2> SUFFICES ASSUME FlushMain PROVE TypeOK'
    OBVIOUS
  <2>1. PICK unsaved \in SUBSET due :
          /\ IF unsaved = {} THEN UNCHANGED faults ELSE Fault
          /\ stored' = Kept(unsaved) /\ due' = {} /\ queue' = Drained
          /\ \E s \in SetToSeqs(due \ unsaved) : created' = created \o s
          /\ hold' = [hold EXCEPT ![Main] = queue \union (due \ unsaved)]
    BY DEF FlushMain
  <2>2. PICK s \in SetToSeqs(due \ unsaved) : created' = created \o s
    BY <2>1
  <2>4. s \in Seq(due \ unsaved)
    BY OrderedAll
  <2>3. created' \in Seq(Items)
    <3>1. \A x \in due \ unsaved : x \in Items
      OBVIOUS
    <3>2. s \in Seq(Items)
      <4>1. s \in [1..Len(s) -> due \ unsaved] /\ Len(s) \in Nat
        BY <2>4
      <4>2. s \in [1..Len(s) -> Items]
        BY <3>1, <4>1
      <4> QED
        BY <4>1, <4>2
    <3> QED
      BY <2>2, <3>2, ToSetConcat
  <2>5. hold' \in [Flushes -> SUBSET Items]
    BY <2>1
  <2>6. stored' \in SUBSET Reminders /\ queue' = {}
    BY <2>1 DEF Kept, Drained
  <2>7. faults' \in 0..MaxFaults
    <3>1. UNCHANGED faults \/ Fault
      BY <2>1
    <3> QED
      BY <3>1 DEF Fault
  <2> QED
    BY <2>1, <2>3, <2>5, <2>6, <2>7 DEF FlushMain, turns, fore
<1>4. ASSUME NEW i \in Items PROVE CancelReminder(i) \/ ComesDue(i) \/ Expire(i) => TypeOK'
  BY DEF CancelReminder, ComesDue, Expire, flush, turns, fore, Runs
<1> QED
  BY <1>1, <1>2, <1>3, <1>4

LEMMA TurnTypes ==
  ASSUME TypeOK,
         \/ UserBegins \/ CircuitAges \/ Crash
         \/ \E i \in Items : FirstEvent(i) \/ SilentRecovery(i) \/ VisibleTimeout(i) \/ Stall(i)
         \/ \E i \in Items, ok \in BOOLEAN : TurnEnds(i, ok)
         \/ \E ok \in BOOLEAN : UserEnds(ok)
  PROVE  TypeOK'
<1> USE DEF TypeOK, file, flush, turns, fore, Runs, Live
<1>1. UserBegins => TypeOK'
  BY DEF UserBegins
<1>2. CircuitAges => TypeOK'
  BY DEF CircuitAges, Circuits
<1>3. Crash => TypeOK'
  <2>1. Idle \in Steps /\ NoEvent \in Handlings
    BY DEF Steps, Handlings, NoEvent
  <2>2. ASSUME Crash
        PROVE  /\ hold' \in [Flushes -> SUBSET Items] /\ step' \in [Flushes -> Steps]
               /\ run' \in [Items -> Runs]
    BY <2>1, <2>2 DEF Crash
  <2>3. ASSUME Crash PROVE faults' \in 0..MaxFaults /\ events' \in Seq(Ends)
    BY <2>3 DEF Crash, Fault
  <2>4. ASSUME Crash PROVE TypeOK'
    BY <2>1, <2>2, <2>3, <2>4 DEF Crash
  <2> QED
    BY <2>4
<1>4. ASSUME NEW i \in Items PROVE FirstEvent(i) \/ VisibleTimeout(i) \/ Stall(i) => TypeOK'
  BY DEF FirstEvent, VisibleTimeout, Stall, Released
<1>5. ASSUME NEW i \in Items PROVE SilentRecovery(i) => TypeOK'
  <2>1. Failed(circuit) \in Circuits
    BY DEF Failed, Circuits, Min2
  <2> QED
    BY <2>1 DEF SilentRecovery, Released
<1>6. \A i \in Items \union {User}, ok \in BOOLEAN : [NoEvent EXCEPT !.item = i, !.ok = ok] \in Ends
  BY DEF NoEvent, Ends
<1>7. ASSUME NEW i \in Items, NEW ok \in BOOLEAN PROVE TurnEnds(i, ok) => TypeOK'
  <2> SUFFICES ASSUME TurnEnds(i, ok) PROVE TypeOK'
    OBVIOUS
  <2> DEFINE e == [NoEvent EXCEPT !.item = i, !.ok = ok]
  <2>2. e \in Ends /\ events' = Append(events, e)
    BY <1>6 DEF TurnEnds
  <2>1. events' \in Seq(Ends)
    BY <2>2
  <2> QED
    BY <2>1 DEF TurnEnds
<1>8. ASSUME NEW ok \in BOOLEAN PROVE UserEnds(ok) => TypeOK'
  <2> SUFFICES ASSUME UserEnds(ok) PROVE TypeOK'
    OBVIOUS
  <2> DEFINE e == [NoEvent EXCEPT !.item = User, !.ok = ok]
  <2>2. e \in Ends /\ events' = Append(events, e)
    BY <1>6 DEF UserEnds
  <2>1. events' \in Seq(Ends)
    BY <2>2
  <2> QED
    BY <2>1 DEF UserEnds
<1> QED
  BY <1>1, <1>2, <1>3, <1>4, <1>5, <1>7, <1>8

LEMMA ChainTypes ==
  ASSUME TypeOK, ChainStep
  PROVE  TypeOK'
<1> USE DEF TypeOK, file, flush, turns, fore, Runs, Live
<1>1. HandleEnd => TypeOK'
  <2> SUFFICES ASSUME HandleEnd PROVE TypeOK'
    OBVIOUS
  <2>1. Head(events) \in Ends /\ events' \in Seq(Ends)
    BY DEF HandleEnd
  <2>2. chain' \in Handlings
    BY <2>1 DEF HandleEnd, Ends, Handlings
  <2> QED
    BY <2>1, <2>2 DEF HandleEnd
<1>2. ReleaseEnded => TypeOK'
  <2> SUFFICES ASSUME ReleaseEnded PROVE TypeOK'
    OBVIOUS
  <2>1. chain' \in Handlings /\ boundary' \in SUBSET {"user", "system"}
    BY DEF ReleaseEnded, Handlings
  <2> QED
    BY <2>1 DEF ReleaseEnded, Released
<1>3. FlushChain => TypeOK'
  <2> SUFFICES ASSUME FlushChain PROVE TypeOK'
    OBVIOUS
  <2>1. chain' \in Handlings /\ hold' \in [Flushes -> SUBSET Items]
    BY DEF FlushChain, Handlings
  <2> QED
    BY <2>1 DEF FlushChain, Drained
<1>4. CloseHandling => TypeOK'
  <2> SUFFICES ASSUME CloseHandling PROVE TypeOK'
    OBVIOUS
  <2>1. chain' \in Handlings
    BY DEF CloseHandling, Handlings, NoEvent
  <2>2. circuit' \in Circuits
    <3>0. 0 \in 0..Threshold
      OBVIOUS
    <3>1. [circuit EXCEPT !.count = 0, !.open = FALSE] \in Circuits
      BY <3>0, Zenon DEF Circuits
    <3> QED
      BY <3>1 DEF CloseHandling, Circuits
  <2> QED
    BY <2>1, <2>2 DEF CloseHandling
<1> QED
  BY <1>1, <1>2, <1>3, <1>4 DEF ChainStep

LEMMA TypeStep == TypeOK /\ [Next]_vars => TypeOK'
<1> SUFFICES ASSUME TypeOK, [Next]_vars PROVE TypeOK'
  OBVIOUS
<1>1. CASE UNCHANGED vars
  BY <1>1 DEF vars, TypeOK, file, flush, turns, fore
<1>2. CASE Next
  BY <1>2, FlushTypes, QueueTypes, TurnTypes, ChainTypes DEF Next
<1> QED
  BY <1>1, <1>2

-----------------------------------------------------------------------------
\* Places.

AllApart == \A i \in Items : Apart(i)

\* Every nonempty set of natural numbers has a least member.
LEMMA LeastNat ==
  ASSUME NEW T \in SUBSET Nat, T # {}
  PROVE  \E x \in T : \A y \in T : x <= y
<1> DEFINE R == {ss \in Nat \X Nat : ss[1] < ss[2]}
<1>1. IsWellFoundedOn(R, Nat)
  BY NatLessThanWellFounded DEF OpToRel
<1>2. \A x, y \in Nat : y < x => <<y, x>> \in R
  OBVIOUS
<1> HIDE DEF R
<1>3. PICK x \in T : \A y \in T : ~(<<y, x>> \in R)
  BY <1>1, WFMin
<1>4. ASSUME NEW y \in T PROVE x <= y
  <2>1. x \in Nat /\ y \in Nat /\ ~(y < x)
    BY <1>2, <1>3
  <2> QED
    BY <2>1
<1> QED
  BY <1>4

\* The message that a flush takes next is one that it holds.
LEMMA NextHeld ==
  ASSUME TypeOK, AllApart, NEW k \in Flushes, hold[k] # {}
  PROVE  NextOf(k) \in hold[k]
<1> DEFINE Ranks == {n \in DOMAIN created : created[n] \in hold[k]}
<1>1. hold[k] \subseteq Items /\ DOMAIN created \subseteq Nat
  BY DEF TypeOK
<1>2. \A i \in hold[k] : \E n \in DOMAIN created : created[n] = i
  BY <1>1 DEF AllApart, Apart, Found, Held, ToSet
<1>3. Ranks \in SUBSET Nat /\ Ranks # {}
  BY <1>1, <1>2
<1>4. PICK m \in Ranks : \A n \in Ranks : m <= n
  BY <1>3, LeastNat
<1>5. ASSUME NEW j \in hold[k] \ {created[m]}
      PROVE  \E l, n \in DOMAIN created : l < n /\ created[l] = created[m] /\ created[n] = j
  <2>1. PICK n \in DOMAIN created : created[n] = j
    BY <1>2
  <2>2. n \in Ranks /\ n # m
    BY <1>5, <2>1
  <2>3. m < n
    BY <1>3, <1>4, <2>2
  <2> QED
    BY <1>4, <2>1, <2>3
<1> HIDE DEF Ranks
<1>6. created[m] \in hold[k]
  BY <1>4 DEF Ranks
<1> QED
  BY <1>5, <1>6 DEF NextOf

\* A dispatch moves a message from the flush that holds it to its step, back to the
\* file, or to its turn.
LEMMA FlushPlaces ==
  ASSUME TypeOK, AllApart, NEW k \in Flushes, FlushStep(k) \/ Refuse(k)
  PROVE  AllApart'
<1> USE DEF AllApart, Apart, Found, Held
<1>1. /\ hold \in [Flushes -> SUBSET Items] /\ step \in [Flushes -> Steps] /\ run \in [Items -> Runs]
      /\ queue \in SUBSET Items
  BY DEF TypeOK
<1>2. ASSUME NEW i \in Items, Ready(k, i) PROVE step[k] = Idle /\ i \in hold[k] /\ Idle.item = None /\ None \notin Items
  BY <1>2, NextHeld, ReminderItems DEF Ready, Idle
<1>3. ASSUME NEW i \in Items, DropCheckin(k, i) PROVE AllApart'
  BY <1>1, <1>2, <1>3 DEF DropCheckin, file
<1>4. ASSUME NEW i \in Items, WaitForUser(k, i) PROVE AllApart'
  BY <1>1, <1>2, <1>4 DEF WaitForUser, Requeued, turns
<1>5. ASSUME NEW i \in Items, WaitForSystem(k, i) PROVE AllApart'
  BY <1>1, <1>2, <1>5 DEF WaitForSystem, Requeued
<1>6. ASSUME NEW i \in Items, BeginDispatch(k, i) PROVE AllApart'
  BY <1>1, <1>2, <1>6 DEF BeginDispatch, file
<1>7. ASSUME TakeGate(k) \/ OpenThread(k) PROVE AllApart'
  <2>1. \A r \in Steps, a \in {"opening", "sending"} : [r EXCEPT !.at = a].item = r.item
    BY DEF Steps, Idle
  <2>2. \A l \in Flushes : step'[l].item = step[l].item
    <3>1. \E a \in {"opening", "sending"} : step' = [step EXCEPT ![k].at = a]
      BY <1>7 DEF TakeGate, OpenThread
    <3>2. PICK a \in {"opening", "sending"} : step' = [step EXCEPT ![k].at = a]
      BY <3>1
    <3>3. step'[k] = [step[k] EXCEPT !.at = a] /\ \A l \in Flushes \ {k} : step'[l] = step[l]
      BY <1>1, <3>2
    <3>4. step[k] \in Steps
      BY <1>1
    <3>5. step'[k].item = step[k].item
      BY <2>1, <3>3, <3>4
    <3> QED
      BY <3>3, <3>5
  <2> QED
    BY <1>7, <2>2 DEF TakeGate, OpenThread, file
<1>8. step[k].at # "idle" => step[k].item \in Items /\ Idle.item \notin Items
  BY <1>1, ReminderItems DEF Steps, Idle
<1>9. Accept(k) => AllApart'
  BY <1>1, <1>8 DEF Accept, file
<1>10. Refuse(k) => AllApart'
  BY <1>1, <1>8 DEF Refuse, Requeued
<1> QED
  BY <1>3, <1>4, <1>5, <1>6, <1>7, <1>9, <1>10 DEF FlushStep

\* A flush takes all that the files have: the main one what is due as well.
LEMMA QueuePlaces ==
  ASSUME TypeOK, AllApart, ChainAlone,
         \/ CreateReminder \/ QueueCheckin \/ FlushMain \/ FlushChain
         \/ \E i \in Items : CancelReminder(i) \/ ComesDue(i) \/ Expire(i)
  PROVE  AllApart'
<1> USE DEF AllApart, Apart, Found, Held
<1>1. /\ hold \in [Flushes -> SUBSET Items] /\ step \in [Flushes -> Steps] /\ run \in [Items -> Runs]
      /\ queue \in SUBSET Items /\ stored \in SUBSET Reminders /\ due \in SUBSET stored
      /\ created \in Seq(Items) /\ Reminders \subseteq Items /\ Checkins \subseteq Items
  BY ReminderItems DEF TypeOK
<1>2. CreateReminder => AllApart'
  BY <1>1 DEF CreateReminder, Unused, flush, turns
<1>3. QueueCheckin => AllApart'
  <2> SUFFICES ASSUME QueueCheckin PROVE AllApart'
    OBVIOUS
  <2>1. PICK c \in Checkins : Unused(c) /\ queue = {} /\ queue' = {c} /\ created' = Append(created, c)
    BY DEF QueueCheckin
  <2>2. ToSet(created') = ToSet(created) \union {c}
    BY <1>1, <2>1, ToSetAppend
  <2> QED
    BY <1>1, <2>1, <2>2 DEF QueueCheckin, Unused, flush, turns
<1>4. FlushMain => AllApart'
  <2> SUFFICES ASSUME FlushMain PROVE AllApart'
    OBVIOUS
  <2>1. PICK unsaved \in SUBSET due :
          /\ stored' = Kept(unsaved) /\ queue' = Drained
          /\ \E s \in SetToSeqs(due \ unsaved) : created' = created \o s
          /\ hold' = [hold EXCEPT ![Main] = queue \union (due \ unsaved)]
    BY DEF FlushMain
  <2>2. PICK s \in SetToSeqs(due \ unsaved) : created' = created \o s
    BY <2>1
  <2>3. s \in Seq(due \ unsaved) /\ ToSet(s) = due \ unsaved
    BY <1>1, OrderedAll
  <2>4. s \in [1..Len(s) -> due \ unsaved] /\ Len(s) \in Nat /\ due \ unsaved \subseteq Items
    BY <1>1, <2>3
  <2>5. s \in [1..Len(s) -> Items]
    BY <2>4
  <2>6. s \in Seq(Items)
    BY <2>4, <2>5
  <2>7. ToSet(created') = ToSet(created) \union (due \ unsaved)
    BY <1>1, <2>2, <2>3, <2>6, ToSetConcat
  <2>8. step' = step /\ run' = run /\ step[Main] = Idle /\ hold[Main] = {}
    BY DEF FlushMain, turns
  <2>9. /\ hold'[Main] = queue \union (due \ unsaved) /\ hold'[Chain] = hold[Chain]
        /\ stored' = (stored \ due) \union unsaved /\ queue' = {}
    BY <1>1, <2>1 DEF Kept, Drained
  <2>10. Idle.item \notin Items
    BY ReminderItems DEF Idle
  <2> QED
    BY <1>1, <2>7, <2>8, <2>9, <2>10
<1>5. FlushChain => AllApart'
  <2> SUFFICES ASSUME FlushChain PROVE AllApart'
    OBVIOUS
  <2>1. hold[Chain] = {} /\ step[Chain] = Idle /\ Idle.item \notin Items
    BY ReminderItems DEF FlushChain, ChainAlone, Idle
  <2>2. hold'[Chain] = queue /\ hold'[Main] = hold[Main] /\ queue' = {}
    BY <1>1 DEF FlushChain, Drained
  <2> QED
    BY <1>1, <2>1, <2>2 DEF FlushChain, turns
<1>6. ASSUME NEW i \in Items PROVE CancelReminder(i) \/ ComesDue(i) \/ Expire(i) => AllApart'
  BY <1>1 DEF CancelReminder, ComesDue, Expire, flush, turns
<1> QED
  BY <1>2, <1>3, <1>4, <1>5, <1>6

\* A turn that was accepted stays so; a crash ends what was held and what ran.
LEMMA TurnPlaces ==
  ASSUME TypeOK, AllApart, EndsBegun,
         \/ UserBegins \/ CircuitAges \/ Crash \/ HandleEnd \/ ReleaseEnded \/ CloseHandling
         \/ \E i \in Items : FirstEvent(i) \/ SilentRecovery(i) \/ VisibleTimeout(i) \/ Stall(i)
         \/ \E i \in Items, ok \in BOOLEAN : TurnEnds(i, ok)
         \/ \E ok \in BOOLEAN : UserEnds(ok)
  PROVE  AllApart'
<1> USE DEF AllApart, Apart, Found, Held, file, flush
<1>1. /\ hold \in [Flushes -> SUBSET Items] /\ step \in [Flushes -> Steps] /\ run \in [Items -> Runs]
  BY DEF TypeOK
<1>2. UserBegins \/ CircuitAges \/ HandleEnd \/ CloseHandling \/ (\E ok \in BOOLEAN : UserEnds(ok)) => AllApart'
  BY DEF UserBegins, CircuitAges, HandleEnd, CloseHandling, UserEnds, turns
<1>3. ASSUME NEW i \in Items
      PROVE  FirstEvent(i) \/ SilentRecovery(i) \/ VisibleTimeout(i) \/ Stall(i) => AllApart'
  BY <1>1 DEF FirstEvent, SilentRecovery, VisibleTimeout, Stall
<1>4. ASSUME NEW i \in Items, NEW ok \in BOOLEAN PROVE TurnEnds(i, ok) => AllApart'
  BY <1>1 DEF TurnEnds
<1>5. ReleaseEnded => AllApart'
  <2> SUFFICES ASSUME ReleaseEnded PROVE AllApart'
    OBVIOUS
  <2>1. chain.item # User => run[chain.item] # "none"
    BY DEF ReleaseEnded, EndsBegun
  <2> QED
    BY <1>1, <2>1 DEF ReleaseEnded
<1>6. Crash => AllApart'
  <2> SUFFICES ASSUME Crash PROVE AllApart'
    OBVIOUS
  <2>1. /\ hold'[Main] = {} /\ hold'[Chain] = {} /\ step'[Main] = Idle /\ step'[Chain] = Idle
        /\ Idle.item \notin Items
    BY ReminderItems DEF Crash, Idle
  <2>2. \A i \in Items : run'[i] = IF Held(i) \/ run[i] \in Live THEN "over" ELSE run[i]
    BY DEF Crash
  <2> QED
    BY <2>1, <2>2 DEF Crash, Live
<1> QED
  BY <1>2, <1>3, <1>4, <1>5, <1>6

LEMMA PlacesStep == TypeOK /\ AllApart /\ EndsBegun /\ ChainAlone /\ [Next]_vars => AllApart'
<1> SUFFICES ASSUME TypeOK, AllApart, EndsBegun, ChainAlone, [Next]_vars PROVE AllApart'
  OBVIOUS
<1>1. CASE UNCHANGED vars
  BY <1>1 DEF vars, AllApart, Apart, Found, Held, file, flush, turns
<1>2. CASE Next
  BY <1>2, FlushPlaces, QueuePlaces, TurnPlaces DEF Next, ChainStep
<1> QED
  BY <1>1, <1>2

-----------------------------------------------------------------------------
\* The chain and the gate.

\* The event chain: an end is handled once, its flush ends before the handling does.
LEMMA ChainStepKept ==
  TypeOK /\ AllApart /\ EndsBegun /\ ChainAlone /\ [Next]_vars => EndsBegun' /\ ChainAlone'
<1> SUFFICES ASSUME TypeOK, AllApart, EndsBegun, ChainAlone, [Next]_vars
             PROVE  EndsBegun' /\ ChainAlone'
  OBVIOUS
<1> USE DEF file, flush, turns, fore
<1>1. /\ hold \in [Flushes -> SUBSET Items] /\ step \in [Flushes -> Steps] /\ run \in [Items -> Runs]
      /\ events \in Seq(Ends) /\ chain \in Handlings
  BY DEF TypeOK
<1>2. CASE UNCHANGED vars
  BY <1>2 DEF vars, EndsBegun, ChainAlone
<1>3. \A n \in DOMAIN events : events[n].item \in Items \union {User}
  <2>1. \A n \in DOMAIN events : events[n] \in Ends
    BY <1>1
  <2> QED
    BY <2>1 DEF Ends
<1>4. ASSUME events' = events, chain' = chain, boundary' = boundary,
             \A i \in Items : run[i] # "none" => run'[i] # "none",
             (hold'[Chain] = hold[Chain] /\ step'[Chain] = step[Chain]) \/ chain.at = "flushing"
      PROVE  EndsBegun' /\ ChainAlone'
  BY <1>1, <1>3, <1>4 DEF EndsBegun, ChainAlone, Handlings
<1>5. CASE CreateReminder \/ QueueCheckin \/ CircuitAges \/ UserBegins
  BY <1>4, <1>5 DEF CreateReminder, QueueCheckin, CircuitAges, UserBegins
<1>6. CASE FlushMain
  BY <1>1, <1>4, <1>6 DEF FlushMain
<1>7. CASE \E i \in Items : CancelReminder(i) \/ ComesDue(i) \/ Expire(i)
  BY <1>1, <1>4, <1>7 DEF CancelReminder, ComesDue, Expire
<1>8. CASE \E i \in Items : FirstEvent(i) \/ SilentRecovery(i) \/ VisibleTimeout(i) \/ Stall(i)
  BY <1>1, <1>4, <1>8 DEF FirstEvent, SilentRecovery, VisibleTimeout, Stall
<1>9. ASSUME NEW k \in Flushes, FlushStep(k) \/ Refuse(k) PROVE EndsBegun' /\ ChainAlone'
  <2>1. events' = events /\ chain' = chain /\ boundary' = boundary
    BY <1>9 DEF FlushStep, Refuse, DropCheckin, WaitForUser, WaitForSystem, BeginDispatch, TakeGate,
                OpenThread, Accept
  <2>2. \A i \in Items : run[i] # "none" => run'[i] # "none"
    BY <1>1, <1>9 DEF FlushStep, Refuse, DropCheckin, WaitForUser, WaitForSystem, BeginDispatch, TakeGate,
                OpenThread, Accept
  <2>3. hold[k] # {} \/ step[k] # Idle
    BY <1>9 DEF FlushStep, Refuse, DropCheckin, WaitForUser, WaitForSystem, BeginDispatch, TakeGate,
                OpenThread, Accept, Ready, Idle
  <2>4. k = Chain => chain.at = "flushing"
    BY <2>3 DEF ChainAlone
  <2>5. k = Main => hold'[Chain] = hold[Chain] /\ step'[Chain] = step[Chain]
    BY <1>1, <1>9 DEF FlushStep, Refuse, DropCheckin, WaitForUser, WaitForSystem, BeginDispatch, TakeGate,
                OpenThread, Accept
  <2> QED
    BY <1>4, <2>1, <2>2, <2>4, <2>5
<1>10. ASSUME NEW e \in Ends, events' = Append(events, e), chain' = chain, boundary' = boundary,
              hold' = hold, step' = step,
              \A i \in Items : run[i] # "none" => run'[i] # "none",
              e.item # User => run'[e.item] # "none"
       PROVE  EndsBegun' /\ ChainAlone'
  <2>1. \A n \in DOMAIN events' : events'[n] = e \/ \E m \in DOMAIN events : events'[n] = events[m]
    BY <1>1, <1>10
  <2> QED
    BY <1>1, <1>3, <1>10, <2>1 DEF EndsBegun, ChainAlone, Handlings
<1>11. CASE \E i \in Items, ok \in BOOLEAN : TurnEnds(i, ok)
  <2>1. PICK i \in Items, ok \in BOOLEAN : TurnEnds(i, ok)
    BY <1>11
  <2> DEFINE e == [NoEvent EXCEPT !.item = i, !.ok = ok]
  <2>2. e \in Ends /\ e.item = i
    BY DEF NoEvent, Ends
  <2>3. run'[i] = "ending" /\ \A j \in Items : run[j] # "none" => run'[j] # "none"
    BY <1>1, <2>1 DEF TurnEnds
  <2> HIDE DEF e
  <2>4. events' = Append(events, e) /\ chain' = chain /\ boundary' = boundary /\ hold' = hold /\ step' = step
    BY <2>1 DEF TurnEnds, e
  <2> QED
    BY <1>10, <2>2, <2>3, <2>4
<1>12. CASE \E ok \in BOOLEAN : UserEnds(ok)
  <2>1. PICK ok \in BOOLEAN : UserEnds(ok)
    BY <1>12
  <2> DEFINE e == [NoEvent EXCEPT !.item = User, !.ok = ok]
  <2>2. e \in Ends /\ e.item = User
    BY DEF NoEvent, Ends
  <2> HIDE DEF e
  <2>3. events' = Append(events, e) /\ chain' = chain /\ boundary' = boundary /\ hold' = hold /\ step' = step
          /\ run' = run
    BY <2>1 DEF UserEnds, e
  <2> QED
    BY <1>10, <2>2, <2>3
<1>13. CASE HandleEnd
  <2> DEFINE e == Head(events)
  <2>1. e = events[1] /\ 1 \in DOMAIN events /\ e \in Ends
    BY <1>1, <1>13 DEF HandleEnd
  <2>2. \A n \in DOMAIN events' : n + 1 \in DOMAIN events /\ events'[n] = events[n + 1]
    BY <1>1, <1>13 DEF HandleEnd
  <2>3. chain'.item = e.item /\ chain'.at = "settling"
    BY <1>13, <2>1 DEF HandleEnd, Ends
  <2>4. e.item # None /\ (e.item # User => run[e.item] # "none")
    BY <2>1, ReminderItems DEF EndsBegun, Ends
  <2> HIDE DEF e
  <2>5. run' = run /\ hold' = hold /\ step' = step /\ boundary' = boundary
    BY <1>13 DEF HandleEnd
  <2>6. boundary = {}
    BY <1>13 DEF HandleEnd, ChainAlone
  <2>7. EndsBegun'
    BY <2>2, <2>3, <2>4, <2>5 DEF EndsBegun
  <2>8. ChainAlone'
    BY <1>13, <2>3, <2>5, <2>6 DEF ChainAlone, HandleEnd
  <2> QED
    BY <2>7, <2>8
<1>14. CASE ReleaseEnded
  <2>1. chain'.at = "flush" /\ chain'.item = chain.item /\ chain'.scope = chain.scope
    BY <1>1, <1>14 DEF ReleaseEnded, Handlings
  <2>2. \A i \in Items : run[i] # "none" => run'[i] # "none"
    BY <1>1, <1>14 DEF ReleaseEnded
  <2>3. events' = events /\ hold' = hold /\ step' = step /\ boundary' = boundary \union ({chain.scope} \ {"none"})
          /\ chain.at = "settling"
    BY <1>14 DEF ReleaseEnded
  <2>4. chain.item \in Items \union {None, User}
    BY <1>1 DEF Handlings
  <2>5. EndsBegun'
    BY <1>3, <2>1, <2>2, <2>3, <2>4 DEF EndsBegun
  <2> QED
    BY <2>1, <2>3, <2>5 DEF ChainAlone
<1>15. CASE FlushChain
  <2>1. chain'.at = "flushing" /\ chain'.item = chain.item /\ chain'.scope = chain.scope
    BY <1>1, <1>15 DEF FlushChain, Handlings
  <2>2. run' = run /\ boundary' = boundary /\ events' = events /\ chain.at = "flush"
    BY <1>15 DEF FlushChain
  <2> QED
    BY <2>1, <2>2 DEF EndsBegun, ChainAlone
<1>16. CASE CloseHandling
  <2>1. chain' = NoEvent /\ NoEvent.at = "idle"
    BY <1>16 DEF CloseHandling, NoEvent
  <2>2. boundary' = {} /\ hold' = hold /\ step' = step /\ run' = run /\ events' = events
          /\ hold[Chain] = {} /\ step[Chain] = Idle
    BY <1>16 DEF CloseHandling, ChainAlone
  <2> QED
    BY <2>1, <2>2 DEF EndsBegun, ChainAlone
<1>17. CASE Crash
  <2>1. chain' = NoEvent /\ NoEvent.at = "idle" /\ events' = <<>> /\ boundary' = {}
          /\ hold'[Chain] = {} /\ step'[Chain] = Idle
    BY <1>17 DEF Crash, NoEvent
  <2> QED
    BY <2>1 DEF EndsBegun, ChainAlone
<1> QED
  BY <1>2, <1>5, <1>6, <1>7, <1>8, <1>9, <1>11, <1>12, <1>13, <1>14, <1>15, <1>16, <1>17 DEF Next, ChainStep

\* The gate: whoever ends a turn that holds it frees it, and what leaves the files or a
\* flush for another reason had no turn.
LEMMA ScopeStep ==
  TypeOK /\ AllApart /\ ChainAlone' /\ ScopeAccounted /\ [Next]_vars => ScopeAccounted'
<1> SUFFICES ASSUME TypeOK, AllApart, ChainAlone', ScopeAccounted, [Next]_vars PROVE ScopeAccounted'
  OBVIOUS
<1> USE DEF file, flush, turns, fore
<1> DEFINE Opening(k) == step[k].at \in {"opening", "sending"}
           Running(i) == i \in attached /\ run[i] \in Live \union {"silent"}
<1>1. /\ hold \in [Flushes -> SUBSET Items] /\ step \in [Flushes -> Steps] /\ run \in [Items -> Runs]
      /\ attached \in SUBSET Items
  BY DEF TypeOK
<1>2. gate => (\E k \in Flushes : Opening(k)) \/ \E i \in Items : Running(i)
  BY <1>1 DEF ScopeAccounted
<1>3. SUFFICES gate' => (\E k \in Flushes : Opening(k)') \/ \E i \in Items : Running(i)'
  BY DEF ScopeAccounted, ChainAlone
<1>4. ASSUME gate' => gate, \A k \in Flushes : Opening(k) => Opening(k)',
             \A i \in Items : Running(i) => Running(i)'
      PROVE  gate' => (\E k \in Flushes : Opening(k)') \/ \E i \in Items : Running(i)'
  BY <1>2, <1>4
<1>5. CASE UNCHANGED vars
  BY <1>4, <1>5 DEF vars
<1>6. CASE CreateReminder \/ QueueCheckin \/ CircuitAges \/ UserBegins \/ FlushMain \/ HandleEnd \/ FlushChain
             \/ CloseHandling \/ \E ok \in BOOLEAN : UserEnds(ok)
  BY <1>4, <1>6 DEF CreateReminder, QueueCheckin, CircuitAges, UserBegins, FlushMain, HandleEnd, FlushChain,
                    CloseHandling, UserEnds
<1>7. ASSUME NEW i \in Items, CancelReminder(i) \/ ComesDue(i) \/ Expire(i)
      PROVE  gate' => (\E k \in Flushes : Opening(k)') \/ \E j \in Items : Running(j)'
  <2>1. ~Running(i) \/ run' = run
    BY <1>7 DEF AllApart, Apart, Found, CancelReminder, ComesDue, Expire, Live
  <2>2. gate' = gate /\ step' = step /\ attached' = attached /\ \A j \in Items : j # i => run'[j] = run[j]
    BY <1>1, <1>7 DEF CancelReminder, ComesDue, Expire
  <2> QED
    BY <1>4, <2>1, <2>2
<1>8. ASSUME NEW i \in Items, NEW k \in Flushes, DropCheckin(k, i)
      PROVE  gate' => (\E l \in Flushes : Opening(l)') \/ \E j \in Items : Running(j)'
  <2>1. i \in hold[k]
    BY <1>8, NextHeld DEF DropCheckin, Ready
  <2>2. ~Running(i)
    BY <2>1 DEF AllApart, Apart, Found, Held, Live
  <2> QED
    BY <1>1, <1>4, <1>8, <2>2 DEF DropCheckin
<1>9. ASSUME NEW i \in Items, NEW k \in Flushes, WaitForUser(k, i) \/ WaitForSystem(k, i)
      PROVE  gate' => (\E l \in Flushes : Opening(l)') \/ \E j \in Items : Running(j)'
  BY <1>4, <1>9 DEF WaitForUser, WaitForSystem
<1>10. ASSUME NEW i \in Items, NEW k \in Flushes, BeginDispatch(k, i)
       PROVE  gate' => (\E l \in Flushes : Opening(l)') \/ \E j \in Items : Running(j)'
  <2>1. step[k].at = "idle"
    BY <1>10 DEF BeginDispatch, Ready, Idle
  <2> QED
    BY <1>1, <1>4, <1>10, <2>1 DEF BeginDispatch
<1>11. ASSUME NEW k \in Flushes, TakeGate(k) \/ OpenThread(k)
       PROVE  gate' => (\E l \in Flushes : Opening(l)') \/ \E j \in Items : Running(j)'
  <2>1. \A r \in Steps, a \in {"opening", "sending"} : [r EXCEPT !.at = a].at = a
    BY DEF Steps, Idle
  <2>2. PICK a \in {"opening", "sending"} : step' = [step EXCEPT ![k].at = a]
    BY <1>11 DEF TakeGate, OpenThread
  <2>3. step'[k] = [step[k] EXCEPT !.at = a] /\ step[k] \in Steps
    BY <1>1, <2>2
  <2> QED
    BY <2>1, <2>3
<1>12. ASSUME NEW k \in Flushes, Accept(k)
       PROVE  gate' => (\E l \in Flushes : Opening(l)') \/ \E j \in Items : Running(j)'
  <2>1. PICK i \in Items : i = step[k].item
    BY <1>1, <1>12 DEF Accept, Steps, Idle
  <2>2. Running(i)'
    BY <1>1, <1>12, <2>1 DEF Accept, Live
  <2> QED
    BY <2>1, <2>2
<1>13. ASSUME NEW k \in Flushes, Refuse(k)
       PROVE  ~gate'
  BY <1>13 DEF Refuse, GateAfterRefusal
<1>14. ASSUME NEW i \in Items, FirstEvent(i) \/ VisibleTimeout(i) \/ \E ok \in BOOLEAN : TurnEnds(i, ok)
       PROVE  gate' => (\E l \in Flushes : Opening(l)') \/ \E j \in Items : Running(j)'
  <2>1. /\ gate' = gate /\ step' = step /\ attached' = attached /\ run'[i] \in Live \union {"silent"}
        /\ \A j \in Items : j # i => run'[j] = run[j]
    BY <1>1, <1>14 DEF FirstEvent, VisibleTimeout, TurnEnds, Live
  <2> QED
    BY <1>4, <2>1
<1>15. ASSUME NEW i \in Items, SilentRecovery(i) \/ Stall(i)
       PROVE  gate' => (\E l \in Flushes : Opening(l)') \/ \E j \in Items : Running(j)'
  <2>1. /\ gate' = Released(i) /\ step' = step /\ attached' = attached \ {i}
        /\ \A j \in Items : j # i => run'[j] = run[j]
    BY <1>1, <1>15 DEF SilentRecovery, Stall
  <2>2. gate' => gate /\ ~Running(i)
    BY <2>1 DEF Released
  <2> QED
    BY <1>2, <2>1, <2>2
<1>16. CASE ReleaseEnded
  <2>1. CASE chain.item = User
    BY <1>4, <1>16, <2>1 DEF ReleaseEnded
  <2>2. CASE chain.item # User
    <3>1. /\ gate' = Released(chain.item) /\ step' = step /\ attached' = attached \ {chain.item}
          /\ \A j \in Items : j # chain.item => run'[j] = run[j]
      BY <1>1, <1>16, <2>2 DEF ReleaseEnded
    <3>2. gate' => gate /\ ~Running(chain.item)
      BY <3>1 DEF Released
    <3> QED
      BY <1>2, <3>1, <3>2
  <2> QED
    BY <2>1, <2>2
<1>17. CASE Crash
  BY <1>17 DEF Crash
<1> QED
  BY <1>5, <1>6, <1>7, <1>8, <1>9, <1>10, <1>11, <1>12, <1>13, <1>14, <1>15, <1>16, <1>17
     DEF Next, ChainStep, FlushStep

-----------------------------------------------------------------------------
\* Theorems.

\* The invariant holds at the beginning and is kept.
LEMMA InvInit == Init => IInv
<1> SUFFICES ASSUME Init PROVE IInv
  OBVIOUS
<1>1. TypeOK
  BY TypeInit
<1>2. AllApart
  <2>1. \A i \in Items : ~Held(i) /\ i \notin ToSet(created)
    BY ReminderItems DEF Init, Held, Idle, ToSet
  <2> QED
    BY <2>1, ReminderItems DEF Init, AllApart, Apart, Found, Held, Idle
<1>3. EndsBegun /\ ChainAlone /\ ScopeAccounted
  BY DEF Init, EndsBegun, ChainAlone, ScopeAccounted, NoEvent
<1> QED
  BY <1>1, <1>2, <1>3 DEF IInv, AllApart

LEMMA InvStep == IInv /\ [Next]_vars => IInv'
BY TypeStep, PlacesStep, ChainStepKept, ScopeStep DEF IInv, AllApart

\* A message that has come to be is in one place.
LEMMA ApartOnce == IInv => MessageOnce
<1> SUFFICES ASSUME IInv, NEW i \in ToSet(created) PROVE Cardinality(Places(i)) = 1
  BY DEF MessageOnce
<1>1. i \in Items
  <2>1. created \in Seq(Items)
    BY DEF IInv, TypeOK
  <2> QED
    BY <2>1 DEF ToSet
<1>2. Apart(i)
  BY <1>1 DEF IInv
<1>3. \E p : Places(i) = {p}
  <2>1. CASE i \in queue
    BY <1>2, <2>1 DEF Apart, Found, Held, Places
  <2>2. CASE i \in hold[Main]
    BY <1>2, <2>2 DEF Apart, Found, Held, Places
  <2>3. CASE i \in hold[Chain]
    BY <1>2, <2>3 DEF Apart, Found, Held, Places
  <2>4. CASE step[Main].item = i
    BY <1>2, <2>4 DEF Apart, Found, Held, Places
  <2>5. CASE step[Chain].item = i
    BY <1>2, <2>5 DEF Apart, Found, Held, Places
  <2>6. CASE ~Found(i)
    BY <1>2, <2>6 DEF Apart, Found, Held, Places
  <2> QED
    BY <2>1, <2>2, <2>3, <2>4, <2>5, <2>6 DEF Found, Held
<1> QED
  BY <1>3, FS_Singleton

\* Every value is of its type: in particular, whatever two flushes hold and dispatch are
\* system messages, and the event chain handles ends of turns.
THEOREM SystemTypeCorrect == Spec => []TypeOK
<1>1. IInv => TypeOK
  BY DEF IInv
<1> QED
  BY <1>1, InvInit, InvStep, PTL DEF Spec

\* A system message is in one place, in one of the two files, with one of the two flushes,
\* in a dispatch, or with its turn: for any number of messages, foreground turns and
\* crashes, and however the two flushes that drain the same file interleave.
THEOREM MessagesInOnePlace == Spec => []MessageOnce
BY InvInit, InvStep, ApartOnce, PTL DEF Spec

\* The gate of the system scope is held for a dispatch or for a turn that was accepted and
\* not handled, and a boundary for the end that is handled, whatever two flushes, the
\* watchdogs, refusals and crashes do.
THEOREM ScopeNeverLeaks == Spec => []ScopeAccounted
<1>1. IInv => ScopeAccounted
  BY DEF IInv
<1> QED
  BY <1>1, InvInit, InvStep, PTL DEF Spec

-----------------------------------------------------------------------------
\* The messages of a user: InboundIntake.

\* The operators of the library, as InboundIntake has them.
LEMMA IntakeCardinality ==
  ASSUME NEW S
  PROVE  Intake!Cardinality(S) = Cardinality(S)
BY DEF Intake!Cardinality, Cardinality

\* A set of numbers is put in order: the sequence has every one of them, once.
LEMMA SortedFacts ==
  ASSUME NEW n \in Nat, NEW S \in SUBSET (1..n)
  PROVE  /\ Intake!Sorted(S) \in Seq(S)
         /\ \A x \in S : \E k \in DOMAIN Intake!Sorted(S) : Intake!Sorted(S)[k] = x
         /\ \A j, k \in DOMAIN Intake!Sorted(S) :
              Intake!Sorted(S)[j] = Intake!Sorted(S)[k] => j = k
         /\ Len(Intake!Sorted(S)) = Cardinality(S)
<1> DEFINE below(x) == {y \in S : y < x}
           place == [x \in S |-> 1 + Cardinality(below(x))]
           order == Intake!Sorted(S)
<1>1. IsFiniteSet(S) /\ Cardinality(S) \in Nat /\ \A x \in S : x \in Nat
  <2>1. IsFiniteSet(1..n)
    BY FS_Interval
  <2>2. IsFiniteSet(S)
    BY <2>1, FS_Subset
  <2> QED
    BY <2>2, FS_CardinalityType
<1>2. ASSUME NEW x \in S
      PROVE  /\ IsFiniteSet(below(x)) /\ Cardinality(below(x)) \in Nat
             /\ Cardinality(below(x)) < Cardinality(S)
  <2>1. below(x) \in SUBSET (S \ {x}) /\ IsFiniteSet(S \ {x})
        /\ Cardinality(S \ {x}) = Cardinality(S) - 1
    BY <1>1, FS_RemoveElement
  <2> HIDE DEF below
  <2>2. IsFiniteSet(below(x)) /\ Cardinality(below(x)) <= Cardinality(S \ {x})
    BY <2>1, FS_Subset
  <2> QED
    BY <1>1, <2>1, <2>2, FS_CardinalityType
<1>3. ASSUME NEW x \in S, NEW z \in S, x < z
      PROVE  Cardinality(below(x)) < Cardinality(below(z))
  <2>1. below(x) \union {x} \in SUBSET below(z) /\ x \notin below(x)
    <3>1. x \in Nat /\ z \in Nat /\ ~(x < x) /\ \A y \in S : y < x => y < z
      BY <1>1, <1>3
    <3> QED
      BY <1>3, <3>1
  <2> HIDE DEF below
  <2>2. Cardinality(below(x) \union {x}) = Cardinality(below(x)) + 1
    BY <1>2, <2>1, FS_AddElement
  <2>3. Cardinality(below(x) \union {x}) <= Cardinality(below(z))
    BY <1>2, <2>1, FS_Subset
  <2> QED
    BY <1>2, <2>2, <2>3
<1> HIDE DEF below
<1>4. place \in [S -> 1..Cardinality(S)]
  BY <1>1, <1>2
<1>5. \A x, z \in S : place[x] = place[z] => x = z
  BY <1>1, <1>2, <1>3
<1>6. place \in Injection(S, 1..Cardinality(S))
  BY <1>4, <1>5 DEF Injection, IsInjective
<1>7. Cardinality(1..Cardinality(S)) = Cardinality(S) /\ IsFiniteSet(1..Cardinality(S))
  BY <1>1, FS_Interval
<1>8. place \in Surjection(S, 1..Cardinality(S))
  BY <1>6, <1>7, FS_Injection
<1>9. \A k \in 1..Cardinality(S) : \E x \in S : place[x] = k
  BY <1>8 DEF Surjection
<1>10. /\ DOMAIN order = 1..Cardinality(S)
       /\ \A k \in 1..Cardinality(S) :
            order[k] = CHOOSE x \in S : k = 1 + Intake!Cardinality(below(x))
  <2>1. order = [k \in 1..Intake!Cardinality(S) |->
                   CHOOSE x \in S : k = 1 + Intake!Cardinality(below(x))]
    BY DEF Intake!Sorted, below
  <2> QED
    BY <2>1, IntakeCardinality
<1>11. \A k \in 1..Cardinality(S) : order[k] \in S /\ place[order[k]] = k
  <2>1. \A x \in S : place[x] = 1 + Intake!Cardinality(below(x))
    BY IntakeCardinality
  <2> HIDE DEF order, place
  <2> SUFFICES ASSUME NEW k \in 1..Cardinality(S)
               PROVE  order[k] \in S /\ place[order[k]] = k
    OBVIOUS
  <2>2. \E x \in S : k = 1 + Intake!Cardinality(below(x))
    BY <1>9, <2>1
  <2>3. order[k] \in S /\ k = 1 + Intake!Cardinality(below(order[k]))
    BY <1>10, <2>2, Zenon
  <2> QED
    BY <2>1, <2>3
<1> HIDE DEF place
<1>12. order \in Seq(S) /\ Len(order) = Cardinality(S) /\ DOMAIN order = 1..Cardinality(S)
  <2>1. order = [k \in 1..Cardinality(S) |-> order[k]]
    <3> DEFINE at(k) == CHOOSE x \in S : k = 1 + Intake!Cardinality(below(x))
    <3>1. order = [k \in 1..Intake!Cardinality(S) |-> at(k)]
      BY DEF Intake!Sorted, below
    <3> HIDE DEF at, order
    <3> QED
      BY <3>1, IntakeCardinality
  <2> HIDE DEF order
  <2> QED
    BY <1>1, <1>10, <1>11, <2>1
<1> HIDE DEF order
<1>13. \A x \in S : order[place[x]] = x /\ place[x] \in 1..Cardinality(S)
  BY <1>4, <1>5, <1>11
<1>14. \A j, k \in DOMAIN order : order[j] = order[k] => j = k
  BY <1>11, <1>12
<1> QED
  BY <1>12, <1>13, <1>14 DEF order

Within(S, n) == S \in SUBSET (1..n)
IsSorting(order, S) ==
  /\ order \in Seq(S) /\ Len(order) = Cardinality(S)
  /\ \A x \in S : \E k \in DOMAIN order : order[k] = x
  /\ \A j, k \in DOMAIN order : order[j] = order[k] => j = k

LEMMA SortedIs ==
  ASSUME NEW n \in Nat, NEW S, Within(S, n)
  PROVE  IsSorting(Intake!Sorted(S), S)
<1>1. S \in SUBSET (1..n)
  BY DEF Within
<1> QED
  BY <1>1, SortedFacts DEF IsSorting

-----------------------------------------------------------------------------
\* A group of prepared messages: each message is in it once.
IsGroup(g) ==
  /\ g \in Seq([id : Intake!Msgs, atts : SUBSET Nat])
  /\ \A i, j \in DOMAIN g : g[i].id = g[j].id => i = j

\* Message m is in the group, and what of its attachments is.
Has(g, m) == \E i \in DOMAIN g : g[i].id = m
Of(g, m) == UNION {g[i].atts : i \in {j \in DOMAIN g : g[j].id = m}}

\* A group's parts: what a flush takes of it and what it leaves.
Splits(s, taken, left) ==
  /\ IsGroup(taken) /\ IsGroup(left)
  /\ \A m : /\ Has(s, m) <=> Has(taken, m) \/ Has(left, m)
            /\ Of(s, m) = Of(taken, m) \union Of(left, m)
            /\ Has(taken, m) /\ Has(left, m) =>
                 /\ Of(taken, m) # {} /\ Of(left, m) # {}
                 /\ Of(taken, m) \intersect Of(left, m) = {}

LEMMA GroupFacts ==
  ASSUME NEW g, IsGroup(g)
  PROVE  /\ g \in Seq([id : Intake!Msgs, atts : SUBSET Nat])
         /\ Len(g) \in Nat /\ DOMAIN g = 1..Len(g)
         /\ \A i \in DOMAIN g :
              g[i].id \in Intake!Msgs /\ g[i] \in [id : Intake!Msgs, atts : SUBSET Nat]
         /\ \A i, j \in DOMAIN g : g[i].id = g[j].id => i = j
         /\ \A i \in DOMAIN g : Has(g, g[i].id) /\ Of(g, g[i].id) = g[i].atts
         /\ \A m : ~Has(g, m) => Of(g, m) = {}
         /\ \A m : Has(g, m) => m \in Intake!Msgs
<1>1. g \in Seq([id : Intake!Msgs, atts : SUBSET Nat])
      /\ \A i, j \in DOMAIN g : g[i].id = g[j].id => i = j
  BY DEF IsGroup
<1>2. Len(g) \in Nat /\ DOMAIN g = 1..Len(g)
  BY <1>1, LenProperties
<1>3. \A i \in DOMAIN g : g[i] \in [id : Intake!Msgs, atts : SUBSET Nat]
  BY <1>1, <1>2, ElementOfSeq
<1>4. ASSUME NEW i \in DOMAIN g
      PROVE  Has(g, g[i].id) /\ Of(g, g[i].id) = g[i].atts
  <2>1. {j \in DOMAIN g : g[j].id = g[i].id} = {i}
    BY <1>1
  <2>2. Of(g, g[i].id) = UNION {g[k].atts : k \in {i}}
    BY <2>1 DEF Of
  <2> QED
    BY <2>2 DEF Has
<1>5. \A m : ~Has(g, m) => Of(g, m) = {}
  BY DEF Has, Of
<1>6. \A m : Has(g, m) => m \in Intake!Msgs
  BY <1>3 DEF Has
<1> QED
  BY <1>1, <1>2, <1>3, <1>4, <1>5, <1>6

\* The empty group.
LEMMA EmptyGroup ==
  /\ IsGroup(<<>>)
  /\ \A m : ~Has(<<>>, m) /\ Of(<<>>, m) = {}
  /\ \A s : IsGroup(s) => Splits(s, s, <<>>)
<1>1. IsGroup(<<>>)
  BY DEF IsGroup
<1>2. \A m : ~Has(<<>>, m) /\ Of(<<>>, m) = {}
  BY DEF Has, Of
<1> QED
  BY <1>1, <1>2 DEF Splits

\* The draft in order has the same messages.
LEMMA SortedGroupFacts ==
  ASSUME NMsg \in Nat, NEW s, IsGroup(s)
  PROVE  /\ IsGroup(Intake!SortedGroup(s))
         /\ \A m : Has(Intake!SortedGroup(s), m) <=> Has(s, m)
         /\ \A m : Of(Intake!SortedGroup(s), m) = Of(s, m)
<1> DEFINE S == Intake!IdsOf(s)
           order == Intake!Sorted(S)
           where(k) == CHOOSE i \in DOMAIN s : s[i].id = order[k]
           G == Intake!SortedGroup(s)
           ids == [i \in 1..Len(s) |-> s[i].id]
<1>1. /\ Len(s) \in Nat /\ DOMAIN s = 1..Len(s)
      /\ \A i \in DOMAIN s :
           s[i].id \in Intake!Msgs /\ s[i] \in [id : Intake!Msgs, atts : SUBSET Nat]
      /\ \A i, j \in DOMAIN s : s[i].id = s[j].id => i = j
  BY GroupFacts
<1>2. S = {s[i].id : i \in DOMAIN s} /\ S \in SUBSET (1..NMsg)
  BY <1>1 DEF Intake!IdsOf, Intake!Msgs
<1>3. G = [k \in DOMAIN s |-> s[where(k)]]
  BY DEF Intake!SortedGroup
<1> HIDE DEF G, where, S
<1>4. Cardinality(S) = Len(s)
  <2>1. ids \in Surjection(1..Len(s), S) /\ ids \in Injection(1..Len(s), S)
    <3>1. ids \in [1..Len(s) -> S] /\ \A x \in S : \E i \in 1..Len(s) : ids[i] = x
      BY <1>1, <1>2
    <3>2. \A i, j \in 1..Len(s) : ids[i] = ids[j] => i = j
      BY <1>1
    <3> HIDE DEF ids
    <3> QED
      BY <3>1, <3>2 DEF Surjection, Injection, IsInjective
  <2>2. IsFiniteSet(1..Len(s)) /\ Cardinality(1..Len(s)) = Len(s)
    BY <1>1, FS_Interval
  <2> HIDE DEF ids
  <2> QED
    BY <2>1, <2>2, FS_Surjection
<1>5. /\ DOMAIN order = DOMAIN s
      /\ \A k \in DOMAIN s : order[k] \in S
      /\ \A x \in S : \E k \in DOMAIN s : order[k] = x
      /\ \A j, k \in DOMAIN s : order[j] = order[k] => j = k
  <2>1. /\ order \in Seq(S) /\ Len(order) = Cardinality(S)
        /\ \A x \in S : \E k \in DOMAIN order : order[k] = x
        /\ \A j, k \in DOMAIN order : order[j] = order[k] => j = k
    <3>1. Within(S, NMsg)
      BY <1>2 DEF Within
    <3>2. IsSorting(order, S)
      BY <3>1, SortedIs
    <3> QED
      BY <3>2 DEF IsSorting
  <2> HIDE DEF order
  <2>2. DOMAIN order = 1..Len(order) /\ \A k \in 1..Len(order) : order[k] \in S
    BY <2>1, LenProperties, ElementOfSeq
  <2> QED
    BY <1>1, <1>4, <2>1, <2>2
<1> HIDE DEF order
<1>6. ASSUME NEW k \in DOMAIN s
      PROVE  where(k) \in DOMAIN s /\ s[where(k)].id = order[k]
  <2>1. \E i \in DOMAIN s : s[i].id = order[k]
    BY <1>2, <1>5
  <2> QED
    BY <2>1 DEF where
<1>7. IsGroup(G)
  <2>1. PICK R : R = [id : Intake!Msgs, atts : SUBSET Nat]
    OBVIOUS
  <2>2. G \in Seq(R) /\ DOMAIN G = DOMAIN s
    <3>1. G = [k \in 1..Len(s) |-> G[k]] /\ \A k \in 1..Len(s) : G[k] \in R
      BY <1>1, <1>3, <1>6, <2>1
    <3> QED
      BY <1>1, <3>1
  <2>3. \A i, j \in DOMAIN G : G[i].id = G[j].id => i = j
    BY <1>3, <1>5, <1>6, <2>2
  <2> QED
    BY <2>1, <2>2, <2>3 DEF IsGroup
<1>8. /\ DOMAIN G = DOMAIN s
      /\ \A k \in DOMAIN G : \E i \in DOMAIN s : G[k] = s[i]
      /\ \A i \in DOMAIN s : \E k \in DOMAIN G : G[k] = s[i]
  <2>1. DOMAIN G = DOMAIN s /\ \A k \in DOMAIN G : G[k] = s[where(k)]
    BY <1>3
  <2>2. ASSUME NEW i \in DOMAIN s
        PROVE  \E k \in DOMAIN G : G[k] = s[i]
    <3>1. PICK k \in DOMAIN s : order[k] = s[i].id
      BY <1>2, <1>5
    <3>2. where(k) = i
      BY <1>1, <1>6, <3>1
    <3> QED
      BY <2>1, <3>2
  <2> QED
    BY <1>6, <2>1, <2>2
<1>9. \A m : Has(G, m) <=> Has(s, m)
  BY <1>8 DEF Has
<1>10. ASSUME NEW m
       PROVE  Of(G, m) = Of(s, m)
  <2>1. CASE ~Has(s, m)
    BY <1>7, <1>9, <2>1, GroupFacts
  <2>2. CASE Has(s, m)
    <3>1. PICK i \in DOMAIN s : s[i].id = m
      BY <2>2 DEF Has
    <3>2. PICK k \in DOMAIN G : G[k] = s[i]
      BY <1>8
    <3>3. Of(s, m) = s[i].atts
      BY <3>1, GroupFacts
    <3>4. Of(G, G[k].id) = G[k].atts
      BY <1>7, GroupFacts
    <3> QED
      BY <3>1, <3>2, <3>3, <3>4
  <2> QED
    BY <2>1, <2>2
<1> QED
  BY <1>7, <1>9, <1>10 DEF G

\* Some of a group's messages, each with some of its attachments.
LEMMA PartsFacts ==
  ASSUME NEW s, IsGroup(s), NEW S, NEW I \in SUBSET DOMAIN s
  PROVE  /\ IsGroup(Intake!Parts(s, S, I))
         /\ \A m : Has(Intake!Parts(s, S, I), m) <=> \E i \in I : s[i].id = m
         /\ \A i \in I : Of(Intake!Parts(s, S, I), s[i].id) = Intake!Part(s, i, S).atts
<1> DEFINE order == Intake!Sorted(I)
           G == Intake!Parts(s, S, I)
<1>1. /\ Len(s) \in Nat /\ DOMAIN s = 1..Len(s)
      /\ \A i \in DOMAIN s :
           s[i].id \in Intake!Msgs /\ s[i] \in [id : Intake!Msgs, atts : SUBSET Nat]
      /\ \A i, j \in DOMAIN s : s[i].id = s[j].id => i = j
  BY GroupFacts
<1>2. /\ order \in Seq(I)
      /\ \A x \in I : \E k \in DOMAIN order : order[k] = x
      /\ \A j, k \in DOMAIN order : order[j] = order[k] => j = k
  <2>1. Within(I, Len(s)) /\ Len(s) \in Nat
    BY <1>1 DEF Within
  <2>2. IsSorting(order, I)
    BY <2>1, SortedIs
  <2> QED
    BY <2>2 DEF IsSorting
<1>3. G = [k \in DOMAIN order |-> Intake!Part(s, order[k], S)]
  BY DEF Intake!Parts
<1> HIDE DEF order, G
<1>4. /\ Len(order) \in Nat /\ DOMAIN order = 1..Len(order)
      /\ \A k \in DOMAIN order : order[k] \in I
  BY <1>2, LenProperties, ElementOfSeq
<1>5. PICK R : R = [id : Intake!Msgs, atts : SUBSET Nat]
  OBVIOUS
<1>6. \A i \in I : Intake!Part(s, i, S) \in R /\ Intake!Part(s, i, S).id = s[i].id
  BY <1>1, <1>5 DEF Intake!Part, Intake!Prepared
<1>7. /\ DOMAIN G = DOMAIN order
      /\ \A k \in DOMAIN G : order[k] \in I /\ G[k] = Intake!Part(s, order[k], S)
  BY <1>3, <1>4
<1>8. IsGroup(G)
  <2>1. G \in Seq(R)
    <3>1. G = [k \in 1..Len(order) |-> G[k]] /\ \A k \in 1..Len(order) : G[k] \in R
      BY <1>3, <1>4, <1>6, <1>7
    <3> QED
      BY <1>4, <3>1
  <2>2. \A i, j \in DOMAIN G : G[i].id = G[j].id => i = j
    BY <1>1, <1>2, <1>6, <1>7
  <2> QED
    BY <1>5, <2>1, <2>2 DEF IsGroup
<1>9. \A i \in I : \E k \in DOMAIN G : G[k] = Intake!Part(s, i, S)
  BY <1>2, <1>7
<1>10. \A m : Has(G, m) <=> \E i \in I : s[i].id = m
  BY <1>6, <1>7, <1>9 DEF Has
<1>11. \A i \in I : Of(G, s[i].id) = Intake!Part(s, i, S).atts
  <2> SUFFICES ASSUME NEW i \in I
               PROVE  Of(G, s[i].id) = Intake!Part(s, i, S).atts
    OBVIOUS
  <2>1. PICK k \in DOMAIN G : G[k] = Intake!Part(s, i, S)
    BY <1>9
  <2>2. Of(G, G[k].id) = G[k].atts
    BY <1>8, GroupFacts
  <2> QED
    BY <1>6, <2>1, <2>2
<1> QED
  BY <1>8, <1>10, <1>11 DEF G

\* What a flush takes and leaves of a batch that has attachments are its parts.
LEMMA TakenAndRemaining ==
  ASSUME NEW s, IsGroup(s)
  PROVE  Splits(s, Intake!Taken(s), Intake!Remaining(s))
<1> DEFINE fit == Intake!Fitting(s)
           over == Intake!InOrder(s) \ fit
           I == {i \in DOMAIN s : s[i].atts = {} \/ Intake!Part(s, i, fit).atts # {}}
           J == {i \in DOMAIN s : Intake!Part(s, i, over).atts # {}}
           T == Intake!Taken(s)
           L == Intake!Remaining(s)
<1>1. T = Intake!Parts(s, fit, I) /\ L = Intake!Parts(s, over, J)
  BY DEF Intake!Taken, Intake!Remaining
<1>2. \A i \in DOMAIN s : \A a \in s[i].atts : <<i, a>> \in Intake!InOrder(s)
  BY DEF Intake!InOrder
<1> HIDE DEF fit, T, L
<1>3. ASSUME NEW i \in DOMAIN s
      PROVE  /\ s[i].atts = Intake!Part(s, i, fit).atts \union Intake!Part(s, i, over).atts
             /\ Intake!Part(s, i, fit).atts \intersect Intake!Part(s, i, over).atts = {}
  <2>1. /\ Intake!Part(s, i, fit).atts = {a \in s[i].atts : <<i, a>> \in fit}
        /\ Intake!Part(s, i, over).atts = {a \in s[i].atts : <<i, a>> \in over}
    BY DEF Intake!Part, Intake!Prepared
  <2> QED
    BY <1>2, <2>1
<1> HIDE DEF over
<1>4. I \in SUBSET DOMAIN s /\ J \in SUBSET DOMAIN s
  OBVIOUS
<1>5. /\ \A i \in I : s[i].atts = {} \/ Intake!Part(s, i, fit).atts # {}
      /\ \A i \in DOMAIN s \ I : s[i].atts # {} /\ Intake!Part(s, i, fit).atts = {}
      /\ \A i \in J : Intake!Part(s, i, over).atts # {}
      /\ \A i \in DOMAIN s \ J : Intake!Part(s, i, over).atts = {}
  OBVIOUS
<1> HIDE DEF I, J
<1>6. /\ IsGroup(T)
      /\ \A m : Has(T, m) <=> \E i \in I : s[i].id = m
      /\ \A i \in I : Of(T, s[i].id) = Intake!Part(s, i, fit).atts
  BY <1>1, <1>4, PartsFacts
<1>7. /\ IsGroup(L)
      /\ \A m : Has(L, m) <=> \E i \in J : s[i].id = m
      /\ \A i \in J : Of(L, s[i].id) = Intake!Part(s, i, over).atts
  BY <1>1, <1>4, PartsFacts
<1>8. ASSUME NEW m
      PROVE  /\ Has(s, m) <=> Has(T, m) \/ Has(L, m)
             /\ Of(s, m) = Of(T, m) \union Of(L, m)
             /\ Has(T, m) /\ Has(L, m) =>
                  /\ Of(T, m) # {} /\ Of(L, m) # {}
                  /\ Of(T, m) \intersect Of(L, m) = {}
  <2>1. CASE ~Has(s, m)
    <3>1. ~Has(T, m) /\ ~Has(L, m)
      BY <1>4, <1>6, <1>7, <2>1 DEF Has
    <3> QED
      BY <1>6, <1>7, <2>1, <3>1, GroupFacts
  <2>2. CASE Has(s, m)
    <3>1. PICK i \in DOMAIN s : s[i].id = m
      BY <2>2 DEF Has
    <3>2. \A j \in DOMAIN s : s[j].id = m => j = i
      BY <3>1, GroupFacts
    <3>3. Of(s, m) = s[i].atts
      BY <3>1, GroupFacts
    <3>4. /\ Has(T, m) <=> i \in I
          /\ Has(L, m) <=> i \in J
      BY <1>4, <1>6, <1>7, <3>1, <3>2
    <3>5. i \in I \/ i \in J
      BY <1>3, <1>5
    <3>6. /\ Of(T, m) = Intake!Part(s, i, fit).atts
          /\ Of(L, m) = Intake!Part(s, i, over).atts
      <4>1. i \in I => Of(T, m) = Intake!Part(s, i, fit).atts
        BY <1>6, <3>1
      <4>2. i \in J => Of(L, m) = Intake!Part(s, i, over).atts
        BY <1>7, <3>1
      <4>3. i \notin I => Of(T, m) = {}
        BY <1>6, <3>4, GroupFacts
      <4>4. i \notin J => Of(L, m) = {}
        BY <1>7, <3>4, GroupFacts
      <4> QED
        BY <1>5, <4>1, <4>2, <4>3, <4>4
    <3> QED
      BY <1>3, <1>5, <2>2, <3>3, <3>4, <3>5, <3>6
  <2> QED
    BY <2>1, <2>2
<1> QED
  BY <1>6, <1>7, <1>8 DEF Splits, T, L

-----------------------------------------------------------------------------
\* In some of the groups of G.
Somewhere(G, m) == \E h \in DOMAIN G : Has(G[h], m)
\* Two groups that have the message have different attachments of it.
AttsApart(G, m) ==
  \A h, k \in DOMAIN G :
    h # k /\ Has(G[h], m) /\ Has(G[k], m)
    => Of(G[h], m) # {} /\ Of(G[h], m) \intersect Of(G[k], m) = {}
\* The groups have every attachment of A, and the message, once.
Whole(G, m, A) ==
  /\ Somewhere(G, m)
  /\ UNION {Of(G[h], m) : h \in DOMAIN G} = A
  /\ AttsApart(G, m)
Joint(G, m, n) == \E h \in DOMAIN G : Has(G[h], m) /\ Has(G[h], n)

AreGroups(G) == \A h \in DOMAIN G : IsGroup(G[h])

\* Where the groups that have m are the same, but for their places, m is as whole.
LEMMA WholeMoved ==
  ASSUME NEW G, AreGroups(G), NEW H, AreGroups(H), NEW m,
         NEW from \in [DOMAIN H -> DOMAIN G],
         \A h \in DOMAIN H : Has(H[h], m) =>
           Has(G[from[h]], m) /\ Of(H[h], m) = Of(G[from[h]], m),
         \A g \in DOMAIN G : Has(G[g], m) =>
           \E h \in DOMAIN H : from[h] = g /\ Has(H[h], m),
         \A h, k \in DOMAIN H :
           Has(H[h], m) /\ Has(H[k], m) /\ from[h] = from[k] => h = k
  PROVE  /\ Somewhere(H, m) <=> Somewhere(G, m)
         /\ \A A : Whole(G, m, A) => Whole(H, m, A)
<1>1. Somewhere(H, m) <=> Somewhere(G, m)
  BY DEF Somewhere
<1>2. AttsApart(G, m) => AttsApart(H, m)
  <2> SUFFICES ASSUME AttsApart(G, m), NEW h \in DOMAIN H, NEW k \in DOMAIN H,
                      h # k, Has(H[h], m), Has(H[k], m)
               PROVE  Of(H[h], m) # {} /\ Of(H[h], m) \intersect Of(H[k], m) = {}
    BY DEF AttsApart
  <2>1. /\ from[h] \in DOMAIN G /\ from[k] \in DOMAIN G /\ from[h] # from[k]
        /\ Has(G[from[h]], m) /\ Has(G[from[k]], m)
    OBVIOUS
  <2> QED
    BY <2>1 DEF AttsApart
<1>3. UNION {Of(H[h], m) : h \in DOMAIN H} = UNION {Of(G[g], m) : g \in DOMAIN G}
  <2>1. ASSUME NEW h \in DOMAIN H, NEW a \in Of(H[h], m)
        PROVE  \E g \in DOMAIN G : a \in Of(G[g], m)
    <3>1. Has(H[h], m)
      BY <2>1, GroupFacts DEF AreGroups
    <3> QED
      BY <2>1, <3>1
  <2>2. ASSUME NEW g \in DOMAIN G, NEW a \in Of(G[g], m)
        PROVE  \E h \in DOMAIN H : a \in Of(H[h], m)
    <3>1. Has(G[g], m)
      BY <2>2, GroupFacts DEF AreGroups
    <3>2. PICK h \in DOMAIN H : from[h] = g /\ Has(H[h], m)
      BY <3>1
    <3> QED
      BY <2>2, <3>2
  <2> QED
    BY <2>1, <2>2
<1> QED
  BY <1>1, <1>2, <1>3 DEF Whole

\* A group is passed on: k's becomes a group of its own, n.
Passed(G, H, k, n) ==
  /\ k \in DOMAIN G /\ n \notin DOMAIN G /\ DOMAIN H = DOMAIN G \union {n}
  /\ H[n] = G[k] /\ H[k] = <<>>
  /\ \A h \in DOMAIN G \ {k} : H[h] = G[h]

LEMMA PassedKeeps ==
  ASSUME NEW G, AreGroups(G), NEW H, NEW k, NEW n, Passed(G, H, k, n)
  PROVE  /\ AreGroups(H)
         /\ \A m : /\ Somewhere(H, m) <=> Somewhere(G, m)
                   /\ \A A : Whole(G, m, A) => Whole(H, m, A)
         /\ \A l, m : Joint(G, l, m) => Joint(H, l, m)
<1>1. AreGroups(H)
  BY EmptyGroup DEF Passed, AreGroups
<1>2. ASSUME NEW m
      PROVE  /\ Somewhere(H, m) <=> Somewhere(G, m)
             /\ \A A : Whole(G, m, A) => Whole(H, m, A)
  <2> DEFINE from == [h \in DOMAIN H |-> IF h = n THEN k ELSE h]
  <2>1. /\ from \in [DOMAIN H -> DOMAIN G]
        /\ \A h \in DOMAIN H : from[h] = IF h = n THEN k ELSE h
    BY DEF Passed
  <2> HIDE DEF from
  <2>2. \A h \in DOMAIN H : Has(H[h], m) => h # k /\ H[h] = G[from[h]]
    BY <2>1, EmptyGroup DEF Passed
  <2>3. \A g \in DOMAIN G : Has(G[g], m) => \E h \in DOMAIN H : from[h] = g /\ Has(H[h], m)
    BY <2>1 DEF Passed
  <2>4. \A h, j \in DOMAIN H :
          Has(H[h], m) /\ Has(H[j], m) /\ from[h] = from[j] => h = j
    BY <2>1, <2>2 DEF Passed
  <2>5. \A h \in DOMAIN H : Has(H[h], m) =>
          Has(G[from[h]], m) /\ Of(H[h], m) = Of(G[from[h]], m)
    BY <2>2
  <2> QED
    BY <1>1, <2>1, <2>3, <2>4, <2>5, WholeMoved
<1>3. \A l, m : Joint(G, l, m) => Joint(H, l, m)
  BY DEF Joint, Passed
<1> QED
  BY <1>1, <1>2, <1>3

\* Groups are dropped.
Dropped(G, H) ==
  /\ DOMAIN H = DOMAIN G
  /\ \A h \in DOMAIN G : H[h] = G[h] \/ H[h] = <<>>

LEMMA DroppedKeeps ==
  ASSUME NEW G, AreGroups(G), NEW H, Dropped(G, H)
  PROVE  /\ AreGroups(H)
         /\ \A m : Somewhere(H, m) => Somewhere(G, m)
         /\ \A m : (\A h \in DOMAIN G : H[h] # G[h] => ~Has(G[h], m)) =>
              /\ Somewhere(G, m) => Somewhere(H, m)
              /\ \A A : Whole(G, m, A) => Whole(H, m, A)
              /\ \A l : Joint(G, l, m) => Joint(H, l, m)
<1>1. AreGroups(H)
  BY EmptyGroup DEF Dropped, AreGroups
<1>2. \A m : Somewhere(H, m) => Somewhere(G, m)
  BY EmptyGroup DEF Dropped, Somewhere
<1>3. ASSUME NEW m, \A h \in DOMAIN G : H[h] # G[h] => ~Has(G[h], m)
      PROVE  /\ Somewhere(G, m) => Somewhere(H, m)
             /\ \A A : Whole(G, m, A) => Whole(H, m, A)
             /\ \A l : Joint(G, l, m) => Joint(H, l, m)
  <2> DEFINE from == [h \in DOMAIN H |-> h]
  <2>1. from \in [DOMAIN H -> DOMAIN G] /\ \A h \in DOMAIN H : from[h] = h
    BY DEF Dropped
  <2> HIDE DEF from
  <2>2. \A h \in DOMAIN H : Has(H[h], m) =>
          Has(G[from[h]], m) /\ Of(H[h], m) = Of(G[from[h]], m)
    BY <2>1, EmptyGroup DEF Dropped
  <2>3. \A g \in DOMAIN G : Has(G[g], m) => \E h \in DOMAIN H : from[h] = g /\ Has(H[h], m)
    BY <1>3, <2>1 DEF Dropped
  <2>4. \A h, j \in DOMAIN H :
          Has(H[h], m) /\ Has(H[j], m) /\ from[h] = from[j] => h = j
    BY <2>1
  <2>5. \A l : Joint(G, l, m) => Joint(H, l, m)
    BY <1>3 DEF Joint, Dropped
  <2> QED
    BY <1>1, <2>1, <2>2, <2>3, <2>4, <2>5, WholeMoved
<1> QED
  BY <1>1, <1>2, <1>3

\* A message that is nowhere joins group d.
Joined(G, H, d, p) ==
  /\ d \in DOMAIN G /\ DOMAIN H = DOMAIN G
  /\ p \in [id : Intake!Msgs, atts : SUBSET Nat] /\ ~Somewhere(G, p.id)
  /\ H[d] = Append(G[d], p)
  /\ \A h \in DOMAIN G \ {d} : H[h] = G[h]

LEMMA AppendedGroup ==
  ASSUME NEW g, IsGroup(g), NEW p \in [id : Intake!Msgs, atts : SUBSET Nat], ~Has(g, p.id)
  PROVE  /\ IsGroup(Append(g, p))
         /\ \A m : Has(Append(g, p), m) <=> Has(g, m) \/ m = p.id
         /\ \A m : m # p.id => Of(Append(g, p), m) = Of(g, m)
         /\ Of(Append(g, p), p.id) = p.atts
<1>1. PICK R : R = [id : Intake!Msgs, atts : SUBSET Nat]
  OBVIOUS
<1>2. g \in Seq(R) /\ p \in R /\ Len(g) \in Nat /\ DOMAIN g = 1..Len(g)
  BY <1>1, GroupFacts
<1>3. PICK e : e = Append(g, p)
  OBVIOUS
<1>4. /\ e \in Seq(R) /\ DOMAIN e = 1..(Len(g) + 1)
      /\ \A i \in 1..Len(g) : e[i] = g[i]
      /\ e[Len(g) + 1] = p
  <2>1. /\ e \in Seq(R) /\ Len(e) = Len(g) + 1
        /\ \A i \in 1..Len(g) : e[i] = g[i]
        /\ e[Len(g) + 1] = p
    BY <1>2, <1>3, AppendProperties
  <2> QED
    BY <1>2, <2>1, LenProperties
<1>5. \A i \in DOMAIN e : i \in DOMAIN g \/ i = Len(g) + 1
  BY <1>2, <1>4
<1>6. \A i \in DOMAIN g : i \in DOMAIN e /\ e[i] = g[i] /\ i # Len(g) + 1
  BY <1>2, <1>4
<1>7. Len(g) + 1 \in DOMAIN e
  BY <1>2, <1>4
<1>8. \A i, j \in DOMAIN e : e[i].id = e[j].id => i = j
  <2>1. \A i, j \in DOMAIN g : g[i].id = g[j].id => i = j
    BY GroupFacts
  <2>2. \A i \in DOMAIN g : g[i].id # p.id
    BY DEF Has
  <2> QED
    BY <1>4, <1>5, <1>6, <2>1, <2>2
<1>9. IsGroup(e)
  BY <1>1, <1>4, <1>8 DEF IsGroup
<1>10. \A m : Has(e, m) <=> Has(g, m) \/ m = p.id
  BY <1>4, <1>5, <1>6, <1>7 DEF Has
<1>11. ASSUME NEW m, m # p.id
       PROVE  Of(e, m) = Of(g, m)
  <2>1. {j \in DOMAIN e : e[j].id = m} = {j \in DOMAIN g : g[j].id = m}
    BY <1>4, <1>5, <1>6, <1>11
  <2>2. \A j \in {k \in DOMAIN g : g[k].id = m} : e[j].atts = g[j].atts
    BY <1>6
  <2> QED
    BY <2>1, <2>2 DEF Of
<1>12. Of(e, p.id) = p.atts
  BY <1>4, <1>7, <1>9, GroupFacts
<1> QED
  BY <1>3, <1>9, <1>10, <1>11, <1>12

\* What the groups gain when p joins group d.
Gains(G, H, d, p) ==
  /\ \A m : Somewhere(H, m) <=> Somewhere(G, m) \/ m = p.id
  /\ \A m, A : m # p.id /\ Whole(G, m, A) => Whole(H, m, A)
  /\ Whole(H, p.id, p.atts)
  /\ \A l, m : Joint(G, l, m) => Joint(H, l, m)
  /\ \A m : Has(H[d], m) <=> Has(G[d], m) \/ m = p.id

LEMMA JoinedKeeps ==
  ASSUME NEW G, AreGroups(G), NEW H, NEW d, NEW p, Joined(G, H, d, p)
  PROVE  /\ AreGroups(H)
         /\ \A m : Somewhere(H, m) <=> Somewhere(G, m) \/ m = p.id
         /\ \A m, A : m # p.id /\ Whole(G, m, A) => Whole(H, m, A)
         /\ Whole(H, p.id, p.atts)
         /\ \A l, m : Joint(G, l, m) => Joint(H, l, m)
         /\ \A m : Has(H[d], m) <=> Has(G[d], m) \/ m = p.id
<1>1. ~Has(G[d], p.id) /\ IsGroup(G[d]) /\ d \in DOMAIN G
  BY DEF Joined, Somewhere, AreGroups
<1>2. /\ IsGroup(H[d])
      /\ \A m : Has(H[d], m) <=> Has(G[d], m) \/ m = p.id
      /\ \A m : m # p.id => Of(H[d], m) = Of(G[d], m)
      /\ Of(H[d], p.id) = p.atts
  BY <1>1, AppendedGroup DEF Joined
<1>3. AreGroups(H)
  BY <1>2 DEF Joined, AreGroups
<1>4. \A m : Somewhere(H, m) <=> Somewhere(G, m) \/ m = p.id
  BY <1>1, <1>2 DEF Joined, Somewhere
<1>5. ASSUME NEW m, m # p.id
      PROVE  \A A : Whole(G, m, A) => Whole(H, m, A)
  <2> DEFINE from == [h \in DOMAIN H |-> h]
  <2>1. from \in [DOMAIN H -> DOMAIN G] /\ \A h \in DOMAIN H : from[h] = h
    BY DEF Joined
  <2> HIDE DEF from
  <2>2. \A h \in DOMAIN H : (Has(H[h], m) <=> Has(G[h], m)) /\ Of(H[h], m) = Of(G[h], m)
    BY <1>2, <1>5 DEF Joined
  <2>3. \A g \in DOMAIN G : Has(G[g], m) => \E h \in DOMAIN H : from[h] = g /\ Has(H[h], m)
    BY <2>1, <2>2 DEF Joined
  <2> QED
    BY <1>3, <2>1, <2>2, <2>3, WholeMoved
<1>6. Whole(H, p.id, p.atts)
  <2>1. \A h \in DOMAIN H : h # d => ~Has(H[h], p.id) /\ Of(H[h], p.id) = {}
    BY <1>3, GroupFacts DEF Joined, Somewhere, AreGroups
  <2>2. d \in DOMAIN H /\ Has(H[d], p.id)
    BY <1>1, <1>2 DEF Joined
  <2>3. UNION {Of(H[h], p.id) : h \in DOMAIN H} = p.atts
    BY <1>2, <2>1, <2>2
  <2>4. AttsApart(H, p.id)
    BY <2>1 DEF AttsApart
  <2> QED
    BY <2>2, <2>3, <2>4 DEF Whole, Somewhere
<1>7. \A l, m : Joint(G, l, m) => Joint(H, l, m)
  BY <1>2 DEF Joint, Joined
<1> QED
  BY <1>2, <1>3, <1>4, <1>5, <1>6, <1>7

LEMMA JoinGains ==
  ASSUME NEW G, AreGroups(G), NEW H, NEW d, NEW p, Joined(G, H, d, p)
  PROVE  Gains(G, H, d, p)
  BY JoinedKeeps DEF Gains

\* An empty group is added.
LEMMA OpenedKeeps ==
  ASSUME NEW G, AreGroups(G), NEW H, NEW n, n \notin DOMAIN G, DOMAIN G # {},
         DOMAIN H = DOMAIN G \union {n}, H[n] = <<>>,
         \A h \in DOMAIN G : H[h] = G[h]
  PROVE  /\ AreGroups(H)
         /\ \A m : /\ Somewhere(H, m) <=> Somewhere(G, m)
                   /\ \A A : Whole(G, m, A) => Whole(H, m, A)
         /\ \A l, m : Joint(G, l, m) => Joint(H, l, m)
<1>1. AreGroups(H)
  BY EmptyGroup DEF AreGroups
<1>2. ASSUME NEW m
      PROVE  /\ Somewhere(H, m) <=> Somewhere(G, m)
             /\ \A A : Whole(G, m, A) => Whole(H, m, A)
  <2>1. PICK d \in DOMAIN G : TRUE
    OBVIOUS
  <2> DEFINE from == [h \in DOMAIN H |-> IF h = n THEN d ELSE h]
  <2>2. /\ from \in [DOMAIN H -> DOMAIN G]
        /\ \A h \in DOMAIN H : from[h] = IF h = n THEN d ELSE h
    OBVIOUS
  <2> HIDE DEF from
  <2>3. \A h \in DOMAIN H : Has(H[h], m) => h # n /\ h \in DOMAIN G /\ H[h] = G[h]
    BY EmptyGroup
  <2>4. \A h \in DOMAIN H : Has(H[h], m) =>
          Has(G[from[h]], m) /\ Of(H[h], m) = Of(G[from[h]], m)
    BY <2>2, <2>3
  <2>5. \A g \in DOMAIN G : Has(G[g], m) => \E h \in DOMAIN H : from[h] = g /\ Has(H[h], m)
    BY <2>2
  <2>6. \A h, j \in DOMAIN H :
          Has(H[h], m) /\ Has(H[j], m) /\ from[h] = from[j] => h = j
    BY <2>2, <2>3
  <2> QED
    BY <1>1, <2>2, <2>4, <2>5, <2>6, WholeMoved
<1>3. \A l, m : Joint(G, l, m) => Joint(H, l, m)
  BY DEF Joint
<1> QED
  BY <1>1, <1>2, <1>3

\* A flush k that holds nothing takes part of group d, or all of it.
Parted(G, H, d, k) ==
  /\ d \in DOMAIN G /\ k \in DOMAIN G /\ d # k /\ DOMAIN H = DOMAIN G
  /\ G[k] = <<>> /\ Splits(G[d], H[k], H[d])
  /\ \A h \in DOMAIN G \ {d, k} : H[h] = G[h]

LEMMA PartedKeeps ==
  ASSUME NEW G, AreGroups(G), NEW H, NEW d, NEW k, Parted(G, H, d, k)
  PROVE  /\ AreGroups(H)
         /\ \A m : /\ Somewhere(H, m) <=> Somewhere(G, m)
                   /\ \A A : Whole(G, m, A) => Whole(H, m, A)
         /\ H[d] = <<>> => \A l, m : Joint(G, l, m) => Joint(H, l, m)
<1>1. AreGroups(H)
  BY DEF Parted, Splits, AreGroups
<1>2. \A m : Somewhere(H, m) <=> Somewhere(G, m)
  <2>1. \A m : (Has(G[d], m) <=> Has(H[k], m) \/ Has(H[d], m)) /\ ~Has(G[k], m)
    BY EmptyGroup DEF Parted, Splits
  <2> QED
    BY <2>1 DEF Parted, Somewhere
<1>3. ASSUME NEW m, AttsApart(G, m)
      PROVE  AttsApart(H, m)
  <2> SUFFICES ASSUME NEW h \in DOMAIN H, NEW j \in DOMAIN H,
                      h # j, Has(H[h], m), Has(H[j], m)
               PROVE  Of(H[h], m) # {} /\ Of(H[h], m) \intersect Of(H[j], m) = {}
    BY DEF AttsApart
  <2>1. /\ Has(G[d], m) <=> Has(H[k], m) \/ Has(H[d], m)
        /\ Of(G[d], m) = Of(H[k], m) \union Of(H[d], m)
        /\ Has(H[k], m) /\ Has(H[d], m) =>
             /\ Of(H[k], m) # {} /\ Of(H[d], m) # {}
             /\ Of(H[k], m) \intersect Of(H[d], m) = {}
        /\ d \in DOMAIN G /\ DOMAIN H = DOMAIN G
        /\ \A i \in DOMAIN G \ {d, k} : H[i] = G[i]
    BY DEF Parted, Splits
  <2>2. /\ ~Has(H[k], m) => Of(H[k], m) = {}
        /\ ~Has(H[d], m) => Of(H[d], m) = {}
    BY <1>1, GroupFacts DEF Parted, AreGroups
  <2>3. \A i \in DOMAIN G \ {d} : Has(G[i], m) /\ Has(G[d], m) =>
          /\ Of(G[i], m) # {} /\ Of(G[d], m) # {}
          /\ Of(G[i], m) \intersect Of(G[d], m) = {}
          /\ Of(G[d], m) \intersect Of(G[i], m) = {}
    BY <1>3, <2>1 DEF AttsApart
  <2>4. CASE h \in {d, k} /\ j \in {d, k}
    BY <2>1, <2>4
  <2>5. CASE h \in {d, k} /\ j \notin {d, k}
    <3>1. H[j] = G[j] /\ j \in DOMAIN G \ {d} /\ Has(G[d], m)
      BY <2>1, <2>5
    <3>2. Of(G[d], m) # {} /\ Of(G[d], m) \intersect Of(H[j], m) = {}
      BY <2>3, <3>1
    <3>3. Of(H[h], m) # {} /\ Of(H[h], m) \subseteq Of(G[d], m)
      BY <2>1, <2>2, <2>5, <3>2
    <3> QED
      BY <3>2, <3>3
  <2>6. CASE h \notin {d, k} /\ j \in {d, k}
    <3>1. H[h] = G[h] /\ h \in DOMAIN G \ {d} /\ Has(G[d], m)
      BY <2>1, <2>6
    <3>2. Of(H[h], m) # {} /\ Of(H[h], m) \intersect Of(G[d], m) = {}
      BY <2>3, <3>1
    <3>3. Of(H[j], m) \subseteq Of(G[d], m)
      BY <2>1, <2>6
    <3> QED
      BY <3>2, <3>3
  <2>7. CASE h \notin {d, k} /\ j \notin {d, k}
    BY <1>3, <2>1, <2>7 DEF AttsApart
  <2> QED
    BY <2>4, <2>5, <2>6, <2>7
<1>4. ASSUME NEW m
      PROVE  UNION {Of(H[h], m) : h \in DOMAIN H} = UNION {Of(G[g], m) : g \in DOMAIN G}
  <2>1. /\ Of(G[d], m) = Of(H[k], m) \union Of(H[d], m) /\ Of(G[k], m) = {}
        /\ d \in DOMAIN G /\ k \in DOMAIN G /\ DOMAIN H = DOMAIN G
        /\ \A i \in DOMAIN G \ {d, k} : H[i] = G[i]
    BY EmptyGroup DEF Parted, Splits
  <2>2. \A a : (\E h \in DOMAIN H : a \in Of(H[h], m)) <=> (\E g \in DOMAIN G : a \in Of(G[g], m))
    BY <2>1
  <2> QED
    BY <2>2
<1>5. ASSUME H[d] = <<>>, NEW l, NEW m, Joint(G, l, m)
      PROVE  Joint(H, l, m)
  <2>1. PICK g \in DOMAIN G : Has(G[g], l) /\ Has(G[g], m)
    BY <1>5 DEF Joint
  <2>2. g # k
    BY <2>1, EmptyGroup DEF Parted
  <2>3. CASE g = d
    BY <1>5, <2>1, <2>3, EmptyGroup DEF Parted, Splits, Joint
  <2>4. CASE g # d
    BY <2>1, <2>2, <2>4 DEF Parted, Joint
  <2> QED
    BY <2>3, <2>4
<1> QED
  BY <1>1, <1>2, <1>3, <1>4, <1>5 DEF Whole

\* The groups are the draft, what each flush holds, and what was routed.
Grouped(G, d, F, r) ==
  /\ DOMAIN G = 1..(1 + NFlush + Len(r))
  /\ G[1] = d
  /\ \A f \in Intake!Flushes : G[1 + f] = F[f].group
  /\ \A i \in 1..Len(r) : G[1 + NFlush + i] = r[i]

LEMMA GroupsAre ==
  ASSUME NFlush \in Nat, NEW P, NEW d \in Seq(P), NEW F, NEW r \in Seq(Seq(P)),
         \A f \in Intake!Flushes : F[f].group \in Seq(P)
  PROVE  Grouped(<<d>> \o [f \in Intake!Flushes |-> F[f].group] \o r, d, F, r)
<1>1. PICK S : S = Seq(P)
  OBVIOUS
<1>2. PICK a : a = <<d>>
  OBVIOUS
<1>3. PICK b : b = [f \in 1..NFlush |-> F[f].group]
  OBVIOUS
<1>4. a \in Seq(S) /\ Len(a) = 1 /\ a[1] = d
  BY <1>1, <1>2
<1>5. b \in Seq(S) /\ Len(b) = NFlush /\ \A f \in 1..NFlush : b[f] = F[f].group
  <2>1. \A f \in 1..NFlush : b[f] \in S /\ b[f] = F[f].group
    BY <1>1, <1>3 DEF Intake!Flushes
  <2>2. b \in [1..NFlush -> S]
    BY <1>3, <2>1
  <2>3. b \in Seq(S)
    BY <2>2
  <2>4. Len(b) = NFlush
    BY <2>2, <2>3, LenProperties
  <2> QED
    BY <2>1, <2>3, <2>4
<1>6. r \in Seq(S) /\ Len(r) \in Nat
  BY <1>1
<1>7. PICK c : c = a \o b
  OBVIOUS
<1>8. /\ c \in Seq(S) /\ Len(c) = 1 + NFlush
      /\ \A i \in 1..(1 + NFlush) : c[i] = IF i <= 1 THEN a[i] ELSE b[i - 1]
  <2>1. /\ a \o b \in Seq(S) /\ Len(a \o b) = Len(a) + Len(b)
        /\ \A i \in 1..(Len(a) + Len(b)) : (a \o b)[i] = IF i <= Len(a) THEN a[i] ELSE b[i - Len(a)]
    BY <1>4, <1>5, ConcatProperties
  <2> QED
    BY <1>4, <1>5, <1>7, <2>1
<1>9. PICK e : e = c \o r
  OBVIOUS
<1>10. /\ e \in Seq(S) /\ Len(e) = 1 + NFlush + Len(r)
       /\ \A i \in 1..(1 + NFlush + Len(r)) :
            e[i] = IF i <= 1 + NFlush THEN c[i] ELSE r[i - (1 + NFlush)]
  <2>1. /\ c \o r \in Seq(S) /\ Len(c \o r) = Len(c) + Len(r)
        /\ \A i \in 1..(Len(c) + Len(r)) : (c \o r)[i] = IF i <= Len(c) THEN c[i] ELSE r[i - Len(c)]
    BY <1>6, <1>8, ConcatProperties
  <2> QED
    BY <1>6, <1>8, <1>9, <2>1
<1>11. DOMAIN e = 1..(1 + NFlush + Len(r)) /\ e[1] = d
  BY <1>4, <1>6, <1>8, <1>10, LenProperties
<1>12. \A f \in 1..NFlush : e[1 + f] = F[f].group
  BY <1>5, <1>6, <1>8, <1>10
<1>13. \A i \in 1..Len(r) : e[1 + NFlush + i] = r[i]
  <2> SUFFICES ASSUME NEW i \in 1..Len(r)
               PROVE  e[1 + NFlush + i] = r[i]
    OBVIOUS
  <2>1. /\ 1 + NFlush + i \in 1..(1 + NFlush + Len(r)) /\ ~(1 + NFlush + i <= 1 + NFlush)
        /\ (1 + NFlush + i) - (1 + NFlush) = i
    BY <1>6
  <2> QED
    BY <1>10, <2>1
<1>14. Grouped(e, d, F, r)
  BY <1>11, <1>12, <1>13 DEF Grouped, Intake!Flushes
<1> QED
  BY <1>2, <1>3, <1>7, <1>9, <1>14 DEF Intake!Flushes

-----------------------------------------------------------------------------
\* The main loop, and what it may have in hand.
LoopShape ==
  /\ \/ main \in [at : {"poll", "next", "outbound", "sleep"}, msg : {0}]
     \/ main \in [at : {"prepare", "route"}, msg : claims]
  /\ rest \in Seq(1..cursor)
  /\ main.at \in {"poll", "outbound", "sleep"} => rest = <<>>
  /\ batch \in {"none", "texts", "files"}
  /\ main.at = "route" =>
       kind[main.msg] = "command" \/ (kind[main.msg] # "files" /\ batch # "files")

\* What the server has sent, and what has been claimed of it.
StoreShape ==
  /\ kind \in [Intake!Msgs -> {"none"} \union Intake!Kinds]
  /\ \A m, n \in Intake!Msgs : m <= n /\ kind[n] # "none" => kind[m] # "none"
  /\ cursor \in 0..NMsg
  /\ \A m \in Intake!Msgs : m <= cursor => kind[m] # "none"
  /\ claims \subseteq 1..cursor
  /\ seen \subseteq claims \union lost
  /\ poll \in [Intake!Msgs -> 0..cursor]
  /\ \A m \in Intake!Msgs : poll[m] # 0 <=> m <= cursor
  /\ saved \in [Intake!Msgs -> SUBSET Nat]
  /\ \A m \in Intake!Msgs : kind[m] # "files" => saved[m] = {}

\* The batch, the flushes, and what was routed.
GroupShape ==
  /\ IsGroup(draft)
  /\ held \in [timer : BOOLEAN, deferred : BOOLEAN]
  /\ split \in BOOLEAN
  /\ flushing \in [Intake!Flushes -> [at : {"none", "memory", "route"},
                                      group : Seq([id : Intake!Msgs, atts : SUBSET Nat]),
                                      more : BOOLEAN]]
  /\ \A f \in Intake!Flushes :
       /\ IsGroup(flushing[f].group)
       /\ flushing[f].at = "none" => flushing[f].group = <<>>
       /\ flushing[f].more => split
  /\ routed \in Seq(Seq([id : Intake!Msgs, atts : SUBSET Nat]))
  /\ \A i \in DOMAIN routed : IsGroup(routed[i])

\* A message is prepared after it was claimed, and by then the main loop is done with it.
OnceClaimed ==
  \A m \in Intake!Msgs : Somewhere(Intake!Groups, m) => m \in claims /\ m # main.msg

\* No message that was not dropped is lost on the way.
Carried ==
  \A m \in Intake!Msgs \ lost :
    /\ m \in claims /\ main.msg # m => Whole(Intake!Groups, m, saved[m])
    /\ poll[m] # 0 =>
         Somewhere(Intake!Groups, m) \/ main.msg = m \/ m \in {rest[i] : i \in DOMAIN rest}

\* A text and an attachment of one poll.
Mates(m, n) ==
  /\ poll[m] = poll[n] /\ poll[m] # 0
  /\ kind[m] \in {"text", "prelude"} /\ kind[n] = "files"
\* The poll has one of them, or neither; what it has handled waits in the draft.
Awaited(m, n) ==
  /\ batch = "files"
  /\ ~(Somewhere(Intake!Groups, m) /\ Somewhere(Intake!Groups, n))
  /\ \A x \in {m, n} :
       Somewhere(Intake!Groups, x) => Has(draft, x) /\ ~held.timer
Coupled ==
  ~split =>
    \A m, n \in Intake!Msgs \ lost :
      Mates(m, n) => Joint(Intake!Groups, m, n) \/ Awaited(m, n)

IntakeInv == LoopShape /\ StoreShape /\ GroupShape /\ OnceClaimed /\ Carried /\ Coupled

USE DEF Intake!Msgs, Intake!Flushes

LEMMA IntakeMax ==
  ASSUME NEW n \in Nat, NEW S \in SUBSET (0..n), S # {}
  PROVE  Intake!Max(S) \in S /\ \A x \in S : x <= Intake!Max(S)
<1> DEFINE R == {ss \in Nat \X Nat : ss[1] < ss[2]}
           T == {n - x : x \in S}
<1>1. IsWellFoundedOn(R, Nat)
  BY NatLessThanWellFounded DEF OpToRel
<1>2. \A x, y \in Nat : y < x => <<y, x>> \in R
  OBVIOUS
<1>3. /\ T \in SUBSET Nat /\ T # {}
      /\ \A x \in S : x \in Nat /\ n - x \in Nat /\ n - x \in T
  <2>1. \A x \in S : x \in Nat /\ n - x \in Nat
    OBVIOUS
  <2> QED
    BY <2>1
<1> HIDE DEF R
<1>4. PICK y \in T : \A z \in T : ~(<<z, y>> \in R)
  BY <1>1, <1>3, WFMin
<1>5. PICK x \in S : y = n - x
  OBVIOUS
<1>6. ASSUME NEW z \in S
      PROVE  z <= x
  <2>1. n - z \in Nat /\ n - x \in Nat /\ ~(n - z < n - x) /\ z \in Nat /\ x \in Nat
    BY <1>2, <1>3, <1>4, <1>5
  <2> QED
    BY <2>1
<1>7. \E w \in S : \A z \in S : w >= z
  BY <1>5, <1>6
<1>8. Intake!Max(S) \in S /\ \A z \in S : Intake!Max(S) >= z
  BY <1>7, Zenon DEF Intake!Max
<1> QED
  BY <1>8

\* The groups of a state, and of the next one.
LEMMA GroupsNow ==
  ASSUME Intake!IntakeAssumption, GroupShape
  PROVE  /\ Grouped(Intake!Groups, draft, flushing, routed)
         /\ AreGroups(Intake!Groups)
<1>1. Grouped(Intake!Groups, draft, flushing, routed)
  <2>1. PICK P : P = [id : Intake!Msgs, atts : SUBSET Nat]
    OBVIOUS
  <2>2. /\ draft \in Seq(P) /\ routed \in Seq(Seq(P)) /\ NFlush \in Nat
        /\ \A f \in Intake!Flushes : flushing[f].group \in Seq(P)
    BY <2>1 DEF Intake!IntakeAssumption, GroupShape, IsGroup
  <2> QED
    BY <2>2, GroupsAre DEF Intake!Groups
<1>2. ASSUME NEW h \in DOMAIN Intake!Groups
      PROVE  IsGroup(Intake!Groups[h])
  <2>1. NFlush \in Nat /\ Len(routed) \in Nat /\ DOMAIN routed = 1..Len(routed)
    BY DEF Intake!IntakeAssumption, GroupShape
  <2>2. \/ h = 1 \/ (\E f \in 1..NFlush : h = 1 + f)
        \/ \E i \in 1..Len(routed) : h = 1 + NFlush + i
    <3>1. h \in 1..(1 + NFlush + Len(routed))
      BY <1>1 DEF Grouped
    <3>2. CASE h = 1
      BY <3>2
    <3>3. CASE 1 < h /\ h <= 1 + NFlush
      <4>1. h - 1 \in 1..NFlush /\ h = 1 + (h - 1)
        BY <2>1, <3>1, <3>3
      <4> QED
        BY <4>1
    <3>4. CASE 1 + NFlush < h
      <4>1. h - (1 + NFlush) \in 1..Len(routed) /\ h = 1 + NFlush + (h - (1 + NFlush))
        BY <2>1, <3>1, <3>4
      <4> QED
        BY <4>1
    <3> QED
      BY <2>1, <3>1, <3>2, <3>3, <3>4
  <2>3. CASE h = 1
    BY <1>1, <2>3 DEF Grouped, GroupShape
  <2>4. CASE \E f \in 1..NFlush : h = 1 + f
    <3>1. PICK f \in Intake!Flushes : h = 1 + f
      BY <2>4 DEF Intake!Flushes
    <3>2. Intake!Groups[h] = flushing[f].group
      BY <1>1, <3>1 DEF Grouped
    <3>3. IsGroup(flushing[f].group)
      BY DEF GroupShape
    <3> QED
      BY <3>2, <3>3
  <2>5. CASE \E i \in 1..Len(routed) : h = 1 + NFlush + i
    <3>1. PICK i \in 1..Len(routed) : h = 1 + NFlush + i
      BY <2>5
    <3>2. Intake!Groups[h] = routed[i]
      BY <1>1, <3>1 DEF Grouped
    <3>3. IsGroup(routed[i])
      BY <2>1 DEF GroupShape
    <3> QED
      BY <3>2, <3>3
  <2> QED
    BY <2>2, <2>3, <2>4, <2>5
<1> QED
  BY <1>1, <1>2 DEF AreGroups

LEMMA GroupsNext ==
  ASSUME Intake!IntakeAssumption, GroupShape'
  PROVE  Grouped(Intake!Groups', draft', flushing', routed')
<1>1. PICK P : P = [id : Intake!Msgs, atts : SUBSET Nat]
  OBVIOUS
<1>2. /\ draft' \in Seq(P) /\ routed' \in Seq(Seq(P)) /\ NFlush \in Nat
      /\ \A f \in Intake!Flushes : flushing'[f].group \in Seq(P)
  BY <1>1 DEF Intake!IntakeAssumption, GroupShape, IsGroup
<1> QED
  BY <1>2, GroupsAre DEF Intake!Groups

LEMMA HasIds ==
  ASSUME NEW g, NEW m
  PROVE  Has(g, m) <=> m \in Intake!IdsOf(g)
  BY DEF Has, Intake!IdsOf

\* When the groups and the batch of the poll are as before.
LEMMA CoupledStays ==
  ASSUME Coupled, UNCHANGED <<Intake!Groups, draft, poll, kind, batch, split>>,
         lost \subseteq lost', held'.timer => held.timer
  PROVE  Coupled'
  BY DEF Coupled, Mates, Awaited

LEMMA CarriedStays ==
  ASSUME Carried, UNCHANGED <<Intake!Groups, saved, claims, poll, main, rest>>,
         lost \subseteq lost'
  PROVE  Carried'
  BY DEF Carried

\* When the main loop has nothing in hand, every message of a poll is prepared.
LEMMA CoupledAtRest ==
  ASSUME Coupled, UNCHANGED <<Intake!Groups, poll, kind, split>>, lost \subseteq lost',
         \A m \in Intake!Msgs \ lost' : poll[m] # 0 => Somewhere(Intake!Groups, m)
  PROVE  Coupled'
  BY DEF Coupled, Mates, Awaited

LEMMA IntakeInit ==
  ASSUME Intake!IntakeAssumption, Intake!Init
  PROVE  IntakeInv
<1>1. LoopShape
  BY DEF Intake!Init, Intake!Polling, LoopShape
<1>2. StoreShape
  BY DEF Intake!Init, StoreShape, Intake!IntakeAssumption
<1>3. GroupShape
  <2>1. /\ draft = <<>> /\ IsGroup(draft) /\ split = FALSE /\ routed = <<>>
        /\ held \in [timer : BOOLEAN, deferred : BOOLEAN]
    BY EmptyGroup DEF Intake!Init, Intake!Unheld
  <2>2. PICK P : P = [id : Intake!Msgs, atts : SUBSET Nat]
    OBVIOUS
  <2>3. Intake!NoFlush \in [at : {"none", "memory", "route"}, group : Seq(P), more : BOOLEAN]
        /\ Intake!NoFlush.group = <<>> /\ ~Intake!NoFlush.more
    BY DEF Intake!NoFlush
  <2>4. \A f \in Intake!Flushes : flushing[f] = Intake!NoFlush
    BY DEF Intake!Init
  <2>5. flushing \in [Intake!Flushes -> [at : {"none", "memory", "route"},
                                       group : Seq(P), more : BOOLEAN]]
    BY <2>3 DEF Intake!Init
  <2>6. routed \in Seq(Seq(P)) /\ DOMAIN routed = {}
    BY <2>1
  <2> QED
    BY <2>1, <2>2, <2>3, <2>4, <2>5, <2>6, EmptyGroup DEF GroupShape
<1>4. \A m : ~Somewhere(Intake!Groups, m)
  <2>1. /\ NFlush \in Nat /\ Len(routed) = 0 /\ draft = <<>>
        /\ \A f \in 1..NFlush : flushing[f].group = <<>>
    BY DEF Intake!Init, Intake!NoFlush, Intake!IntakeAssumption
  <2>2. Grouped(Intake!Groups, draft, flushing, routed)
    BY <1>3, GroupsNow
  <2>3. \A h \in DOMAIN Intake!Groups : Intake!Groups[h] = <<>>
    <3> SUFFICES ASSUME NEW h \in DOMAIN Intake!Groups
                 PROVE  Intake!Groups[h] = <<>>
      OBVIOUS
    <3>1. h = 1 \/ (h - 1 \in 1..NFlush /\ h = 1 + (h - 1))
      BY <2>1, <2>2 DEF Grouped
    <3> QED
      BY <2>1, <2>2, <3>1 DEF Grouped
  <2> QED
    BY <2>3, EmptyGroup DEF Somewhere
<1>5. OnceClaimed
  BY <1>4 DEF OnceClaimed
<1>6. Carried
  BY DEF Intake!Init, Carried
<1>7. Coupled
  BY DEF Intake!Init, Coupled, Mates
<1> QED
  BY <1>1, <1>2, <1>3, <1>5, <1>6, <1>7 DEF IntakeInv

-----------------------------------------------------------------------------
\* One lemma per action.
LEMMA GroupsSame ==
  ASSUME UNCHANGED <<draft, flushing, routed>>
  PROVE  Intake!Groups' = Intake!Groups
  BY DEF Intake!Groups

LEMMA IntakeSend ==
  ASSUME Intake!IntakeAssumption, IntakeInv, NEW k \in Intake!Kinds, Intake!Send(k)
  PROVE  IntakeInv'
<1>1. PICK m \in Intake!Msgs :
        /\ \A q \in Intake!Msgs : kind[q] = "none" <=> q >= m
        /\ kind' = [kind EXCEPT ![m] = k]
  BY DEF Intake!Send
<1>2. UNCHANGED <<cursor, claims, seen, main, rest, batch, draft, held, flushing, poll,
                  saved, routed, lost, split>>
  BY DEF Intake!Send, Intake!loop, Intake!pending, Intake!history
<1>3. /\ kind' \in [Intake!Msgs -> {"none"} \union Intake!Kinds]
      /\ kind[m] = "none" /\ kind'[m] = k /\ kind'[m] # "none"
      /\ \A q \in Intake!Msgs \ {m} : kind'[q] = kind[q]
  BY <1>1 DEF IntakeInv, StoreShape, Intake!Kinds
<1>4. NMsg \in Nat /\ \A q \in Intake!Msgs : q <= cursor => q # m
  BY <1>3 DEF Intake!IntakeAssumption, IntakeInv, StoreShape
<1>5. LoopShape'
  <2>1. main.at = "route" => main.msg \in claims
    BY DEF IntakeInv, LoopShape
  <2>2. \A q \in claims : q \in Intake!Msgs /\ q <= cursor
    BY <1>4 DEF IntakeInv, StoreShape
  <2>3. main.at = "route" => kind'[main.msg] = kind[main.msg]
    BY <1>3, <1>4, <2>1, <2>2
  <2> QED
    BY <1>2, <2>3 DEF IntakeInv, LoopShape
<1>6. StoreShape'
  <2>1. \A p, q \in Intake!Msgs : p <= q /\ kind'[q] # "none" => kind'[p] # "none"
    <3> SUFFICES ASSUME NEW p \in Intake!Msgs, NEW q \in Intake!Msgs,
                        p <= q, kind'[q] # "none"
                 PROVE  kind'[p] # "none"
      OBVIOUS
    <3>1. p < m \/ p = m
      <4>1. q = m \/ ~(q >= m)
        BY <1>1, <1>3
      <4> QED
        BY <1>4, <4>1
    <3>2. p < m => kind[p] # "none" /\ p # m
      BY <1>1, <1>4
    <3> QED
      BY <1>3, <3>1, <3>2
  <2>2. \A q \in Intake!Msgs : q <= cursor => kind'[q] # "none"
    BY <1>3 DEF IntakeInv, StoreShape
  <2>3. \A q \in Intake!Msgs : kind'[q] # "files" => saved[q] = {}
    <3>1. kind[m] # "files"
      BY <1>3
    <3> QED
      BY <1>3, <3>1 DEF IntakeInv, StoreShape
  <2> QED
    BY <1>2, <1>3, <2>1, <2>2, <2>3 DEF IntakeInv, StoreShape
<1>7. Intake!Groups' = Intake!Groups
  BY <1>2, GroupsSame
<1>8. GroupShape'
  BY <1>2 DEF IntakeInv, GroupShape
<1>9. OnceClaimed'
  BY <1>2, <1>7 DEF IntakeInv, OnceClaimed
<1>10. Carried'
  BY <1>2, <1>7, CarriedStays DEF IntakeInv
<1>11. Coupled'
  <2>1. \A p, q \in Intake!Msgs : Mates(p, q)' => Mates(p, q)
    <3>1. \A q \in Intake!Msgs : poll[q] # 0 => q # m /\ kind'[q] = kind[q]
      BY <1>3, <1>4 DEF IntakeInv, StoreShape
    <3> QED
      BY <1>2, <3>1 DEF Mates
  <2> QED
    BY <1>2, <1>7, <2>1 DEF IntakeInv, Coupled, Awaited
<1> QED
  BY <1>5, <1>6, <1>8, <1>9, <1>10, <1>11 DEF IntakeInv

LEMMA IntakeForget ==
  ASSUME Intake!IntakeAssumption, IntakeInv, NEW m \in Intake!Msgs, Intake!Forget(m)
  PROVE  IntakeInv'
<1>1. /\ UNCHANGED <<kind, cursor, claims, main, rest, batch, draft, held, flushing, poll,
                     saved, routed, lost, split>>
      /\ seen' \subseteq seen
  BY DEF Intake!Forget, Intake!store, Intake!loop, Intake!pending, Intake!history
<1>2. Intake!Groups' = Intake!Groups
  BY <1>1, GroupsSame
<1>3. LoopShape' /\ StoreShape' /\ GroupShape' /\ OnceClaimed'
  BY <1>1, <1>2 DEF IntakeInv, LoopShape, StoreShape, GroupShape, OnceClaimed
<1>4. Carried' /\ Coupled'
  BY <1>1, <1>2, CarriedStays, CoupledStays DEF IntakeInv
<1> QED
  BY <1>3, <1>4 DEF IntakeInv

\* Where the main loop has nothing in hand and nothing left of a poll, what was
\* polled and not lost is in one of the groups.
LEMMA AtRest ==
  ASSUME IntakeInv, main.msg = 0, rest = <<>>,
         NEW m \in Intake!Msgs \ lost, poll[m] # 0
  PROVE  Somewhere(Intake!Groups, m)
<1>1. m # 0
  OBVIOUS
<1> QED
  BY <1>1 DEF IntakeInv, Carried

\* Poll(again), with again empty or one message.
LEMMA IntakePoll ==
  ASSUME Intake!IntakeAssumption, IntakeInv, NEW again, Intake!Poll(again)
  PROVE  IntakeInv'
<1> DEFINE new == {m \in Intake!Msgs : m > cursor /\ kind[m] # "none"}
           msgs == new \union again
<1>1. /\ main.at = "poll" /\ again \subseteq 1..cursor
      /\ cursor' = Intake!Max(new \union {cursor})
      /\ rest' = Intake!Sorted(msgs)
      /\ poll' = [m \in Intake!Msgs |-> IF m \in new THEN cursor + 1 ELSE poll[m]]
      /\ batch' = IF Cardinality(msgs) <= 1 THEN "none"
                  ELSE IF \E m \in msgs : kind[m] = "files" THEN "files" ELSE "texts"
      /\ UNCHANGED <<kind, claims, seen, draft, held, flushing, saved, routed, lost, split>>
  BY IntakeCardinality DEF Intake!Poll, Intake!pending
<1>2. main' = [at |-> "next", msg |-> 0]
  BY DEF Intake!Poll, Intake!Polling
<1>3. /\ NMsg \in Nat /\ cursor \in 0..NMsg
      /\ \A m \in new : m \in 1..NMsg /\ m > cursor /\ kind[m] # "none"
      /\ \A m \in 1..NMsg : m > cursor /\ kind[m] # "none" => m \in new
  BY DEF Intake!IntakeAssumption, IntakeInv, StoreShape
<1>4. main.msg = 0 /\ rest = <<>>
  BY <1>1 DEF IntakeInv, LoopShape
<1> HIDE DEF new, msgs
<1>5. /\ cursor' \in 0..NMsg /\ cursor' \in new \union {cursor} /\ cursor <= cursor'
      /\ \A m \in new : m <= cursor' /\ cursor + 1 <= cursor'
  <2>1. new \union {cursor} \in SUBSET (0..NMsg) /\ new \union {cursor} # {}
    BY <1>3
  <2>2. /\ cursor' \in new \union {cursor}
        /\ \A x \in new \union {cursor} : x <= cursor'
    BY <1>1, <1>3, <2>1, IntakeMax
  <2>3. cursor' \in 0..NMsg
    BY <2>1, <2>2
  <2>4. ASSUME NEW m \in new
        PROVE  cursor + 1 <= cursor'
    <3>1. m \in Nat /\ m > cursor /\ m <= cursor' /\ cursor \in Nat /\ cursor' \in Nat
      BY <1>3, <2>2, <2>3
    <3> QED
      BY <3>1
  <2> QED
    BY <2>2, <2>3, <2>4
<1>6. msgs \in SUBSET (1..cursor') /\ msgs \in SUBSET (1..NMsg)
  <2>1. \A m \in new : m \in 1..cursor' /\ m \in 1..NMsg
    BY <1>3, <1>5
  <2>2. \A m \in again : m \in 1..cursor' /\ m \in 1..NMsg
    BY <1>1, <1>3, <1>5
  <2> QED
    BY <2>1, <2>2 DEF msgs
<1>7. rest' \in Seq(1..cursor') /\ \A m \in msgs : m \in {rest'[i] : i \in DOMAIN rest'}
  <2>1. /\ rest' \in Seq(msgs)
        /\ \A m \in msgs : \E i \in DOMAIN rest' : rest'[i] = m
    <3>1. /\ Intake!Sorted(msgs) \in Seq(msgs)
          /\ \A m \in msgs : \E i \in DOMAIN Intake!Sorted(msgs) : Intake!Sorted(msgs)[i] = m
      <4>1. Within(msgs, NMsg) /\ NMsg \in Nat
        BY <1>3, <1>6 DEF Within
      <4>2. IsSorting(Intake!Sorted(msgs), msgs)
        BY <4>1, SortedIs
      <4> QED
        BY <4>2 DEF IsSorting
    <3> QED
      BY <1>1, <3>1
  <2> QED
    BY <1>6, <2>1, SeqMonotonic
<1>8. LoopShape'
  BY <1>1, <1>2, <1>7 DEF LoopShape
<1>9. \A m \in Intake!Msgs : m <= cursor' => m <= cursor \/ m \in new
  <2> SUFFICES ASSUME NEW m \in Intake!Msgs, m <= cursor', ~(m <= cursor)
               PROVE  m \in new
    OBVIOUS
  <2>1. cursor' \in new
    BY <1>3, <1>5
  <2>2. kind[m] # "none"
    BY <1>3, <2>1 DEF IntakeInv, StoreShape
  <2> QED
    BY <1>3, <2>2
<1>10. /\ \A m \in Intake!Msgs : poll'[m] = IF m \in new THEN cursor + 1 ELSE poll[m]
       /\ poll' \in [Intake!Msgs -> 0..cursor']
       /\ \A m \in Intake!Msgs : poll'[m] # 0 <=> m <= cursor'
  <2>1. \A m \in Intake!Msgs : poll'[m] = IF m \in new THEN cursor + 1 ELSE poll[m]
    BY <1>1
  <2>2. \A m \in Intake!Msgs : poll[m] \in 0..cursor /\ (poll[m] # 0 <=> m <= cursor)
    BY DEF IntakeInv, StoreShape
  <2>3. \A m \in Intake!Msgs : poll'[m] \in 0..cursor'
    BY <1>3, <1>5, <2>1, <2>2
  <2>4. \A m \in Intake!Msgs : poll'[m] # 0 <=> m <= cursor'
    BY <1>3, <1>5, <1>9, <2>1, <2>2
  <2> QED
    BY <1>1, <2>1, <2>3, <2>4
<1>11. StoreShape'
  <2>1. \A m \in Intake!Msgs : m <= cursor' => kind[m] # "none"
    BY <1>3, <1>9 DEF IntakeInv, StoreShape
  <2>2. claims \subseteq 1..cursor'
    BY <1>3, <1>5 DEF IntakeInv, StoreShape
  <2> QED
    BY <1>1, <1>5, <1>10, <2>1, <2>2 DEF IntakeInv, StoreShape
<1>12. Intake!Groups' = Intake!Groups
  BY <1>1, GroupsSame
<1>13. GroupShape'
  BY <1>1 DEF IntakeInv, GroupShape
<1>14. OnceClaimed'
  BY <1>1, <1>2, <1>4, <1>12 DEF IntakeInv, OnceClaimed
<1>15. Carried'
  <2> SUFFICES ASSUME NEW m \in Intake!Msgs \ lost
               PROVE  /\ m \in claims /\ 0 # m => Whole(Intake!Groups, m, saved[m])
                      /\ poll'[m] # 0 =>
                           \/ Somewhere(Intake!Groups, m)
                           \/ m \in {rest'[i] : i \in DOMAIN rest'}
    BY <1>1, <1>2, <1>12 DEF Carried
  <2>1. m \in claims /\ 0 # m => Whole(Intake!Groups, m, saved[m])
    BY <1>4 DEF IntakeInv, Carried
  <2>2. CASE m \in new
    BY <1>7, <2>1, <2>2 DEF msgs
  <2>3. CASE m \notin new
    BY <1>4, <1>10, <2>1, <2>3, AtRest
  <2> QED
    BY <2>1, <2>2, <2>3
<1>16. Coupled'
  <2> SUFFICES ASSUME ~split, NEW m \in Intake!Msgs \ lost, NEW n \in Intake!Msgs \ lost,
                      Mates(m, n)'
               PROVE  Joint(Intake!Groups, m, n) \/ Awaited(m, n)'
    BY <1>1, <1>12 DEF Coupled
  <2>1. /\ poll'[m] = poll'[n] /\ poll'[m] # 0
        /\ kind[m] \in {"text", "prelude"} /\ kind[n] = "files"
    BY <1>1 DEF Mates
  <2>2. \A q \in Intake!Msgs : poll[q] \in Nat /\ poll[q] <= cursor /\ cursor \in Nat
    BY <1>3 DEF IntakeInv, StoreShape
  <2>3. CASE m \in new
    <3>1. n \in new
      BY <1>10, <2>1, <2>2, <2>3
    <3>2. m # n
      BY <2>1
    <3>3. Cardinality(msgs) \in Nat /\ ~(Cardinality(msgs) <= 1)
      <4>1. IsFiniteSet(1..NMsg)
        BY <1>3, FS_Interval
      <4>2. IsFiniteSet(msgs) /\ IsFiniteSet({m}) /\ Cardinality({m}) = 1
        BY <1>6, <4>1, FS_Subset, FS_Singleton
      <4>3. IsFiniteSet({m} \union {n}) /\ Cardinality({m} \union {n}) = 2
        BY <3>2, <4>2, FS_AddElement
      <4>4. {m} \union {n} \in SUBSET msgs
        BY <2>3, <3>1 DEF msgs
      <4>5. Cardinality({m} \union {n}) <= Cardinality(msgs) /\ Cardinality(msgs) \in Nat
        BY <4>2, <4>4, FS_Subset, FS_CardinalityType
      <4> QED
        BY <4>3, <4>5
    <3>4. batch' = "files"
      <4>1. n \in msgs
        BY <3>1 DEF msgs
      <4> QED
        BY <1>1, <2>1, <3>3, <4>1
    <3>5. ~Somewhere(Intake!Groups, m) /\ ~Somewhere(Intake!Groups, n)
      <4>1. \A q \in claims : q \in Nat /\ q <= cursor
        BY <1>3 DEF IntakeInv, StoreShape
      <4>2. m \notin claims /\ n \notin claims
        BY <1>3, <2>3, <3>1, <4>1
      <4> QED
        BY <4>2 DEF IntakeInv, OnceClaimed
    <3> QED
      BY <1>12, <3>4, <3>5 DEF Awaited
  <2>4. CASE m \notin new
    <3>1. n \notin new /\ poll[m] = poll[n] /\ poll[m] # 0
      BY <1>10, <2>1, <2>2, <2>4
    <3>2. Mates(m, n)
      BY <2>1, <3>1 DEF Mates
    <3>3. Somewhere(Intake!Groups, m) /\ Somewhere(Intake!Groups, n)
      BY <1>4, <3>1, AtRest
    <3> QED
      BY <3>2, <3>3 DEF IntakeInv, Coupled, Awaited
  <2> QED
    BY <2>3, <2>4
<1> QED
  BY <1>8, <1>11, <1>13, <1>14, <1>15, <1>16 DEF IntakeInv

LEMMA RestFacts ==
  ASSUME NEW S, NEW s \in Seq(S), s # <<>>
  PROVE  /\ Head(s) \in S /\ Tail(s) \in Seq(S)
         /\ \A x : x \in {s[i] : i \in DOMAIN s} =>
              x = Head(s) \/ x \in {Tail(s)[i] : i \in DOMAIN Tail(s)}
<1>1. /\ Len(s) \in Nat /\ Len(s) # 0 /\ DOMAIN s = 1..Len(s)
  BY EmptySeq, LenProperties
<1>2. /\ Head(s) \in S /\ Tail(s) \in Seq(S) /\ Len(Tail(s)) = Len(s) - 1
      /\ \A i \in 1..Len(Tail(s)) : Tail(s)[i] = s[i + 1]
      /\ Head(s) = s[1]
  BY <1>1, HeadTailProperties
<1>3. DOMAIN Tail(s) = 1..(Len(s) - 1)
  BY <1>2, LenProperties
<1>4. ASSUME NEW i \in DOMAIN s, i # 1
      PROVE  i - 1 \in DOMAIN Tail(s) /\ Tail(s)[i - 1] = s[i]
  BY <1>1, <1>2, <1>3, <1>4
<1>5. \A i \in DOMAIN s : s[i] = Head(s) \/ \E j \in DOMAIN Tail(s) : Tail(s)[j] = s[i]
  BY <1>2, <1>4
<1> QED
  BY <1>2, <1>5

LEMMA IntakeIgnore ==
  ASSUME Intake!IntakeAssumption, IntakeInv, Intake!Ignore
  PROVE  IntakeInv'
<1>1. /\ UNCHANGED <<kind, cursor, claims, main, batch, draft, held, flushing, poll,
                     saved, routed, lost, split>>
      /\ main.at = "next" /\ rest # <<>> /\ Head(rest) \in seen \union claims
      /\ seen' = seen \union {Head(rest)} /\ rest' = Tail(rest)
  BY DEF Intake!Ignore, Intake!store, Intake!pending, Intake!history
<1>2. Intake!Groups' = Intake!Groups
  BY <1>1, GroupsSame
<1>3. /\ rest \in Seq(1..cursor) /\ main.msg = 0
      /\ Head(rest) \in claims \union lost
  BY <1>1 DEF IntakeInv, LoopShape, StoreShape
<1>4. /\ Tail(rest) \in Seq(1..cursor)
      /\ \A x : x \in {rest[i] : i \in DOMAIN rest} =>
           x = Head(rest) \/ x \in {Tail(rest)[i] : i \in DOMAIN Tail(rest)}
  BY <1>1, <1>3, RestFacts
<1>5. LoopShape' /\ StoreShape' /\ GroupShape' /\ OnceClaimed'
  BY <1>1, <1>2, <1>3, <1>4 DEF IntakeInv, LoopShape, StoreShape, GroupShape, OnceClaimed
<1>6. Carried'
  <2> SUFFICES ASSUME NEW m \in Intake!Msgs \ lost
               PROVE  /\ m \in claims /\ main.msg # m => Whole(Intake!Groups, m, saved[m])
                      /\ poll[m] # 0 =>
                           \/ Somewhere(Intake!Groups, m)
                           \/ m \in {Tail(rest)[i] : i \in DOMAIN Tail(rest)}
    BY <1>1, <1>2 DEF Carried
  <2>1. /\ m \in claims /\ main.msg # m => Whole(Intake!Groups, m, saved[m])
        /\ poll[m] # 0 => Somewhere(Intake!Groups, m) \/ main.msg = m
                          \/ m \in {rest[i] : i \in DOMAIN rest}
    BY DEF IntakeInv, Carried
  <2>2. m # 0
    OBVIOUS
  <2>3. m = Head(rest) => Somewhere(Intake!Groups, m)
    BY <1>3, <2>1, <2>2 DEF Whole
  <2> QED
    BY <1>3, <1>4, <2>1, <2>2, <2>3
<1>7. Coupled'
  BY <1>1, <1>2, CoupledStays DEF IntakeInv
<1> QED
  BY <1>5, <1>6, <1>7 DEF IntakeInv

LEMMA HeldShapes ==
  ASSUME held \in [timer : BOOLEAN, deferred : BOOLEAN]
  PROVE  /\ Intake!IntakeHeld \in [timer : BOOLEAN, deferred : BOOLEAN]
         /\ Intake!IntakeHeld.timer => held.timer
         /\ Intake!TextHeld \in [timer : BOOLEAN, deferred : BOOLEAN]
         /\ batch = "files" => ~Intake!TextHeld.timer
         /\ \A d : /\ Intake!IntakeOver(d) \in [timer : BOOLEAN, deferred : BOOLEAN]
                   /\ d # <<>> /\ batch = "files" => ~Intake!IntakeOver(d).timer
         /\ \A h \in [timer : BOOLEAN, deferred : BOOLEAN] :
              Intake!BatchOver(h) \in [timer : BOOLEAN, deferred : BOOLEAN]
<1>1. /\ Intake!IntakeHeld \in [timer : BOOLEAN, deferred : BOOLEAN]
      /\ Intake!IntakeHeld.timer => held.timer
  BY DEF Intake!IntakeHeld
<1>2. /\ Intake!TextHeld \in [timer : BOOLEAN, deferred : BOOLEAN]
      /\ batch = "files" => ~Intake!TextHeld.timer
  BY DEF Intake!TextHeld
<1>3. \A d : /\ Intake!IntakeOver(d) \in [timer : BOOLEAN, deferred : BOOLEAN]
             /\ d # <<>> /\ batch = "files" => ~Intake!IntakeOver(d).timer
  BY DEF Intake!IntakeOver
<1>4. \A h \in [timer : BOOLEAN, deferred : BOOLEAN] :
        Intake!BatchOver(h) \in [timer : BOOLEAN, deferred : BOOLEAN]
  BY DEF Intake!BatchOver
<1> QED
  BY <1>1, <1>2, <1>3, <1>4

LEMMA IntakeAccept ==
  ASSUME Intake!IntakeAssumption, IntakeInv, Intake!Accept
  PROVE  IntakeInv'
<1>1. PICK m : m = Head(rest)
  OBVIOUS
<1>2. /\ UNCHANGED <<kind, cursor, batch, draft, flushing, poll, saved, routed, lost, split>>
      /\ main.at = "next" /\ rest # <<>> /\ m \notin seen \union claims
      /\ seen' = seen \union {m} /\ claims' = claims \union {m} /\ rest' = Tail(rest)
      /\ main' = [at |-> IF kind[m] = "command" THEN "route" ELSE "prepare", msg |-> m]
      /\ held' = IF kind[m] = "files" THEN Intake!IntakeHeld ELSE held
  BY <1>1 DEF Intake!Accept, Intake!Claimed, Intake!history
<1>3. Intake!Groups' = Intake!Groups
  BY <1>2, GroupsSame
<1>4. rest \in Seq(1..cursor) /\ main.msg = 0
  BY <1>2 DEF IntakeInv, LoopShape
<1>5. /\ m \in 1..cursor /\ Tail(rest) \in Seq(1..cursor)
      /\ \A x : x \in {rest[i] : i \in DOMAIN rest} =>
           x = m \/ x \in {Tail(rest)[i] : i \in DOMAIN Tail(rest)}
  BY <1>1, <1>2, <1>4, RestFacts
<1>6. m \in Intake!Msgs /\ ~Somewhere(Intake!Groups, m)
  <2>1. m \in Intake!Msgs
    BY <1>5 DEF IntakeInv, StoreShape, Intake!IntakeAssumption
  <2> QED
    BY <1>2, <2>1 DEF IntakeInv, OnceClaimed
<1>7. LoopShape'
  <2>1. m \in claims' /\ main'.msg = m
        /\ main'.at = IF kind[m] = "command" THEN "route" ELSE "prepare"
    BY <1>2
  <2>2. main' \in [at : {"prepare", "route"}, msg : claims']
    BY <1>2, <2>1
  <2> QED
    BY <1>2, <1>5, <2>1, <2>2 DEF IntakeInv, LoopShape
<1>8. StoreShape'
  BY <1>2, <1>5 DEF IntakeInv, StoreShape
<1>9. GroupShape' /\ (held'.timer => held.timer)
  <2>1. held \in [timer : BOOLEAN, deferred : BOOLEAN]
    BY DEF IntakeInv, GroupShape
  <2>2. held' \in [timer : BOOLEAN, deferred : BOOLEAN] /\ (held'.timer => held.timer)
    BY <1>2, <2>1, HeldShapes
  <2> QED
    BY <1>2, <2>2 DEF IntakeInv, GroupShape
<1>10. OnceClaimed'
  BY <1>2, <1>3, <1>6 DEF IntakeInv, OnceClaimed
<1>11. Carried'
  <2> SUFFICES ASSUME NEW q \in Intake!Msgs \ lost
               PROVE  /\ q \in claims \union {m} /\ m # q => Whole(Intake!Groups, q, saved[q])
                      /\ poll[q] # 0 =>
                           \/ Somewhere(Intake!Groups, q) \/ m = q
                           \/ q \in {Tail(rest)[i] : i \in DOMAIN Tail(rest)}
    BY <1>2, <1>3 DEF Carried
  <2>1. /\ q \in claims /\ main.msg # q => Whole(Intake!Groups, q, saved[q])
        /\ poll[q] # 0 => Somewhere(Intake!Groups, q) \/ main.msg = q
                          \/ q \in {rest[i] : i \in DOMAIN rest}
    BY DEF IntakeInv, Carried
  <2>2. q # 0
    OBVIOUS
  <2> QED
    BY <1>4, <1>5, <2>1, <2>2
<1>12. Coupled'
  BY <1>2, <1>3, <1>9, CoupledStays DEF IntakeInv
<1> QED
  BY <1>7, <1>8, <1>9, <1>10, <1>11, <1>12 DEF IntakeInv

LEMMA IntakePollAgain ==
  ASSUME Intake!IntakeAssumption, IntakeInv, Intake!PollAgain \/ Intake!PollFails
  PROVE  IntakeInv'
<1>1. /\ UNCHANGED <<kind, cursor, claims, seen, rest, batch, draft, held, flushing, poll,
                     saved, routed, lost, split>>
      /\ main.at \in {"poll", "outbound", "sleep"}
      /\ main' \in [at : {"poll", "sleep"}, msg : {0}]
  BY DEF Intake!PollAgain, Intake!PollFails, Intake!Polling, Intake!store, Intake!pending,
         Intake!history
<1>2. Intake!Groups' = Intake!Groups
  BY <1>1, GroupsSame
<1>3. main.msg = 0 /\ rest = <<>> /\ main'.msg = 0
  BY <1>1 DEF IntakeInv, LoopShape
<1>4. LoopShape' /\ StoreShape' /\ GroupShape' /\ OnceClaimed'
  BY <1>1, <1>2, <1>3 DEF IntakeInv, LoopShape, StoreShape, GroupShape, OnceClaimed
<1>5. Carried'
  BY <1>1, <1>2, <1>3 DEF IntakeInv, Carried
<1>6. Coupled'
  BY <1>1, <1>2, CoupledStays DEF IntakeInv
<1> QED
  BY <1>4, <1>5, <1>6 DEF IntakeInv

LEMMA IntakePollDone ==
  ASSUME Intake!IntakeAssumption, IntakeInv, Intake!PollDone
  PROVE  IntakeInv'
<1>1. /\ UNCHANGED <<kind, cursor, claims, seen, rest, draft, flushing, poll,
                     saved, routed, lost, split>>
      /\ main.at = "next" /\ rest = <<>> /\ batch' = "none"
      /\ held' = Intake!BatchOver(held)
      /\ main' \in [at : {"outbound"}, msg : {0}]
  BY DEF Intake!PollDone, Intake!Polling, Intake!store, Intake!history
<1>2. Intake!Groups' = Intake!Groups
  BY <1>1, GroupsSame
<1>3. main.msg = 0 /\ main'.msg = 0 /\ main'.at = "outbound"
  BY <1>1 DEF IntakeInv, LoopShape
<1>4. LoopShape' /\ StoreShape' /\ OnceClaimed'
  BY <1>1, <1>2, <1>3 DEF IntakeInv, LoopShape, StoreShape, OnceClaimed
<1>5. GroupShape'
  <2>1. held' \in [timer : BOOLEAN, deferred : BOOLEAN]
    BY <1>1, HeldShapes DEF IntakeInv, GroupShape
  <2> QED
    BY <1>1, <2>1 DEF IntakeInv, GroupShape
<1>6. Carried'
  BY <1>1, <1>2, <1>3 DEF IntakeInv, Carried
<1>7. Coupled'
  BY <1>1, <1>2, <1>3, AtRest, CoupledAtRest DEF IntakeInv
<1> QED
  BY <1>4, <1>5, <1>6, <1>7 DEF IntakeInv

LEMMA IntakeThrows ==
  ASSUME Intake!IntakeAssumption, IntakeInv, Intake!Throws
  PROVE  IntakeInv'
<1>1. /\ UNCHANGED <<kind, cursor, claims, draft, flushing, poll, saved, routed, split>>
      /\ lost' = lost \union (({main.msg} \ {0}) \union ({rest[i] : i \in DOMAIN rest} \ claims))
      /\ main' = [at |-> "sleep", msg |-> 0] /\ rest' = <<>> /\ batch' = "none"
      /\ held' = Intake!BatchOver(IF Intake!Intake THEN Intake!IntakeOver(draft) ELSE held)
  BY DEF Intake!Throws, Intake!Polling, Intake!store, Intake!Lose, Intake!ToSet
<1>2. \/ seen' = seen
      \/ rest # <<>> /\ Head(rest) \notin claims /\ seen' = seen \union {Head(rest)}
  BY DEF Intake!Throws
<1>3. Intake!Groups' = Intake!Groups
  BY <1>1, GroupsSame
<1>4. main'.msg = 0 /\ main' \in [at : {"sleep"}, msg : {0}] /\ main'.at = "sleep"
  BY <1>1
<1>5. LoopShape'
  BY <1>1, <1>4 DEF LoopShape
<1>6. StoreShape'
  <2>1. rest # <<>> => Head(rest) \in {rest[i] : i \in DOMAIN rest}
    <3> SUFFICES ASSUME rest # <<>>
                 PROVE  Head(rest) \in {rest[i] : i \in DOMAIN rest}
      OBVIOUS
    <3>1. rest \in Seq(1..cursor)
      BY DEF IntakeInv, LoopShape
    <3>2. 1 \in DOMAIN rest /\ Head(rest) = rest[1]
      BY <3>1, EmptySeq, LenProperties, HeadTailProperties
    <3> QED
      BY <3>2
  <2>2. seen' \subseteq claims \union lost'
    BY <1>1, <1>2, <2>1 DEF IntakeInv, StoreShape
  <2> QED
    BY <1>1, <2>2 DEF IntakeInv, StoreShape
<1>7. GroupShape'
  <2>1. held' \in [timer : BOOLEAN, deferred : BOOLEAN]
    BY <1>1, HeldShapes DEF IntakeInv, GroupShape
  <2> QED
    BY <1>1, <2>1 DEF IntakeInv, GroupShape
<1>8. OnceClaimed'
  BY <1>1, <1>3, <1>4 DEF IntakeInv, OnceClaimed
<1>9. ASSUME NEW m \in Intake!Msgs \ lost'
      PROVE  /\ m \in claims => Whole(Intake!Groups, m, saved[m])
             /\ poll[m] # 0 => Somewhere(Intake!Groups, m)
  <2>1. /\ m \notin lost /\ main.msg # m
        /\ m \in {rest[i] : i \in DOMAIN rest} => m \in claims
    <3>1. m # 0
      OBVIOUS
    <3> QED
      BY <1>1, <3>1
  <2>2. /\ m \in claims /\ main.msg # m => Whole(Intake!Groups, m, saved[m])
        /\ poll[m] # 0 => Somewhere(Intake!Groups, m) \/ main.msg = m
                          \/ m \in {rest[i] : i \in DOMAIN rest}
    BY <2>1 DEF IntakeInv, Carried
  <2> QED
    BY <2>1, <2>2 DEF Whole
<1>10. Carried'
  BY <1>1, <1>3, <1>4, <1>9 DEF Carried
<1>11. Coupled'
  BY <1>1, <1>3, <1>9, CoupledAtRest DEF IntakeInv
<1> QED
  BY <1>5, <1>6, <1>7, <1>8, <1>10, <1>11 DEF IntakeInv

\* The message that the main loop has in hand joins the draft.
LEMMA JoinDraft ==
  ASSUME Intake!IntakeAssumption, IntakeInv, NEW A \in SUBSET Nat,
         main.at = "prepare",
         UNCHANGED <<kind, cursor, claims, seen, rest, batch, flushing, poll, routed, lost, split>>,
         draft' = Append(draft, Intake!Prepared(main.msg, A)),
         main' = [at |-> "next", msg |-> 0],
         saved' \in [Intake!Msgs -> SUBSET Nat], saved'[main.msg] = A,
         kind[main.msg] # "files" => A = {},
         \A q \in Intake!Msgs \ {main.msg} : saved'[q] = saved[q],
         held' \in [timer : BOOLEAN, deferred : BOOLEAN],
         batch = "files" => ~held'.timer
  PROVE  IntakeInv'
<1>1. PICK m : m = main.msg
  OBVIOUS
<1>2. PICK p : p = Intake!Prepared(m, A)
  OBVIOUS
<1>3. /\ m \in claims /\ m \in Intake!Msgs /\ m # 0
      /\ p \in [id : Intake!Msgs, atts : SUBSET Nat] /\ p.id = m /\ p.atts = A
  <2>1. m \in claims
    BY <1>1 DEF IntakeInv, LoopShape
  <2>2. m \in Intake!Msgs
    BY <2>1 DEF IntakeInv, StoreShape, Intake!IntakeAssumption
  <2> QED
    BY <1>2, <2>1, <2>2 DEF Intake!Prepared
<1>4. ~Somewhere(Intake!Groups, m)
  BY <1>1, <1>3 DEF IntakeInv, OnceClaimed
<1>5. Grouped(Intake!Groups, draft, flushing, routed) /\ AreGroups(Intake!Groups)
  BY GroupsNow DEF IntakeInv
<1>6. 1 \in DOMAIN Intake!Groups /\ Intake!Groups[1] = draft
  BY <1>5 DEF Grouped, IntakeInv, GroupShape, Intake!IntakeAssumption
<1>7. IsGroup(draft')
  BY <1>1, <1>2, <1>3, <1>4, <1>5, <1>6, AppendedGroup DEF Somewhere, AreGroups
<1>8. GroupShape'
  BY <1>7 DEF IntakeInv, GroupShape
<1>9. Joined(Intake!Groups, Intake!Groups', 1, p)
  <2>1. Grouped(Intake!Groups', draft', flushing', routed')
    BY <1>8, GroupsNext
  <2>2. NFlush \in Nat /\ Len(routed) \in Nat
    BY DEF Intake!IntakeAssumption, IntakeInv, GroupShape
  <2>3. DOMAIN Intake!Groups' = DOMAIN Intake!Groups /\ Intake!Groups'[1] = draft'
    BY <1>5, <2>1 DEF Grouped
  <2>4. ASSUME NEW h \in DOMAIN Intake!Groups \ {1}
        PROVE  Intake!Groups'[h] = Intake!Groups[h]
    <3>1. h \in 1..(1 + NFlush + Len(routed)) /\ h # 1
      BY <1>5 DEF Grouped
    <3>2. CASE h <= 1 + NFlush
      <4>1. h - 1 \in 1..NFlush /\ h = 1 + (h - 1)
        BY <2>2, <3>1, <3>2
      <4> QED
        BY <1>5, <2>1, <4>1 DEF Grouped
    <3>3. CASE 1 + NFlush < h
      <4>1. h - (1 + NFlush) \in 1..Len(routed) /\ h = 1 + NFlush + (h - (1 + NFlush))
        BY <2>2, <3>1, <3>3
      <4> QED
        BY <1>5, <2>1, <4>1 DEF Grouped
    <3> QED
      BY <2>2, <3>1, <3>2, <3>3
  <2> QED
    BY <1>1, <1>2, <1>3, <1>4, <1>6, <2>3, <2>4 DEF Joined
<1>10. /\ \A q : Somewhere(Intake!Groups', q) <=> Somewhere(Intake!Groups, q) \/ q = m
       /\ \A q, B : q # m /\ Whole(Intake!Groups, q, B) => Whole(Intake!Groups', q, B)
       /\ Whole(Intake!Groups', m, A)
       /\ \A l, q : Joint(Intake!Groups, l, q) => Joint(Intake!Groups', l, q)
       /\ \A q : Has(draft', q) <=> Has(draft, q) \/ q = m
       /\ 1 \in DOMAIN Intake!Groups' /\ Intake!Groups'[1] = draft'
  <2>1. 1 \in DOMAIN Intake!Groups' /\ Intake!Groups'[1] = draft'
    BY <1>1, <1>2, <1>6, <1>9 DEF Joined
  <2>2. /\ \A q : Somewhere(Intake!Groups', q) <=> Somewhere(Intake!Groups, q) \/ q = p.id
        /\ \A q, B : q # p.id /\ Whole(Intake!Groups, q, B) => Whole(Intake!Groups', q, B)
        /\ Whole(Intake!Groups', p.id, p.atts)
        /\ \A l, q : Joint(Intake!Groups, l, q) => Joint(Intake!Groups', l, q)
        /\ \A q : Has(Intake!Groups'[1], q) <=> Has(Intake!Groups[1], q) \/ q = p.id
    <3>1. Gains(Intake!Groups, Intake!Groups', 1, p)
      BY <1>5, <1>9, JoinGains
    <3> QED
      BY <3>1 DEF Gains
  <2> QED
    BY <1>3, <1>6, <2>1, <2>2
<1>11. LoopShape'
  <2>1. main'.at = "next" /\ main' \in [at : {"next"}, msg : {0}]
    OBVIOUS
  <2> QED
    BY <2>1 DEF IntakeInv, LoopShape
<1>12. StoreShape'
  BY <1>1, <1>3 DEF IntakeInv, StoreShape
<1>13. OnceClaimed'
  BY <1>3, <1>10 DEF IntakeInv, OnceClaimed
<1>14. Carried'
  <2> SUFFICES ASSUME NEW q \in Intake!Msgs \ lost
               PROVE  /\ q \in claims => Whole(Intake!Groups', q, saved'[q])
                      /\ poll[q] # 0 =>
                           \/ Somewhere(Intake!Groups', q)
                           \/ q \in {rest[i] : i \in DOMAIN rest}
    BY DEF Carried
  <2>1. /\ q \in claims /\ m # q => Whole(Intake!Groups, q, saved[q])
        /\ poll[q] # 0 => Somewhere(Intake!Groups, q) \/ m = q
                          \/ q \in {rest[i] : i \in DOMAIN rest}
    BY <1>1 DEF IntakeInv, Carried
  <2> QED
    BY <1>1, <1>10, <2>1
<1>15. Coupled'
  <2> SUFFICES ASSUME ~split, NEW a \in Intake!Msgs \ lost, NEW b \in Intake!Msgs \ lost,
                      Mates(a, b), Awaited(a, b)
               PROVE  Joint(Intake!Groups', a, b) \/ Awaited(a, b)'
    BY <1>10 DEF IntakeInv, Coupled, Mates
  <2>1. batch = "files" /\ ~held'.timer
    BY DEF Awaited
  <2>2. \A x \in {a, b} : Somewhere(Intake!Groups, x) => Has(draft, x)
    BY DEF Awaited
  <2>3. \A x \in {a, b} : Somewhere(Intake!Groups', x) => Has(draft', x) /\ ~held'.timer
    BY <1>10, <2>1, <2>2
  <2>4. CASE Somewhere(Intake!Groups', a) /\ Somewhere(Intake!Groups', b)
    <3>1. Has(Intake!Groups'[1], a) /\ Has(Intake!Groups'[1], b) /\ 1 \in DOMAIN Intake!Groups'
      BY <1>10, <2>3, <2>4
    <3> QED
      BY <3>1 DEF Joint
  <2>5. CASE ~(Somewhere(Intake!Groups', a) /\ Somewhere(Intake!Groups', b))
    BY <2>1, <2>3, <2>5 DEF Awaited
  <2> QED
    BY <2>4, <2>5
<1> QED
  BY <1>8, <1>11, <1>12, <1>13, <1>14, <1>15 DEF IntakeInv

LEMMA IntakeTakeIn ==
  ASSUME Intake!IntakeAssumption, IntakeInv, NEW n \in 0..MaxSize, Intake!TakeIn(n)
  PROVE  IntakeInv'
<1>1. /\ UNCHANGED <<kind, cursor, claims, seen, rest, batch, flushing, poll, routed, lost, split>>
      /\ main.at = "prepare" /\ kind[main.msg] = "files"
      /\ draft' = Append(draft, Intake!Prepared(main.msg, 1..n))
      /\ main' = [at |-> "next", msg |-> 0]
      /\ saved' = [saved EXCEPT ![main.msg] = 1..n]
      /\ held' = Intake!IntakeOver(draft')
  BY DEF Intake!TakeIn, Intake!Intake, Intake!Handled, Intake!Polling, Intake!store
<1>2. main.msg \in Intake!Msgs
  <2>1. main.msg \in claims
    BY <1>1 DEF IntakeInv, LoopShape
  <2>2. \A q \in claims : q \in Intake!Msgs
    BY DEF IntakeInv, StoreShape, Intake!IntakeAssumption
  <2> QED
    BY <2>1, <2>2
<1>3. PICK A : A = 1..n
  OBVIOUS
<1>4. A \in SUBSET Nat
  BY <1>3
<1>5. /\ saved' \in [Intake!Msgs -> SUBSET Nat] /\ saved'[main.msg] = A
      /\ \A q \in Intake!Msgs \ {main.msg} : saved'[q] = saved[q]
  BY <1>1, <1>2, <1>3, <1>4 DEF IntakeInv, StoreShape
<1>6. draft' # <<>>
  <2>1. draft \in Seq([id : Intake!Msgs, atts : SUBSET Nat])
    BY DEF IntakeInv, GroupShape, IsGroup
  <2>2. PICK R : R = [id : Intake!Msgs, atts : SUBSET Nat]
    OBVIOUS
  <2>3. PICK p : p = Intake!Prepared(main.msg, A)
    OBVIOUS
  <2>4. p \in R
    BY <1>2, <1>4, <2>2, <2>3 DEF Intake!Prepared
  <2> QED
    BY <1>1, <1>3, <2>1, <2>2, <2>3, <2>4, AppendProperties, EmptySeq
<1>7. /\ held' \in [timer : BOOLEAN, deferred : BOOLEAN]
      /\ batch = "files" => ~held'.timer
  BY <1>1, <1>6, HeldShapes DEF IntakeInv, GroupShape
<1> QED
  BY <1>1, <1>3, <1>4, <1>5, <1>7, JoinDraft

LEMMA IntakeText ==
  ASSUME Intake!IntakeAssumption, IntakeInv, Intake!Text
  PROVE  IntakeInv'
<1>1. /\ main.at = "prepare" /\ kind[main.msg] # "files" /\ main.msg \in claims
      /\ main.msg \in Intake!Msgs
      /\ UNCHANGED <<kind, cursor, claims, seen, rest, batch, flushing, poll, saved, routed,
                     lost, split>>
  BY DEF Intake!Text, Intake!Handled, Intake!store, Intake!history, IntakeInv, LoopShape,
         StoreShape, Intake!IntakeAssumption
<1>2. CASE Intake!Waits(main.msg)
  <2>1. /\ draft' = Append(draft, Intake!Prepared(main.msg, {}))
        /\ held' = Intake!TextHeld
        /\ main' = [at |-> "next", msg |-> 0]
    BY <1>2 DEF Intake!Text, Intake!Handled, Intake!Polling
  <2>2. saved[main.msg] = {} /\ saved \in [Intake!Msgs -> SUBSET Nat]
    BY <1>1 DEF IntakeInv, StoreShape
  <2>3. /\ held' \in [timer : BOOLEAN, deferred : BOOLEAN]
        /\ batch = "files" => ~held'.timer
    BY <2>1, HeldShapes DEF IntakeInv, GroupShape
  <2> QED
    BY <1>1, <2>1, <2>2, <2>3, JoinDraft
<1>3. CASE ~Intake!Waits(main.msg)
  <2>1. /\ main' = [main EXCEPT !.at = "route"] /\ UNCHANGED <<draft, held>>
    BY <1>3 DEF Intake!Text, Intake!pending
  <2>2. batch # "files"
    BY <1>3 DEF Intake!Waits
  <2>3. main \in [at : {"prepare", "route"}, msg : claims]
    BY <1>1 DEF IntakeInv, LoopShape
  <2>4. /\ main' \in [at : {"prepare", "route"}, msg : claims]
        /\ main'.msg = main.msg /\ main'.at = "route"
    BY <2>1, <2>3
  <2>5. Intake!Groups' = Intake!Groups
    BY <1>1, <2>1, GroupsSame
  <2>6. LoopShape'
    BY <1>1, <2>2, <2>4 DEF IntakeInv, LoopShape
  <2>7. StoreShape' /\ GroupShape' /\ OnceClaimed'
    BY <1>1, <2>1, <2>4, <2>5 DEF IntakeInv, StoreShape, GroupShape, OnceClaimed
  <2>8. Carried'
    BY <1>1, <2>4, <2>5 DEF IntakeInv, Carried
  <2>9. Coupled'
    BY <1>1, <2>1, <2>5, CoupledStays DEF IntakeInv
  <2> QED
    BY <2>6, <2>7, <2>8, <2>9 DEF IntakeInv
<1> QED
  BY <1>2, <1>3

LEMMA OneRouted ==
  ASSUME NEW P, NEW r \in Seq(Seq(P)), NEW g, g \in Seq(P), IsGroup(g),
         \A i \in DOMAIN r : IsGroup(r[i]), NEW s, s = Append(r, g)
  PROVE  /\ s \in Seq(Seq(P)) /\ Len(s) = Len(r) + 1 /\ Len(r) \in Nat
         /\ \A i \in 1..Len(r) : s[i] = r[i]
         /\ s[Len(r) + 1] = g
         /\ \A i \in DOMAIN s : IsGroup(s[i])
<1>1. PICK S : S = Seq(P)
  OBVIOUS
<1>2. r \in Seq(S) /\ g \in S
  BY <1>1
<1>3. /\ s \in Seq(S) /\ Len(s) = Len(r) + 1 /\ Len(r) \in Nat
      /\ \A i \in 1..Len(r) : s[i] = r[i]
      /\ s[Len(r) + 1] = g
  BY <1>2, AppendProperties, LenProperties
<1>4. ASSUME NEW i \in DOMAIN s
      PROVE  IsGroup(s[i])
  <2>1. i \in 1..(Len(r) + 1) /\ DOMAIN r = 1..Len(r)
    BY <1>2, <1>3, LenProperties
  <2>2. CASE i = Len(r) + 1
    BY <1>3, <2>2
  <2>3. CASE i # Len(r) + 1
    <3>1. i \in 1..Len(r)
      BY <1>3, <2>1, <2>3
    <3> QED
      BY <1>3, <2>1, <3>1
  <2> QED
    BY <2>2, <2>3
<1> QED
  BY <1>1, <1>3, <1>4

LEMMA IntakeAlone ==
  ASSUME Intake!IntakeAssumption, IntakeInv, Intake!Alone
  PROVE  IntakeInv'
<1>1. PICK m : m = main.msg
  OBVIOUS
<1>2. PICK p : p = Intake!Prepared(m, {})
  OBVIOUS
<1>3. /\ main.at = "route" /\ main' = [at |-> "next", msg |-> 0]
      /\ routed' = Append(routed, <<p>>)
      /\ UNCHANGED <<kind, cursor, claims, seen, rest, batch, draft, held, flushing, poll, saved,
                     lost, split>>
  BY <1>1, <1>2 DEF Intake!Alone, Intake!Handled, Intake!Polling, Intake!Route, Intake!store,
                    Intake!pending
<1>4. /\ m \in claims /\ m \in Intake!Msgs /\ m # 0
      /\ p \in [id : Intake!Msgs, atts : SUBSET Nat] /\ p.id = m /\ p.atts = {}
  <2>1. m \in claims
    BY <1>1, <1>3 DEF IntakeInv, LoopShape
  <2>2. NMsg \in Nat /\ cursor \in 0..NMsg /\ claims \subseteq 1..cursor
    BY DEF IntakeInv, StoreShape, Intake!IntakeAssumption
  <2>3. m \in Intake!Msgs /\ m # 0
    BY <2>1, <2>2
  <2> QED
    BY <1>2, <2>1, <2>3 DEF Intake!Prepared
<1>5. /\ ~Somewhere(Intake!Groups, m) /\ saved[m] = {}
      /\ kind[m] = "command" \/ (kind[m] # "files" /\ batch # "files")
  <2>1. kind[m] = "command" \/ (kind[m] # "files" /\ batch # "files")
    BY <1>1, <1>3 DEF IntakeInv, LoopShape
  <2> QED
    BY <1>1, <1>4, <2>1 DEF IntakeInv, OnceClaimed, StoreShape
<1>6. Grouped(Intake!Groups, draft, flushing, routed) /\ AreGroups(Intake!Groups)
  BY GroupsNow DEF IntakeInv
<1>7. PICK P : P = [id : Intake!Msgs, atts : SUBSET Nat]
  OBVIOUS
<1>8. <<p>> \in Seq(P) /\ IsGroup(<<p>>) /\ <<p>> = Append(<<>>, p)
  <2>1. IsGroup(Append(<<>>, p))
    BY <1>4, EmptyGroup, AppendedGroup
  <2>2. <<p>> = Append(<<>>, p)
    OBVIOUS
  <2> QED
    BY <1>7, <2>1, <2>2 DEF IsGroup
<1>9. /\ routed' \in Seq(Seq(P)) /\ Len(routed') = Len(routed) + 1 /\ Len(routed) \in Nat
      /\ \A i \in 1..Len(routed) : routed'[i] = routed[i]
      /\ routed'[Len(routed) + 1] = <<p>>
      /\ \A i \in DOMAIN routed' : IsGroup(routed'[i])
  <2>1. routed \in Seq(Seq(P)) /\ \A i \in DOMAIN routed : IsGroup(routed[i])
    BY <1>7 DEF IntakeInv, GroupShape
  <2> QED
    BY <1>3, <1>8, <2>1, OneRouted
<1>10. GroupShape'
  BY <1>3, <1>7, <1>9 DEF IntakeInv, GroupShape
<1>11. Grouped(Intake!Groups', draft, flushing, routed')
  BY <1>3, <1>10, GroupsNext
<1>12. NFlush \in Nat
  BY DEF Intake!IntakeAssumption
<1>13. PICK n : n = 1 + NFlush + (Len(routed) + 1)
  OBVIOUS
<1> DEFINE opened == [h \in DOMAIN Intake!Groups \union {n} |->
                        IF h = n THEN <<>> ELSE Intake!Groups[h]]
<1>14. /\ n \notin DOMAIN Intake!Groups /\ DOMAIN Intake!Groups # {}
       /\ DOMAIN Intake!Groups' = DOMAIN Intake!Groups \union {n}
       /\ Intake!Groups'[n] = <<p>>
       /\ \A h \in DOMAIN Intake!Groups : Intake!Groups'[h] = Intake!Groups[h]
       /\ 1 \in DOMAIN Intake!Groups
  <2>1. /\ DOMAIN Intake!Groups = 1..(1 + NFlush + Len(routed))
        /\ DOMAIN Intake!Groups' = 1..(1 + NFlush + (Len(routed) + 1))
    BY <1>6, <1>9, <1>11 DEF Grouped
  <2>2. n \notin DOMAIN Intake!Groups /\ 1 \in DOMAIN Intake!Groups
        /\ DOMAIN Intake!Groups' = DOMAIN Intake!Groups \union {n}
    BY <1>9, <1>12, <1>13, <2>1
  <2>3. Intake!Groups'[n] = <<p>>
    <3>1. Len(routed) + 1 \in 1..Len(routed')
      BY <1>9
    <3> QED
      BY <1>9, <1>11, <1>13, <3>1 DEF Grouped
  <2>4. ASSUME NEW h \in DOMAIN Intake!Groups
        PROVE  Intake!Groups'[h] = Intake!Groups[h]
    <3>1. CASE h = 1
      BY <1>6, <1>11, <3>1 DEF Grouped
    <3>2. CASE h # 1 /\ h <= 1 + NFlush
      <4>1. h - 1 \in 1..NFlush /\ h = 1 + (h - 1)
        BY <1>9, <1>12, <2>1, <3>2
      <4> QED
        BY <1>6, <1>11, <4>1 DEF Grouped
    <3>3. CASE 1 + NFlush < h
      <4>1. h - (1 + NFlush) \in 1..Len(routed) /\ h = 1 + NFlush + (h - (1 + NFlush))
        BY <1>9, <1>12, <2>1, <3>3
      <4>2. h - (1 + NFlush) \in 1..Len(routed')
        BY <1>9, <4>1
      <4> QED
        BY <1>6, <1>9, <1>11, <4>1, <4>2 DEF Grouped
    <3> QED
      BY <1>9, <1>12, <2>1, <3>1, <3>2, <3>3
  <2> QED
    BY <2>2, <2>3, <2>4
<1>15. /\ DOMAIN opened = DOMAIN Intake!Groups \union {n} /\ opened[n] = <<>>
       /\ \A h \in DOMAIN Intake!Groups : opened[h] = Intake!Groups[h]
  BY <1>14
<1> HIDE DEF opened
<1>16. /\ AreGroups(opened)
       /\ \A q : /\ Somewhere(opened, q) <=> Somewhere(Intake!Groups, q)
                 /\ \A B : Whole(Intake!Groups, q, B) => Whole(opened, q, B)
       /\ \A l, q : Joint(Intake!Groups, l, q) => Joint(opened, l, q)
  BY <1>6, <1>14, <1>15, OpenedKeeps
<1>17. Joined(opened, Intake!Groups', n, p)
  BY <1>4, <1>5, <1>8, <1>14, <1>15, <1>16 DEF Joined
<1>18. /\ \A q : Somewhere(Intake!Groups', q) <=> Somewhere(opened, q) \/ q = p.id
       /\ \A q, B : q # p.id /\ Whole(opened, q, B) => Whole(Intake!Groups', q, B)
       /\ Whole(Intake!Groups', p.id, p.atts)
       /\ \A l, q : Joint(opened, l, q) => Joint(Intake!Groups', l, q)
  BY <1>16, <1>17, JoinedKeeps
<1>19. LoopShape'
  <2>1. main'.at = "next" /\ main' \in [at : {"next"}, msg : {0}]
    BY <1>3
  <2> QED
    BY <1>3, <2>1 DEF IntakeInv, LoopShape
<1>20. StoreShape'
  BY <1>3 DEF IntakeInv, StoreShape
<1>21. OnceClaimed'
  BY <1>3, <1>4, <1>16, <1>18 DEF IntakeInv, OnceClaimed
<1>22. Carried'
  <2> SUFFICES ASSUME NEW q \in Intake!Msgs \ lost
               PROVE  /\ q \in claims => Whole(Intake!Groups', q, saved[q])
                      /\ poll[q] # 0 =>
                           \/ Somewhere(Intake!Groups', q)
                           \/ q \in {rest[i] : i \in DOMAIN rest}
    BY <1>3 DEF Carried
  <2>1. /\ q \in claims /\ m # q => Whole(Intake!Groups, q, saved[q])
        /\ poll[q] # 0 => Somewhere(Intake!Groups, q) \/ m = q
                          \/ q \in {rest[i] : i \in DOMAIN rest}
    BY <1>1 DEF IntakeInv, Carried
  <2> QED
    BY <1>4, <1>5, <1>16, <1>18, <2>1
<1>23. Coupled'
  <2> SUFFICES ASSUME ~split, NEW a \in Intake!Msgs \ lost, NEW b \in Intake!Msgs \ lost,
                      Mates(a, b), Awaited(a, b)
               PROVE  Awaited(a, b)'
    BY <1>3, <1>16, <1>18 DEF IntakeInv, Coupled, Mates
  <2>1. m # a /\ m # b
    BY <1>5 DEF Mates, Awaited
  <2> QED
    BY <1>3, <1>4, <1>16, <1>18, <2>1 DEF Awaited
<1> QED
  BY <1>10, <1>19, <1>20, <1>21, <1>22, <1>23 DEF IntakeInv

\* Where a group is.
LEMMA GroupPlaces ==
  ASSUME NFlush \in Nat, NEW G, NEW d, NEW F, NEW r, Len(r) \in Nat,
         Grouped(G, d, F, r), NEW h \in DOMAIN G
  PROVE  \/ h = 1 \/ (\E f \in 1..NFlush : h = 1 + f)
         \/ \E i \in 1..Len(r) : h = 1 + NFlush + i
<1>1. h \in 1..(1 + NFlush + Len(r))
  BY DEF Grouped
<1>2. CASE h = 1
  BY <1>2
<1>3. CASE 1 < h /\ h <= 1 + NFlush
  <2>1. h - 1 \in 1..NFlush /\ h = 1 + (h - 1)
    BY <1>1, <1>3
  <2> QED
    BY <2>1
<1>4. CASE 1 + NFlush < h
  <2>1. h - (1 + NFlush) \in 1..Len(r) /\ h = 1 + NFlush + (h - (1 + NFlush))
    BY <1>1, <1>4
  <2> QED
    BY <2>1
<1> QED
  BY <1>1, <1>2, <1>3, <1>4

\* A flush takes the draft, in order: what it takes and what it leaves are its parts.
LEMMA TakeFacts ==
  ASSUME Intake!IntakeAssumption, GroupShape, NEW f \in Intake!Flushes, Intake!Take(f),
         NEW R, R = [at : {"none", "memory", "route"},
                     group : Seq([id : Intake!Msgs, atts : SUBSET Nat]), more : BOOLEAN]
  PROVE  \E new \in R :
           /\ flushing' = [flushing EXCEPT ![f] = new]
           /\ IsGroup(new.group) /\ IsGroup(draft')
           /\ new.at = "none" => new.group = <<>>
           /\ new.more => draft' # <<>>
           /\ Splits(draft, new.group, draft')
           /\ split' = (split \/ draft' # <<>>)
           /\ held' = [held EXCEPT !.timer = FALSE]
<1>1. PICK s : s = Intake!SortedGroup(draft)
  OBVIOUS
<1>2. /\ flushing' = [flushing EXCEPT ![f] =
           IF s = <<>> THEN Intake!NoFlush
           ELSE [at |-> IF Intake!HasContext(s) THEN "memory" ELSE "route",
                 group |-> IF Intake!HasContext(s) THEN Intake!Taken(s) ELSE s,
                 more |-> draft' # <<>>]]
      /\ draft' = IF Intake!HasContext(s) THEN Intake!Remaining(s) ELSE <<>>
      /\ split' = (split \/ draft' # <<>>)
      /\ held' = [held EXCEPT !.timer = FALSE]
  BY <1>1 DEF Intake!Take
<1>3. /\ IsGroup(s)
      /\ \A m : Has(s, m) <=> Has(draft, m)
      /\ \A m : Of(s, m) = Of(draft, m)
  BY <1>1, SortedGroupFacts DEF Intake!IntakeAssumption, GroupShape
<1>4. \A g, l : Splits(s, g, l) => Splits(draft, g, l)
  BY <1>3 DEF Splits
<1>5. PICK P : P = Seq([id : Intake!Msgs, atts : SUBSET Nat])
  OBVIOUS
<1>6. \A g : IsGroup(g) => g \in P
  BY <1>5 DEF IsGroup
<1>7. CASE Intake!HasContext(s)
  <2>1. s # <<>>
    BY <1>7 DEF Intake!HasContext
  <2>2. PICK g : g = Intake!Taken(s)
    OBVIOUS
  <2>3. PICK new : new = [at |-> "memory", group |-> g, more |-> draft' # <<>>]
    OBVIOUS
  <2>4. Splits(s, g, draft')
    BY <1>2, <1>3, <1>7, <2>2, TakenAndRemaining
  <2>5. IsGroup(g) /\ IsGroup(draft') /\ Splits(draft, g, draft')
    BY <1>4, <2>4 DEF Splits
  <2>6. new \in R /\ new.at = "memory" /\ new.group = g /\ new.more = (draft' # <<>>)
    BY <1>5, <1>6, <2>3, <2>5
  <2>7. flushing' = [flushing EXCEPT ![f] = new]
    BY <1>2, <1>7, <2>1, <2>2, <2>3
  <2> QED
    BY <1>2, <2>5, <2>6, <2>7
<1>8. CASE ~Intake!HasContext(s)
  <2>1. draft' = <<>> /\ IsGroup(draft') /\ Splits(s, s, draft') /\ Splits(draft, s, draft')
    BY <1>2, <1>3, <1>4, <1>8, EmptyGroup
  <2>2. CASE s = <<>>
    <3>1. PICK new : new = Intake!NoFlush
      OBVIOUS
    <3>2. new.at = "none" /\ new.group = <<>> /\ new.more = FALSE /\ new \in R
      BY <1>3, <1>5, <1>6, <2>2, <3>1 DEF Intake!NoFlush
    <3>3. flushing' = [flushing EXCEPT ![f] = new]
      BY <1>2, <2>2, <3>1
    <3> QED
      BY <1>2, <1>3, <2>1, <2>2, <3>2, <3>3
  <2>3. CASE s # <<>>
    <3>1. PICK new : new = [at |-> "route", group |-> s, more |-> FALSE]
      OBVIOUS
    <3>2. new.at = "route" /\ new.group = s /\ new.more = FALSE /\ new \in R
      BY <1>3, <1>5, <1>6, <3>1
    <3>3. flushing' = [flushing EXCEPT ![f] = new]
      BY <1>2, <1>8, <2>1, <2>3, <3>1
    <3> QED
      BY <1>2, <1>3, <2>1, <3>2, <3>3
  <2> QED
    BY <2>2, <2>3
<1> QED
  BY <1>7, <1>8

\* The shape of the groups when one flush changes.
LEMMA FlushShape ==
  ASSUME GroupShape, NEW f \in Intake!Flushes, NEW R,
         R = [at : {"none", "memory", "route"},
              group : Seq([id : Intake!Msgs, atts : SUBSET Nat]), more : BOOLEAN],
         NEW new \in R, flushing' = [flushing EXCEPT ![f] = new],
         IsGroup(new.group), new.at = "none" => new.group = <<>>, new.more => split',
         IsGroup(draft'), held' \in [timer : BOOLEAN, deferred : BOOLEAN],
         split' \in BOOLEAN, split => split',
         routed' \in Seq(Seq([id : Intake!Msgs, atts : SUBSET Nat])),
         \A i \in DOMAIN routed' : IsGroup(routed'[i])
  PROVE  GroupShape'
<1>1. /\ flushing' \in [Intake!Flushes -> R] /\ flushing'[f] = new
      /\ \A g \in Intake!Flushes \ {f} : flushing'[g] = flushing[g]
  BY DEF GroupShape
<1>2. \A g \in Intake!Flushes :
        /\ IsGroup(flushing'[g].group)
        /\ flushing'[g].at = "none" => flushing'[g].group = <<>>
        /\ flushing'[g].more => split'
  BY <1>1 DEF GroupShape
<1> QED
  BY <1>1, <1>2 DEF GroupShape

LEMMA IntakeFire ==
  ASSUME Intake!IntakeAssumption, IntakeInv, NEW f \in Intake!Flushes, Intake!Fire(f)
  PROVE  IntakeInv'
<1>1. /\ UNCHANGED <<kind, cursor, claims, seen, main, rest, batch, poll, saved, routed, lost>>
      /\ held.timer /\ flushing[f] = Intake!NoFlush /\ Intake!Take(f)
  BY DEF Intake!Fire, Intake!store, Intake!loop
<1>2. PICK R : R = [at : {"none", "memory", "route"},
                    group : Seq([id : Intake!Msgs, atts : SUBSET Nat]), more : BOOLEAN]
  OBVIOUS
<1>3. PICK new \in R :
        /\ flushing' = [flushing EXCEPT ![f] = new]
        /\ IsGroup(new.group) /\ IsGroup(draft')
        /\ new.at = "none" => new.group = <<>>
        /\ new.more => draft' # <<>>
        /\ Splits(draft, new.group, draft')
        /\ split' = (split \/ draft' # <<>>)
        /\ held' = [held EXCEPT !.timer = FALSE]
  BY <1>1, <1>2, TakeFacts DEF IntakeInv
<1>4. GroupShape'
  <2>1. /\ held' \in [timer : BOOLEAN, deferred : BOOLEAN]
        /\ split' \in BOOLEAN /\ (split => split') /\ (new.more => split')
        /\ routed' \in Seq(Seq([id : Intake!Msgs, atts : SUBSET Nat]))
        /\ \A i \in DOMAIN routed' : IsGroup(routed'[i])
    BY <1>1, <1>3 DEF IntakeInv, GroupShape
  <2> QED
    BY <1>2, <1>3, <2>1, FlushShape DEF IntakeInv
<1>5. Grouped(Intake!Groups, draft, flushing, routed) /\ AreGroups(Intake!Groups)
  BY GroupsNow DEF IntakeInv
<1>6. Grouped(Intake!Groups', draft', flushing', routed)
  BY <1>1, <1>4, GroupsNext
<1>7. /\ NFlush \in Nat /\ Len(routed) \in Nat
      /\ flushing'[f] = new /\ \A g \in Intake!Flushes \ {f} : flushing'[g] = flushing[g]
  BY <1>2, <1>3 DEF Intake!IntakeAssumption, IntakeInv, GroupShape
<1>8. Parted(Intake!Groups, Intake!Groups', 1, 1 + f)
  <2>1. /\ DOMAIN Intake!Groups = 1..(1 + NFlush + Len(routed))
        /\ DOMAIN Intake!Groups' = DOMAIN Intake!Groups
        /\ 1 \in DOMAIN Intake!Groups /\ 1 + f \in DOMAIN Intake!Groups /\ 1 # 1 + f
    <3>1. /\ DOMAIN Intake!Groups = 1..(1 + NFlush + Len(routed))
          /\ DOMAIN Intake!Groups' = DOMAIN Intake!Groups
      BY <1>5, <1>6 DEF Grouped
    <3> QED
      BY <1>7, <3>1
  <2>2. /\ Intake!Groups[1 + f] = <<>> /\ Intake!Groups[1] = draft
        /\ Intake!Groups'[1 + f] = new.group /\ Intake!Groups'[1] = draft'
    <3>1. Intake!Groups[1 + f] = flushing[f].group /\ flushing[f].group = <<>>
      BY <1>1, <1>5 DEF Grouped, Intake!NoFlush
    <3>2. Intake!Groups'[1 + f] = flushing'[f].group
      BY <1>6 DEF Grouped
    <3> QED
      BY <1>5, <1>6, <1>7, <3>1, <3>2 DEF Grouped
  <2>3. ASSUME NEW h \in DOMAIN Intake!Groups \ {1, 1 + f}
        PROVE  Intake!Groups'[h] = Intake!Groups[h]
    <3>1. \/ (\E g \in 1..NFlush : h = 1 + g)
          \/ \E i \in 1..Len(routed) : h = 1 + NFlush + i
      BY <1>5, <1>7, GroupPlaces
    <3>2. ASSUME NEW g \in 1..NFlush, h = 1 + g
          PROVE  Intake!Groups'[h] = Intake!Groups[h]
      <4>1. g # f
        BY <3>2
      <4> QED
        BY <1>5, <1>6, <1>7, <3>2, <4>1 DEF Grouped
    <3>3. ASSUME NEW i \in 1..Len(routed), h = 1 + NFlush + i
          PROVE  Intake!Groups'[h] = Intake!Groups[h]
      BY <1>5, <1>6, <3>3 DEF Grouped
    <3> QED
      BY <3>1, <3>2, <3>3
  <2> QED
    BY <1>3, <2>1, <2>2, <2>3 DEF Parted
<1>9. /\ \A m : /\ Somewhere(Intake!Groups', m) <=> Somewhere(Intake!Groups, m)
                /\ \A A : Whole(Intake!Groups, m, A) => Whole(Intake!Groups', m, A)
      /\ draft' = <<>> => \A l, m : Joint(Intake!Groups, l, m) => Joint(Intake!Groups', l, m)
  <2>1. /\ \A m : /\ Somewhere(Intake!Groups', m) <=> Somewhere(Intake!Groups, m)
                  /\ \A A : Whole(Intake!Groups, m, A) => Whole(Intake!Groups', m, A)
        /\ Intake!Groups'[1] = <<>> =>
             \A l, m : Joint(Intake!Groups, l, m) => Joint(Intake!Groups', l, m)
    BY <1>5, <1>8, PartedKeeps
  <2> QED
    BY <1>6, <2>1 DEF Grouped
<1>10. LoopShape' /\ StoreShape' /\ OnceClaimed'
  BY <1>1, <1>9 DEF IntakeInv, LoopShape, StoreShape, OnceClaimed
<1>11. Carried'
  BY <1>1, <1>9 DEF IntakeInv, Carried
<1>12. Coupled'
  <2> SUFFICES ASSUME ~split', NEW a \in Intake!Msgs \ lost, NEW b \in Intake!Msgs \ lost,
                      Mates(a, b)
               PROVE  Joint(Intake!Groups', a, b) \/ Awaited(a, b)'
    BY <1>1 DEF Coupled, Mates
  <2>1. ~split /\ draft' = <<>>
    BY <1>3 DEF IntakeInv, GroupShape
  <2>2. Joint(Intake!Groups, a, b) \/ Awaited(a, b)
    BY <2>1 DEF IntakeInv, Coupled
  <2> QED
    BY <1>1, <1>9, <2>1, <2>2 DEF Awaited
<1> QED
  BY <1>4, <1>10, <1>11, <1>12 DEF IntakeInv

LEMMA IntakeRemembered ==
  ASSUME Intake!IntakeAssumption, IntakeInv, NEW f \in Intake!Flushes, Intake!Remembered(f)
  PROVE  IntakeInv'
<1>1. /\ UNCHANGED <<kind, cursor, claims, seen, main, rest, batch, draft, held, poll, saved,
                     routed, lost, split>>
      /\ flushing' = [flushing EXCEPT ![f].at = "route"]
  BY DEF Intake!Remembered, Intake!store, Intake!loop, Intake!pending, Intake!history
<1>2. PICK P : P = Seq([id : Intake!Msgs, atts : SUBSET Nat])
  OBVIOUS
<1>3. PICK R : R = [at : {"none", "memory", "route"}, group : P, more : BOOLEAN]
  OBVIOUS
<1>4. PICK new : new = [flushing[f] EXCEPT !.at = "route"]
  OBVIOUS
<1>5. flushing \in [Intake!Flushes -> R] /\ flushing[f] \in R
  BY <1>2, <1>3 DEF IntakeInv, GroupShape
<1>6. /\ new \in R /\ new.at = "route" /\ new.group = flushing[f].group
      /\ new.more = flushing[f].more
  BY <1>3, <1>4, <1>5
<1>7. /\ flushing' = [flushing EXCEPT ![f] = new]
      /\ \A g \in Intake!Flushes : flushing'[g].group = flushing[g].group
  BY <1>1, <1>4, <1>5, <1>6
<1>8. GroupShape'
  <2>1. R = [at : {"none", "memory", "route"},
             group : Seq([id : Intake!Msgs, atts : SUBSET Nat]), more : BOOLEAN]
    BY <1>2, <1>3
  <2>2. /\ IsGroup(new.group) /\ new.at # "none" /\ (new.more => split') /\ IsGroup(draft')
        /\ held' \in [timer : BOOLEAN, deferred : BOOLEAN]
        /\ split' \in BOOLEAN /\ (split => split')
        /\ routed' \in Seq(Seq([id : Intake!Msgs, atts : SUBSET Nat]))
        /\ \A i \in DOMAIN routed' : IsGroup(routed'[i])
    BY <1>1, <1>6 DEF IntakeInv, GroupShape
  <2> QED
    BY <1>6, <1>7, <2>1, <2>2, FlushShape DEF IntakeInv
<1>9. Intake!Groups' = Intake!Groups
  BY <1>1, <1>7 DEF Intake!Groups
<1>10. LoopShape' /\ StoreShape' /\ OnceClaimed'
  BY <1>1, <1>9 DEF IntakeInv, LoopShape, StoreShape, OnceClaimed
<1>11. Carried' /\ Coupled'
  BY <1>1, <1>9, CarriedStays, CoupledStays DEF IntakeInv
<1> QED
  BY <1>8, <1>10, <1>11 DEF IntakeInv

LEMMA IntakeRouted ==
  ASSUME Intake!IntakeAssumption, IntakeInv, NEW f \in Intake!Flushes, Intake!Routed(f)
  PROVE  IntakeInv'
<1>1. /\ UNCHANGED <<kind, cursor, claims, seen, main, rest, batch, poll, saved, lost>>
      /\ routed' = Append(routed, flushing[f].group)
      /\ IF flushing[f].more THEN Intake!Take(f)
         ELSE /\ flushing' = [flushing EXCEPT ![f] = Intake!NoFlush]
              /\ UNCHANGED <<draft, held, split>>
  BY DEF Intake!Routed, Intake!Route, Intake!store, Intake!loop, Intake!pending
<1>2. PICK P : P = [id : Intake!Msgs, atts : SUBSET Nat]
  OBVIOUS
<1>3. PICK R : R = [at : {"none", "memory", "route"}, group : Seq(P), more : BOOLEAN]
  OBVIOUS
<1>4. PICK b : b = flushing[f].group
  OBVIOUS
<1>5. IsGroup(b) /\ b \in Seq(P) /\ flushing \in [Intake!Flushes -> R]
  BY <1>2, <1>3, <1>4 DEF IntakeInv, GroupShape, IsGroup
<1>6. /\ routed' \in Seq(Seq(P)) /\ Len(routed') = Len(routed) + 1 /\ Len(routed) \in Nat
      /\ \A i \in 1..Len(routed) : routed'[i] = routed[i]
      /\ routed'[Len(routed) + 1] = b
      /\ \A i \in DOMAIN routed' : IsGroup(routed'[i])
  <2>1. routed \in Seq(Seq(P)) /\ \A i \in DOMAIN routed : IsGroup(routed[i])
    BY <1>2 DEF IntakeInv, GroupShape
  <2> QED
    BY <1>1, <1>4, <1>5, <2>1, OneRouted
<1>7. PICK new \in R :
        /\ flushing' = [flushing EXCEPT ![f] = new]
        /\ IsGroup(new.group) /\ IsGroup(draft')
        /\ new.at = "none" => new.group = <<>>
        /\ new.more => split'
        /\ split' \in BOOLEAN /\ (split => split')
        /\ held' \in [timer : BOOLEAN, deferred : BOOLEAN]
        /\ \/ split' /\ Splits(draft, new.group, draft')
           \/ new.group = <<>> /\ draft' = draft /\ held' = held /\ split' = split
  <2>1. CASE flushing[f].more
    <3>1. PICK new \in R :
            /\ flushing' = [flushing EXCEPT ![f] = new]
            /\ IsGroup(new.group) /\ IsGroup(draft')
            /\ new.at = "none" => new.group = <<>>
            /\ new.more => draft' # <<>>
            /\ Splits(draft, new.group, draft')
            /\ split' = (split \/ draft' # <<>>)
            /\ held' = [held EXCEPT !.timer = FALSE]
      BY <1>1, <1>2, <1>3, <2>1, TakeFacts DEF IntakeInv
    <3>2. split /\ split'
      BY <2>1, <3>1 DEF IntakeInv, GroupShape
    <3>3. held' \in [timer : BOOLEAN, deferred : BOOLEAN] /\ split' \in BOOLEAN
      BY <3>1 DEF IntakeInv, GroupShape
    <3> QED
      BY <3>1, <3>2, <3>3
  <2>2. CASE ~flushing[f].more
    <3>1. PICK new : new = Intake!NoFlush
      OBVIOUS
    <3>2. new.at = "none" /\ new.group = <<>> /\ new.more = FALSE /\ new \in R
      BY <1>3, <3>1 DEF Intake!NoFlush
    <3>3. flushing' = [flushing EXCEPT ![f] = new] /\ UNCHANGED <<draft, held, split>>
      BY <1>1, <2>2, <3>1
    <3>4. /\ IsGroup(draft') /\ split' \in BOOLEAN
          /\ held' \in [timer : BOOLEAN, deferred : BOOLEAN]
      BY <3>3 DEF IntakeInv, GroupShape
    <3> QED
      BY <3>2, <3>3, <3>4, EmptyGroup
  <2> QED
    BY <2>1, <2>2
<1>8. GroupShape'
  <2>1. R = [at : {"none", "memory", "route"},
             group : Seq([id : Intake!Msgs, atts : SUBSET Nat]), more : BOOLEAN]
        /\ routed' \in Seq(Seq([id : Intake!Msgs, atts : SUBSET Nat]))
    BY <1>2, <1>3, <1>6
  <2> QED
    BY <1>6, <1>7, <2>1, FlushShape DEF IntakeInv
<1>9. Grouped(Intake!Groups, draft, flushing, routed) /\ AreGroups(Intake!Groups)
  BY GroupsNow DEF IntakeInv
<1>10. Grouped(Intake!Groups', draft', flushing', routed')
  BY <1>8, GroupsNext
<1>11. /\ NFlush \in Nat
       /\ flushing'[f] = new /\ \A g \in Intake!Flushes \ {f} : flushing'[g] = flushing[g]
  BY <1>5, <1>7 DEF Intake!IntakeAssumption
<1>12. PICK n : n = 1 + NFlush + (Len(routed) + 1)
  OBVIOUS
<1>13. PICK k : k = 1 + f
  OBVIOUS
<1> DEFINE moved == [h \in DOMAIN Intake!Groups \union {n} |->
                       IF h = n THEN b ELSE IF h = k THEN <<>> ELSE Intake!Groups[h]]
<1>14. /\ n \notin DOMAIN Intake!Groups /\ k \in DOMAIN Intake!Groups /\ k # n
       /\ 1 \in DOMAIN Intake!Groups /\ 1 # k /\ 1 # n
       /\ DOMAIN Intake!Groups' = DOMAIN Intake!Groups \union {n}
  <2>1. /\ DOMAIN Intake!Groups = 1..(1 + NFlush + Len(routed))
        /\ DOMAIN Intake!Groups' = 1..(1 + NFlush + (Len(routed) + 1))
    BY <1>6, <1>9, <1>10 DEF Grouped
  <2> QED
    BY <1>6, <1>11, <1>12, <1>13, <2>1
<1>15. /\ DOMAIN moved = DOMAIN Intake!Groups \union {n} /\ moved[n] = b /\ moved[k] = <<>>
       /\ \A h \in DOMAIN Intake!Groups \ {k} : moved[h] = Intake!Groups[h]
  BY <1>14
<1> HIDE DEF moved
<1>16. Intake!Groups[k] = b
  BY <1>4, <1>9, <1>13 DEF Grouped
<1>17. Passed(Intake!Groups, moved, k, n)
  BY <1>14, <1>15, <1>16 DEF Passed
<1>18. /\ AreGroups(moved)
       /\ \A m : /\ Somewhere(moved, m) <=> Somewhere(Intake!Groups, m)
                 /\ \A A : Whole(Intake!Groups, m, A) => Whole(moved, m, A)
       /\ \A l, m : Joint(Intake!Groups, l, m) => Joint(moved, l, m)
  BY <1>9, <1>17, PassedKeeps
<1>19. /\ Intake!Groups'[1] = draft' /\ Intake!Groups[1] = draft
       /\ Intake!Groups'[k] = new.group
       /\ \A h \in DOMAIN moved \ {1, k} : Intake!Groups'[h] = moved[h]
  <2>1. /\ Intake!Groups'[1] = draft' /\ Intake!Groups[1] = draft
        /\ Intake!Groups'[k] = new.group
    BY <1>9, <1>10, <1>11, <1>13 DEF Grouped
  <2>2. Intake!Groups'[n] = b
    <3>1. Len(routed) + 1 \in 1..Len(routed')
      BY <1>6
    <3> QED
      BY <1>6, <1>10, <1>12, <3>1 DEF Grouped
  <2>3. ASSUME NEW h \in DOMAIN Intake!Groups \ {1, k}
        PROVE  Intake!Groups'[h] = Intake!Groups[h]
    <3>1. \/ (\E g \in 1..NFlush : h = 1 + g)
          \/ \E i \in 1..Len(routed) : h = 1 + NFlush + i
      BY <1>6, <1>9, <1>11, GroupPlaces
    <3>2. ASSUME NEW g \in 1..NFlush, h = 1 + g
          PROVE  Intake!Groups'[h] = Intake!Groups[h]
      <4>1. g # f
        BY <1>13, <3>2
      <4> QED
        BY <1>9, <1>10, <1>11, <3>2, <4>1 DEF Grouped
    <3>3. ASSUME NEW i \in 1..Len(routed), h = 1 + NFlush + i
          PROVE  Intake!Groups'[h] = Intake!Groups[h]
      <4>1. i \in 1..Len(routed')
        BY <1>6
      <4> QED
        BY <1>6, <1>9, <1>10, <3>3, <4>1 DEF Grouped
    <3> QED
      BY <3>1, <3>2, <3>3
  <2> QED
    BY <1>14, <1>15, <2>1, <2>2, <2>3
<1>20. \A m : /\ Somewhere(Intake!Groups', m) <=> Somewhere(moved, m)
              /\ \A A : Whole(moved, m, A) => Whole(Intake!Groups', m, A)
  <2>1. CASE Splits(draft, new.group, draft')
    <3>1. Parted(moved, Intake!Groups', 1, k)
      BY <1>14, <1>15, <1>19, <2>1 DEF Parted
    <3> QED
      BY <1>18, <3>1, PartedKeeps
  <2>2. CASE new.group = <<>> /\ draft' = draft
    <3>1. /\ Dropped(moved, Intake!Groups')
          /\ \A h \in DOMAIN moved : Intake!Groups'[h] = moved[h]
      BY <1>14, <1>15, <1>19, <2>2 DEF Dropped
    <3> QED
      BY <1>18, <3>1, DroppedKeeps
  <2> QED
    BY <1>7, <2>1, <2>2
<1>21. ~split' => \A l, m : Joint(moved, l, m) => Joint(Intake!Groups', l, m)
  <2> SUFFICES ASSUME ~split'
               PROVE  \A l, m : Joint(moved, l, m) => Joint(Intake!Groups', l, m)
    OBVIOUS
  <2>1. /\ Dropped(moved, Intake!Groups')
        /\ \A h \in DOMAIN moved : Intake!Groups'[h] = moved[h]
    BY <1>7, <1>14, <1>15, <1>19 DEF Dropped
  <2> QED
    BY <1>18, <2>1, DroppedKeeps
<1>22. LoopShape' /\ StoreShape' /\ OnceClaimed'
  BY <1>1, <1>18, <1>20 DEF IntakeInv, LoopShape, StoreShape, OnceClaimed
<1>23. Carried'
  BY <1>1, <1>18, <1>20 DEF IntakeInv, Carried
<1>24. Coupled'
  <2> SUFFICES ASSUME ~split', NEW a \in Intake!Msgs \ lost, NEW c \in Intake!Msgs \ lost,
                      Mates(a, c)
               PROVE  Joint(Intake!Groups', a, c) \/ Awaited(a, c)'
    BY <1>1 DEF Coupled, Mates
  <2>1. ~split /\ draft' = draft /\ held' = held
    BY <1>7
  <2>2. Joint(Intake!Groups, a, c) \/ Awaited(a, c)
    BY <2>1 DEF IntakeInv, Coupled
  <2> QED
    BY <1>1, <1>18, <1>20, <1>21, <2>1, <2>2 DEF Awaited
<1> QED
  BY <1>8, <1>22, <1>23, <1>24 DEF IntakeInv

LEMMA IntakeBatchThrows ==
  ASSUME Intake!IntakeAssumption, IntakeInv, NEW f \in Intake!Flushes, Intake!BatchThrows(f)
  PROVE  IntakeInv'
<1>1. /\ UNCHANGED <<kind, cursor, claims, seen, main, rest, batch, draft, held, poll, saved,
                     routed, split>>
      /\ lost' = lost \union Intake!IdsOf(flushing[f].group)
      /\ flushing' = [flushing EXCEPT ![f] = Intake!NoFlush]
  BY DEF Intake!BatchThrows, Intake!Lose, Intake!store, Intake!loop, Intake!pending
<1>2. PICK P : P = Seq([id : Intake!Msgs, atts : SUBSET Nat])
  OBVIOUS
<1>3. PICK R : R = [at : {"none", "memory", "route"}, group : P, more : BOOLEAN]
  OBVIOUS
<1>4. PICK new : new = Intake!NoFlush
  OBVIOUS
<1>5. new.at = "none" /\ new.group = <<>> /\ new.more = FALSE /\ new \in R
  <2>1. <<>> \in P
    BY <1>2
  <2> QED
    BY <1>3, <1>4, <2>1 DEF Intake!NoFlush
<1>6. GroupShape'
  <2>1. R = [at : {"none", "memory", "route"},
             group : Seq([id : Intake!Msgs, atts : SUBSET Nat]), more : BOOLEAN]
    BY <1>2, <1>3
  <2>2. /\ IsGroup(new.group) /\ IsGroup(draft') /\ flushing' = [flushing EXCEPT ![f] = new]
        /\ held' \in [timer : BOOLEAN, deferred : BOOLEAN]
        /\ split' \in BOOLEAN /\ (split => split')
        /\ routed' \in Seq(Seq([id : Intake!Msgs, atts : SUBSET Nat]))
        /\ \A i \in DOMAIN routed' : IsGroup(routed'[i])
    BY <1>1, <1>4, <1>5, EmptyGroup DEF IntakeInv, GroupShape
  <2> QED
    BY <1>5, <2>1, <2>2, FlushShape DEF IntakeInv
<1>7. Grouped(Intake!Groups, draft, flushing, routed) /\ AreGroups(Intake!Groups)
  BY GroupsNow DEF IntakeInv
<1>8. Grouped(Intake!Groups', draft, flushing', routed)
  BY <1>1, <1>6, GroupsNext
<1>9. /\ NFlush \in Nat /\ Len(routed) \in Nat
      /\ flushing'[f].group = <<>>
      /\ \A g \in Intake!Flushes \ {f} : flushing'[g] = flushing[g]
  BY <1>1, <1>4, <1>5 DEF Intake!IntakeAssumption, IntakeInv, GroupShape
<1>10. ASSUME NEW h \in DOMAIN Intake!Groups
       PROVE  \/ Intake!Groups'[h] = Intake!Groups[h]
              \/ Intake!Groups'[h] = <<>> /\ Intake!Groups[h] = flushing[f].group
  <2>1. \/ h = 1 \/ (\E g \in 1..NFlush : h = 1 + g)
        \/ \E i \in 1..Len(routed) : h = 1 + NFlush + i
    BY <1>7, <1>9, GroupPlaces
  <2>2. CASE h = 1
    BY <1>7, <1>8, <2>2 DEF Grouped
  <2>3. ASSUME NEW g \in 1..NFlush, h = 1 + g
        PROVE  \/ Intake!Groups'[h] = Intake!Groups[h]
               \/ Intake!Groups'[h] = <<>> /\ Intake!Groups[h] = flushing[f].group
    <3>1. Intake!Groups'[h] = flushing'[g].group /\ Intake!Groups[h] = flushing[g].group
      BY <1>7, <1>8, <2>3 DEF Grouped
    <3> QED
      BY <1>9, <3>1
  <2>4. ASSUME NEW i \in 1..Len(routed), h = 1 + NFlush + i
        PROVE  Intake!Groups'[h] = Intake!Groups[h]
    BY <1>7, <1>8, <2>4 DEF Grouped
  <2> QED
    BY <2>1, <2>2, <2>3, <2>4
<1>11. Dropped(Intake!Groups, Intake!Groups')
  BY <1>7, <1>8, <1>10 DEF Dropped, Grouped
<1>12. /\ \A m : Somewhere(Intake!Groups', m) => Somewhere(Intake!Groups, m)
       /\ \A m \in Intake!Msgs \ lost' :
            /\ Somewhere(Intake!Groups, m) => Somewhere(Intake!Groups', m)
            /\ \A A : Whole(Intake!Groups, m, A) => Whole(Intake!Groups', m, A)
            /\ \A l : Joint(Intake!Groups, l, m) => Joint(Intake!Groups', l, m)
  <2>1. \A m \in Intake!Msgs \ lost' : ~Has(flushing[f].group, m)
    BY <1>1, HasIds
  <2>2. \A m \in Intake!Msgs \ lost' : \A h \in DOMAIN Intake!Groups :
          Intake!Groups'[h] # Intake!Groups[h] => ~Has(Intake!Groups[h], m)
    BY <1>10, <2>1
  <2> QED
    BY <1>7, <1>11, <2>2, DroppedKeeps
<1>13. LoopShape' /\ StoreShape' /\ OnceClaimed'
  BY <1>1, <1>12 DEF IntakeInv, LoopShape, StoreShape, OnceClaimed
<1>14. Carried'
  BY <1>1, <1>12 DEF IntakeInv, Carried
<1>15. Coupled'
  BY <1>1, <1>12 DEF IntakeInv, Coupled, Mates, Awaited
<1> QED
  BY <1>6, <1>13, <1>14, <1>15 DEF IntakeInv

LEMMA IntakeRestart ==
  ASSUME Intake!IntakeAssumption, IntakeInv, Intake!Restart
  PROVE  IntakeInv'
<1>1. /\ UNCHANGED <<kind, cursor, claims, poll, saved, routed, split>>
      /\ seen' = {} /\ main' = [at |-> "poll", msg |-> 0] /\ rest' = <<>> /\ batch' = "none"
      /\ draft' = <<>> /\ held' = [timer |-> FALSE, deferred |-> FALSE]
      /\ flushing' = [f \in Intake!Flushes |-> Intake!NoFlush]
      /\ lost' = lost \union (Intake!IdsOf(draft) \union ({main.msg} \ {0})
                   \union ({rest[i] : i \in DOMAIN rest} \ claims)
                   \union UNION {Intake!IdsOf(flushing[f].group) : f \in Intake!Flushes})
  BY DEF Intake!Restart, Intake!Lose, Intake!Polling, Intake!Unheld, Intake!store, Intake!ToSet
<1>2. LoopShape'
  <2>1. main'.at = "poll" /\ main' \in [at : {"poll"}, msg : {0}]
    BY <1>1
  <2> QED
    BY <1>1, <2>1 DEF LoopShape
<1>3. StoreShape'
  BY <1>1 DEF IntakeInv, StoreShape
<1>4. GroupShape'
  <2>1. PICK P : P = Seq([id : Intake!Msgs, atts : SUBSET Nat])
    OBVIOUS
  <2>2. PICK R : R = [at : {"none", "memory", "route"}, group : P, more : BOOLEAN]
    OBVIOUS
  <2>3. PICK new : new = Intake!NoFlush
    OBVIOUS
  <2>4. new.at = "none" /\ new.group = <<>> /\ new.more = FALSE /\ new \in R
    <3>1. <<>> \in P
      BY <2>1
    <3> QED
      BY <2>2, <2>3, <3>1 DEF Intake!NoFlush
  <2>5. /\ flushing' \in [Intake!Flushes -> R]
        /\ \A f \in Intake!Flushes : flushing'[f] = new
    BY <1>1, <2>3, <2>4
  <2>6. flushing' \in [Intake!Flushes -> [at : {"none", "memory", "route"},
                                        group : Seq([id : Intake!Msgs, atts : SUBSET Nat]),
                                        more : BOOLEAN]]
    BY <2>1, <2>2, <2>5
  <2>7. held' \in [timer : BOOLEAN, deferred : BOOLEAN]
    BY <1>1
  <2>8. \A f \in Intake!Flushes :
          /\ IsGroup(flushing'[f].group)
          /\ flushing'[f].at = "none" => flushing'[f].group = <<>>
          /\ ~flushing'[f].more
    BY <2>4, <2>5, EmptyGroup
  <2> QED
    BY <1>1, <2>6, <2>7, <2>8, EmptyGroup DEF IntakeInv, GroupShape
<1>5. Grouped(Intake!Groups, draft, flushing, routed) /\ AreGroups(Intake!Groups)
  BY GroupsNow DEF IntakeInv
<1>6. Grouped(Intake!Groups', draft', flushing', routed)
  BY <1>1, <1>4, GroupsNext
<1>7. /\ NFlush \in Nat /\ Len(routed) \in Nat
      /\ \A f \in Intake!Flushes : flushing'[f].group = <<>>
  BY <1>1 DEF Intake!IntakeAssumption, IntakeInv, GroupShape, Intake!NoFlush
<1>8. ASSUME NEW h \in DOMAIN Intake!Groups
      PROVE  \/ Intake!Groups'[h] = Intake!Groups[h]
             \/ /\ Intake!Groups'[h] = <<>>
                /\ \/ Intake!Groups[h] = draft
                   \/ \E f \in Intake!Flushes : Intake!Groups[h] = flushing[f].group
  <2>1. \/ h = 1 \/ (\E g \in 1..NFlush : h = 1 + g)
        \/ \E i \in 1..Len(routed) : h = 1 + NFlush + i
    BY <1>5, <1>7, GroupPlaces
  <2>2. CASE h = 1
    BY <1>1, <1>5, <1>6, <2>2 DEF Grouped
  <2>3. ASSUME NEW g \in 1..NFlush, h = 1 + g
        PROVE  Intake!Groups'[h] = <<>> /\ Intake!Groups[h] = flushing[g].group
    BY <1>5, <1>6, <1>7, <2>3 DEF Grouped
  <2>4. ASSUME NEW i \in 1..Len(routed), h = 1 + NFlush + i
        PROVE  Intake!Groups'[h] = Intake!Groups[h]
    BY <1>5, <1>6, <2>4 DEF Grouped
  <2> QED
    BY <2>1, <2>2, <2>3, <2>4
<1>9. Dropped(Intake!Groups, Intake!Groups')
  BY <1>5, <1>6, <1>8 DEF Dropped, Grouped
<1>10. /\ \A m : Somewhere(Intake!Groups', m) => Somewhere(Intake!Groups, m)
       /\ \A m \in Intake!Msgs \ lost' :
            /\ Somewhere(Intake!Groups, m) => Somewhere(Intake!Groups', m)
            /\ \A A : Whole(Intake!Groups, m, A) => Whole(Intake!Groups', m, A)
            /\ \A l : Joint(Intake!Groups, l, m) => Joint(Intake!Groups', l, m)
  <2>1. \A m \in Intake!Msgs \ lost' :
          ~Has(draft, m) /\ \A f \in Intake!Flushes : ~Has(flushing[f].group, m)
    BY <1>1, HasIds
  <2>2. \A m \in Intake!Msgs \ lost' : \A h \in DOMAIN Intake!Groups :
          Intake!Groups'[h] # Intake!Groups[h] => ~Has(Intake!Groups[h], m)
    BY <1>8, <2>1
  <2> QED
    BY <1>5, <1>9, <2>2, DroppedKeeps
<1>11. OnceClaimed'
  <2>1. main'.msg = 0
    BY <1>1
  <2> QED
    BY <1>1, <1>10, <2>1 DEF IntakeInv, OnceClaimed
<1>12. ASSUME NEW m \in Intake!Msgs \ lost'
       PROVE  /\ m \notin lost
              /\ m \in claims => Whole(Intake!Groups', m, saved[m])
              /\ poll[m] # 0 => Somewhere(Intake!Groups', m)
  <2>1. /\ m \notin lost /\ main.msg # m
        /\ m \in {rest[i] : i \in DOMAIN rest} => m \in claims
    <3>1. m # 0
      OBVIOUS
    <3> QED
      BY <1>1, <3>1
  <2>2. /\ m \in claims /\ main.msg # m => Whole(Intake!Groups, m, saved[m])
        /\ poll[m] # 0 => Somewhere(Intake!Groups, m) \/ main.msg = m
                          \/ m \in {rest[i] : i \in DOMAIN rest}
    BY <2>1 DEF IntakeInv, Carried
  <2>3. poll[m] # 0 => Somewhere(Intake!Groups, m)
    BY <2>1, <2>2 DEF Whole
  <2> QED
    BY <1>10, <2>1, <2>2, <2>3
<1>13. Carried'
  BY <1>1, <1>12 DEF Carried
<1>14. Coupled'
  <2> SUFFICES ASSUME ~split, NEW a \in Intake!Msgs \ lost', NEW b \in Intake!Msgs \ lost',
                      Mates(a, b)
               PROVE  Joint(Intake!Groups', a, b)
    BY <1>1 DEF Coupled, Mates
  <2>1. a \notin lost /\ b \notin lost
    BY <1>12
  <2>2. Somewhere(Intake!Groups, a) /\ Somewhere(Intake!Groups, b)
    BY <1>10, <1>12 DEF Mates
  <2>3. Joint(Intake!Groups, a, b)
    BY <2>1, <2>2 DEF IntakeInv, Coupled, Awaited
  <2> QED
    BY <1>10, <2>3
<1> QED
  BY <1>2, <1>3, <1>4, <1>11, <1>13, <1>14 DEF IntakeInv

\* Every step of InboundIntake keeps the invariant.
LEMMA IntakeStep ==
  ASSUME Intake!IntakeAssumption, IntakeInv, [Intake!Next]_(Intake!vars)
  PROVE  IntakeInv'
<1>1. CASE UNCHANGED Intake!vars
  <2>1. UNCHANGED <<kind, cursor, claims, seen, main, rest, batch, draft, held, flushing, poll,
                    saved, routed, lost, split>>
    BY <1>1 DEF Intake!vars, Intake!store, Intake!loop, Intake!pending, Intake!history
  <2>2. Intake!Groups' = Intake!Groups
    BY <2>1, GroupsSame
  <2>3. LoopShape' /\ StoreShape' /\ GroupShape' /\ OnceClaimed'
    BY <2>1, <2>2 DEF IntakeInv, LoopShape, StoreShape, GroupShape, OnceClaimed
  <2> QED
    BY <2>1, <2>2, <2>3, CarriedStays, CoupledStays DEF IntakeInv
<1>2. CASE \E k \in Intake!Kinds : Intake!Send(k)
  BY <1>2, IntakeSend
<1>3. CASE \E m \in Intake!Msgs : Intake!Forget(m) \/ Intake!Poll({m})
  BY <1>3, IntakeForget, IntakePoll
<1>4. CASE Intake!MainStep
  <2>1. CASE \E n \in 0..MaxSize : Intake!TakeIn(n)
    BY <2>1, IntakeTakeIn
  <2>2. CASE Intake!Poll({}) \/ Intake!Ignore \/ Intake!Accept \/ Intake!Text \/ Intake!Alone
    BY <2>2, IntakePoll, IntakeIgnore, IntakeAccept, IntakeText, IntakeAlone
  <2>3. CASE Intake!PollDone \/ Intake!PollAgain
    BY <2>3, IntakePollDone, IntakePollAgain
  <2> QED
    BY <1>4, <2>1, <2>2, <2>3 DEF Intake!MainStep
<1>5. CASE Intake!Throws \/ Intake!PollFails \/ Intake!Restart
  BY <1>5, IntakeThrows, IntakePollAgain, IntakeRestart
<1>6. CASE \E f \in Intake!Flushes :
             Intake!Fire(f) \/ Intake!FlushStep(f) \/ Intake!BatchThrows(f)
  BY <1>6, IntakeFire, IntakeRemembered, IntakeRouted, IntakeBatchThrows DEF Intake!FlushStep
<1> QED
  BY <1>1, <1>2, <1>3, <1>4, <1>5, <1>6 DEF Intake!Next

\* What the invariant says of a message: it is whole, and with those of its poll.
Settled(m, at) ==
  /\ m \in claims /\ main.msg # m => at # {} /\ UNION {p[3].atts : p \in at} = saved[m]
  /\ \A p, q \in at : p # q => p[3].atts # {} /\ p[3].atts \intersect q[3].atts = {}

LEMMA IntakeKept ==
  ASSUME Intake!IntakeAssumption, IntakeInv
  PROVE  Intake!BatchKept
<1>1. Grouped(Intake!Groups, draft, flushing, routed) /\ AreGroups(Intake!Groups)
  BY GroupsNow DEF IntakeInv
<1>2. PICK G : G = Intake!Groups
  OBVIOUS
<1>3. \A p : p \in Intake!Places <=>
        \E g \in DOMAIN G : \E i \in DOMAIN G[g] : p = <<g, i, G[g][i]>>
  BY <1>2 DEF Intake!Places
<1>4. AreGroups(G) /\ Grouped(G, draft, flushing, routed)
  BY <1>1, <1>2
<1>5. ASSUME NEW m \in Intake!Msgs \ lost, Somewhere(G, m)
      PROVE  m \in claims /\ m # main.msg /\ Whole(G, m, saved[m])
  BY <1>2, <1>5 DEF IntakeInv, OnceClaimed, Carried
<1>6. ASSUME NEW m \in Intake!Msgs \ lost,
             NEW at, at = {p \in Intake!Places : p[3].id = m}
      PROVE  Settled(m, at)
  <2>1. \A p \in at : \E g \in DOMAIN G : \E i \in DOMAIN G[g] :
          /\ p = <<g, i, G[g][i]>> /\ G[g][i].id = m
          /\ Has(G[g], m) /\ Of(G[g], m) = p[3].atts
    <3> SUFFICES ASSUME NEW p \in at
                 PROVE  \E g \in DOMAIN G : \E i \in DOMAIN G[g] :
                          /\ p = <<g, i, G[g][i]>> /\ G[g][i].id = m
                          /\ Has(G[g], m) /\ Of(G[g], m) = p[3].atts
      OBVIOUS
    <3>1. PICK g \in DOMAIN G : \E i \in DOMAIN G[g] : p = <<g, i, G[g][i]>>
      BY <1>3, <1>6
    <3>2. PICK i \in DOMAIN G[g] : p = <<g, i, G[g][i]>>
      BY <3>1
    <3>3. p[3] = G[g][i] /\ G[g][i].id = m
      BY <1>6, <3>2
    <3>4. Has(G[g], G[g][i].id) /\ Of(G[g], G[g][i].id) = G[g][i].atts
      BY <1>4, GroupFacts DEF AreGroups
    <3> QED
      BY <3>2, <3>3, <3>4
  <2>2. \A g \in DOMAIN G : Has(G[g], m) => \E p \in at : Of(G[g], m) = p[3].atts
    <3> SUFFICES ASSUME NEW g \in DOMAIN G, Has(G[g], m)
                 PROVE  \E p \in at : Of(G[g], m) = p[3].atts
      OBVIOUS
    <3>1. PICK i \in DOMAIN G[g] : G[g][i].id = m
      BY DEF Has
    <3>2. PICK p : p = <<g, i, G[g][i]>>
      OBVIOUS
    <3>3. p \in Intake!Places /\ p[3] = G[g][i]
      BY <1>3, <3>2
    <3>4. Of(G[g], G[g][i].id) = G[g][i].atts
      BY <1>4, GroupFacts DEF AreGroups
    <3> QED
      BY <1>6, <3>1, <3>3, <3>4
  <2>3. ASSUME m \in claims, main.msg # m
        PROVE  at # {} /\ UNION {p[3].atts : p \in at} = saved[m]
    <3>1. Whole(G, m, saved[m])
      BY <1>2, <2>3 DEF IntakeInv, Carried
    <3>2. Somewhere(G, m) /\ UNION {Of(G[h], m) : h \in DOMAIN G} = saved[m]
      BY <3>1 DEF Whole
    <3>3. at # {}
      BY <2>2, <3>2 DEF Somewhere
    <3>4. \A h \in DOMAIN G : ~Has(G[h], m) => Of(G[h], m) = {}
      BY <1>4, GroupFacts DEF AreGroups
    <3>5. UNION {p[3].atts : p \in at} \subseteq UNION {Of(G[h], m) : h \in DOMAIN G}
      BY <2>1
    <3>6. UNION {Of(G[h], m) : h \in DOMAIN G} \subseteq UNION {p[3].atts : p \in at}
      BY <2>2, <3>4
    <3> QED
      BY <3>2, <3>3, <3>5, <3>6
  <2>4. ASSUME NEW p \in at, NEW q \in at, p # q
        PROVE  p[3].atts # {} /\ p[3].atts \intersect q[3].atts = {}
    <3>1. PICK g \in DOMAIN G : \E i \in DOMAIN G[g] :
            /\ p = <<g, i, G[g][i]>> /\ G[g][i].id = m
            /\ Has(G[g], m) /\ Of(G[g], m) = p[3].atts
      BY <2>1
    <3>2. PICK h \in DOMAIN G : \E i \in DOMAIN G[h] :
            /\ q = <<h, i, G[h][i]>> /\ G[h][i].id = m
            /\ Has(G[h], m) /\ Of(G[h], m) = q[3].atts
      BY <2>1
    <3>3. g # h
      <4>1. IsGroup(G[g])
        BY <1>4 DEF AreGroups
      <4> QED
        BY <2>4, <3>1, <3>2, <4>1 DEF IsGroup
    <3>4. Whole(G, m, saved[m])
      BY <1>5, <3>1 DEF Somewhere
    <3> QED
      BY <3>1, <3>2, <3>3, <3>4 DEF Whole, AttsApart
  <2> QED
    BY <2>3, <2>4 DEF Settled
<1>7. ASSUME NEW m \in Intake!Msgs \ lost, NEW n \in Intake!Msgs \ lost,
             ~split, poll[m] = poll[n], {m, n} \subseteq Intake!RoutedOnes,
             kind[m] \in {"text", "prelude"}, kind[n] = "files"
      PROVE  \E i \in DOMAIN routed : {m, n} \subseteq Intake!Routes(i)
  <2>1. /\ NFlush \in Nat /\ Len(routed) \in Nat /\ DOMAIN routed = 1..Len(routed)
        /\ \A i \in DOMAIN routed :
             G[1 + NFlush + i] = routed[i] /\ 1 + NFlush + i \in DOMAIN G
    <3>1. /\ NFlush \in Nat /\ Len(routed) \in Nat /\ DOMAIN routed = 1..Len(routed)
          /\ DOMAIN G = 1..(1 + NFlush + Len(routed))
          /\ \A i \in 1..Len(routed) : G[1 + NFlush + i] = routed[i]
      BY <1>4, LenProperties DEF Intake!IntakeAssumption, IntakeInv, GroupShape, Grouped
    <3>2. \A i \in 1..Len(routed) : 1 + NFlush + i \in 1..(1 + NFlush + Len(routed))
      BY <3>1
    <3> QED
      BY <3>1, <3>2
  <2>2. \A q \in Intake!RoutedOnes : \E i \in DOMAIN routed : Has(routed[i], q)
    BY HasIds DEF Intake!RoutedOnes, Intake!Routes
  <2>3. Somewhere(G, m) /\ Somewhere(G, n)
    BY <1>7, <2>1, <2>2 DEF Somewhere
  <2>4. PICK i \in DOMAIN routed : Has(routed[i], m)
    BY <1>7, <2>2
  <2>5. Whole(G, m, saved[m]) /\ m \in claims
    BY <1>5, <2>3
  <2>6. poll[m] # 0
    BY <2>5 DEF IntakeInv, StoreShape
  <2>7. PICK h \in DOMAIN G : Has(G[h], m) /\ Has(G[h], n)
    <3>1. Joint(G, m, n) \/ Awaited(m, n)
      BY <1>2, <1>7, <2>6 DEF IntakeInv, Coupled, Mates
    <3>2. ~Awaited(m, n)
      BY <1>2, <2>3 DEF Awaited
    <3> QED
      BY <3>1, <3>2 DEF Joint
  <2>8. saved[m] = {}
    BY <1>7 DEF IntakeInv, StoreShape
  <2>9. h = 1 + NFlush + i
    <3>1. Of(G[h], m) = {}
      BY <2>5, <2>8 DEF Whole
    <3>2. Has(G[1 + NFlush + i], m) /\ 1 + NFlush + i \in DOMAIN G
      BY <2>1, <2>4
    <3> QED
      BY <2>5, <2>7, <3>1, <3>2 DEF Whole, AttsApart
  <2>10. Has(routed[i], n)
    BY <2>1, <2>7, <2>9
  <2> QED
    BY <2>4, <2>10, HasIds DEF Intake!Routes
<1>8. \A m \in Intake!Msgs \ lost : Settled(m, {p \in Intake!Places : p[3].id = m})
  BY <1>6
<1> QED
  BY <1>7, <1>8 DEF Intake!BatchKept, Settled

\* Every value is of its type: in particular, the main loop has a message in hand only
\* once it was claimed, and the draft and the batches that flushes hold and route have
\* each message once.
THEOREM IntakeTypeCorrect ==
  IntakeSpec => [](LoopShape /\ StoreShape /\ GroupShape)
<1>1. Intake!Init => IntakeInv
  BY IntakeBounds, IntakeInit
<1>2. IntakeInv /\ [Intake!Next]_(Intake!vars) => IntakeInv'
  BY IntakeBounds, IntakeStep
<1>3. IntakeInv => LoopShape /\ StoreShape /\ GroupShape
  BY DEF IntakeInv
<1> QED
  BY <1>1, <1>2, <1>3, PTL DEF IntakeSpec, Intake!Spec

\* Nothing is lost or sent twice on the way through the batch, and a text and an
\* attachment of one poll reach the runtime in one turn (flushPendingAttachmentInboundBatch).
THEOREM IntakeKeepsBatch ==
  IntakeSpec => []BatchKept
<1>1. Intake!Init => IntakeInv
  BY IntakeBounds, IntakeInit
<1>2. IntakeInv /\ [Intake!Next]_(Intake!vars) => IntakeInv'
  BY IntakeBounds, IntakeStep
<1>3. IntakeInv => BatchKept
  BY IntakeBounds, IntakeKept DEF BatchKept
<1> QED
  BY <1>1, <1>2, <1>3, PTL DEF IntakeSpec, Intake!Spec
=============================================================================
