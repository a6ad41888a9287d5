--------------------------- MODULE MetabolismProofs ---------------------------
(***************************************************************************)
(* Theorems about Metabolism, for every number of sources, attempts and    *)
(* messages, every delay and any number of faults: that attempts under way *)
(* are about different sources and completed ones agree with their ledger  *)
(* (AttemptsApart), and that nothing is closed as promoted without a       *)
(* mutation (PromotionProven).                                             *)
(***************************************************************************)
EXTENDS Metabolism, WellFoundedInduction, TLAPS

USE BoundsAssumption DEF Sources, Attempts, Messages, None

-----------------------------------------------------------------------------
\* Types.
Disps == UNION {[S -> Dispositions] : S \in SUBSET Sources}
Kinds == {"none", "mutated", "no_op"}
Receipts == [kind : Kinds, count : Nat, disp : Disps]

AttemptRecords ==
  [status : Statuses, src : SUBSET Sources, age : Nat, loose : BOOLEAN,
   wait : Nat, count : Nat, proved : SUBSET Sources, receipt : Receipts]

Places == {"gone", "queued", "held", "started", "marked", "lost"}
MessageRecords ==
  [attempt : 0..NAttempt, at : Places, ttl : Nat, call : SUBSET Sources]

TypeOK ==
  /\ attempts \in [Attempts -> AttemptRecords]
  /\ message \in [Messages -> MessageRecords]
  /\ \A m \in Messages : message[m].call # {} => message[m].attempt # None
  /\ disposed \in [Sources -> {"open"} \cup Closing]
  /\ retryAfter \in Nat

\* Every nonempty set of natural numbers has a least member.
LEMMA LeastNat ==
  ASSUME NEW T \in SUBSET Nat, T # {}
  PROVE  \E x \in T : \A y \in T : x <= y
<1> DEFINE R == {ss \in Nat \X Nat : ss[1] < ss[2]}
<1>1. IsWellFoundedOn(R, Nat)
  BY NatLessThanWellFounded DEF OpToRel
<1>2. \A x, y \in Nat : y < x => <<y, x>> \in R
  OBVIOUS
<1> HIDE DEF R
<1>3. PICK x \in T : \A y \in T : ~(<<y, x>> \in R)
  BY <1>1, WFMin
<1>4. ASSUME NEW y \in T PROVE x <= y
  <2>1. x \in Nat /\ y \in Nat /\ ~(y < x)
    BY <1>2, <1>3
  <2> QED
    BY <2>1
<1> QED
  BY <1>4

\* Min picks a member of a set of numbers.
LEMMA MinMember ==
  ASSUME NEW T \in SUBSET Nat, T # {}
  PROVE  Min(T) \in T
<1>1. \E x \in T : \A y \in T : x =< y
  BY LeastNat
<1>2. Min(T) = CHOOSE x \in T : \A y \in T : x =< y
  BY DEF Min
<1> QED
  BY <1>1, <1>2, Zenon

LEMMA MinAttempt ==
  ASSUME NEW T \in SUBSET Attempts, T # {}
  PROVE  Min(T) \in T /\ Min(T) \in Attempts
<1>1. T \in SUBSET Nat
  OBVIOUS
<1>2. Min(T) \in T
  BY <1>1, MinMember
<1> QED
  BY <1>2

\* The words are what they are.
LEMMA StatusWords ==
  /\ {"none", "queued", "dispatched", "mutation_seen", "receipt_verified",
      "receipt_failed", "retrying", "completed", "completed_partial"} = Statuses
  /\ Open \subseteq Statuses /\ Mutable \subseteq Open
  /\ "none" \notin Open /\ "retrying" \notin Open /\ Open \cap Completed = {}
  /\ {"queued", "dispatched", "mutation_seen", "receipt_verified",
      "receipt_failed"} \subseteq Open
  /\ {"completed", "completed_partial"} \subseteq Completed
  /\ "none" \notin Completed /\ "retrying" \notin Completed
BY DEF Statuses, Open, Mutable, Completed

LEMMA BlankType ==
  /\ NoReceipt \in Receipts /\ NoReceipt.kind = "none"
  /\ NoReceipt.count = 0
  /\ NoAttempt \in AttemptRecords
  /\ NoAttempt.status = "none" /\ NoAttempt.src = {} /\ NoAttempt.age = 0
  /\ NoAttempt.loose = FALSE /\ NoAttempt.wait = 0 /\ NoAttempt.count = 0
  /\ NoAttempt.proved = {} /\ NoAttempt.receipt = NoReceipt
<1> DEFINE empty == [s \in {} |-> "invalid"]
<1>1. empty \in [{} -> Dispositions]
  OBVIOUS
<1>2. empty \in Disps
  <2>1. [{} -> Dispositions] \in {[S -> Dispositions] : S \in SUBSET Sources}
    OBVIOUS
  <2> QED
    BY <1>1, <2>1 DEF Disps
<1> HIDE DEF empty
<1>3. NoReceipt = [kind |-> "none", count |-> 0, disp |-> empty]
  BY DEF NoReceipt, empty
<1>4. "none" \in Kinds
  BY DEF Kinds
<1>5. NoReceipt \in Receipts /\ NoReceipt.kind = "none" /\ NoReceipt.count = 0
  BY <1>2, <1>3, <1>4 DEF Receipts
<1>6. "none" \in Statuses
  BY DEF Statuses
<1> QED
  BY <1>5, <1>6 DEF NoAttempt, AttemptRecords

-----------------------------------------------------------------------------
\* What a step does to one attempt.

\* The same attempt, with nothing but its status, its times and its looseness
\* changed; and with its status kept.
Same(x, y) ==
  /\ y.src = x.src /\ y.count = x.count /\ y.proved = x.proved
  /\ y.receipt = x.receipt
Tied(x, y) ==
  /\ x.loose => y.loose
  /\ y.age = x.age \/ (y.age >= MaxAge => y.loose)
Aged(x, y) ==
  /\ Same(x, y) /\ Tied(x, y) /\ y.status = x.status
  /\ x.status = "none" => y = x

\* A message that its attempt still has to hear of.
Alive(m) == message[m].at # "gone" /\ message[m].attempt # None

\* Message m is done with and its attempt is to be retried.
Back(m, a, x, y) ==
  /\ Alive(m) /\ message[m].attempt = a /\ message'[m].at = "gone"
  /\ Same(x, y) /\ Tied(x, y) /\ y.status = "retrying"
Requeued(a, x, y) ==
  /\ Requeue /\ a = Min(Due) /\ x.status = "retrying"
  /\ Same(x, y) /\ Tied(x, y) /\ y.status = "queued"
New(a, x, y) ==
  /\ a = Min(FreeAttempts) /\ x.status = "none"
  /\ y.age = 0 /\ y.count = 0 /\ y.proved = {} /\ y.receipt = NoReceipt
  /\ \/ Create /\ y.status = "queued"
     \/ \E m \in Messages :
          LET c == message[m].attempt
          IN /\ TurnSettled(m) /\ y.status = "retrying"
             /\ y.src \subseteq DOMAIN attempts[c].receipt.disp
             /\ (attempts[c].loose => y.loose)
Marked(m, a, x, y) ==
  /\ Alive(m) /\ message[m].attempt = a
  /\ Same(x, y) /\ Tied(x, y) /\ y.status = "dispatched"
Ledger(x, y) ==
  /\ x.status \in Mutable /\ y.status \in {x.status, "mutation_seen"}
  /\ y.src = x.src /\ y.receipt = x.receipt /\ Tied(x, y)
  /\ y.count = x.count + 1 /\ x.proved \subseteq y.proved
Receipted(m, a, x, y) ==
  /\ Alive(m) /\ message[m].attempt = a
  /\ y.status \in {"receipt_verified", "receipt_failed"}
  /\ y.src = x.src /\ y.count = x.count /\ y.proved = x.proved /\ Tied(x, y)
  /\ y.receipt = x.receipt \/ DOMAIN y.receipt.disp = x.src
Settled(m, a, x, y) ==
  /\ TurnSettled(m) /\ message[m].attempt = a
  /\ Same(x, y) /\ Tied(x, y) /\ y.status \in Completed

Turns(a, x, y) ==
  \/ Aged(x, y) \/ Requeued(a, x, y) \/ New(a, x, y) \/ Ledger(x, y)
  \/ \E m \in Messages : \/ Back(m, a, x, y) \/ Marked(m, a, x, y)
                         \/ Receipted(m, a, x, y) \/ Settled(m, a, x, y)

\* An attempt's record with a new status, and with a new time to wait.
LEMMA StatusSet ==
  ASSUME NEW x \in AttemptRecords, NEW s \in Statuses, NEW w \in Nat
  PROVE  /\ [x EXCEPT !.status = s] \in AttemptRecords
         /\ Same(x, [x EXCEPT !.status = s]) /\ Tied(x, [x EXCEPT !.status = s])
         /\ [x EXCEPT !.status = s].status = s
         /\ [x EXCEPT !.status = s, !.wait = w] \in AttemptRecords
         /\ Same(x, [x EXCEPT !.status = s, !.wait = w])
         /\ Tied(x, [x EXCEPT !.status = s, !.wait = w])
         /\ [x EXCEPT !.status = s, !.wait = w].status = s
BY DEF AttemptRecords, Same, Tied

\* What a record is after its status and its wait are set.
Delays(x, s, w) ==
  LET y == [x EXCEPT !.status = s, !.wait = w]
  IN  y \in AttemptRecords /\ Same(x, y) /\ Tied(x, y) /\ y.status = s

LEMMA StatusWaitSet ==
  ASSUME NEW x \in AttemptRecords, NEW s \in Statuses, NEW w \in Nat
  PROVE  Delays(x, s, w)
BY DEF AttemptRecords, Same, Tied, Delays

LEMMA SameAged ==
  ASSUME NEW x \in AttemptRecords
  PROVE  Aged(x, x)
BY DEF AttemptRecords, Aged, Same, Tied

\* A message put in another place.
LEMMA PlacedFields ==
  ASSUME NEW r \in MessageRecords, NEW at \in Places
  PROVE  /\ Placed(r, at) \in MessageRecords
         /\ Placed(r, at).at = at /\ Placed(r, at).call = r.call
         /\ Placed(r, at).attempt \in {r.attempt, None}
         /\ at # "gone" \/ r.call # {} => Placed(r, at).attempt = r.attempt
<1> DEFINE ttl == IF at \in {"queued", "held"} THEN r.ttl ELSE 0
           attempt == IF at = "gone" /\ r.call = {} THEN None ELSE r.attempt
           new == [r EXCEPT !.at = at, !.ttl = ttl, !.attempt = attempt]
<1>1. Placed(r, at) = new
  BY DEF Placed, MessageRecords
<1>2. /\ ttl \in Nat /\ attempt \in 0..NAttempt /\ attempt \in {r.attempt, None}
      /\ at # "gone" \/ r.call # {} => attempt = r.attempt
  BY DEF MessageRecords
<1> HIDE DEF ttl, attempt
<1>3. /\ new \in MessageRecords /\ new.at = at /\ new.call = r.call
      /\ new.attempt = attempt
  BY <1>2 DEF MessageRecords
<1> QED
  BY <1>1, <1>2, <1>3

LEMMA MovedFields ==
  ASSUME TypeOK, NEW m \in Messages, NEW at \in Places, Moved(m, at)
  PROVE  /\ message' \in [Messages -> MessageRecords]
         /\ \A n \in Messages : n # m => message'[n] = message[n]
         /\ message'[m].at = at /\ message'[m].call = message[m].call
         /\ message'[m].attempt \in {message[m].attempt, None}
<1> DEFINE new == Placed(message[m], at)
<1>1. message \in [Messages -> MessageRecords] /\ message[m] \in MessageRecords
  BY DEF TypeOK
<1>2. message' = [message EXCEPT ![m] = new]
  BY <1>1 DEF Moved
<1>3. /\ new \in MessageRecords /\ new.at = at /\ new.call = message[m].call
      /\ new.attempt \in {message[m].attempt, None}
  BY <1>1, PlacedFields
<1> HIDE DEF new
<1> QED
  BY <1>1, <1>2, <1>3

\* Every step turns every attempt in one of these ways.
TurnsAll ==
  \A a \in Attempts :
    attempts'[a] \in AttemptRecords /\ Turns(a, attempts[a], attempts'[a])

LEMMA OneAttempt ==
  ASSUME TypeOK, NEW c \in Attempts, NEW new \in AttemptRecords,
         attempts' = [attempts EXCEPT ![c] = new], Turns(c, attempts[c], new)
  PROVE  /\ TurnsAll /\ attempts' \in [Attempts -> AttemptRecords]
<1>1. \A a \in Attempts : attempts[a] \in AttemptRecords
  BY DEF TypeOK
<1>2. \A a \in Attempts : attempts'[a] = IF a = c THEN new ELSE attempts[a]
  BY DEF TypeOK
<1>3. ASSUME NEW a \in Attempts PROVE Turns(a, attempts[a], attempts[a])
  BY <1>1, SameAged DEF Turns
<1>4. attempts' \in [Attempts -> AttemptRecords]
  BY DEF TypeOK
<1> QED
  BY <1>1, <1>2, <1>3, <1>4 DEF TurnsAll

LEMMA KeptAttempts ==
  ASSUME TypeOK, attempts' = attempts
  PROVE  /\ TurnsAll /\ attempts' \in [Attempts -> AttemptRecords]
<1>1. \A a \in Attempts : attempts[a] \in AttemptRecords
  BY DEF TypeOK
<1>2. ASSUME NEW a \in Attempts PROVE Turns(a, attempts[a], attempts[a])
  BY <1>1, SameAged DEF Turns
<1> QED
  BY <1>1, <1>2 DEF TurnsAll, TypeOK

\* A turn that ends unsettled, and a delay.
LEMMA RetriedAttempts ==
  ASSUME TypeOK, NEW m \in Messages, NEW wait \in Nat,
         message[m].at # "gone", Moved(m, "gone"),
         Retried(message[m].attempt, wait)
  PROVE  /\ TurnsAll /\ attempts' \in [Attempts -> AttemptRecords]
         /\ retryAfter' \in Nat
<1> DEFINE a == message[m].attempt
           new == [attempts[a] EXCEPT !.status = "retrying", !.wait = wait]
<1>1. a \in 0..NAttempt /\ retryAfter \in Nat
  BY DEF TypeOK, MessageRecords
<1> HIDE DEF a
<1>2. CASE a = None
  BY <1>1, <1>2, KeptAttempts DEF Retried, a
<1>3. CASE a # None
  <2>1. /\ a \in Attempts /\ attempts[a] \in AttemptRecords
        /\ attempts' = [attempts EXCEPT ![a].status = "retrying", ![a].wait = wait]
        /\ retryAfter' = wait
    BY <1>1, <1>3 DEF Retried, a, TypeOK
  <2>2. attempts' = [attempts EXCEPT ![a] = new]
    BY <2>1 DEF TypeOK, AttemptRecords
  <2>3. PICK x \in AttemptRecords, s \in Statuses : x = attempts[a] /\ s = "retrying"
    BY <2>1 DEF Statuses
  <2>x. new = [x EXCEPT !.status = s, !.wait = wait]
    BY <2>3
  <2>4. /\ new \in AttemptRecords /\ Same(attempts[a], new)
        /\ Tied(attempts[a], new) /\ new.status = "retrying"
    <3> HIDE DEF new
    <3>1. Delays(x, s, wait)
      BY StatusWaitSet
    <3>2. new \in AttemptRecords /\ Same(x, new) /\ Tied(x, new) /\ new.status = s
      BY <2>x, <3>1 DEF Delays
    <3> QED
      BY <3>2, <2>3, Zenon
  <2> HIDE DEF new
  <2>5. message'[m].at = "gone"
    BY MovedFields DEF Places
  <2>6. Back(m, a, attempts[a], new)
    BY <1>3, <2>4, <2>5 DEF Back, Alive, a
  <2> QED
    BY <2>1, <2>2, <2>4, <2>6, OneAttempt DEF Turns
<1> QED
  BY <1>2, <1>3

\* An attempt is given a new status.
LEMMA StatusMove ==
  ASSUME TypeOK, NEW a \in Attempts, NEW s \in Statuses,
         attempts' = [attempts EXCEPT ![a].status = s]
  PROVE  \E new \in AttemptRecords :
           /\ attempts' = [attempts EXCEPT ![a] = new]
           /\ Same(attempts[a], new) /\ Tied(attempts[a], new) /\ new.status = s
<1>1. PICK x \in AttemptRecords : x = attempts[a]
  BY DEF TypeOK
<1> DEFINE new == [x EXCEPT !.status = s]
<1>2. attempts' = [attempts EXCEPT ![a] = new]
  BY <1>1 DEF TypeOK
<1>3. new \in AttemptRecords /\ Same(x, new) /\ Tied(x, new) /\ new.status = s
  BY StatusSet
<1> HIDE DEF new
<1> QED
  BY <1>1, <1>2, <1>3

LEMMA TickAttempts ==
  ASSUME TypeOK, Tick
  PROVE  TurnsAll /\ attempts' \in [Attempts -> AttemptRecords]
<1> DEFINE
     Older(a) == [attempts[a] EXCEPT !.age = IF @ = MaxAge THEN @ ELSE @ + 1,
                                     !.loose = @ \/ attempts[a].age + 1 >= MaxAge,
                                     !.wait = Less(@)]
     Turned(a) == IF Status(a) \in {"none"} \union Completed THEN attempts[a]
                  ELSE Older(a)
<1>1. attempts' = [a \in Attempts |-> Turned(a)]
  BY DEF Tick
<1>2. ASSUME NEW a \in Attempts
      PROVE  Turned(a) \in AttemptRecords /\ Aged(attempts[a], Turned(a))
  <2>1. PICK x \in AttemptRecords : x = attempts[a]
    BY DEF TypeOK
  <2>2. CASE Status(a) \in {"none"} \union Completed
    <3>1. Turned(a) = x
      BY <2>1, <2>2
    <3> HIDE DEF Turned
    <3> QED
      BY <2>1, <3>1, SameAged
  <2>3. CASE ~(Status(a) \in {"none"} \union Completed)
    <3> DEFINE age == IF x.age = MaxAge THEN x.age ELSE x.age + 1
               loose == x.loose \/ x.age + 1 >= MaxAge
               wait == Less(x.wait)
               new == [x EXCEPT !.age = age, !.loose = loose, !.wait = wait]
    <3>1. Turned(a) = new
      BY <2>1, <2>3 DEF AttemptRecords
    <3>2. /\ x.age \in Nat /\ x.loose \in BOOLEAN /\ x.wait \in Nat
          /\ x.status # "none"
      BY <2>1, <2>3 DEF AttemptRecords, Status
    <3>3. age \in Nat /\ loose \in BOOLEAN /\ wait \in Nat
      BY <3>2 DEF Less
    <3>4. x.loose => loose
      OBVIOUS
    <3>5. age >= MaxAge => loose
      BY <3>2
    <3> HIDE DEF age, loose, wait
    <3>6. /\ new \in AttemptRecords /\ Same(x, new) /\ new.status = x.status
          /\ new.loose = loose /\ new.age = age
      BY <3>2, <3>3 DEF AttemptRecords, Same
    <3> HIDE DEF new, Turned
    <3>7. Tied(x, new)
      BY <3>4, <3>5, <3>6 DEF Tied
    <3> QED
      BY <2>1, <3>1, <3>2, <3>6, <3>7 DEF Aged
  <2> QED
    BY <2>2, <2>3
<1> HIDE DEF Turned
<1>3. \A a \in Attempts : attempts'[a] = Turned(a)
  BY <1>1
<1> QED
  BY <1>1, <1>2, <1>3 DEF TurnsAll, Turns

LEMMA FreeTyped == Due \in SUBSET Attempts /\ FreeAttempts \in SUBSET Attempts
BY DEF Due, FreeAttempts

LEMMA RequeueAttempts ==
  ASSUME TypeOK, Requeue
  PROVE  TurnsAll /\ attempts' \in [Attempts -> AttemptRecords]
<1>1. PICK a \in Attempts : a = Min(Due) /\ a \in Due
  BY FreeTyped, MinAttempt DEF Requeue
<1>2. PICK s \in Statuses : s = "queued"
  BY StatusWords
<1>3. attempts' = [attempts EXCEPT ![a].status = s]
  BY <1>1, <1>2 DEF Requeue
<1>4. PICK new \in AttemptRecords :
        /\ attempts' = [attempts EXCEPT ![a] = new]
        /\ Same(attempts[a], new) /\ Tied(attempts[a], new) /\ new.status = s
  BY <1>3, StatusMove
<1>5. attempts[a].status = "retrying"
  BY <1>1 DEF Due, Status
<1>6. Requeued(a, attempts[a], new)
  BY <1>1, <1>2, <1>4, <1>5 DEF Requeued
<1> QED
  BY <1>4, <1>6, OneAttempt DEF Turns

LEMMA CreateAttempts ==
  ASSUME TypeOK, Create
  PROVE  TurnsAll /\ attempts' \in [Attempts -> AttemptRecords]
<1>1. PICK a \in Attempts : a = Min(FreeAttempts) /\ a \in FreeAttempts
  BY FreeTyped, MinAttempt DEF Create
<1>2. PICK s \in Statuses : s = "queued"
  BY StatusWords
<1>3. PICK src \in SUBSET Sources : src = Collected
  BY DEF Collected, Collectable
<1>0. PICK x \in AttemptRecords : x = NoAttempt
  BY BlankType
<1> DEFINE new == [x EXCEPT !.status = s, !.src = src, !.wait = 0, !.loose = FALSE]
<1>4. /\ new \in AttemptRecords /\ new.status = s /\ new.age = 0
      /\ new.count = 0 /\ new.proved = {} /\ new.receipt = NoReceipt
  <2>1. /\ x.age = 0 /\ x.count = 0 /\ x.proved = {} /\ x.receipt = NoReceipt
    BY <1>0, BlankType
  <2> QED
    BY <2>1 DEF AttemptRecords
<1>5. attempts' = [attempts EXCEPT ![a] = new]
  BY <1>0, <1>1, <1>2, <1>3 DEF Create, Created
<1> HIDE DEF new
<1>6. attempts[a].status = "none"
  BY <1>1 DEF FreeAttempts, Status
<1>7. New(a, attempts[a], new)
  BY <1>1, <1>2, <1>4, <1>6 DEF New
<1> QED
  BY <1>4, <1>5, <1>7, OneAttempt DEF Turns

LEMMA KilledQueueingAttempts ==
  ASSUME TypeOK, KilledWhileQueueing
  PROVE  TurnsAll /\ attempts' \in [Attempts -> AttemptRecords]
<1>1. CASE attempts' = attempts
  BY <1>1, KeptAttempts
<1>2. CASE Due # {} /\ attempts' = [attempts EXCEPT ![Min(Due)].loose = TRUE]
  <2>1. PICK a \in Attempts : a = Min(Due) /\ a \in Due
    BY <1>2, FreeTyped, MinAttempt
  <2>2. PICK x \in AttemptRecords : x = attempts[a]
    BY DEF TypeOK
  <2> DEFINE new == [x EXCEPT !.loose = TRUE]
  <2>3. attempts' = [attempts EXCEPT ![a] = new]
    BY <1>2, <2>1, <2>2 DEF TypeOK
  <2>4. x.status = "retrying"
    BY <2>1, <2>2 DEF Due, Status
  <2>5. /\ new \in AttemptRecords /\ Same(x, new) /\ Tied(x, new)
        /\ new.status = x.status
    BY DEF AttemptRecords, Same, Tied
  <2> HIDE DEF new
  <2>6. Aged(x, new)
    BY <2>4, <2>5 DEF Aged
  <2> QED
    BY <2>2, <2>3, <2>5, <2>6, OneAttempt DEF Turns
<1> QED
  BY <1>1, <1>2 DEF KilledWhileQueueing

LEMMA MarkDispatchedAttempts ==
  ASSUME TypeOK, NEW m \in Messages, MarkDispatched(m)
  PROVE  TurnsAll /\ attempts' \in [Attempts -> AttemptRecords]
<1>1. /\ message[m].at = "started" /\ message[m].attempt \in 0..NAttempt
      /\ attempts' = Dispatched(message[m].attempt)
  BY DEF MarkDispatched, TypeOK, MessageRecords
<1>2. CASE message[m].attempt = None
  BY <1>1, <1>2, KeptAttempts DEF Dispatched
<1>3. CASE message[m].attempt # None
  <2>1. PICK a \in Attempts : a = message[m].attempt
    BY <1>1, <1>3
  <2>2. PICK s \in Statuses : s = "dispatched"
    BY StatusWords
  <2>3. attempts' = [attempts EXCEPT ![a].status = s]
    BY <1>1, <1>3, <2>1, <2>2 DEF Dispatched
  <2>4. PICK new \in AttemptRecords :
          /\ attempts' = [attempts EXCEPT ![a] = new]
          /\ Same(attempts[a], new) /\ Tied(attempts[a], new) /\ new.status = s
    BY <2>3, StatusMove
  <2>5. Marked(m, a, attempts[a], new)
    BY <1>1, <1>3, <2>1, <2>2, <2>4 DEF Marked, Alive
  <2> QED
    BY <2>4, <2>5, OneAttempt DEF Turns
<1> QED
  BY <1>2, <1>3

\* The ledger grows, and the status may go along.
LEMMA LedgerAttempts ==
  ASSUME TypeOK, NEW m \in Messages, NEW S, S = message[m].call, S # {},
         MutationValid(message[m].attempt, S),
         \/ attempts' = Recorded(message[m].attempt, S)
         \/ attempts' = [Recorded(message[m].attempt, S) EXCEPT
                           ![message[m].attempt].status = "mutation_seen"]
  PROVE  TurnsAll /\ attempts' \in [Attempts -> AttemptRecords]
<1>1. /\ message[m].attempt \in 0..NAttempt /\ message[m].attempt # None
      /\ S \in SUBSET Sources
  BY DEF TypeOK, MessageRecords
<1>2. PICK a \in Attempts : a = message[m].attempt
  BY <1>1
<1>3. PICK x \in AttemptRecords : x = attempts[a]
  BY DEF TypeOK
<1>4. PICK s \in Statuses : s = "mutation_seen"
  BY StatusWords
<1>5. x.status \in Mutable
  BY <1>2, <1>3 DEF MutationValid, Status
<1> DEFINE count == x.count + 1
           proved == x.proved \union S
           old == [x EXCEPT !.count = count, !.proved = proved]
           new == [x EXCEPT !.count = count, !.proved = proved, !.status = s]
<1>6. /\ x.count \in Nat /\ count \in Nat /\ proved \in SUBSET Sources
      /\ x.proved \subseteq proved
  BY <1>1 DEF AttemptRecords
<1>7. \/ attempts' = [attempts EXCEPT ![a] = old]
      \/ attempts' = [attempts EXCEPT ![a] = new]
  <2>1. Recorded(a, S) = [attempts EXCEPT ![a] = old]
    BY <1>3 DEF Recorded, TypeOK, AttemptRecords
  <2>2. [Recorded(a, S) EXCEPT ![a].status = s] = [attempts EXCEPT ![a] = new]
    <3>1. Recorded(a, S)[a] = old
      BY <2>1 DEF TypeOK
    <3>2. [old EXCEPT !.status = s] = new
      BY DEF AttemptRecords
    <3> HIDE DEF old, new
    <3>3. [Recorded(a, S) EXCEPT ![a].status = s] =
            [Recorded(a, S) EXCEPT ![a] = [old EXCEPT !.status = s]]
      BY <3>1
    <3> QED
      BY <2>1, <3>2, <3>3 DEF TypeOK
  <2> HIDE DEF old, new
  <2> QED
    BY <1>2, <1>4, <2>1, <2>2
<1> HIDE DEF count, proved
<1>8. /\ old \in AttemptRecords /\ old.status = x.status /\ old.src = x.src
      /\ old.receipt = x.receipt /\ Tied(x, old)
      /\ old.count = count /\ old.proved = proved
  BY <1>6 DEF AttemptRecords, Tied
<1>9. /\ new \in AttemptRecords /\ new.status = s /\ new.src = x.src
      /\ new.receipt = x.receipt /\ Tied(x, new)
      /\ new.count = count /\ new.proved = proved
  BY <1>6 DEF AttemptRecords, Tied
<1> HIDE DEF old, new
<1>10. Ledger(x, old)
  BY <1>5, <1>6, <1>8 DEF Ledger, count
<1>11. Ledger(x, new)
  BY <1>4, <1>5, <1>6, <1>9 DEF Ledger, count
<1>12. CASE attempts' = [attempts EXCEPT ![a] = old]
  BY <1>3, <1>8, <1>10, <1>12, OneAttempt DEF Turns
<1>13. CASE attempts' = [attempts EXCEPT ![a] = new]
  BY <1>3, <1>9, <1>11, <1>13, OneAttempt DEF Turns
<1> QED
  BY <1>7, <1>12, <1>13

LEMMA ReceiptAttempts ==
  ASSUME TypeOK, NEW m \in Messages, Receipt(m)
  PROVE  TurnsAll /\ attempts' \in [Attempts -> AttemptRecords]
<1>1. /\ message[m].at # "gone" /\ message[m].attempt # None
      /\ message[m].attempt \in 0..NAttempt
  BY DEF Receipt, Working, TypeOK, MessageRecords
<1>2. PICK a \in Attempts : a = message[m].attempt
  BY <1>1
<1>3. PICK x \in AttemptRecords : x = attempts[a]
  BY DEF TypeOK
<1>4. PICK kind \in {"mutated", "no_op", "failed"},
           disp \in [x.src -> Dispositions] : RecordReceipt(m, kind, disp)
  BY <1>2, <1>3 DEF Receipt
<1>5. CASE ~Verified(a, kind, disp)
  <2>1. PICK s \in Statuses : s = "receipt_failed"
    BY StatusWords
  <2>2. attempts' = [attempts EXCEPT ![a].status = s]
    BY <1>2, <1>4, <1>5, <2>1 DEF RecordReceipt
  <2>3. PICK new \in AttemptRecords :
          /\ attempts' = [attempts EXCEPT ![a] = new]
          /\ Same(attempts[a], new) /\ Tied(attempts[a], new) /\ new.status = s
    BY <2>2, StatusMove
  <2>4. Receipted(m, a, attempts[a], new)
    BY <1>1, <1>2, <2>1, <2>3 DEF Receipted, Alive, Same
  <2> QED
    BY <2>3, <2>4, OneAttempt DEF Turns
<1>6. CASE Verified(a, kind, disp)
  <2>1. PICK s \in Statuses : s = "receipt_verified"
    BY StatusWords
  <2> DEFINE receipt == [kind |-> kind, count |-> x.count, disp |-> disp]
             new == [x EXCEPT !.status = s, !.receipt = receipt]
  <2>2. kind \in Kinds
    BY <1>6 DEF Verified, Kinds
  <2>3. x.src \in SUBSET Sources /\ x.count \in Nat
    BY DEF AttemptRecords
  <2>4. disp \in Disps /\ DOMAIN disp = x.src
    BY <2>3 DEF Disps
  <2>5. receipt \in Receipts /\ receipt.disp = disp
    BY <2>2, <2>3, <2>4 DEF Receipts
  <2>6. attempts' = [attempts EXCEPT ![a].status = s, ![a].receipt = receipt]
    BY <1>2, <1>3, <1>4, <1>6, <2>1 DEF RecordReceipt
  <2> HIDE DEF receipt
  <2>7. attempts' = [attempts EXCEPT ![a] = new]
    BY <1>3, <2>6 DEF TypeOK, AttemptRecords
  <2>8. /\ new \in AttemptRecords /\ new.status = s /\ new.src = x.src
        /\ new.count = x.count /\ new.proved = x.proved /\ Tied(x, new)
        /\ new.receipt = receipt
    BY <2>5 DEF AttemptRecords, Tied
  <2> HIDE DEF new
  <2>9. Receipted(m, a, x, new)
    BY <1>1, <1>2, <2>1, <2>4, <2>5, <2>8 DEF Receipted, Alive
  <2> QED
    BY <1>3, <2>7, <2>8, <2>9, OneAttempt DEF Turns
<1> QED
  BY <1>5, <1>6

\* An attempt that was never created has nothing.
FreeBlank == \A a \in Attempts : Status(a) = "none" => attempts[a] = NoAttempt

LEMMA TurnSettledAttempts ==
  ASSUME TypeOK, FreeBlank, NEW m \in Messages, TurnSettled(m)
  PROVE  /\ TurnsAll /\ attempts' \in [Attempts -> AttemptRecords]
         /\ attempts'[message[m].attempt].status \in Completed
<1>1. message[m].attempt \in 0..NAttempt /\ message[m].attempt # None
  BY DEF TurnSettled, TypeOK, MessageRecords
<1>2. PICK a \in Attempts : a = message[m].attempt
  BY <1>1
<1>3. PICK x \in AttemptRecords : x = attempts[a]
  BY DEF TypeOK
<1> DEFINE disp == attempts[a].receipt.disp
           retry == {s \in DOMAIN disp : disp[s] \notin Closing}
<1>4. DOMAIN disp \in SUBSET Sources
  <2>1. x.receipt.disp \in Disps
    BY DEF AttemptRecords, Receipts
  <2> QED
    BY <1>3, <2>1 DEF Disps
<1>5. retry \in SUBSET Sources /\ retry \subseteq DOMAIN disp
  BY <1>4
<1>6. CASE retry = {}
  <2>1. PICK s \in Statuses : s = "completed"
    BY StatusWords
  <2>2. attempts' = [attempts EXCEPT ![a].status = s]
    BY <1>2, <1>6, <2>1 DEF TurnSettled
  <2>3. PICK new \in AttemptRecords :
          /\ attempts' = [attempts EXCEPT ![a] = new]
          /\ Same(attempts[a], new) /\ Tied(attempts[a], new) /\ new.status = s
    BY <2>2, StatusMove
  <2>4. Settled(m, a, attempts[a], new)
    BY <1>2, <2>1, <2>3 DEF Settled, Completed
  <2>5. attempts'[a].status \in Completed
    BY <2>1, <2>3 DEF TypeOK, Completed
  <2> QED
    BY <1>2, <2>3, <2>4, <2>5, OneAttempt DEF Turns
<1>7. CASE retry # {}
  <2>1. PICK s \in Statuses : s = "completed_partial"
    BY StatusWords
  <2>2. /\ FreeAttempts # {} /\ Settles(a)
        /\ attempts' = [attempts EXCEPT ![a].status = s,
                          ![Min(FreeAttempts)] = RetryOf(a, retry)]
    BY <1>2, <1>7, <2>1 DEF TurnSettled
  <2>3. PICK f \in Attempts : f = Min(FreeAttempts) /\ f \in FreeAttempts
    BY <2>2, FreeTyped, MinAttempt
  <2>4. f # a
    <3>1. Status(f) = "none"
      BY <2>3 DEF FreeAttempts
    <3>2. attempts[f].receipt.kind = "none"
      BY <3>1, BlankType DEF FreeBlank
    <3> QED
      BY <2>2, <3>2 DEF Settles
  <2> DEFINE new == [x EXCEPT !.status = s]
  <2>5. new \in AttemptRecords /\ Same(x, new) /\ Tied(x, new) /\ new.status = s
    BY StatusSet
  <2>6. PICK blank \in AttemptRecords : blank = NoAttempt
    BY BlankType
  <2>7. PICK st \in Statuses : st = "retrying"
    BY StatusWords
  <2>8. PICK loose \in BOOLEAN : loose = x.loose
    BY DEF AttemptRecords
  <2> DEFINE child == [blank EXCEPT !.status = st, !.src = retry,
                                    !.wait = RetryDelay, !.loose = loose]
  <2>9. RetryOf(a, retry) = child
    BY <1>3, <2>6, <2>7, <2>8 DEF RetryOf, Created
  <2>10. /\ child \in AttemptRecords /\ child.status = st
         /\ child.src = retry /\ child.loose = loose /\ child.age = 0
         /\ child.count = 0 /\ child.proved = {} /\ child.receipt = NoReceipt
    <3>1. /\ blank.age = 0 /\ blank.count = 0 /\ blank.proved = {}
          /\ blank.receipt = NoReceipt
      BY <2>6, BlankType
    <3> HIDE DEF retry
    <3> QED
      BY <1>5, <3>1 DEF AttemptRecords
  <2>11. /\ attempts'[a] = new /\ attempts'[f] = child
         /\ \A b \in Attempts \ {a, f} : attempts'[b] = attempts[b]
         /\ attempts' \in [Attempts -> AttemptRecords]
    <3>1. attempts' = [[attempts EXCEPT ![a] = new] EXCEPT ![f] = child]
      <4>1. attempts' = [[attempts EXCEPT ![a].status = s] EXCEPT ![f] = child]
        <5> HIDE DEF child, retry
        <5> QED
          BY <2>2, <2>3, <2>9
      <4>2. [attempts EXCEPT ![a].status = s] = [attempts EXCEPT ![a] = new]
        BY <1>3 DEF TypeOK
      <4> HIDE DEF child, new
      <4> QED
        BY <4>1, <4>2
    <3> HIDE DEF child, new
    <3> QED
      BY <2>4, <2>5, <2>10, <3>1 DEF TypeOK
  <2> HIDE DEF new, child
  <2>12. Settled(m, a, x, new)
    BY <1>2, <2>1, <2>5 DEF Settled, Completed
  <2>13. New(f, attempts[f], child)
    <3>1. attempts[f].status = "none"
      BY <2>3 DEF FreeAttempts, Status
    <3>2. \E n \in Messages :
            LET c == message[n].attempt
            IN /\ TurnSettled(n) /\ child.status = "retrying"
               /\ child.src \subseteq DOMAIN attempts[c].receipt.disp
               /\ (attempts[c].loose => child.loose)
      <4>1. TurnSettled(m) /\ child.status = "retrying"
        BY <2>7, <2>10
      <4>2. child.src \subseteq DOMAIN attempts[a].receipt.disp
        BY <1>5, <2>10
      <4>3. attempts[a].loose => child.loose
        BY <1>3, <2>8, <2>10
      <4> QED
        BY <1>2, <4>1, <4>2, <4>3
    <3> HIDE DEF retry
    <3> QED
      BY <2>3, <2>10, <3>1, <3>2 DEF New
  <2>14. \A b \in Attempts : Turns(b, attempts[b], attempts[b])
    <3>1. \A b \in Attempts : attempts[b] \in AttemptRecords
      BY DEF TypeOK
    <3> QED
      BY <3>1, SameAged DEF Turns
  <2>15. Turns(a, attempts[a], attempts'[a])
    BY <1>3, <2>11, <2>12 DEF Turns
  <2>16. Turns(f, attempts[f], attempts'[f])
    BY <2>11, <2>13 DEF Turns
  <2>17. \A b \in Attempts : Turns(b, attempts[b], attempts'[b])
    BY <2>11, <2>14, <2>15, <2>16
  <2>18. attempts'[a].status \in Completed
    BY <2>1, <2>5, <2>11 DEF Completed
  <2> QED
    BY <1>2, <2>11, <2>17, <2>18 DEF TurnsAll
<1> QED
  BY <1>6, <1>7

\* Every step of the specification is one of these.
LEMMA AttemptMoves ==
  ASSUME TypeOK, FreeBlank, Next
  PROVE  TurnsAll /\ attempts' \in [Attempts -> AttemptRecords]
<1>1. CASE \E kind \in {"record", "event"} : NewSource(kind)
  BY <1>1, KeptAttempts DEF NewSource
<1>2. CASE \E s \in Sources : LeaveWindow(s)
  BY <1>2, KeptAttempts DEF LeaveWindow
<1>3. CASE Tick
  BY <1>3, TickAttempts
<1>4. CASE Poll
  BY <1>4, RequeueAttempts, CreateAttempts DEF Poll
<1>5. CASE Crash
  BY <1>5, KeptAttempts DEF Crash
<1>6. CASE KilledWhileQueueing
  BY <1>6, KilledQueueingAttempts
<1>7. CASE DispatchStep
  <2>1. PICK m \in Messages :
          \/ Drain(m)
          \/ \E delay \in {RetryDelay, LongDelay} : Deferred(m, delay)
          \/ Refused(m)
          \/ Accepted(m)
          \/ MarkDispatched(m)
    BY <1>7 DEF DispatchStep
  <2>2. CASE \E delay \in {RetryDelay, LongDelay} : Deferred(m, delay)
    <3>1. PICK delay \in {RetryDelay, LongDelay} : Deferred(m, delay)
      BY <2>2
    <3> DEFINE wait == IF delay > RetryDelay THEN delay ELSE RetryDelay
    <3>2. wait \in Nat
      OBVIOUS
    <3>3. /\ message[m].at # "gone" /\ Moved(m, "gone")
          /\ Retried(message[m].attempt, wait)
      BY <3>1 DEF Deferred
    <3> HIDE DEF wait
    <3> QED
      BY <3>2, <3>3, RetriedAttempts
  <2>3. CASE MarkDispatched(m)
    BY <2>3, MarkDispatchedAttempts
  <2>4. CASE Drain(m) \/ Refused(m) \/ Accepted(m)
    BY <2>4, KeptAttempts DEF Drain, Refused, Accepted
  <2> QED
    BY <2>1, <2>2, <2>3, <2>4
<1>8. CASE ToolStep
  <2>1. PICK m \in Messages :
          \/ \E S \in SUBSET Sources : CallTool(m, S)
          \/ RecordMutation(m)
          \/ CallFails(m)
          \/ KilledWhileRecording(m)
          \/ Receipt(m)
    BY <1>8 DEF ToolStep
  <2> DEFINE S == message[m].call
             a == message[m].attempt
  <2>2. CASE RecordMutation(m)
    <3>1. CASE MutationValid(a, S)
      <4>1. S # {} /\ attempts' = [Recorded(a, S) EXCEPT ![a].status = "mutation_seen"]
        BY <2>2, <3>1 DEF RecordMutation
      <4> QED
        BY <3>1, <4>1, LedgerAttempts
    <3>2. CASE ~MutationValid(a, S)
      BY <2>2, <3>2, KeptAttempts DEF RecordMutation
    <3> QED
      BY <3>1, <3>2
  <2>3. CASE KilledWhileRecording(m)
    <3>1. S # {} /\ MutationValid(a, S) /\ attempts' = Recorded(a, S)
      BY <2>3 DEF KilledWhileRecording
    <3> QED
      BY <3>1, LedgerAttempts
  <2>4. CASE Receipt(m)
    BY <2>4, ReceiptAttempts
  <2>5. CASE CallFails(m) \/ \E T \in SUBSET Sources : CallTool(m, T)
    BY <2>5, KeptAttempts DEF CallFails, CallTool
  <2> QED
    BY <2>1, <2>2, <2>3, <2>4, <2>5
<1>9. CASE EndStep
  <2>1. PICK m \in Messages : Lose(m) \/ EndUnheard(m) \/ TurnEnds(m)
    BY <1>9 DEF EndStep
  <2>2. CASE Lose(m) \/ EndUnheard(m) \/ TurnUnknown(m)
    BY <2>2, KeptAttempts DEF Lose, EndUnheard, TurnUnknown
  <2>3. CASE TurnFailed(m) \/ TurnUnsettled(m)
    <3>1. /\ message[m].at # "gone" /\ Moved(m, "gone")
          /\ Retried(message[m].attempt, RetryDelay)
      BY <2>3 DEF TurnFailed, TurnUnsettled
    <3>2. RetryDelay \in Nat
      OBVIOUS
    <3> QED
      BY <3>1, <3>2, RetriedAttempts
  <2>4. CASE TurnSettled(m)
    BY <2>4, TurnSettledAttempts
  <2> QED
    BY <2>1, <2>2, <2>3, <2>4 DEF TurnEnds
<1> QED
  BY <1>1, <1>2, <1>3, <1>4, <1>5, <1>6, <1>7, <1>8, <1>9 DEF Next

-----------------------------------------------------------------------------
\* What a step does to one message.  It never comes back, and it keeps its
\* attempt as long as it is there.
Goes(r, y) ==
  /\ y \in MessageRecords
  /\ y.at # "gone" /\ y.attempt # None => r.at # "gone" /\ y.attempt = r.attempt
  /\ y.call # {} => y.attempt # None

GoesAll == \A n \in Messages : Goes(message[n], message'[n])

\* One that was gone is queued, of attempt c.
Queued(k, c) ==
  /\ message[k].at = "gone" /\ message'[k] \in MessageRecords
  /\ message'[k].attempt = c /\ message'[k].call = {}
  /\ \/ c = None
     \/ Requeue /\ c = Min(Due)
     \/ Create /\ c = Min(FreeAttempts)
     \/ KilledWhileQueueing /\ Due # {} /\ c = Min(Due)

\* A step queues at most one message.
QueuedOne ==
  \E k \in Messages, c \in 0..NAttempt :
    /\ Queued(k, c)
    /\ \A n \in Messages : n # k => Goes(message[n], message'[n])

LEMMA PlaceNames == {"gone", "queued", "held", "started", "marked", "lost"} = Places
BY DEF Places

LEMMA MessageType ==
  ASSUME TypeOK, NEW m \in Messages
  PROVE  message[m] \in MessageRecords /\ Goes(message[m], message[m])
BY DEF TypeOK, Goes

LEMMA PlacedGoes ==
  ASSUME NEW r \in MessageRecords, r.call # {} => r.attempt # None,
         NEW at \in Places, at # "gone" => r.at # "gone"
  PROVE  Goes(r, Placed(r, at))
<1>1. /\ Placed(r, at) \in MessageRecords
      /\ Placed(r, at).at = at /\ Placed(r, at).call = r.call
      /\ Placed(r, at).attempt \in {r.attempt, None}
      /\ at # "gone" \/ r.call # {} => Placed(r, at).attempt = r.attempt
  BY PlacedFields
<1> DEFINE y == Placed(r, at)
<1> HIDE DEF y
<1>2. /\ y \in MessageRecords /\ y.at = at /\ y.call = r.call
      /\ y.attempt \in {r.attempt, None}
      /\ at # "gone" \/ r.call # {} => y.attempt = r.attempt
  BY <1>1 DEF y
<1>3. Goes(r, y)
  BY <1>2 DEF Goes
<1> QED
  BY <1>3 DEF y

LEMMA OneGoes ==
  ASSUME TypeOK, NEW m \in Messages, NEW new, Goes(message[m], new),
         message' = [message EXCEPT ![m] = new]
  PROVE  GoesAll /\ message' \in [Messages -> MessageRecords]
<1>1. \A n \in Messages : message'[n] = IF n = m THEN new ELSE message[n]
  BY DEF TypeOK
<1>2. \A n \in Messages : Goes(message[n], message[n])
  BY MessageType
<1>3. new \in MessageRecords
  BY DEF Goes
<1> QED
  BY <1>1, <1>2, <1>3 DEF GoesAll, TypeOK

LEMMA MovedGoes ==
  ASSUME TypeOK, NEW m \in Messages, NEW at \in Places,
         at # "gone" => message[m].at # "gone", Moved(m, at)
  PROVE  GoesAll /\ message' \in [Messages -> MessageRecords]
<1>1. PICK r \in MessageRecords : r = message[m]
  BY MessageType
<1>2. r.call # {} => r.attempt # None
  BY <1>1 DEF TypeOK
<1>3. Goes(r, Placed(r, at))
  BY <1>1, <1>2, PlacedGoes
<1>4. message' = [message EXCEPT ![m] = Placed(r, at)]
  BY <1>1 DEF Moved, TypeOK
<1> QED
  BY <1>1, <1>3, <1>4, OneGoes

LEMMA KeptGoes ==
  ASSUME TypeOK, message' = message
  PROVE  GoesAll /\ message' \in [Messages -> MessageRecords]
BY MessageType DEF GoesAll, TypeOK

\* A tool call comes to its end.
LEMMA CallEnds ==
  ASSUME TypeOK, NEW m \in Messages,
         message' = [message EXCEPT ![m] = Placed([@ EXCEPT !.call = {}], @.at)]
  PROVE  GoesAll /\ message' \in [Messages -> MessageRecords]
<1>1. PICK r \in MessageRecords : r = message[m]
  BY MessageType
<1> DEFINE idle == [r EXCEPT !.call = {}]
<1>2. /\ idle \in MessageRecords /\ idle.call = {} /\ idle.at = r.at
      /\ idle.attempt = r.attempt /\ r.at \in Places
  BY DEF MessageRecords
<1>3. message' = [message EXCEPT ![m] = Placed(idle, r.at)]
  BY <1>1 DEF TypeOK
<1> HIDE DEF idle
<1>4. Goes(idle, Placed(idle, r.at))
  BY <1>2, PlacedGoes
<1>5. Goes(r, Placed(idle, r.at))
  BY <1>2, <1>4 DEF Goes
<1> QED
  BY <1>1, <1>3, <1>5, OneGoes

LEMMA TickGoes ==
  ASSUME TypeOK, Tick
  PROVE  GoesAll /\ message' \in [Messages -> MessageRecords]
<1> DEFINE Later(m) == [message[m] EXCEPT !.ttl = Less(@)]
<1>1. message' = [m \in Messages |-> Later(m)]
  BY DEF Tick
<1>2. ASSUME NEW m \in Messages
      PROVE  Later(m) \in MessageRecords /\ Goes(message[m], Later(m))
  <2>1. PICK r \in MessageRecords : r = message[m]
    BY MessageType
  <2>2. r.call # {} => r.attempt # None
    BY <2>1 DEF TypeOK
  <2> DEFINE ttl == Less(r.ttl)
             new == [r EXCEPT !.ttl = ttl]
  <2>3. Later(m) = new
    BY <2>1 DEF MessageRecords
  <2>4. ttl \in Nat
    BY DEF MessageRecords, Less
  <2> HIDE DEF ttl
  <2>5. /\ new \in MessageRecords /\ new.at = r.at /\ new.attempt = r.attempt
        /\ new.call = r.call
    BY <2>4 DEF MessageRecords
  <2> HIDE DEF new, Later
  <2> QED
    BY <2>1, <2>2, <2>3, <2>5 DEF Goes
<1> HIDE DEF Later
<1> QED
  BY <1>1, <1>2 DEF GoesAll

\* A crash.
LEMMA CrashedFields ==
  ASSUME NEW ms \in [Messages -> MessageRecords],
         \A m \in Messages : ms[m].call # {} => ms[m].attempt # None
  PROVE  /\ Crashed(ms) \in [Messages -> MessageRecords]
         /\ \A m \in Messages : Goes(ms[m], Crashed(ms)[m])
         /\ \A m \in Messages : ms[m].at = "queued" => Crashed(ms)[m] = ms[m]
<1> DEFINE After(m) ==
       CASE ms[m].at = "held" -> Placed(ms[m], "gone")
         [] ms[m].at \in {"started", "marked"} -> Placed(ms[m], "lost")
         [] OTHER -> ms[m]
<1>1. Crashed(ms) = [m \in Messages |-> After(m)]
  BY DEF Crashed
<1>2. ASSUME NEW m \in Messages
      PROVE  /\ After(m) \in MessageRecords /\ Goes(ms[m], After(m))
             /\ ms[m].at = "queued" => After(m) = ms[m]
  <2>1. PICK r \in MessageRecords : r = ms[m]
    OBVIOUS
  <2>2. r.call # {} => r.attempt # None
    BY <2>1
  <2>3. PICK gone \in Places, lost \in Places : gone = "gone" /\ lost = "lost"
    BY PlaceNames
  <2>4. Goes(r, Placed(r, gone))
    BY <2>2, <2>3, PlacedGoes
  <2>5. r.at # "gone" => Goes(r, Placed(r, lost))
    BY <2>2, PlacedGoes
  <2>6. Goes(r, r)
    BY <2>2 DEF Goes
  <2>7. \A y : Goes(r, y) => y \in MessageRecords
    BY DEF Goes
  <2>8. CASE r.at = "held"
    <3>1. After(m) = Placed(r, gone)
      BY <2>1, <2>3, <2>8
    <3> HIDE DEF After
    <3> QED
      BY <2>1, <2>4, <2>7, <2>8, <3>1
  <2>9. CASE r.at \in {"started", "marked"}
    <3>1. After(m) = Placed(r, lost)
      BY <2>1, <2>3, <2>9
    <3> HIDE DEF After
    <3> QED
      BY <2>1, <2>5, <2>7, <2>9, <3>1
  <2>10. CASE r.at \notin {"held", "started", "marked"}
    <3>1. After(m) = r
      BY <2>1, <2>10
    <3> HIDE DEF After
    <3> QED
      BY <2>1, <2>6, <3>1
  <2> QED
    BY <2>8, <2>9, <2>10
<1> HIDE DEF After
<1> QED
  BY <1>1, <1>2

LEMMA EnqueuedFields ==
  ASSUME TypeOK, RoomToQueue, NEW c \in 0..NAttempt
  PROVE  \E k \in Messages, new \in MessageRecords :
           /\ message[k].at = "gone"
           /\ new.attempt = c /\ new.at = "queued" /\ new.call = {}
           /\ Enqueued(message, c) = [message EXCEPT ![k] = new]
<1> DEFINE Rooms == {n \in Messages : message[n].at = "gone" /\ message[n].call = {}}
<1>1. Rooms # {} /\ Rooms \in SUBSET Nat
  BY DEF RoomToQueue
<1>2. Min(Rooms) \in Rooms
  BY <1>1, MinMember
<1>3. PICK k \in Messages : k = Min(Rooms) /\ message[k].at = "gone"
  BY <1>2
<1>4. PICK at \in Places : at = "queued"
  BY PlaceNames
<1> DEFINE new == [attempt |-> c, at |-> at, ttl |-> MaxTtl, call |-> {}]
<1>5. /\ new \in MessageRecords
      /\ new.attempt = c /\ new.at = at /\ new.call = {}
  BY DEF MessageRecords
<1>6. Enqueued(message, c) = [message EXCEPT ![k] = new]
  <2> DEFINE queued == [NoMessage EXCEPT !.attempt = c, !.at = "queued", !.ttl = MaxTtl]
  <2>1. queued = new
    <3>1. PICK gone \in Places : gone = "gone"
      BY PlaceNames
    <3>2. NoMessage = [attempt |-> None, at |-> gone, ttl |-> 0, call |-> {}]
      BY <3>1 DEF NoMessage
    <3>3. queued = [NoMessage EXCEPT !.attempt = c, !.at = at, !.ttl = MaxTtl]
      BY <1>4
    <3> HIDE DEF queued
    <3> QED
      BY <3>2, <3>3
  <2>2. Enqueued(message, c) = [message EXCEPT ![k] = queued]
    <3> HIDE DEF queued, Rooms
    <3>1. Enqueued(message, c) = [message EXCEPT ![Min(Rooms)] = queued]
      BY DEF Enqueued, Rooms, queued
    <3> QED
      BY <1>3, <3>1
  <2> HIDE DEF queued, new
  <2> QED
    BY <2>1, <2>2
<1> HIDE DEF new
<1> QED
  BY <1>3, <1>4, <1>5, <1>6

\* Queueing, and being killed while at it.
LEMMA EnqueueGoes ==
  ASSUME TypeOK, RoomToQueue, NEW c \in 0..NAttempt,
         message' = Enqueued(message, c) \/ message' = Crashed(Enqueued(message, c)),
         \/ c = None
         \/ Requeue /\ c = Min(Due)
         \/ Create /\ c = Min(FreeAttempts)
         \/ KilledWhileQueueing /\ Due # {} /\ c = Min(Due)
  PROVE  QueuedOne /\ message' \in [Messages -> MessageRecords]
<1>1. PICK k \in Messages, new \in MessageRecords :
        /\ message[k].at = "gone"
        /\ new.attempt = c /\ new.at = "queued" /\ new.call = {}
        /\ Enqueued(message, c) = [message EXCEPT ![k] = new]
  BY EnqueuedFields
<1> DEFINE ms == Enqueued(message, c)
<1>2. /\ ms \in [Messages -> MessageRecords] /\ ms[k] = new
      /\ \A n \in Messages : n # k => ms[n] = message[n]
  BY <1>1 DEF TypeOK
<1>3. \A m \in Messages : ms[m].call # {} => ms[m].attempt # None
  BY <1>1, <1>2 DEF TypeOK
<1>4. /\ message' \in [Messages -> MessageRecords] /\ message'[k] = new
      /\ \A n \in Messages : n # k => Goes(message[n], message'[n])
  <2>1. CASE message' = ms
    BY <1>2, <2>1, MessageType
  <2>2. CASE message' = Crashed(ms)
    <3> HIDE DEF ms
    <3>1. /\ Crashed(ms) \in [Messages -> MessageRecords]
          /\ \A m \in Messages : Goes(ms[m], Crashed(ms)[m])
          /\ \A m \in Messages : ms[m].at = "queued" => Crashed(ms)[m] = ms[m]
      BY <1>2, <1>3, CrashedFields
    <3> QED
      BY <1>1, <1>2, <2>2, <3>1
  <2> QED
    BY <2>1, <2>2
<1>5. Queued(k, c)
  BY <1>1, <1>4 DEF Queued
<1> QED
  BY <1>4, <1>5 DEF QueuedOne

LEMMA PollGoes ==
  ASSUME TypeOK, Poll
  PROVE  QueuedOne /\ message' \in [Messages -> MessageRecords]
<1>1. CASE Requeue
  <2>1. PICK c \in 0..NAttempt : c = Min(Due)
    BY <1>1, FreeTyped, MinAttempt DEF Requeue
  <2>2. RoomToQueue /\ message' = Enqueued(message, c)
    BY <1>1, <2>1 DEF Requeue
  <2> QED
    BY <1>1, <2>1, <2>2, EnqueueGoes
<1>2. CASE Create
  <2>1. PICK c \in 0..NAttempt : c = Min(FreeAttempts)
    BY <1>2, FreeTyped, MinAttempt DEF Create
  <2>2. RoomToQueue /\ message' = Enqueued(message, c)
    BY <1>2, <2>1 DEF Create
  <2> QED
    BY <1>2, <2>1, <2>2, EnqueueGoes
<1> QED
  BY <1>1, <1>2 DEF Poll

LEMMA KilledGoes ==
  ASSUME TypeOK, KilledWhileQueueing
  PROVE  QueuedOne /\ message' \in [Messages -> MessageRecords]
<1>1. CASE Due # {} /\ message' = Crashed(Enqueued(message, Min(Due)))
  <2>1. PICK c \in 0..NAttempt : c = Min(Due)
    BY <1>1, FreeTyped, MinAttempt
  <2>2. RoomToQueue /\ message' = Crashed(Enqueued(message, c))
    BY <1>1, <2>1 DEF KilledWhileQueueing
  <2> QED
    BY <1>1, <2>1, <2>2, EnqueueGoes
<1>2. CASE message' = Crashed(Enqueued(message, None))
  <2>1. RoomToQueue /\ None \in 0..NAttempt
    BY DEF KilledWhileQueueing
  <2> QED
    BY <1>2, <2>1, EnqueueGoes
<1> QED
  BY <1>1, <1>2 DEF KilledWhileQueueing

\* A message's call begins.
LEMMA CallGoes ==
  ASSUME TypeOK, NEW m \in Messages, NEW S \in SUBSET Sources, CallTool(m, S)
  PROVE  GoesAll /\ message' \in [Messages -> MessageRecords]
<1>1. PICK r \in MessageRecords : r = message[m]
  BY MessageType
<1> DEFINE new == [r EXCEPT !.call = S]
<1>2. message' = [message EXCEPT ![m] = new]
  BY <1>1 DEF CallTool, TypeOK
<1>3. r.at # "gone" /\ r.attempt # None
  BY <1>1 DEF CallTool, Working
<1>4. new \in MessageRecords /\ new.at = r.at /\ new.attempt = r.attempt
  BY DEF MessageRecords
<1> HIDE DEF new
<1>5. Goes(r, new)
  BY <1>3, <1>4 DEF Goes
<1> QED
  BY <1>1, <1>2, <1>5, OneGoes

LEMMA DispatchGoes ==
  ASSUME TypeOK, DispatchStep
  PROVE  GoesAll /\ message' \in [Messages -> MessageRecords]
<1>1. PICK m \in Messages :
        \/ Drain(m)
        \/ \E delay \in {RetryDelay, LongDelay} : Deferred(m, delay)
        \/ Refused(m)
        \/ Accepted(m)
        \/ MarkDispatched(m)
  BY DEF DispatchStep
<1>2. message[m].at # "gone" /\ \E at \in Places : Moved(m, at)
  <2>1. CASE Drain(m)
    <3>1. PICK at \in Places : at = IF message[m].ttl = 0 THEN "gone" ELSE "held"
      BY PlaceNames
    <3> QED
      BY <2>1, <3>1 DEF Drain
  <2>2. CASE \E delay \in {RetryDelay, LongDelay} : Deferred(m, delay)
    BY <2>2, PlaceNames DEF Deferred
  <2>3. CASE Refused(m)
    BY <2>3, PlaceNames DEF Refused
  <2>4. CASE Accepted(m)
    BY <2>4, PlaceNames DEF Accepted
  <2>5. CASE MarkDispatched(m)
    BY <2>5, PlaceNames DEF MarkDispatched
  <2> QED
    BY <1>1, <2>1, <2>2, <2>3, <2>4, <2>5
<1> QED
  BY <1>2, MovedGoes

LEMMA EndGoes ==
  ASSUME TypeOK, EndStep
  PROVE  GoesAll /\ message' \in [Messages -> MessageRecords]
<1>1. PICK m \in Messages : Lose(m) \/ EndUnheard(m) \/ TurnEnds(m)
  BY DEF EndStep
<1>2. message[m].at # "gone" /\ \E at \in Places : Moved(m, at)
  <2>1. CASE Lose(m) \/ EndUnheard(m)
    BY <2>1, PlaceNames DEF Lose, EndUnheard
  <2>2. CASE TurnFailed(m) \/ TurnUnsettled(m) \/ TurnUnknown(m) \/ TurnSettled(m)
    BY <2>2, PlaceNames DEF TurnFailed, TurnUnsettled, TurnUnknown, TurnSettled
  <2> QED
    BY <1>1, <2>1, <2>2 DEF TurnEnds
<1> QED
  BY <1>2, MovedGoes

LEMMA ToolGoes ==
  ASSUME TypeOK, ToolStep
  PROVE  GoesAll /\ message' \in [Messages -> MessageRecords]
<1>1. PICK m \in Messages :
        \/ \E S \in SUBSET Sources : CallTool(m, S)
        \/ RecordMutation(m)
        \/ CallFails(m)
        \/ KilledWhileRecording(m)
        \/ Receipt(m)
  BY DEF ToolStep
<1>2. CASE \E S \in SUBSET Sources : CallTool(m, S)
  BY <1>2, CallGoes
<1>3. CASE RecordMutation(m) \/ CallFails(m) \/ KilledWhileRecording(m)
  BY <1>3, CallEnds DEF RecordMutation, CallFails, KilledWhileRecording
<1>4. CASE Receipt(m)
  BY <1>4, KeptGoes DEF Receipt, RecordReceipt
<1> QED
  BY <1>1, <1>2, <1>3, <1>4

\* Every step of the specification.
LEMMA MessageMoves ==
  ASSUME TypeOK, Next
  PROVE  /\ GoesAll \/ QueuedOne
         /\ message' \in [Messages -> MessageRecords]
         /\ \A m \in Messages : message'[m].call # {} => message'[m].attempt # None
<1>1. /\ GoesAll \/ QueuedOne
      /\ message' \in [Messages -> MessageRecords]
  <2>1. CASE \E kind \in {"record", "event"} : NewSource(kind)
    BY <2>1, KeptGoes DEF NewSource
  <2>2. CASE \E s \in Sources : LeaveWindow(s)
    BY <2>2, KeptGoes DEF LeaveWindow
  <2>3. CASE Crash
    <3>1. /\ Crashed(message) \in [Messages -> MessageRecords]
          /\ \A m \in Messages : Goes(message[m], Crashed(message)[m])
      BY CrashedFields DEF TypeOK
    <3> QED
      BY <2>3, <3>1 DEF Crash, GoesAll
  <2> QED
    BY <2>1, <2>2, <2>3, TickGoes, PollGoes, KilledGoes, DispatchGoes, ToolGoes,
       EndGoes DEF Next
<1>2. ASSUME NEW m \in Messages, message'[m].call # {}
      PROVE  message'[m].attempt # None
  <2>1. CASE GoesAll
    BY <1>2, <2>1 DEF GoesAll, Goes
  <2>2. CASE QueuedOne
    BY <1>2, <2>2 DEF QueuedOne, Queued, Goes
  <2> QED
    BY <1>1, <2>1, <2>2
<1> QED
  BY <1>1, <1>2

-----------------------------------------------------------------------------
\* The invariant.

\* An attempt that outlived its time is loose.
AgeLoose == \A a \in Attempts : attempts[a].age >= MaxAge => attempts[a].loose

\* What is proved is counted.
CountProved ==
  \A a \in Attempts : attempts[a].count = 0 => attempts[a].proved = {}

\* A verified receipt is about the attempt's sources.
ReceiptSrc ==
  \A a \in Attempts :
    attempts[a].receipt.kind # "none" =>
      DOMAIN attempts[a].receipt.disp = attempts[a].src

\* A message that is there is of an attempt that is open.
AliveOpen ==
  \A m \in Messages :
    Alive(m) /\ ~attempts[message[m].attempt].loose =>
      Status(message[m].attempt) \in Open

\* Two messages are not of one attempt.
AliveOne ==
  \A m, n \in Messages :
    Alive(m) /\ Alive(n) /\ message[m].attempt = message[n].attempt =>
      m = n \/ attempts[message[m].attempt].loose

Inv ==
  /\ TypeOK /\ FreeBlank /\ AgeLoose /\ CountProved /\ ReceiptSrc
  /\ AliveOpen /\ AliveOne /\ AttemptsApart /\ PromotionProven

\* What closes sources, and when the next attempt may be queued.
LEMMA RestMoves ==
  ASSUME TypeOK, FreeBlank, Next
  PROVE  /\ disposed' = disposed \/ \E m \in Messages : TurnSettled(m)
         /\ disposed' \in [Sources -> {"open"} \cup Closing]
         /\ retryAfter' \in Nat
<1>1. retryAfter \in Nat /\ disposed \in [Sources -> {"open"} \cup Closing]
  BY DEF TypeOK
<1>2. CASE \E m \in Messages : TurnSettled(m)
  <2>1. PICK m \in Messages : TurnSettled(m)
    BY <1>2
  <2>2. retryAfter' \in Nat
    <3>1. retryAfter' = 0 \/ retryAfter' = RetryDelay
      BY <2>1, Zenon DEF TurnSettled
    <3> QED
      BY <3>1, BoundsAssumption
  <2>3. disposed' = Merged(attempts[message[m].attempt].receipt.disp)
    BY <2>1 DEF TurnSettled
  <2> DEFINE disp == attempts[message[m].attempt].receipt.disp
             c(s) == IF s \in DOMAIN disp /\ disp[s] \in Closing THEN disp[s]
                     ELSE disposed[s]
  <2>4. \A s \in Sources : c(s) \in {"open"} \cup Closing
    BY <1>1
  <2>5. disposed' = [s \in Sources |-> c(s)]
    BY <2>3 DEF Merged
  <2> HIDE DEF c
  <2> QED
    BY <1>2, <2>2, <2>4, <2>5
<1>3. CASE \E m \in Messages :
             \/ \E delay \in {RetryDelay, LongDelay} : Deferred(m, delay)
             \/ TurnFailed(m) \/ TurnUnsettled(m)
  <2>1. PICK m \in Messages :
             \/ \E delay \in {RetryDelay, LongDelay} : Deferred(m, delay)
             \/ TurnFailed(m) \/ TurnUnsettled(m)
    BY <1>3
  <2>2. disposed' = disposed
    BY <2>1 DEF Deferred, TurnFailed, TurnUnsettled
  <2>3. \E wait \in Nat : /\ message[m].at # "gone" /\ Moved(m, "gone")
                          /\ Retried(message[m].attempt, wait)
    <3>1. CASE \E delay \in {RetryDelay, LongDelay} : Deferred(m, delay)
      <4>1. PICK delay \in {RetryDelay, LongDelay} : Deferred(m, delay)
        BY <3>1
      <4> DEFINE wait == IF delay > RetryDelay THEN delay ELSE RetryDelay
      <4>2. wait \in Nat
        OBVIOUS
      <4>3. /\ message[m].at # "gone" /\ Moved(m, "gone")
            /\ Retried(message[m].attempt, wait)
        BY <4>1 DEF Deferred
      <4> HIDE DEF wait
      <4> QED
        BY <4>2, <4>3
    <3>2. CASE TurnFailed(m) \/ TurnUnsettled(m)
      BY <3>2 DEF TurnFailed, TurnUnsettled
    <3> QED
      BY <2>1, <3>1, <3>2
  <2>4. retryAfter' \in Nat
    BY <2>3, RetriedAttempts
  <2> QED
    BY <1>1, <2>2, <2>4
<1>4. CASE Tick
  <2>1. retryAfter' = Less(retryAfter) /\ disposed' = disposed
    BY <1>4 DEF Tick
  <2> QED
    BY <1>1, <2>1 DEF Less
<1>5. CASE Poll
  <2>1. disposed' = disposed /\ (retryAfter' = 0 \/ retryAfter' = retryAfter)
    <3>1. CASE Requeue
      BY <3>1 DEF Requeue
    <3>2. CASE Create
      BY <3>2 DEF Create
    <3> QED
      BY <1>5, <3>1, <3>2 DEF Poll
  <2> QED
    BY <1>1, <2>1
<1>6. CASE \/ \E kind \in {"record", "event"} : NewSource(kind)
           \/ \E s \in Sources : LeaveWindow(s)
           \/ Crash \/ KilledWhileQueueing
           \/ ToolStep
           \/ \E m \in Messages : \/ Drain(m) \/ Refused(m) \/ Accepted(m)
                                  \/ MarkDispatched(m)
                                  \/ Lose(m) \/ EndUnheard(m) \/ TurnUnknown(m)
  <2>1. disposed' = disposed /\ retryAfter' = retryAfter
    BY <1>6 DEF NewSource, LeaveWindow, Crash, KilledWhileQueueing, ToolStep, CallTool,
      RecordMutation, CallFails, KilledWhileRecording, Receipt, RecordReceipt, Drain,
      Refused, Accepted, MarkDispatched, Lose, EndUnheard, TurnUnknown
  <2> QED
    BY <1>1, <2>1
<1> QED
  BY <1>2, <1>3, <1>4, <1>5, <1>6 DEF Next, DispatchStep, EndStep, TurnEnds

LEMMA TypeStep ==
  ASSUME TypeOK, FreeBlank, Next
  PROVE  TypeOK'
BY AttemptMoves, MessageMoves, RestMoves DEF TypeOK

-----------------------------------------------------------------------------
\* The parts of the invariant, step by step.

\* The ways an attempt turns, with the message that did it.
LEMMA TurnCases ==
  ASSUME TurnsAll, NEW a \in Attempts, NEW x, NEW y,
         x = attempts[a], y = attempts'[a]
  PROVE  \/ Aged(x, y) \/ Requeued(a, x, y) \/ New(a, x, y) \/ Ledger(x, y)
         \/ \E m \in Messages : \/ Back(m, a, x, y) \/ Marked(m, a, x, y)
                                \/ Receipted(m, a, x, y) \/ Settled(m, a, x, y)
BY DEF TurnsAll, Turns

\* What was there stays loose.
LEMMA LooseKept ==
  ASSUME FreeBlank, TurnsAll, NEW a \in Attempts, attempts[a].loose
  PROVE  attempts'[a].loose
<1> DEFINE x == attempts[a]
           y == attempts'[a]
<1>1. x.status # "none"
  BY BlankType DEF FreeBlank, Status
<1> HIDE DEF x, y
<1>2. \/ Aged(x, y) \/ Requeued(a, x, y) \/ Ledger(x, y)
      \/ \E m \in Messages : \/ Back(m, a, x, y) \/ Marked(m, a, x, y)
                             \/ Receipted(m, a, x, y) \/ Settled(m, a, x, y)
  BY <1>1, TurnCases DEF x, y, New
<1>3. Tied(x, y)
  BY <1>2 DEF Aged, Requeued, Ledger, Back, Marked, Receipted, Settled
<1> QED
  BY <1>3 DEF Tied, x, y

LEMMA FreeBlankStep ==
  ASSUME FreeBlank, TurnsAll
  PROVE  FreeBlank'
<1> SUFFICES ASSUME NEW a \in Attempts, attempts'[a].status = "none"
             PROVE  attempts'[a] = NoAttempt
  BY DEF FreeBlank, Status
<1> DEFINE x == attempts[a]
           y == attempts'[a]
<1>1. y.status = "none"
  OBVIOUS
<1> HIDE DEF x, y
<1>2. \/ Aged(x, y) \/ Requeued(a, x, y) \/ New(a, x, y) \/ Ledger(x, y)
      \/ \E m \in Messages : \/ Back(m, a, x, y) \/ Marked(m, a, x, y)
                             \/ Receipted(m, a, x, y) \/ Settled(m, a, x, y)
  BY TurnCases DEF x, y
<1>3. ~Requeued(a, x, y) /\ ~New(a, x, y) /\ ~Ledger(x, y)
  BY <1>1, StatusWords DEF Requeued, New, Ledger
<1>4. ASSUME NEW m \in Messages
      PROVE  /\ ~Back(m, a, x, y) /\ ~Marked(m, a, x, y)
             /\ ~Receipted(m, a, x, y) /\ ~Settled(m, a, x, y)
  BY <1>1, StatusWords DEF Back, Marked, Receipted, Settled
<1>5. Aged(x, y)
  BY <1>2, <1>3, <1>4
<1>6. y = x /\ x.status = "none"
  BY <1>1, <1>5 DEF Aged
<1> QED
  BY <1>6 DEF FreeBlank, Status, x, y

LEMMA AgeLooseStep ==
  ASSUME FreeBlank, AgeLoose, TurnsAll
  PROVE  AgeLoose'
<1> SUFFICES ASSUME NEW a \in Attempts, attempts'[a].age >= MaxAge
             PROVE  attempts'[a].loose
  BY DEF AgeLoose
<1> DEFINE x == attempts[a]
           y == attempts'[a]
<1>1. y.age >= MaxAge
  OBVIOUS
<1> HIDE DEF x, y
<1>2. \/ Aged(x, y) \/ Requeued(a, x, y) \/ New(a, x, y) \/ Ledger(x, y)
      \/ \E m \in Messages : \/ Back(m, a, x, y) \/ Marked(m, a, x, y)
                             \/ Receipted(m, a, x, y) \/ Settled(m, a, x, y)
  BY TurnCases DEF x, y
<1>3. ~New(a, x, y)
  BY <1>1 DEF New
<1>4. Tied(x, y)
  BY <1>2, <1>3 DEF Aged, Requeued, Ledger, Back, Marked, Receipted, Settled
<1>5. CASE y.age = x.age
  <2>1. x.loose
    BY <1>1, <1>5 DEF AgeLoose, x
  <2> QED
    BY <1>4, <2>1 DEF Tied, y
<1>6. CASE y.age # x.age
  BY <1>1, <1>4, <1>6 DEF Tied, y
<1> QED
  BY <1>5, <1>6

LEMMA CountProvedStep ==
  ASSUME TypeOK, CountProved, TurnsAll
  PROVE  CountProved'
<1> SUFFICES ASSUME NEW a \in Attempts, attempts'[a].count = 0
             PROVE  attempts'[a].proved = {}
  BY DEF CountProved
<1> DEFINE x == attempts[a]
           y == attempts'[a]
<1>1. y.count = 0 /\ (x.count = 0 => x.proved = {})
  BY DEF CountProved
<1>0. x.count \in Nat
  BY DEF TypeOK, AttemptRecords
<1> HIDE DEF x, y
<1>2. \/ Aged(x, y) \/ Requeued(a, x, y) \/ New(a, x, y) \/ Ledger(x, y)
      \/ \E m \in Messages : \/ Back(m, a, x, y) \/ Marked(m, a, x, y)
                             \/ Receipted(m, a, x, y) \/ Settled(m, a, x, y)
  BY TurnCases DEF x, y
<1>3. ~Ledger(x, y)
  BY <1>0, <1>1 DEF Ledger
<1>4. (y.count = x.count /\ y.proved = x.proved) \/ y.proved = {}
  BY <1>2, <1>3
     DEF Aged, Requeued, New, Back, Marked, Receipted, Settled, Same
<1>5. y.proved = {}
  BY <1>1, <1>4
<1> QED
  BY <1>5 DEF y

LEMMA ReceiptSrcStep ==
  ASSUME TypeOK, ReceiptSrc, TurnsAll
  PROVE  ReceiptSrc'
<1> SUFFICES ASSUME NEW a \in Attempts, attempts'[a].receipt.kind # "none"
             PROVE  DOMAIN attempts'[a].receipt.disp = attempts'[a].src
  BY DEF ReceiptSrc
<1> DEFINE x == attempts[a]
           y == attempts'[a]
<1>1. /\ y.receipt.kind # "none"
      /\ x.receipt.kind # "none" => DOMAIN x.receipt.disp = x.src
  BY DEF ReceiptSrc
<1> HIDE DEF x, y
<1>2. \/ Aged(x, y) \/ Requeued(a, x, y) \/ New(a, x, y) \/ Ledger(x, y)
      \/ \E m \in Messages : \/ Back(m, a, x, y) \/ Marked(m, a, x, y)
                             \/ Receipted(m, a, x, y) \/ Settled(m, a, x, y)
  BY TurnCases DEF x, y
<1>3. ~New(a, x, y)
  BY <1>1, BlankType DEF New
<1>4. \/ y.src = x.src /\ y.receipt = x.receipt
      \/ y.src = x.src /\ DOMAIN y.receipt.disp = x.src
  BY <1>2, <1>3
     DEF Aged, Requeued, Ledger, Back, Marked, Receipted, Settled, Same
<1>5. DOMAIN y.receipt.disp = y.src
  BY <1>1, <1>4
<1> QED
  BY <1>5 DEF y

LEMMA ProvedGrows ==
  ASSUME FreeBlank, TurnsAll, NEW a \in Attempts
  PROVE  attempts[a].proved \subseteq attempts'[a].proved
<1> DEFINE x == attempts[a]
           y == attempts'[a]
<1>1. x.status = "none" => x.proved = {}
  BY BlankType DEF FreeBlank, Status
<1> HIDE DEF x, y
<1>2. \/ Aged(x, y) \/ Requeued(a, x, y) \/ New(a, x, y) \/ Ledger(x, y)
      \/ \E m \in Messages : \/ Back(m, a, x, y) \/ Marked(m, a, x, y)
                             \/ Receipted(m, a, x, y) \/ Settled(m, a, x, y)
  BY TurnCases DEF x, y
<1>3. x.proved \subseteq y.proved
  BY <1>1, <1>2
     DEF Aged, Requeued, New, Ledger, Back, Marked, Receipted, Settled, Same
<1> QED
  BY <1>3 DEF x, y

\* An end of a turn takes its message away.
LEMMA SettledGone ==
  ASSUME TypeOK, FreeBlank, NEW m \in Messages, TurnSettled(m)
  PROVE  /\ Alive(m) /\ message'[m].at = "gone"
         /\ message[m].attempt \in Attempts
         /\ attempts'[message[m].attempt].status \in Completed
         /\ Settles(message[m].attempt)
<1>1. /\ message[m].at = "marked" /\ message[m].attempt # None
      /\ message[m].attempt \in 0..NAttempt
      /\ Moved(m, "gone") /\ Settles(message[m].attempt)
  BY DEF TurnSettled, TypeOK, MessageRecords
<1>2. message'[m].at = "gone"
  BY <1>1, MovedFields, PlaceNames
<1> QED
  BY <1>1, <1>2, TurnSettledAttempts DEF Alive

\* An attempt whose message stays is open and stays open, unless it is loose.
LEMMA StaysOpen ==
  ASSUME Inv, TurnsAll, NEW n \in Messages, NEW c \in Attempts,
         Alive(n), message[n].attempt = c, message'[n].at # "gone",
         ~attempts'[c].loose
  PROVE  attempts'[c].status \in Open
<1>1. TypeOK /\ FreeBlank /\ AliveOpen /\ AliveOne
  BY DEF Inv
<1>2. ~attempts[c].loose
  BY <1>1, LooseKept
<1>3. Status(c) \in Open
  BY <1>1, <1>2 DEF AliveOpen
<1>4. \A m \in Messages : Alive(m) /\ message[m].attempt = c => m = n
  BY <1>1, <1>2 DEF AliveOne
<1> DEFINE x == attempts[c]
           y == attempts'[c]
<1>5. x.status \in Open
  BY <1>3 DEF Status
<1> HIDE DEF x, y
<1>6. \/ Aged(x, y) \/ Requeued(c, x, y) \/ New(c, x, y) \/ Ledger(x, y)
      \/ \E m \in Messages : \/ Back(m, c, x, y) \/ Marked(m, c, x, y)
                             \/ Receipted(m, c, x, y) \/ Settled(m, c, x, y)
  BY TurnCases DEF x, y
<1>7. ~Requeued(c, x, y) /\ ~New(c, x, y)
  BY <1>5, StatusWords DEF Requeued, New
<1>8. ASSUME NEW m \in Messages
      PROVE  ~Back(m, c, x, y) /\ ~Settled(m, c, x, y)
  <2>1. ~Back(m, c, x, y)
    BY <1>4 DEF Back
  <2>2. ~Settled(m, c, x, y)
    BY <1>1, <1>4, SettledGone DEF Settled
  <2> QED
    BY <2>1, <2>2
<1>9. CASE Aged(x, y) \/ Ledger(x, y)
  <2>1. y.status \in Open
    BY <1>5, <1>9, StatusWords DEF Aged, Ledger
  <2> QED
    BY <2>1 DEF y
<1>10. CASE \E m \in Messages : Marked(m, c, x, y) \/ Receipted(m, c, x, y)
  <2>1. y.status \in Open
    BY <1>10, StatusWords DEF Marked, Receipted
  <2> QED
    BY <2>1 DEF y
<1> QED
  BY <1>6, <1>7, <1>8, <1>9, <1>10

\* What a queued message is of.
LEMMA QueuedOf ==
  ASSUME TypeOK, NEW k \in Messages, NEW c \in Attempts, Queued(k, c)
  PROVE  /\ Status(c) \in {"none", "retrying"}
         /\ Status(c) = "retrying" \/ (c = Min(FreeAttempts) /\ Create)
         /\ attempts'[c].loose \/ attempts'[c].status \in Open
<1>0. c # None
  OBVIOUS
<1>1. CASE Requeue /\ c = Min(Due)
  <2>1. c \in Due
    BY <1>1, FreeTyped, MinAttempt DEF Requeue
  <2>2. PICK s \in Statuses : s = "queued"
    BY StatusWords
  <2>3. attempts' = [attempts EXCEPT ![c].status = s]
    BY <1>1, <2>2 DEF Requeue
  <2>4. PICK new \in AttemptRecords :
          attempts' = [attempts EXCEPT ![c] = new] /\ new.status = s
    BY <2>3, StatusMove
  <2>5. attempts'[c].status \in Open
    BY <2>2, <2>4, StatusWords DEF TypeOK
  <2> QED
    BY <2>1, <2>5 DEF Due
<1>2. CASE Create /\ c = Min(FreeAttempts)
  <2>1. c \in FreeAttempts
    BY <1>2, FreeTyped, MinAttempt DEF Create
  <2>2. attempts' = [attempts EXCEPT ![c] = Created("queued", Collected, 0, FALSE)]
    BY <1>2 DEF Create
  <2>3. Created("queued", Collected, 0, FALSE).status = "queued"
    BY DEF Created, NoAttempt
  <2>4. attempts'[c].status = "queued"
    BY <2>2, <2>3 DEF TypeOK
  <2> QED
    BY <1>2, <2>1, <2>4, StatusWords DEF FreeAttempts
<1>3. CASE KilledWhileQueueing /\ Due # {} /\ c = Min(Due)
  <2>1. c \in Due
    BY <1>3, FreeTyped, MinAttempt
  <2>2. attempts' = [attempts EXCEPT ![c].loose = TRUE]
    BY <1>3 DEF KilledWhileQueueing
  <2>3. PICK x \in AttemptRecords : x = attempts[c]
    BY DEF TypeOK
  <2>4. attempts'[c] = [x EXCEPT !.loose = TRUE]
    BY <2>2, <2>3 DEF TypeOK
  <2>5. attempts'[c].loose
    BY <2>4 DEF AttemptRecords
  <2> QED
    BY <2>1, <2>5 DEF Due
<1> QED
  BY <1>0, <1>1, <1>2, <1>3 DEF Queued

\* A message that is there after a step was there before it, or was queued by it.
Came(n) ==
  LET c == message'[n].attempt
  IN \/ Alive(n) /\ message[n].attempt = c
     \/ Queued(n, c)

LEMMA CameFrom ==
  ASSUME TypeOK, Next, NEW n \in Messages,
         message'[n].at # "gone", message'[n].attempt # None
  PROVE  Came(n) /\ message'[n].attempt \in Attempts
<1>1. /\ GoesAll \/ QueuedOne
      /\ message' \in [Messages -> MessageRecords]
  BY MessageMoves
<1>2. message'[n].attempt \in Attempts
  <2>1. message'[n].attempt \in 0..NAttempt
    BY <1>1 DEF MessageRecords
  <2> QED
    BY <2>1
<1>3. CASE Goes(message[n], message'[n])
  BY <1>2, <1>3 DEF Goes, Came, Alive
<1>4. CASE ~Goes(message[n], message'[n])
  <2>1. PICK c \in 0..NAttempt : Queued(n, c)
    BY <1>1, <1>4 DEF GoesAll, QueuedOne
  <2>2. message'[n].attempt = c
    BY <2>1 DEF Queued
  <2> QED
    BY <1>2, <2>1, <2>2 DEF Came
<1> QED
  BY <1>2, <1>3, <1>4

\* Only one message is queued in a step.
LEMMA QueuedOnly ==
  ASSUME TypeOK, Next, NEW m \in Messages, NEW n \in Messages, m # n,
         NEW c \in Attempts, NEW d \in Attempts, Queued(m, c), Queued(n, d),
         message'[m].at # "gone", message'[n].at # "gone"
  PROVE  FALSE
<1>1. GoesAll \/ QueuedOne
  BY MessageMoves
<1>2. /\ message[m].at = "gone" /\ message'[m].attempt = c
      /\ message[n].at = "gone" /\ message'[n].attempt = d
      /\ c # None /\ d # None
  BY DEF Queued
<1>3. ~Goes(message[m], message'[m]) /\ ~Goes(message[n], message'[n])
  BY <1>2 DEF Goes
<1> QED
  BY <1>1, <1>3 DEF GoesAll, QueuedOne

LEMMA AliveOpenStep ==
  ASSUME Inv, Next, TurnsAll
  PROVE  AliveOpen'
<1>0. TypeOK
  BY DEF Inv
<1> SUFFICES ASSUME NEW n \in Messages, NEW c, c = message'[n].attempt,
                    message'[n].at # "gone", c # None, ~attempts'[c].loose
             PROVE  attempts'[c].status \in Open
  BY DEF AliveOpen, Alive, Status
<1>1. c \in Attempts /\ Came(n)
  BY <1>0, CameFrom
<1>2. CASE Alive(n) /\ message[n].attempt = c
  BY <1>1, <1>2, StaysOpen
<1>3. CASE Queued(n, c)
  BY <1>0, <1>1, <1>3, QueuedOf
<1> QED
  BY <1>1, <1>2, <1>3 DEF Came

LEMMA QueuedLoose ==
  ASSUME Inv, Next, TurnsAll, NEW k \in Messages, NEW n \in Messages,
         NEW c \in Attempts, Queued(k, c), Alive(n), message[n].attempt = c
  PROVE  attempts'[c].loose
<1>1. TypeOK /\ FreeBlank /\ AliveOpen
  BY DEF Inv
<1>2. Status(c) \in {"none", "retrying"}
  BY <1>1, QueuedOf
<1>3. attempts[c].loose
  BY <1>1, <1>2, StatusWords DEF AliveOpen
<1> QED
  BY <1>1, <1>3, LooseKept

LEMMA AliveOneStep ==
  ASSUME Inv, Next, TurnsAll
  PROVE  AliveOne'
<1>0. TypeOK /\ FreeBlank /\ AliveOne
  BY DEF Inv
<1> SUFFICES ASSUME NEW m \in Messages, NEW n \in Messages, m # n,
                    NEW c, c = message'[m].attempt, c = message'[n].attempt,
                    c # None, message'[m].at # "gone", message'[n].at # "gone"
             PROVE  attempts'[c].loose
  BY DEF AliveOne, Alive
<1>1. c \in Attempts /\ Came(m) /\ Came(n)
  BY <1>0, CameFrom
<1>2. CASE Queued(m, c) /\ Queued(n, c)
  BY <1>0, <1>1, <1>2, QueuedOnly
<1>3. CASE Queued(m, c) /\ Alive(n) /\ message[n].attempt = c
  BY <1>1, <1>3, QueuedLoose
<1>4. CASE Queued(n, c) /\ Alive(m) /\ message[m].attempt = c
  BY <1>1, <1>4, QueuedLoose
<1>5. CASE /\ Alive(m) /\ message[m].attempt = c
           /\ Alive(n) /\ message[n].attempt = c
  <2>1. attempts[c].loose
    BY <1>0, <1>5 DEF AliveOne
  <2> QED
    BY <1>0, <1>1, <2>1, LooseKept
<1> QED
  BY <1>1, <1>2, <1>3, <1>4, <1>5 DEF Came

-----------------------------------------------------------------------------
\* Attempts apart.
Under == Open \union {"retrying"}

\* An attempt that is under way and not loose was so before the step, about the
\* same sources, or was created by it.
LEMMA WasUnder ==
  ASSUME Inv, Next, TurnsAll, NEW a \in Attempts,
         attempts'[a].status \in Under, ~attempts'[a].loose
  PROVE  \/ New(a, attempts[a], attempts'[a])
         \/ /\ Status(a) \in Under /\ ~attempts[a].loose
            /\ attempts'[a].src = attempts[a].src
<1>1. TypeOK /\ FreeBlank /\ AliveOpen
  BY DEF Inv
<1>2. ~attempts[a].loose
  BY <1>1, LooseKept
<1>3. \A m \in Messages : Alive(m) /\ message[m].attempt = a => Status(a) \in Open
  BY <1>1, <1>2 DEF AliveOpen
<1> DEFINE x == attempts[a]
           y == attempts'[a]
<1>4. /\ y.status \in Under
      /\ \A m \in Messages : Alive(m) /\ message[m].attempt = a => x.status \in Open
  BY <1>3 DEF Status
<1> HIDE DEF x, y
<1>5. \/ Aged(x, y) \/ Requeued(a, x, y) \/ New(a, x, y) \/ Ledger(x, y)
      \/ \E m \in Messages : \/ Back(m, a, x, y) \/ Marked(m, a, x, y)
                             \/ Receipted(m, a, x, y) \/ Settled(m, a, x, y)
  BY TurnCases DEF x, y
<1>6. ASSUME NEW m \in Messages PROVE ~Settled(m, a, x, y)
  BY <1>4, StatusWords DEF Settled, Under
<1>7. New(a, x, y) \/ (x.status \in Under /\ y.src = x.src)
  <2>1. CASE Aged(x, y) \/ Requeued(a, x, y) \/ Ledger(x, y)
    BY <1>4, <2>1, StatusWords DEF Aged, Requeued, Ledger, Same, Under
  <2>2. CASE \E m \in Messages : \/ Back(m, a, x, y) \/ Marked(m, a, x, y)
                                 \/ Receipted(m, a, x, y)
    BY <1>4, <2>2 DEF Back, Marked, Receipted, Same, Under
  <2> QED
    BY <1>5, <1>6, <2>1, <2>2
<1> QED
  BY <1>2, <1>7 DEF x, y, Status

\* What settles an attempt names what its ledger proves.
LEMMA SettlesProved ==
  ASSUME TypeOK, CountProved, NEW a \in Attempts, Settles(a)
  PROVE  /\ attempts[a].receipt.count = attempts[a].count
         /\ Promoted(attempts[a].receipt.disp) = attempts[a].proved
<1>1. /\ attempts[a].receipt.count = attempts[a].count
      /\ Verified(a, attempts[a].receipt.kind, attempts[a].receipt.disp)
  BY DEF Settles
<1>2. CASE attempts[a].receipt.kind = "mutated"
  BY <1>1, <1>2 DEF Verified
<1>3. CASE attempts[a].receipt.kind = "no_op"
  BY <1>1, <1>3 DEF Verified, CountProved
<1> QED
  BY <1>1, <1>2, <1>3 DEF Verified

\* A new attempt is apart from one that was under way.
LEMMA NewApart ==
  ASSUME Inv, Next, TurnsAll, NEW a \in Attempts, NEW b \in Attempts, a # b,
         New(a, attempts[a], attempts'[a]), ~attempts'[a].loose,
         Status(b) \in Under, ~attempts[b].loose,
         attempts'[b].status \in Under, attempts'[b].src = attempts[b].src
  PROVE  attempts'[a].src \intersect attempts'[b].src = {}
<1>1. TypeOK /\ FreeBlank /\ AgeLoose /\ ReceiptSrc /\ AliveOpen /\ AttemptsApart
  BY DEF Inv
<1>2. ~Create
  <2>1. SUFFICES ASSUME Create PROVE FALSE
    OBVIOUS
  <2>2. Due = {} /\ ~Active(b)
    BY <2>1 DEF Create, Ready
  <2>3. /\ attempts[b].age \in Nat /\ attempts[b].wait \in Nat
        /\ attempts[b].age < MaxAge
    <3>1. PICK x \in AttemptRecords : x = attempts[b]
      BY <1>1 DEF TypeOK
    <3>2. x.age \in Nat /\ x.wait \in Nat /\ ~(x.age >= MaxAge)
      <4>1. ~(attempts[b].age >= MaxAge)
        BY <1>1 DEF AgeLoose
      <4> QED
        BY <3>1, <4>1 DEF AttemptRecords
    <3> QED
      BY <3>1, <3>2
  <2>4. CASE Status(b) = "retrying"
    BY <2>2, <2>3, <2>4 DEF Active, Due
  <2>5. CASE Status(b) \in Open
    BY <2>2, <2>3, <2>5 DEF Active
  <2> QED
    BY <2>4, <2>5 DEF Under
<1>3. PICK m \in Messages :
        /\ TurnSettled(m)
        /\ attempts'[a].src \subseteq
             DOMAIN attempts[message[m].attempt].receipt.disp
        /\ (attempts[message[m].attempt].loose => attempts'[a].loose)
  BY <1>2 DEF New
<1>4. PICK c \in Attempts : c = message[m].attempt
  BY <1>1, <1>3, SettledGone
<1>5. /\ Alive(m) /\ attempts'[c].status \in Completed /\ Settles(c)
  BY <1>1, <1>3, <1>4, SettledGone
<1>6. ~attempts[c].loose /\ Status(c) \in Open
  BY <1>1, <1>3, <1>4, <1>5 DEF AliveOpen
<1>7. b # c
  BY <1>5, StatusWords DEF Under
<1>8. attempts'[a].src \subseteq attempts[c].src
  BY <1>1, <1>3, <1>4, <1>5 DEF ReceiptSrc, Settles
<1>9. attempts[c].src \intersect attempts[b].src = {}
  BY <1>1, <1>6, <1>7 DEF AttemptsApart, Under
<1> QED
  BY <1>8, <1>9

LEMMA ApartStep ==
  ASSUME Inv, Next, TurnsAll
  PROVE  AttemptsApart'
<1>1. TypeOK /\ FreeBlank /\ CountProved /\ AttemptsApart
  BY DEF Inv
<1>2. ASSUME NEW a \in Attempts, NEW b \in Attempts, a # b,
             attempts'[a].status \in Under, attempts'[b].status \in Under,
             ~attempts'[a].loose, ~attempts'[b].loose
      PROVE  attempts'[a].src \intersect attempts'[b].src = {}
  <2> DEFINE Was(d) == /\ Status(d) \in Under /\ ~attempts[d].loose
                       /\ attempts'[d].src = attempts[d].src
             Newly(d) == New(d, attempts[d], attempts'[d])
  <2>1. (Newly(a) \/ Was(a)) /\ (Newly(b) \/ Was(b))
    BY <1>2, WasUnder
  <2>2. CASE Newly(a) /\ Newly(b)
    BY <1>2, <2>2 DEF New
  <2>3. CASE Newly(a) /\ Was(b)
    BY <1>2, <2>3, NewApart
  <2>4. CASE Was(a) /\ Newly(b)
    BY <1>2, <2>4, NewApart
  <2>5. CASE Was(a) /\ Was(b)
    BY <1>1, <1>2, <2>5 DEF AttemptsApart, Under
  <2> QED
    BY <2>1, <2>2, <2>3, <2>4, <2>5
<1>3. ASSUME NEW a \in Attempts, attempts'[a].status \in Completed
      PROVE  /\ attempts'[a].receipt.count = attempts'[a].count
             /\ Promoted(attempts'[a].receipt.disp) = attempts'[a].proved
  <2> DEFINE x == attempts[a]
             y == attempts'[a]
  <2>1. y.status \in Completed
    BY <1>3
  <2>2. /\ x.status \in Completed => /\ x.receipt.count = x.count
                                     /\ Promoted(x.receipt.disp) = x.proved
        /\ Settles(a) => /\ x.receipt.count = x.count
                         /\ Promoted(x.receipt.disp) = x.proved
    BY <1>1, SettlesProved DEF AttemptsApart, Status
  <2> HIDE DEF x, y
  <2>3. \/ Aged(x, y) \/ Requeued(a, x, y) \/ New(a, x, y) \/ Ledger(x, y)
        \/ \E m \in Messages : \/ Back(m, a, x, y) \/ Marked(m, a, x, y)
                               \/ Receipted(m, a, x, y) \/ Settled(m, a, x, y)
    BY TurnCases DEF x, y
  <2>4. ~Requeued(a, x, y) /\ ~New(a, x, y) /\ ~Ledger(x, y)
    BY <2>1, StatusWords DEF Requeued, New, Ledger
  <2>5. ASSUME NEW m \in Messages
        PROVE  ~Back(m, a, x, y) /\ ~Marked(m, a, x, y) /\ ~Receipted(m, a, x, y)
    BY <2>1, StatusWords DEF Back, Marked, Receipted
  <2>6. Same(x, y) /\ (x.status \in Completed \/ Settles(a))
    <3>1. CASE Aged(x, y)
      BY <2>1, <3>1 DEF Aged
    <3>2. CASE \E m \in Messages : Settled(m, a, x, y)
      BY <1>1, <3>2, SettledGone DEF Settled
    <3> QED
      BY <2>3, <2>4, <2>5, <3>1, <3>2
  <2>7. y.receipt.count = y.count /\ Promoted(y.receipt.disp) = y.proved
    BY <2>2, <2>6 DEF Same
  <2> QED
    BY <2>7 DEF y
<1> QED
  BY <1>2, <1>3 DEF AttemptsApart, Under, Status, Promoted

LEMMA PromotionStep ==
  ASSUME Inv, Next, TurnsAll
  PROVE  PromotionProven'
<1>1. TypeOK /\ FreeBlank /\ CountProved /\ PromotionProven
  BY DEF Inv
<1> SUFFICES ASSUME NEW s \in Sources, disposed'[s] = "promoted"
             PROVE  \E a \in Attempts : s \in attempts'[a].proved
  BY DEF PromotionProven
<1>2. CASE disposed[s] = "promoted"
  <2>1. PICK a \in Attempts : s \in attempts[a].proved
    BY <1>1, <1>2 DEF PromotionProven
  <2> QED
    BY <1>1, <2>1, ProvedGrows
<1>3. CASE disposed[s] # "promoted"
  <2>1. PICK m \in Messages : TurnSettled(m)
    BY <1>1, <1>3, RestMoves
  <2>2. PICK c \in Attempts : c = message[m].attempt
    BY <1>1, <2>1, SettledGone
  <2>3. Settles(c) /\ disposed' = Merged(attempts[c].receipt.disp)
    BY <1>1, <2>1, <2>2, SettledGone DEF TurnSettled
  <2>4. s \in Promoted(attempts[c].receipt.disp)
    BY <1>3, <2>3 DEF Merged, Promoted
  <2>5. s \in attempts[c].proved
    BY <1>1, <2>3, <2>4, SettlesProved
  <2> QED
    BY <1>1, <2>5, ProvedGrows
<1> QED
  BY <1>2, <1>3

-----------------------------------------------------------------------------
\* The theorems.

LEMMA InvInit == Init => Inv
<1> SUFFICES ASSUME Init PROVE Inv
  OBVIOUS
<1>1. \A a \in Attempts : attempts[a] = NoAttempt
  BY DEF Init
<1>2. TypeOK
  <2>1. attempts \in [Attempts -> AttemptRecords]
    <3>1. PICK blank \in AttemptRecords : blank = NoAttempt
      BY BlankType
    <3> QED
      BY <3>1 DEF Init
  <2>2. /\ message \in [Messages -> MessageRecords]
        /\ \A m \in Messages : message[m].call # {} => message[m].attempt # None
    <3>1. NoMessage \in MessageRecords /\ NoMessage.call = {}
      BY DEF NoMessage, MessageRecords, Places
    <3>2. message = [m \in Messages |-> NoMessage]
      BY DEF Init
    <3> QED
      BY <3>1, <3>2
  <2>3. disposed \in [Sources -> {"open"} \cup Closing] /\ retryAfter \in Nat
    BY DEF Init
  <2> QED
    BY <2>1, <2>2, <2>3 DEF TypeOK
<1>3. FreeBlank /\ CountProved /\ ReceiptSrc
  BY <1>1, BlankType DEF FreeBlank, CountProved, ReceiptSrc
<1>4. AgeLoose
  BY <1>1, BlankType DEF AgeLoose
<1>5. AliveOpen /\ AliveOne
  <2>1. \A m \in Messages : message[m].at = "gone"
    BY DEF Init, NoMessage
  <2> QED
    BY <2>1 DEF AliveOpen, AliveOne, Alive
<1>6. AttemptsApart
  <2>1. \A a \in Attempts : Status(a) = "none"
    BY <1>1, BlankType DEF Status
  <2> QED
    BY <2>1, StatusWords DEF AttemptsApart
<1>7. PromotionProven
  BY DEF Init, PromotionProven
<1> QED
  BY <1>2, <1>3, <1>4, <1>5, <1>6, <1>7 DEF Inv

LEMMA InvStep == Inv /\ [Next]_vars => Inv'
<1> SUFFICES ASSUME Inv, [Next]_vars PROVE Inv'
  OBVIOUS
<1>1. CASE Next
  <2>1. TypeOK /\ FreeBlank /\ AgeLoose /\ CountProved /\ ReceiptSrc
    BY DEF Inv
  <2>2. TurnsAll
    BY <1>1, <2>1, AttemptMoves
  <2>3. TypeOK' /\ FreeBlank' /\ AgeLoose' /\ CountProved' /\ ReceiptSrc'
    BY <1>1, <2>1, <2>2, TypeStep, FreeBlankStep, AgeLooseStep, CountProvedStep,
       ReceiptSrcStep
  <2>4. AliveOpen' /\ AliveOne' /\ AttemptsApart' /\ PromotionProven'
    BY <1>1, <2>2, AliveOpenStep, AliveOneStep, ApartStep, PromotionStep
  <2> QED
    BY <2>3, <2>4 DEF Inv
<1>2. CASE UNCHANGED vars
  BY <1>2 DEF vars, Inv, TypeOK, FreeBlank, AgeLoose, CountProved, ReceiptSrc,
    AliveOpen, AliveOne, AttemptsApart, PromotionProven, Alive, Status
<1> QED
  BY <1>1, <1>2

\* The invariant holds always.
THEOREM MetabolismInvariant == Spec => []Inv
BY InvInit, InvStep, PTL DEF Spec

\* Two attempts that are under way are about different sources, unless one of
\* them is loose, and what completed an attempt agrees with its mutation ledger,
\* whatever tools, retries and crashes come in between.
THEOREM MetabolismAttemptsApart == Spec => []AttemptsApart
<1>1. Inv => AttemptsApart
  BY DEF Inv
<1> QED
  BY <1>1, MetabolismInvariant, PTL

\* No source is closed as promoted without a mutation in a ledger that names it.
THEOREM MetabolismPromotionProven == Spec => []PromotionProven
<1>1. Inv => PromotionProven
  BY DEF Inv
<1> QED
  BY <1>1, MetabolismInvariant, PTL
=============================================================================
