--------------------------- MODULE ServicesProofs ---------------------------
(***************************************************************************)
(* Theorems about Services, for every number of processes, cards, ids and  *)
(* messages: that the warm memory loses no change of another process       *)
(* (WarmKept), that the journals hold what their operations amount to      *)
(* (JournalsKept), that the turns of a conversation keep their memory      *)
(* (TurnsRemembered), that the cold memory serves its active version       *)
(* (ColdServed), that check-ins come when they may (CheckinsTimely), and   *)
(* that the cuts of a reply keep its text (RepliesKept).                   *)
(***************************************************************************)
EXTENDS Services, Sequences, FiniteSetTheorems, SequenceTheorems, WellFoundedInduction, TLAPS

USE NamesAssumption

-----------------------------------------------------------------------------
\* The warm memory: the jobs of its processes.
IsWarmJob(j) ==
  /\ j = [pc |-> j.pc, op |-> j.op, card |-> j.card, pay |-> j.pay, seen |-> j.seen]
  /\ j.pc # "idle" => j.card \in Cards
  /\ j.seen = [c \in Cards |-> j.seen[c]]

LEMMA IdleWarmJob == IsWarmJob(Warm!Idle) /\ Warm!Idle.pc = "idle"
  BY DEF IsWarmJob, Warm!Idle

\* A job goes on.
LEMMA SetWarmPc ==
  ASSUME NEW j, IsWarmJob(j), j.pc # "idle", NEW w, NEW d, d = [j EXCEPT !.pc = w]
  PROVE  /\ IsWarmJob(d) /\ d.pc = w /\ d.op = j.op /\ d.card = j.card
         /\ d.pay = j.pay /\ d.seen = j.seen
  BY DEF IsWarmJob

LEMMA SetWarmSeen ==
  ASSUME NEW j, IsWarmJob(j), NEW v, v = [c \in Cards |-> v[c]],
         NEW d, d = [j EXCEPT !.seen = v]
  PROVE  /\ IsWarmJob(d) /\ d.pc = j.pc /\ d.op = j.op /\ d.card = j.card
         /\ d.pay = j.pay /\ d.seen = v
  BY DEF IsWarmJob

LEMMA StartedWarmJob ==
  ASSUME NEW op, NEW c \in Cards, NEW pay
  PROVE  LET d == [Warm!Idle EXCEPT !.pc = "wait", !.op = op, !.card = c, !.pay = pay]
         IN IsWarmJob(d) /\ d.pc = "wait"
<1>1. PICK i, w : i = Warm!Idle /\ w = "wait"
  OBVIOUS
<1>2. PICK e : e = [i EXCEPT !.pc = w]
  OBVIOUS
<1>3. PICK f : f = [e EXCEPT !.op = op]
  OBVIOUS
<1>4. PICK g : g = [f EXCEPT !.card = c]
  OBVIOUS
<1>5. PICK d : d = [g EXCEPT !.pay = pay]
  OBVIOUS
<1>6. d = [i EXCEPT !.pc = w, !.op = op, !.card = c, !.pay = pay]
  BY <1>2, <1>3, <1>4, <1>5
<1>7. /\ i = [pc |-> i.pc, op |-> i.op, card |-> i.card, pay |-> i.pay, seen |-> i.seen]
      /\ i.seen = [x \in Cards |-> i.seen[x]]
  BY <1>1, IdleWarmJob DEF IsWarmJob
<1>8. e = [pc |-> w, op |-> i.op, card |-> i.card, pay |-> i.pay, seen |-> i.seen]
  BY <1>2, <1>7
<1>9. f = [pc |-> w, op |-> op, card |-> i.card, pay |-> i.pay, seen |-> i.seen]
  BY <1>3, <1>8
<1>10. g = [pc |-> w, op |-> op, card |-> c, pay |-> i.pay, seen |-> i.seen]
  BY <1>4, <1>9
<1>11. d = [pc |-> w, op |-> op, card |-> c, pay |-> pay, seen |-> i.seen]
  BY <1>5, <1>10
<1>12. IsWarmJob(d) /\ d.pc = w
  BY <1>7, <1>11 DEF IsWarmJob
<1> QED
  BY <1>1, <1>6, <1>12

-----------------------------------------------------------------------------
\* The inductive invariant of the warm memory: who is within the lock has made
\* it, and nobody has changed the index since.
Inside(j) == j.pc \in Warm!Within
HasRead(j) == j.pc \in {"loaded", "filed"}

Owns(p, j) ==
  /\ Inside(j) => lock = p
  /\ HasRead(j) => j.seen = index
  /\ j.pc = "filed" /\ j.op # "delete" => j.card \in files

WarmInv ==
  /\ warmJob = [p \in Procs |-> warmJob[p]]
  /\ \A p \in Procs : IsWarmJob(warmJob[p])
  /\ index = [c \in Cards |-> index[c]]
  /\ ~robbed => \A p \in Procs : Owns(p, warmJob[p])

LEMMA ReadersInside ==
  ASSUME NEW j, HasRead(j)
  PROVE  Inside(j)
  BY DEF HasRead, Inside, Warm!Within

\* A process that is out of the lock owns nothing.
LEMMA OutsideOwns ==
  ASSUME NEW p, NEW j, ~Inside(j)
  PROVE  Owns(p, j) /\ (Owns(p, j))'
  BY DEF Owns, Inside, HasRead, Warm!Within

\* What a step makes of one job.
LEMMA OneWarmJob ==
  ASSUME WarmInv, NEW p \in Procs, NEW d, warmJob' = [warmJob EXCEPT ![p] = d],
         IsWarmJob(d)
  PROVE  /\ warmJob' = [q \in Procs |-> warmJob'[q]]
         /\ \A q \in Procs : IsWarmJob(warmJob'[q])
         /\ warmJob'[p] = d
         /\ \A q \in Procs \ {p} : warmJob'[q] = warmJob[q]
<1>1. /\ warmJob' = [q \in Procs |-> warmJob'[q]] /\ warmJob'[p] = d
      /\ \A q \in Procs \ {p} : warmJob'[q] = warmJob[q]
  BY DEF WarmInv
<1> QED
  BY <1>1 DEF WarmInv

\* A process that was or is out of the lock, and leaves the files and the lock alone.
LEMMA OutsideStep ==
  ASSUME WarmInv, NEW p \in Procs, NEW d, warmJob' = [warmJob EXCEPT ![p] = d],
         IsWarmJob(d), ~Inside(d),
         UNCHANGED <<index, files, lock, robbed>>
  PROVE  WarmInv'
<1>1. /\ warmJob' = [q \in Procs |-> warmJob'[q]]
      /\ \A q \in Procs : IsWarmJob(warmJob'[q])
      /\ warmJob'[p] = d
      /\ \A q \in Procs \ {p} : warmJob'[q] = warmJob[q]
  BY OneWarmJob
<1>2. ASSUME ~robbed', NEW q \in Procs PROVE (Owns(q, warmJob[q]))'
  <2>1. CASE q = p
    <3>1. (Owns(p, d))'
      BY OutsideOwns
    <3> QED
      BY <1>1, <2>1, <3>1 DEF Owns, Inside, HasRead
  <2>2. CASE q # p
    <3>1. warmJob'[q] = warmJob[q] /\ Owns(q, warmJob[q])
      BY <1>1, <1>2, <2>2 DEF WarmInv
    <3> QED
      BY <3>1 DEF Owns, Inside, HasRead
  <2> QED
    BY <2>1, <2>2
<1>3. (index = [c \in Cards |-> index[c]])'
  BY DEF WarmInv
<1> QED
  BY <1>1, <1>2, <1>3 DEF WarmInv

\* A process takes a step within the lock that it has made, where no other one is.
LEMMA InsideStep ==
  ASSUME WarmInv, NEW p \in Procs, NEW d, warmJob' = [warmJob EXCEPT ![p] = d],
         IsWarmJob(d), robbed' = robbed,
         index' = [c \in Cards |-> index'[c]],
         ~robbed => (Owns(p, d))' /\ \A q \in Procs \ {p} : ~Inside(warmJob[q])
  PROVE  WarmInv'
<1>1. /\ warmJob' = [q \in Procs |-> warmJob'[q]]
      /\ \A q \in Procs : IsWarmJob(warmJob'[q])
      /\ warmJob'[p] = d
      /\ \A q \in Procs \ {p} : warmJob'[q] = warmJob[q]
  BY OneWarmJob
<1>2. ASSUME ~robbed', NEW q \in Procs PROVE (Owns(q, warmJob[q]))'
  <2>1. CASE q = p
    <3>1. (Owns(p, d))'
      BY <1>2
    <3> QED
      BY <1>1, <2>1, <3>1 DEF Owns, Inside, HasRead
  <2>2. CASE q # p
    <3>1. PICK j : j = warmJob[q] /\ warmJob'[q] = j /\ ~Inside(j)
      BY <1>1, <1>2, <2>2
    <3>2. (Owns(q, j))'
      BY <3>1, OutsideOwns
    <3> QED
      BY <3>1, <3>2 DEF Owns, Inside, HasRead
  <2> QED
    BY <2>1, <2>2
<1> QED
  BY <1>1, <1>2 DEF WarmInv

\* Only one process is within the lock.
LEMMA OneInside ==
  ASSUME WarmInv, ~robbed, NEW p \in Procs, Inside(warmJob[p])
  PROVE  lock = p /\ \A q \in Procs \ {p} : ~Inside(warmJob[q])
  BY DEF WarmInv, Owns

\* While nobody is within the lock that is there, nobody is within it at all.
LEMMA NoneInside ==
  ASSUME WarmInv, ~robbed, ~Warm!Live
  PROVE  \A q \in Procs : ~Inside(warmJob[q])
  BY DEF WarmInv, Owns, Warm!Live, Inside

-----------------------------------------------------------------------------
\* The steps of the warm memory.

LEMMA WarmStartInv ==
  ASSUME WarmInv, NEW p \in Procs, NEW op, NEW c \in Cards, NEW pay,
         Warm!Start(p, op, c, pay)
  PROVE  WarmInv'
<1>1. PICK d : d = [Warm!Idle EXCEPT !.pc = "wait", !.op = op, !.card = c, !.pay = pay]
  OBVIOUS
<1>2. IsWarmJob(d) /\ d.pc = "wait"
  BY <1>1, StartedWarmJob
<1>3. ~Inside(d)
  BY <1>2 DEF Inside, Warm!Within
<1>4. warmJob' = [warmJob EXCEPT ![p] = d] /\ UNCHANGED <<index, files, lock, robbed>>
  BY <1>1 DEF Warm!Start
<1> QED
  BY <1>2, <1>3, <1>4, OutsideStep

\* A process comes to rest outside the lock.
LEMMA WarmDoneInv ==
  ASSUME WarmInv, NEW p \in Procs, Warm!Done(p), UNCHANGED <<index, files, lock, robbed>>
  PROVE  WarmInv'
<1>1. PICK d : d = Warm!Idle /\ IsWarmJob(d) /\ d.pc = "idle"
  BY IdleWarmJob
<1>2. ~Inside(d)
  BY <1>1 DEF Inside, Warm!Within
<1>3. warmJob' = [warmJob EXCEPT ![p] = d]
  BY <1>1 DEF Warm!Done
<1> QED
  BY <1>1, <1>2, <1>3, OutsideStep

\* A process goes on to w.
LEMMA GoesOn ==
  ASSUME WarmInv, NEW p \in Procs, NEW v, v # "idle", Warm!At(p, v), NEW w, Warm!Goto(p, w)
  PROVE  \E d : /\ warmJob' = [warmJob EXCEPT ![p] = d]
                /\ IsWarmJob(d) /\ d.pc = w /\ d.op = warmJob[p].op
                /\ d.card = warmJob[p].card /\ d.seen = warmJob[p].seen
<1>1. PICK j : j = warmJob[p] /\ IsWarmJob(j) /\ j.pc # "idle"
  BY DEF WarmInv, Warm!At
<1>2. PICK d : d = [j EXCEPT !.pc = w]
  OBVIOUS
<1>3. /\ IsWarmJob(d) /\ d.pc = w /\ d.op = j.op /\ d.card = j.card /\ d.seen = j.seen
  BY <1>1, <1>2, SetWarmPc
<1>4. warmJob' = [warmJob EXCEPT ![p] = d]
  BY <1>1, <1>2 DEF Warm!Goto, WarmInv
<1> QED
  BY <1>1, <1>3, <1>4

LEMMA TakeLockInv ==
  ASSUME WarmInv, NEW p \in Procs, Warm!TakeLock(p)
  PROVE  WarmInv'
<1>1. /\ Warm!At(p, "wait") /\ lock = Warm!Nobody /\ lock' = p /\ Warm!Goto(p, "locked")
      /\ UNCHANGED <<index, files, robbed>>
  BY DEF Warm!TakeLock
<1>2. PICK d : /\ warmJob' = [warmJob EXCEPT ![p] = d]
               /\ IsWarmJob(d) /\ d.pc = "locked"
  BY <1>1, GoesOn
<1>3. ASSUME ~robbed
      PROVE  (Owns(p, d))' /\ \A q \in Procs \ {p} : ~Inside(warmJob[q])
  <2>1. ~Warm!Live
    BY <1>1 DEF Warm!Live
  <2>2. \A q \in Procs : ~Inside(warmJob[q])
    BY <1>3, <2>1, NoneInside
  <2>3. (Owns(p, d))'
    BY <1>1, <1>2 DEF Owns, HasRead
  <2> QED
    BY <2>2, <2>3
<1>4. index' = [c \in Cards |-> index'[c]]
  BY <1>1 DEF WarmInv
<1> QED
  BY <1>1, <1>2, <1>3, <1>4, InsideStep

LEMMA BreakLockInv ==
  ASSUME WarmInv, NEW p \in Procs, Warm!BreakLock(p)
  PROVE  WarmInv'
<1>1. /\ Warm!At(p, "breaking") /\ Warm!Goto(p, "wait")
      /\ robbed' = (robbed \/ Warm!Live)
      /\ UNCHANGED <<index, files>>
  BY DEF Warm!BreakLock
<1>2. PICK d : /\ warmJob' = [warmJob EXCEPT ![p] = d]
               /\ IsWarmJob(d) /\ d.pc = "wait"
  BY <1>1, GoesOn
<1>3. /\ warmJob' = [q \in Procs |-> warmJob'[q]]
      /\ \A q \in Procs : IsWarmJob(warmJob'[q])
      /\ warmJob'[p] = d
      /\ \A q \in Procs \ {p} : warmJob'[q] = warmJob[q]
  BY <1>2, OneWarmJob
<1>4. ASSUME ~robbed', NEW q \in Procs PROVE (Owns(q, warmJob[q]))'
  <2>1. ~robbed /\ ~Warm!Live
    BY <1>1, <1>4
  <2>2. ~Inside(warmJob[q])
    BY <2>1, NoneInside
  <2>3. ~Inside(d)
    BY <1>2 DEF Inside, Warm!Within
  <2>4. PICK j : j = warmJob'[q] /\ ~Inside(j)
    BY <1>3, <2>2, <2>3
  <2>5. (Owns(q, j))'
    BY <2>4, OutsideOwns
  <2> QED
    BY <2>4, <2>5 DEF Owns, Inside, HasRead
<1>5. (index = [c \in Cards |-> index[c]])'
  BY <1>1 DEF WarmInv
<1> QED
  BY <1>3, <1>4, <1>5 DEF WarmInv

LEMMA ReadIndexInv ==
  ASSUME WarmInv, NEW p \in Procs, Warm!ReadIndex(p)
  PROVE  WarmInv'
<1>1. PICK j, w : j = warmJob[p] /\ w = "loaded" /\ IsWarmJob(j) /\ j.pc = "locked"
  BY DEF WarmInv, Warm!ReadIndex, Warm!At
<1>2. PICK a : a = [j EXCEPT !.pc = w]
  OBVIOUS
<1>3. PICK d : d = [a EXCEPT !.seen = index]
  OBVIOUS
<1>4. IsWarmJob(a) /\ a.pc = w
  BY <1>1, <1>2, SetWarmPc
<1>5. IsWarmJob(d) /\ d.pc = w /\ d.seen = index
  <2>1. index = [c \in Cards |-> index[c]]
    BY DEF WarmInv
  <2> QED
    BY <1>3, <1>4, <2>1, SetWarmSeen
<1>6. warmJob' = [warmJob EXCEPT ![p] = d] /\ UNCHANGED <<index, files, lock, robbed>>
  BY <1>1, <1>2, <1>3 DEF Warm!ReadIndex, WarmInv
<1>7. ASSUME ~robbed
      PROVE  (Owns(p, d))' /\ \A q \in Procs \ {p} : ~Inside(warmJob[q])
  <2>1. Inside(warmJob[p])
    BY <1>1 DEF Inside, Warm!Within
  <2>2. lock = p /\ \A q \in Procs \ {p} : ~Inside(warmJob[q])
    BY <1>7, <2>1, OneInside
  <2>3. (Owns(p, d))'
    BY <1>1, <1>5, <1>6, <2>2 DEF Owns
  <2> QED
    BY <2>2, <2>3
<1>8. index' = [c \in Cards |-> index'[c]]
  BY <1>6 DEF WarmInv
<1> QED
  BY <1>5, <1>6, <1>7, <1>8, InsideStep

\* Within the lock a process goes on, and the files or the index change.
LEMMA WithinInv ==
  ASSUME WarmInv, NEW p \in Procs, NEW v, v \in Warm!Within, Warm!At(p, v),
         NEW w, Warm!Goto(p, w), UNCHANGED <<lock, robbed>>,
         index' = [c \in Cards |-> index'[c]],
         w \in {"loaded", "filed"} => index' = index /\ HasRead(warmJob[p]),
         w = "filed" /\ warmJob[p].op # "delete" => warmJob[p].card \in files'
  PROVE  WarmInv'
<1>0. v # "idle"
  BY DEF Warm!Within
<1>1. PICK d : /\ warmJob' = [warmJob EXCEPT ![p] = d]
               /\ IsWarmJob(d) /\ d.pc = w /\ d.op = warmJob[p].op
               /\ d.card = warmJob[p].card /\ d.seen = warmJob[p].seen
  BY <1>0, GoesOn
<1>2. ASSUME ~robbed
      PROVE  (Owns(p, d))' /\ \A q \in Procs \ {p} : ~Inside(warmJob[q])
  <2>1. Inside(warmJob[p])
    BY DEF Inside, Warm!At
  <2>2. lock = p /\ \A q \in Procs \ {p} : ~Inside(warmJob[q])
    BY <1>2, <2>1, OneInside
  <2>3. HasRead(warmJob[p]) => warmJob[p].seen = index
    BY <1>2 DEF WarmInv, Owns
  <2>4. (Owns(p, d))'
    BY <1>1, <2>2, <2>3 DEF Owns, HasRead
  <2> QED
    BY <2>2, <2>4
<1> QED
  BY <1>1, <1>2, InsideStep

LEMMA ChangeFileInv ==
  ASSUME WarmInv, NEW p \in Procs, Warm!ChangeFile(p)
  PROVE  WarmInv'
<1>1. /\ Warm!At(p, "loaded") /\ UNCHANGED <<index, lock, robbed>>
      /\ \/ /\ files' = files \union {warmJob[p].card} /\ Warm!Goto(p, "filed")
         \/ warmJob[p].op = "delete" /\ Warm!Goto(p, "filed")
         \/ Warm!Goto(p, "written")
  BY DEF Warm!ChangeFile
<1>2. "loaded" \in Warm!Within /\ HasRead(warmJob[p])
  BY <1>1 DEF Warm!Within, HasRead, Warm!At
<1>3. index' = [c \in Cards |-> index'[c]]
  BY <1>1 DEF WarmInv
<1>4. CASE files' = files \union {warmJob[p].card} /\ Warm!Goto(p, "filed")
  BY <1>1, <1>2, <1>3, <1>4, WithinInv
<1>5. CASE warmJob[p].op = "delete" /\ Warm!Goto(p, "filed")
  BY <1>1, <1>2, <1>3, <1>5, WithinInv
<1>6. CASE Warm!Goto(p, "written")
  BY <1>1, <1>2, <1>3, <1>6, WithinInv
<1> QED
  BY <1>1, <1>4, <1>5, <1>6

\* What a write of the index writes, and that it is the index of that moment.
LEMMA WrittenIndex ==
  ASSUME WarmInv, NEW p \in Procs, Warm!WriteIndex(p)
  PROVE  /\ index' = [c \in Cards |-> index'[c]]
         /\ ~robbed => Warm!WriteKeepsOthers
<1>1. PICK j : j = warmJob[p] /\ IsWarmJob(j)
  BY DEF WarmInv
<1>2. j.pc = "filed" /\ Warm!At(p, "filed")
  BY <1>1 DEF Warm!WriteIndex, Warm!At
<1>3. PICK c \in Cards : c = j.card
  BY <1>1, <1>2 DEF IsWarmJob
<1>4. PICK s : s = j.seen /\ s = [x \in Cards |-> s[x]]
  BY <1>1 DEF IsWarmJob
<1>5. PICK v : v = IF j.op = "delete" THEN Warm!NoCard ELSE Warm!Upserted(s[c], j.pay)
  OBVIOUS
<1>6. index' = [s EXCEPT ![c] = v]
  BY <1>1, <1>3, <1>4, <1>5 DEF Warm!WriteIndex
<1>7. /\ index' = [x \in Cards |-> index'[x]] /\ index'[c] = v
      /\ \A x \in Cards \ {c} : index'[x] = s[x]
  BY <1>4, <1>6
<1>8. ASSUME ~robbed
      PROVE  Warm!WriteKeepsOthers
  <2>1. s = index /\ (j.op # "delete" => c \in files)
    BY <1>1, <1>2, <1>3, <1>4, <1>8 DEF WarmInv, Owns, HasRead
  <2>2. \A x \in Cards \ {c} : index'[x] = index[x]
    BY <1>7, <2>1
  <2>3. IF j.op = "delete" THEN index'[c] = Warm!NoCard
        ELSE index'[c] = Warm!Upserted(index[c], j.pay) /\ c \in files
    BY <1>5, <1>7, <2>1
  <2> QED
    BY <1>1, <1>2, <1>3, <2>2, <2>3 DEF Warm!WriteKeepsOthers
<1> QED
  BY <1>7, <1>8

LEMMA WriteIndexInv ==
  ASSUME WarmInv, NEW p \in Procs, Warm!WriteIndex(p)
  PROVE  WarmInv'
<1>1. /\ Warm!At(p, "filed") /\ Warm!Goto(p, "written") /\ UNCHANGED <<lock, robbed>>
  BY DEF Warm!WriteIndex
<1>2. "filed" \in Warm!Within
  BY DEF Warm!Within
<1>3. index' = [c \in Cards |-> index'[c]]
  BY WrittenIndex
<1> QED
  BY <1>1, <1>2, <1>3, WithinInv

LEMMA ReleaseInv ==
  ASSUME WarmInv, NEW p \in Procs, Warm!Release(p)
  PROVE  WarmInv'
<1>1. /\ Warm!At(p, "written") /\ UNCHANGED <<index, files>>
      /\ robbed' = (robbed \/ (lock # p /\ Warm!Live))
      /\ Warm!Goto(p, "archive") \/ Warm!Done(p)
  BY DEF Warm!Release
<1>2. PICK d : /\ warmJob' = [warmJob EXCEPT ![p] = d]
               /\ IsWarmJob(d) /\ ~Inside(d)
  <2>1. CASE Warm!Goto(p, "archive")
    <3>1. PICK d : /\ warmJob' = [warmJob EXCEPT ![p] = d]
                   /\ IsWarmJob(d) /\ d.pc = "archive"
      BY <1>1, <2>1, GoesOn
    <3> QED
      BY <3>1 DEF Inside, Warm!Within
  <2>2. CASE Warm!Done(p)
    BY <2>2, IdleWarmJob DEF Warm!Done, Inside, Warm!Within
  <2> QED
    BY <1>1, <2>1, <2>2
<1>3. /\ warmJob' = [q \in Procs |-> warmJob'[q]]
      /\ \A q \in Procs : IsWarmJob(warmJob'[q])
      /\ warmJob'[p] = d
      /\ \A q \in Procs \ {p} : warmJob'[q] = warmJob[q]
  BY <1>2, OneWarmJob
<1>4. ASSUME ~robbed', NEW q \in Procs PROVE (Owns(q, warmJob[q]))'
  <2>1. ~robbed /\ Inside(warmJob[p])
    BY <1>1, <1>4 DEF Inside, Warm!At, Warm!Within
  <2>2. \A r \in Procs \ {p} : ~Inside(warmJob[r])
    BY <2>1, OneInside
  <2>3. PICK j : j = warmJob'[q] /\ ~Inside(j)
    BY <1>2, <1>3, <2>2
  <2>4. (Owns(q, j))'
    BY <2>3, OutsideOwns
  <2> QED
    BY <2>3, <2>4 DEF Owns, Inside, HasRead
<1>5. (index = [c \in Cards |-> index[c]])'
  BY <1>1 DEF WarmInv
<1> QED
  BY <1>3, <1>4, <1>5 DEF WarmInv

LEMMA WarmFrame ==
  ASSUME WarmInv, UNCHANGED <<index, files, lock, warmJob, robbed>>
  PROVE  WarmInv'
  BY DEF WarmInv, Owns, Inside, HasRead

LEMMA WarmStep ==
  ASSUME WarmInv, Warm!WarmNext
  PROVE  WarmInv' /\ (index' # index /\ ~robbed => Warm!WriteKeepsOthers)
<1>1. CASE Warm!Age
  <2>1. UNCHANGED <<index, files, lock, warmJob, robbed>>
    BY <1>1 DEF Warm!Age
  <2> QED
    BY <2>1, WarmFrame
<1>2. ASSUME NEW p \in Procs, Warm!Write(p) \/ Warm!Update(p) \/ Warm!Delete(p)
      PROVE  WarmInv' /\ index' = index
  <2>1. PICK c \in Cards : \E op, pay : Warm!Start(p, op, c, pay)
    BY <1>2 DEF Warm!Write, Warm!Update, Warm!Delete
  <2>2. PICK op, pay : Warm!Start(p, op, c, pay)
    BY <2>1
  <2>3. WarmInv'
    BY <2>2, WarmStartInv
  <2> QED
    BY <2>2, <2>3 DEF Warm!Start
<1>3. ASSUME NEW p \in Procs, Warm!GiveUp(p) \/ Warm!Archive(p) \/ Warm!StopProcess(p)
      PROVE  WarmInv' /\ index' = index
  <2>1. Warm!Done(p) /\ UNCHANGED <<index, files, lock, robbed>>
    BY <1>3 DEF Warm!GiveUp, Warm!Archive, Warm!StopProcess
  <2> QED
    BY <2>1, WarmDoneInv
<1>4. ASSUME NEW p \in Procs, Warm!FindStale(p)
      PROVE  WarmInv' /\ index' = index
  <2>1. Warm!At(p, "wait") /\ Warm!Goto(p, "breaking") /\ UNCHANGED <<index, files, lock, robbed>>
    BY <1>4 DEF Warm!FindStale
  <2>2. PICK d : /\ warmJob' = [warmJob EXCEPT ![p] = d]
                 /\ IsWarmJob(d) /\ d.pc = "breaking"
    BY <2>1, GoesOn
  <2>3. ~Inside(d)
    BY <2>2 DEF Inside, Warm!Within
  <2> QED
    BY <2>1, <2>2, <2>3, OutsideStep
<1>5. ASSUME NEW p \in Procs, Warm!TakeLock(p) \/ Warm!BreakLock(p) \/ Warm!ReadIndex(p)
                              \/ Warm!ChangeFile(p) \/ Warm!Release(p)
      PROVE  WarmInv' /\ index' = index
  <2>1. WarmInv'
    BY <1>5, TakeLockInv, BreakLockInv, ReadIndexInv, ChangeFileInv, ReleaseInv
  <2>2. index' = index
    BY <1>5 DEF Warm!TakeLock, Warm!BreakLock, Warm!ReadIndex, Warm!ChangeFile, Warm!Release
  <2> QED
    BY <2>1, <2>2
<1>6. ASSUME NEW p \in Procs, Warm!WriteIndex(p)
      PROVE  WarmInv' /\ (~robbed => Warm!WriteKeepsOthers)
  BY <1>6, WriteIndexInv, WrittenIndex
<1> QED
  BY <1>1, <1>2, <1>3, <1>4, <1>5, <1>6 DEF Warm!WarmNext

LEMMA WarmInitInv == Init => WarmInv
<1> SUFFICES ASSUME Init
             PROVE  WarmInv
  OBVIOUS
<1>1. /\ warmJob = [p \in Procs |-> Warm!Idle]
      /\ index = [c \in Cards |-> Warm!NoCard]
  BY DEF Init, Warm!WarmInit
<1>2. PICK i : i = Warm!Idle /\ IsWarmJob(i) /\ i.pc = "idle"
  BY IdleWarmJob
<1>3. ~Inside(i)
  BY <1>2 DEF Inside, Warm!Within
<1>4. \A p \in Procs : Owns(p, i)
  BY <1>3, OutsideOwns
<1> QED
  BY <1>1, <1>2, <1>4 DEF WarmInv

\* No change of another process to the warm memory is lost while no lock was
\* taken from a process at work: withIndexLock around the read and the write of
\* the index (warm-memory/store.js).
THEOREM WarmNothingLost == Spec => WarmKept
<1>1. WarmInv /\ [Next]_vars => WarmInv'
  <2> SUFFICES ASSUME WarmInv, [Next]_vars
               PROVE  WarmInv'
    OBVIOUS
  <2>1. CASE Warm!WarmNext
    BY <2>1, WarmStep
  <2>2. CASE UNCHANGED warmVars
    BY <2>2, WarmFrame DEF warmVars
  <2> QED
    BY <2>1, <2>2 DEF Next, vars
<1>2. WarmInv /\ [Next]_vars
      => [index' # index /\ ~robbed => Warm!WriteKeepsOthers]_vars
  <2> SUFFICES ASSUME WarmInv, [Next]_vars, index' # index, ~robbed
               PROVE  Warm!WriteKeepsOthers
    OBVIOUS
  <2>1. Warm!WarmNext
    BY DEF Next, vars, warmVars
  <2> QED
    BY <2>1, WarmStep
<1> QED
  BY <1>1, <1>2, WarmInitInv, PTL DEF Spec, WarmKept

-----------------------------------------------------------------------------
\* The journals: the jobs of their processes.
IsJournalJob(j) ==
  j = [op |-> j.op, pc |-> j.pc, id |-> j.id, status |-> j.status, rows |-> j.rows,
       record |-> j.record, first |-> j.first, then |-> j.then]

LEMMA RestingJob ==
  /\ IsJournalJob(Kept!Resting) /\ Kept!Resting.pc = "rest" /\ Kept!Resting.op = "none"
  /\ Kept!Resting.then = "rest" /\ Kept!Resting.status = Kept!NoStatus
  BY DEF IsJournalJob, Kept!Resting

\* A job with one field changed.
LEMMA SetJobOp ==
  ASSUME NEW j, IsJournalJob(j), NEW v, NEW d, d = [j EXCEPT !.op = v]
  PROVE  /\ IsJournalJob(d) /\ d.op = v /\ d.pc = j.pc /\ d.id = j.id /\ d.status = j.status
         /\ d.rows = j.rows /\ d.record = j.record /\ d.first = j.first /\ d.then = j.then
  BY DEF IsJournalJob

LEMMA SetJobPc ==
  ASSUME NEW j, IsJournalJob(j), NEW v, NEW d, d = [j EXCEPT !.pc = v]
  PROVE  /\ IsJournalJob(d) /\ d.pc = v /\ d.op = j.op /\ d.id = j.id /\ d.status = j.status
         /\ d.rows = j.rows /\ d.record = j.record /\ d.first = j.first /\ d.then = j.then
  BY DEF IsJournalJob

LEMMA SetJobId ==
  ASSUME NEW j, IsJournalJob(j), NEW v, NEW d, d = [j EXCEPT !.id = v]
  PROVE  /\ IsJournalJob(d) /\ d.id = v /\ d.op = j.op /\ d.pc = j.pc /\ d.status = j.status
         /\ d.rows = j.rows /\ d.record = j.record /\ d.first = j.first /\ d.then = j.then
  BY DEF IsJournalJob

LEMMA SetJobStatus ==
  ASSUME NEW j, IsJournalJob(j), NEW v, NEW d, d = [j EXCEPT !.status = v]
  PROVE  /\ IsJournalJob(d) /\ d.status = v /\ d.op = j.op /\ d.pc = j.pc /\ d.id = j.id
         /\ d.rows = j.rows /\ d.record = j.record /\ d.first = j.first /\ d.then = j.then
  BY DEF IsJournalJob

LEMMA SetJobRows ==
  ASSUME NEW j, IsJournalJob(j), NEW v, NEW d, d = [j EXCEPT !.rows = v]
  PROVE  /\ IsJournalJob(d) /\ d.rows = v /\ d.op = j.op /\ d.pc = j.pc /\ d.id = j.id
         /\ d.status = j.status /\ d.record = j.record /\ d.first = j.first /\ d.then = j.then
  BY DEF IsJournalJob

LEMMA SetJobRecord ==
  ASSUME NEW j, IsJournalJob(j), NEW v, NEW d, d = [j EXCEPT !.record = v]
  PROVE  /\ IsJournalJob(d) /\ d.record = v /\ d.op = j.op /\ d.pc = j.pc /\ d.id = j.id
         /\ d.status = j.status /\ d.rows = j.rows /\ d.first = j.first /\ d.then = j.then
  BY DEF IsJournalJob

LEMMA SetJobFirst ==
  ASSUME NEW j, IsJournalJob(j), NEW v, NEW d, d = [j EXCEPT !.first = v]
  PROVE  /\ IsJournalJob(d) /\ d.first = v /\ d.op = j.op /\ d.pc = j.pc /\ d.id = j.id
         /\ d.status = j.status /\ d.rows = j.rows /\ d.record = j.record /\ d.then = j.then
  BY DEF IsJournalJob

LEMMA SetJobThen ==
  ASSUME NEW j, IsJournalJob(j), NEW v, NEW d, d = [j EXCEPT !.then = v]
  PROVE  /\ IsJournalJob(d) /\ d.then = v /\ d.op = j.op /\ d.pc = j.pc /\ d.id = j.id
         /\ d.status = j.status /\ d.rows = j.rows /\ d.record = j.record /\ d.first = j.first
  BY DEF IsJournalJob

\* Nothing is read or written yet.
Unstarted(j) ==
  \/ j.pc \in {"rest", "read", "append", "look"}
  \/ j.pc = "get" /\ j.op = "upsert"

\* What a process can be at, in each journal.
JobFits(j) ==
  \/ j.pc = "rest"
  \/ /\ journal = "tracks"
     /\ j.op \in {"upsert", "close", "delete"} /\ j.pc \in {"read", "write", "fill", "archive"}
     /\ j.pc = "archive" => j.op = "close"
  \/ journal = "observations" /\ j.op = "append" /\ j.pc = "append"
  \/ journal = "observations" /\ j.op = "update" /\ j.pc \in {"read", "write", "fill"}
  \/ /\ ~Kept!HasRows
     /\ j.op = "upsert" /\ j.pc \in {"get", "write", "fill", "export"}
     /\ j.then = "rest" /\ j.status \in Kept!Statuses
  \/ /\ ~Kept!HasRows
     /\ j.op = "log" /\ j.pc \in {"look", "note", "get", "write", "fill", "export"}
     /\ j.then \in {"rest", "note"} /\ j.status = Kept!NoStatus
  \/ /\ journal = "case"
     /\ j.op = "close" /\ j.id = "closed"
     /\ j.pc \in {"look", "note", "get", "write", "fill", "export"}
     /\ j.then \in {"rest", "note"}

\* The record that an operation writes over.
Before(j) == IF j.pc = "get" THEN record ELSE j.record

\* What holds while an operation is between its first read and its last write, and no
\* other one is: in the midst of the rows,
MidwayRows(j) ==
  /\ record = truth.record
  /\ j.pc = "write" => Kept!Lasting /\ j.rows = rows
  /\ j.pc = "fill" => j.rows = truth.rows /\ (journal = "tracks" => log = truth.log)
  /\ j.pc = "archive" => rows = truth.rows /\ truth.log = log \union {j.id}
\* and of the record.
MidwayRecord(j) ==
  /\ rows = truth.rows
  /\ j.pc = "note" => Kept!Lasting /\ j.first = record /\ record # Kept!NoRecord
  /\ j.pc \in {"get", "write", "fill"} =>
       /\ Before(j) = truth.record
       /\ j.pc # "fill" => record = truth.record
       /\ journal = "case" => log \ {"closed"} \subseteq Before(j).items \union Kept!Brought(j)
       /\ j.op = "close" /\ j.then = "note" => j.first = Before(j)
       /\ journal = "episode" /\ j.op = "log" /\ j.then = "rest"
            => Kept!StatusOf(j.first) = Kept!StatusOf(Before(j))
       /\ j.pc # "fill" /\ (j.op = "upsert" \/ j.then = "note") => Kept!Lasting
  /\ j.pc = "export" =>
       /\ record = truth.record /\ record # Kept!NoRecord
       /\ journal = "case" => log \ {"closed"} \subseteq record.items

Midway(j) == IF Kept!HasRows THEN MidwayRows(j) ELSE MidwayRecord(j)

\* What the operations amount to.
IsTruth ==
  /\ truth = [rows |-> truth.rows, log |-> truth.log, record |-> truth.record]
  /\ truth.record = Kept!NoRecord \/ truth.record.status # Kept!NoStatus

JournalInv ==
  /\ doing = [p \in Procs |-> doing[p]]
  /\ \A p \in Procs : IsJournalJob(doing[p]) /\ JobFits(doing[p])
  /\ IsTruth
  /\ ~excused =>
       /\ \A p, q \in Procs : ~Unstarted(doing[p]) /\ ~Unstarted(doing[q]) => p = q
       /\ (\A p \in Procs : Unstarted(doing[p])) => Kept!Lasting
       /\ \A p \in Procs : ~Unstarted(doing[p]) => Midway(doing[p])

JournalFiles == <<journal, rows, record, log, page, truth>>

LEMMA SameFiles ==
  ASSUME UNCHANGED JournalFiles, NEW j
  PROVE  /\ JobFits(j)' <=> JobFits(j)
         /\ Midway(j)' <=> Midway(j)
         /\ IsTruth' <=> IsTruth
         /\ Kept!Lasting' <=> Kept!Lasting
  BY DEF JournalFiles, JobFits, Midway, MidwayRows, MidwayRecord, Before, IsTruth, Kept!Lasting,
     Kept!HasRows, Kept!Brought, Kept!StatusOf, Kept!Statuses, Kept!NoStatus, Kept!NoRecord

\* A process asks for something, or is done, with nothing read or written between.
LEMMA Rests ==
  ASSUME JournalInv, NEW p \in Procs, Unstarted(doing[p]), NEW j, IsJournalJob(j), JobFits(j),
         Unstarted(j), doing' = [doing EXCEPT ![p] = j], UNCHANGED JournalFiles,
         excused => excused'
  PROVE  JournalInv'
<1>1. /\ doing' = [q \in Procs |-> doing'[q]]
      /\ doing'[p] = j
      /\ \A q \in Procs \ {p} : doing'[q] = doing[q]
  BY DEF JournalInv
<1>2. \A q \in Procs : IsJournalJob(doing'[q]) /\ JobFits(doing'[q])
  BY <1>1 DEF JournalInv
<1>3. /\ \A d : JobFits(d)' <=> JobFits(d)
      /\ \A d : Midway(d)' <=> Midway(d)
      /\ IsTruth' <=> IsTruth
      /\ Kept!Lasting' <=> Kept!Lasting
  BY SameFiles
<1>4. \A q \in Procs : Unstarted(doing'[q]) <=> Unstarted(doing[q])
  BY <1>1
<1>5. \A q \in Procs : ~Unstarted(doing[q]) => doing'[q] = doing[q]
  BY <1>1
<1> QED
  BY <1>1, <1>2, <1>3, <1>4, <1>5 DEF JournalInv

\* A process alone among those that have begun reads or writes.
Alone(p) == \A q \in Procs \ {p} : Unstarted(doing[q])

LEMMA MeetsNone ==
  ASSUME NEW p \in Procs, Kept!Meets(p), ~excused'
  PROVE  ~excused /\ Alone(p)
  BY DEF Kept!Meets, Kept!Untouched, Kept!In, Alone, Unstarted

LEMMA AloneAt ==
  ASSUME JournalInv, ~excused, NEW p \in Procs, Alone(p)
  PROVE  /\ Unstarted(doing[p]) => Kept!Lasting
         /\ ~Unstarted(doing[p]) => Midway(doing[p])
  BY DEF JournalInv, Alone

LEMMA Moves ==
  ASSUME JournalInv, NEW p \in Procs, NEW j, IsJournalJob(j), JobFits(j),
         doing' = [doing EXCEPT ![p] = j], journal' = journal, IsTruth',
         ~excused' => /\ ~excused /\ Alone(p)
                      /\ Unstarted(j) => Kept!Lasting'
                      /\ ~Unstarted(j) => Midway(j)'
  PROVE  JournalInv'
<1>1. /\ doing' = [q \in Procs |-> doing'[q]]
      /\ doing'[p] = j
      /\ \A q \in Procs \ {p} : doing'[q] = doing[q]
  BY DEF JournalInv
<1>2. \A q \in Procs : IsJournalJob(doing'[q]) /\ JobFits(doing'[q])
  BY <1>1 DEF JournalInv
<1>3. \A d : JobFits(d)' <=> JobFits(d)
  BY DEF JobFits, Kept!HasRows, Kept!Statuses, Kept!NoStatus
<1>4. ASSUME ~excused'
      PROVE  /\ \A q, r \in Procs : ~Unstarted(doing'[q]) /\ ~Unstarted(doing'[r]) => q = r
             /\ (\A q \in Procs : Unstarted(doing'[q])) => Kept!Lasting'
             /\ \A q \in Procs : ~Unstarted(doing'[q]) => Midway(doing[q])'
  <2>1. \A q \in Procs : ~Unstarted(doing'[q]) => q = p
    BY <1>1, <1>4 DEF Alone
  <2>2. Unstarted(j) => Kept!Lasting'
    BY <1>4
  <2>3. ~Unstarted(j) => Midway(doing[p])'
    <3>1. ~Unstarted(j) => Midway(j)'
      BY <1>4
    <3> QED
      BY <1>1, <3>1 DEF Midway, MidwayRows, MidwayRecord, Before, Kept!Brought
  <2> QED
    BY <1>1, <2>1, <2>2, <2>3
<1> QED
  BY <1>1, <1>2, <1>3, <1>4 DEF JournalInv

-----------------------------------------------------------------------------
\* The journals: the operations.

LEMMA StartKept ==
  ASSUME JournalInv, NEW p \in Procs, NEW op, NEW id, NEW status, NEW pc,
         Kept!Start(p, op, id, status, pc),
         pc \in {"read", "append", "look"} \/ (pc = "get" /\ op = "upsert"),
         \A j : j.op = op /\ j.pc = pc /\ j.id = id /\ j.status = status /\ j.then = "rest"
               => JobFits(j)
  PROVE  JournalInv'
<1>1. PICK r : r = Kept!Resting
  OBVIOUS
<1>2. PICK a : a = [r EXCEPT !.op = op]
  OBVIOUS
<1>3. PICK b : b = [a EXCEPT !.id = id]
  OBVIOUS
<1>4. PICK c : c = [b EXCEPT !.status = status]
  OBVIOUS
<1>5. PICK d : d = [c EXCEPT !.pc = pc]
  OBVIOUS
<1>6. d = [Kept!Resting EXCEPT !.op = op, !.id = id, !.status = status, !.pc = pc]
  BY <1>1, <1>2, <1>3, <1>4, <1>5
<1>7. /\ IsJournalJob(d) /\ d.op = op /\ d.pc = pc /\ d.id = id /\ d.status = status /\ d.then = "rest"
  <2>1. IsJournalJob(r) /\ r.then = "rest"
    BY <1>1, RestingJob
  <2>2. IsJournalJob(a) /\ a.op = op /\ a.then = "rest"
    BY <1>2, <2>1, SetJobOp
  <2>3. IsJournalJob(b) /\ b.op = op /\ b.id = id /\ b.then = "rest"
    BY <1>3, <2>2, SetJobId
  <2>4. IsJournalJob(c) /\ c.op = op /\ c.id = id /\ c.then = "rest" /\ c.status = status
    BY <1>4, <2>3, SetJobStatus
  <2> QED
    BY <1>5, <2>4, SetJobPc
<1>8. JobFits(d) /\ Unstarted(d)
  BY <1>7 DEF Unstarted
<1>9. /\ doing' = [doing EXCEPT ![p] = d] /\ UNCHANGED JournalFiles /\ excused' = excused
      /\ Unstarted(doing[p])
  BY <1>6 DEF Kept!Start, Kept!Put, Kept!In, JournalFiles, Unstarted
<1> QED
  BY <1>7, <1>8, <1>9, Rests

LEMMA AsksKept ==
  ASSUME JournalInv, NEW p \in Procs,
         \/ Kept!TrackOperation(p) \/ Kept!ObservationOperation(p)
         \/ Kept!CaseOperation(p) \/ Kept!EpisodeOperation(p)
  PROVE  JournalInv'
<1>1. CASE Kept!TrackOperation(p)
  <2>1. PICK op \in {"upsert", "close", "delete"}, id \in Ids :
          Kept!Start(p, op, id, Kept!NoStatus, "read")
    BY <1>1 DEF Kept!TrackOperation
  <2>2. \A j : j.op = op /\ j.pc = "read" => JobFits(j)
    BY <1>1 DEF Kept!TrackOperation, JobFits
  <2> QED
    BY <2>1, <2>2, StartKept
<1>2. CASE Kept!ObservationOperation(p)
  <2>1. PICK id \in Ids : \/ Kept!Start(p, "append", id, Kept!NoStatus, "append")
                          \/ Kept!Start(p, "update", id, Kept!NoStatus, "read")
    BY <1>2 DEF Kept!ObservationOperation
  <2>2. /\ \A j : j.op = "append" /\ j.pc = "append" => JobFits(j)
        /\ \A j : j.op = "update" /\ j.pc = "read" => JobFits(j)
    BY <1>2 DEF Kept!ObservationOperation, JobFits
  <2> QED
    BY <2>1, <2>2, StartKept
<1>3. CASE Kept!CaseOperation(p)
  <2>0. journal = "case"
    BY <1>3 DEF Kept!CaseOperation
  <2>1. CASE \E s \in Kept!Statuses, id \in Ids : Kept!Start(p, "upsert", id, s, "get")
    <3>1. PICK s \in Kept!Statuses, id \in Ids : Kept!Start(p, "upsert", id, s, "get")
      BY <2>1
    <3>2. \A j : j.op = "upsert" /\ j.pc = "get" /\ j.status = s /\ j.then = "rest" => JobFits(j)
      BY <2>0 DEF JobFits, Kept!HasRows
    <3> QED
      BY <3>1, <3>2, StartKept
  <2>2. CASE \E id \in Ids : Kept!Start(p, "log", id, Kept!NoStatus, "look")
    <3>1. PICK id \in Ids : Kept!Start(p, "log", id, Kept!NoStatus, "look")
      BY <2>2
    <3>2. \A j : j.op = "log" /\ j.pc = "look" /\ j.status = Kept!NoStatus /\ j.then = "rest"
                 => JobFits(j)
      BY <2>0 DEF JobFits, Kept!HasRows
    <3> QED
      BY <3>1, <3>2, StartKept
  <2>3. CASE Kept!Start(p, "close", "closed", "settled", "look")
    <3>1. \A j : j.op = "close" /\ j.id = "closed" /\ j.pc = "look" /\ j.then = "rest" => JobFits(j)
      BY <2>0 DEF JobFits
    <3> QED
      BY <2>3, <3>1, StartKept
  <2> QED
    BY <1>3, <2>1, <2>2, <2>3 DEF Kept!CaseOperation
<1>4. CASE Kept!EpisodeOperation(p)
  <2>0. journal = "episode"
    BY <1>4 DEF Kept!EpisodeOperation
  <2>1. CASE \E s \in Kept!Statuses : Kept!Start(p, "upsert", "none", s, "get")
    <3>1. PICK s \in Kept!Statuses : Kept!Start(p, "upsert", "none", s, "get")
      BY <2>1
    <3>2. \A j : j.op = "upsert" /\ j.pc = "get" /\ j.status = s /\ j.then = "rest" => JobFits(j)
      BY <2>0 DEF JobFits, Kept!HasRows
    <3> QED
      BY <3>1, <3>2, StartKept
  <2>2. CASE \E id \in Ids : Kept!Start(p, "log", id, Kept!NoStatus, "look")
    <3>1. PICK id \in Ids : Kept!Start(p, "log", id, Kept!NoStatus, "look")
      BY <2>2
    <3>2. \A j : j.op = "log" /\ j.pc = "look" /\ j.status = Kept!NoStatus /\ j.then = "rest"
                 => JobFits(j)
      BY <2>0 DEF JobFits, Kept!HasRows
    <3> QED
      BY <3>1, <3>2, StartKept
  <2> QED
    BY <1>4, <2>1, <2>2 DEF Kept!EpisodeOperation
<1> QED
  BY <1>1, <1>2, <1>3, <1>4

\* A process reads the rows.
LEMMA ReadRowsKept ==
  ASSUME JournalInv, NEW p \in Procs, Kept!ReadRows(p)
  PROVE  JournalInv'
<1>1. PICK j : j = doing[p]
  OBVIOUS
<1>2. /\ IsJournalJob(j) /\ JobFits(j) /\ j.pc = "read" /\ Unstarted(j)
  BY <1>1 DEF Kept!ReadRows, Kept!In, JournalInv, Unstarted
<1>3. j.op \in {"upsert", "close", "delete", "update"} /\ Kept!HasRows
  BY <1>2 DEF JobFits, Kept!HasRows
<1>4. UNCHANGED JournalFiles
  BY DEF Kept!ReadRows, JournalFiles
<1>5. ~excused' => ~excused /\ Alone(p)
  BY MeetsNone DEF Kept!ReadRows
<1>6. CASE j.op = "upsert" \/ Kept!Has(rows, j.id)
  <2>1. PICK w : w = "write"
    OBVIOUS
  <2>2. PICK c : c = [j EXCEPT !.pc = w]
    OBVIOUS
  <2>3. PICK d : d = [c EXCEPT !.rows = rows]
    OBVIOUS
  <2>4. doing' = [doing EXCEPT ![p] = d]
    BY <1>1, <1>6, <2>1, <2>2, <2>3 DEF Kept!ReadRows, Kept!Put
  <2>5. IsJournalJob(c) /\ c.pc = w /\ c.op = j.op
    BY <1>2, <2>2, SetJobPc
  <2>6. IsJournalJob(d) /\ d.pc = "write" /\ d.op = j.op /\ d.rows = rows
    BY <2>1, <2>3, <2>5, SetJobRows
  <2>7. JobFits(d) /\ ~Unstarted(d)
    BY <1>2, <2>6 DEF JobFits, Unstarted
  <2>8. ~excused' => Midway(d)'
    <3>1. ~excused' => Kept!Lasting
      BY <1>1, <1>2, <1>5, AloneAt
    <3>2. Kept!Lasting => Midway(d)
      BY <1>3, <2>6 DEF Midway, MidwayRows, Kept!Lasting
    <3> QED
      BY <1>4, <3>1, <3>2, SameFiles
  <2>9. IsTruth'
    BY <1>4, SameFiles DEF JournalInv
  <2> QED
    BY <1>4, <1>5, <2>4, <2>6, <2>7, <2>8, <2>9, Moves DEF JournalFiles
<1>7. CASE ~(j.op = "upsert" \/ Kept!Has(rows, j.id))
  <2>1. doing' = [doing EXCEPT ![p] = Kept!Resting]
    BY <1>1, <1>7 DEF Kept!ReadRows, Kept!Put
  <2>2. /\ IsJournalJob(Kept!Resting) /\ JobFits(Kept!Resting) /\ Unstarted(Kept!Resting)
    BY RestingJob DEF JobFits, Unstarted
  <2>3. excused => excused'
    BY DEF Kept!ReadRows, Kept!Meets
  <2> QED
    BY <1>1, <1>2, <1>4, <2>1, <2>2, <2>3, Rests
<1> QED
  BY <1>6, <1>7

\* A line is appended.
LEMMA AppendRowKept ==
  ASSUME JournalInv, NEW p \in Procs, Kept!AppendRow(p)
  PROVE  JournalInv'
<1>1. PICK j : j = doing[p]
  OBVIOUS
<1>2. IsJournalJob(j) /\ JobFits(j) /\ j.pc = "append" /\ Unstarted(j)
  BY <1>1 DEF Kept!AppendRow, Kept!In, JournalInv, Unstarted
<1>3. journal = "observations"
  BY <1>2 DEF JobFits
<1>4. ~excused' => ~excused /\ Alone(p)
  BY MeetsNone DEF Kept!AppendRow
<1>5. PICK s : s = Append(truth.rows, j.id)
  OBVIOUS
<1>6. truth' = [truth EXCEPT !.rows = s]
  BY <1>1, <1>5 DEF Kept!AppendRow
<1>7. IsTruth
  BY DEF JournalInv
<1>8. IsTruth' /\ truth'.rows = s /\ truth'.record = truth.record
  BY <1>6, <1>7 DEF IsTruth, Kept!NoStatus, Kept!NoRecord
<1>9. ~excused' => Kept!Lasting'
  <2>1. ~excused' => Kept!Lasting
    BY <1>1, <1>2, <1>4, AloneAt
  <2>2. rows' = Append(rows, j.id) /\ record' = record /\ journal' = journal
    BY <1>1 DEF Kept!AppendRow
  <2> QED
    BY <1>3, <1>5, <1>8, <2>1, <2>2 DEF Kept!Lasting, Kept!HasRows
<1>10. /\ IsJournalJob(Kept!Resting) /\ JobFits(Kept!Resting) /\ Unstarted(Kept!Resting)
  BY RestingJob DEF JobFits, Unstarted
<1>11. doing' = [doing EXCEPT ![p] = Kept!Resting] /\ journal' = journal
  BY DEF Kept!AppendRow, Kept!Put
<1> QED
  BY <1>4, <1>8, <1>9, <1>10, <1>11, Moves

\* The file of the rows is emptied, to be filled again.
LEMMA EmptyRowsKept ==
  ASSUME JournalInv, NEW p \in Procs, Kept!EmptyRows(p)
  PROVE  JournalInv'
<1>1. PICK j : j = doing[p]
  OBVIOUS
<1>2. IsJournalJob(j) /\ JobFits(j) /\ j.pc = "write" /\ ~Unstarted(j) /\ Kept!HasRows
  BY <1>1 DEF Kept!EmptyRows, Kept!In, JournalInv, Unstarted
<1>3. ~excused' => ~excused /\ Alone(p)
  BY MeetsNone DEF Kept!EmptyRows
<1>4. PICK w : w = "fill"
  OBVIOUS
<1>5. PICK d : d = [j EXCEPT !.pc = w]
  OBVIOUS
<1>6. doing' = [doing EXCEPT ![p] = d] /\ UNCHANGED <<journal, record, log, truth>>
  BY <1>1, <1>4, <1>5 DEF Kept!EmptyRows, Kept!Put
<1>7. IsJournalJob(d) /\ d.pc = "fill" /\ d.op = j.op /\ d.rows = j.rows
  BY <1>2, <1>4, <1>5, SetJobPc
<1>8. JobFits(d) /\ ~Unstarted(d)
  BY <1>2, <1>7 DEF JobFits, Unstarted, Kept!HasRows
<1>9. IsTruth'
  BY <1>6 DEF JournalInv, IsTruth, Kept!NoStatus, Kept!NoRecord
<1>10. ~excused' => Midway(d)'
  <2>1. ~excused' => Midway(j)
    BY <1>1, <1>2, <1>3, AloneAt
  <2> QED
    BY <1>2, <1>6, <1>7, <2>1 DEF Midway, MidwayRows, Kept!HasRows, Kept!Lasting
<1> QED
  BY <1>3, <1>6, <1>7, <1>8, <1>9, <1>10, Moves

\* What is written is what the operations amount to.
LEMMA FillRowsKept ==
  ASSUME JournalInv, NEW p \in Procs, Kept!FillRows(p)
  PROVE  JournalInv'
<1>1. PICK j : j = doing[p]
  OBVIOUS
<1>2. IsJournalJob(j) /\ JobFits(j) /\ j.pc = "fill" /\ ~Unstarted(j) /\ Kept!HasRows
  BY <1>1 DEF Kept!FillRows, Kept!In, JournalInv, Unstarted
<1>3. /\ j.op \in {"upsert", "close", "delete", "update"}
      /\ j.op = "update" <=> journal = "observations"
      /\ j.op # "update" <=> journal = "tracks"
  BY <1>2 DEF JobFits, Kept!HasRows
<1>4. ~excused' => ~excused /\ Alone(p)
  BY MeetsNone DEF Kept!FillRows
<1>5. PICK s : s = IF j.op = "update" THEN truth.rows
                   ELSE Kept!Kept(Kept!Without(truth.rows, j.id)
                                  \o (IF j.op = "upsert" THEN <<j.id>> ELSE <<>>))
  OBVIOUS
<1>6. PICK l : l = IF j.op = "close" THEN truth.log \union {j.id} ELSE truth.log
  OBVIOUS
<1>7. PICK m : m = [truth EXCEPT !.rows = s]
  OBVIOUS
<1>8. truth' = [m EXCEPT !.log = l]
  BY <1>1, <1>5, <1>6, <1>7 DEF Kept!FillRows
<1>9. IsTruth' /\ truth'.rows = s /\ truth'.log = l /\ truth'.record = truth.record
  BY <1>7, <1>8 DEF JournalInv, IsTruth, Kept!NoStatus, Kept!NoRecord
<1>10. UNCHANGED <<journal, record, log>> /\ rows' = Kept!Changed(j.op, j.id, j.rows)
  BY <1>1 DEF Kept!FillRows
<1>11. ~excused' => rows' = truth'.rows /\ record' = truth'.record
                    /\ (journal = "tracks" => log = truth.log)
  <2>1. ~excused' => /\ j.rows = truth.rows /\ record = truth.record
                     /\ (journal = "tracks" => log = truth.log)
    BY <1>1, <1>2, <1>4, AloneAt DEF Midway, MidwayRows
  <2> QED
    BY <1>5, <1>9, <1>10, <2>1 DEF Kept!Changed
<1>12. CASE j.op = "close"
  <2>1. PICK w : w = "archive"
    OBVIOUS
  <2>2. PICK d : d = [j EXCEPT !.pc = w]
    OBVIOUS
  <2>3. doing' = [doing EXCEPT ![p] = d]
    BY <1>1, <1>12, <2>1, <2>2 DEF Kept!FillRows, Kept!Put
  <2>4. IsJournalJob(d) /\ d.pc = "archive" /\ d.op = j.op /\ d.id = j.id
    BY <1>2, <2>1, <2>2, SetJobPc
  <2>5. JobFits(d) /\ ~Unstarted(d)
    BY <1>3, <1>12, <2>4 DEF JobFits, Unstarted
  <2>6. ~excused' => Midway(d)'
    BY <1>2, <1>3, <1>6, <1>9, <1>10, <1>11, <1>12, <2>4 DEF Midway, MidwayRows, Kept!HasRows
  <2> QED
    BY <1>4, <1>9, <1>10, <2>3, <2>4, <2>5, <2>6, Moves
<1>13. CASE j.op # "close"
  <2>1. doing' = [doing EXCEPT ![p] = Kept!Resting]
    BY <1>1, <1>13 DEF Kept!FillRows, Kept!Put
  <2>2. /\ IsJournalJob(Kept!Resting) /\ JobFits(Kept!Resting) /\ Unstarted(Kept!Resting)
    BY RestingJob DEF JobFits, Unstarted
  <2>3. ~excused' => Kept!Lasting'
    BY <1>2, <1>6, <1>9, <1>10, <1>11, <1>13 DEF Kept!Lasting, Kept!HasRows
  <2> QED
    BY <1>4, <1>9, <1>10, <2>1, <2>2, <2>3, Moves
<1> QED
  BY <1>12, <1>13

\* The closed track comes into the archive.
LEMMA ArchiveKept ==
  ASSUME JournalInv, NEW p \in Procs, Kept!Archive(p)
  PROVE  JournalInv'
<1>1. PICK j : j = doing[p]
  OBVIOUS
<1>2. IsJournalJob(j) /\ JobFits(j) /\ j.pc = "archive" /\ ~Unstarted(j)
  BY <1>1 DEF Kept!Archive, Kept!In, JournalInv, Unstarted
<1>3. journal = "tracks" /\ Kept!HasRows
  BY <1>2 DEF JobFits, Kept!HasRows
<1>4. /\ UNCHANGED <<journal, rows, record, truth, excused>> /\ log' = log \union {j.id}
      /\ doing' = [doing EXCEPT ![p] = Kept!Resting]
  BY <1>1 DEF Kept!Archive, Kept!Put
<1>5. ~excused' => ~excused /\ Alone(p)
  BY <1>1, <1>2, <1>4 DEF JournalInv, Alone
<1>6. ~excused' => Kept!Lasting'
  <2>1. ~excused' => Midway(j)
    BY <1>1, <1>2, <1>5, AloneAt
  <2> QED
    BY <1>2, <1>3, <1>4, <2>1 DEF Midway, MidwayRows, Kept!Lasting, Kept!HasRows
<1>7. IsTruth'
  BY <1>4 DEF JournalInv, IsTruth, Kept!NoStatus, Kept!NoRecord
<1>8. /\ IsJournalJob(Kept!Resting) /\ JobFits(Kept!Resting) /\ Unstarted(Kept!Resting)
  BY RestingJob DEF JobFits, Unstarted
<1> QED
  BY <1>4, <1>5, <1>6, <1>7, <1>8, Moves

\* The record is looked for before anything else is done with it.
LEMMA LookKept ==
  ASSUME JournalInv, NEW p \in Procs, Kept!Look(p)
  PROVE  JournalInv'
<1>1. PICK j : j = doing[p]
  OBVIOUS
<1>2. IsJournalJob(j) /\ JobFits(j) /\ j.pc = "look" /\ Unstarted(j)
  BY <1>1 DEF Kept!Look, Kept!In, JournalInv, Unstarted
<1>3. ~Kept!HasRows /\ (j.op = "log" \/ (j.op = "close" /\ journal = "case" /\ j.id = "closed"))
  BY <1>2 DEF JobFits, Kept!HasRows
<1>4. UNCHANGED JournalFiles
  BY DEF Kept!Look, JournalFiles
<1>5. journal' = journal /\ IsTruth'
  BY <1>4, SameFiles DEF JournalFiles, JournalInv
<1>6. ~excused' => ~excused /\ Alone(p) /\ Kept!Lasting
  <2>1. ~excused' => ~excused /\ Alone(p)
    BY MeetsNone DEF Kept!Look
  <2> QED
    BY <1>1, <1>2, <2>1, AloneAt
<1>7. CASE Kept!Found /\ j.op = "log"
  <2>1. PICK w : w = "note"
    OBVIOUS
  <2>2. PICK c : c = [j EXCEPT !.pc = w]
    OBVIOUS
  <2>3. PICK d : d = [c EXCEPT !.first = record]
    OBVIOUS
  <2>4. doing' = [doing EXCEPT ![p] = d]
    BY <1>1, <1>7, <2>1, <2>2, <2>3 DEF Kept!Look, Kept!Put
  <2>5. IsJournalJob(c) /\ c.pc = w /\ c.op = j.op /\ c.then = j.then /\ c.status = j.status
    BY <1>2, <2>2, SetJobPc
  <2>6. /\ IsJournalJob(d) /\ d.pc = "note" /\ d.op = j.op /\ d.then = j.then
        /\ d.status = j.status /\ d.first = record
    BY <2>1, <2>3, <2>5, SetJobFirst
  <2>7. JobFits(d) /\ ~Unstarted(d)
    BY <1>2, <1>7, <2>6 DEF JobFits, Unstarted, Kept!HasRows
  <2>8. ~excused' => Midway(d)'
    <3>1. Kept!Lasting => Midway(d)
      BY <1>3, <1>7, <2>6 DEF Midway, MidwayRecord, Kept!Lasting, Kept!Found
    <3> QED
      BY <1>4, <1>6, <3>1, SameFiles
  <2> QED
    BY <1>5, <1>6, <2>4, <2>6, <2>7, <2>8, Moves
<1>8. CASE Kept!Found /\ j.op = "close"
  <2>1. PICK w, t : w = "get" /\ t = "note"
    OBVIOUS
  <2>2. PICK b : b = [j EXCEPT !.pc = w]
    OBVIOUS
  <2>3. PICK c : c = [b EXCEPT !.first = record]
    OBVIOUS
  <2>4. PICK d : d = [c EXCEPT !.then = t]
    OBVIOUS
  <2>5. doing' = [doing EXCEPT ![p] = d]
    BY <1>1, <1>8, <2>1, <2>2, <2>3, <2>4 DEF Kept!Look, Kept!Put
  <2>6. IsJournalJob(b) /\ b.pc = w /\ b.op = j.op /\ b.id = j.id
    BY <1>2, <2>2, SetJobPc
  <2>7. IsJournalJob(c) /\ c.pc = w /\ c.op = j.op /\ c.first = record /\ c.id = j.id
    BY <2>3, <2>6, SetJobFirst
  <2>8. /\ IsJournalJob(d) /\ d.pc = "get" /\ d.op = "close" /\ d.then = "note"
        /\ d.first = record /\ d.id = j.id
    BY <1>8, <2>1, <2>4, <2>7, SetJobThen
  <2>9. JobFits(d) /\ ~Unstarted(d)
    BY <1>3, <1>8, <2>8 DEF JobFits, Unstarted
  <2>10. ~excused' => Midway(d)'
    <3>1. Kept!Lasting => Midway(d)
      BY <1>3, <2>8 DEF Midway, MidwayRecord, Kept!Lasting, Before
    <3> QED
      BY <1>4, <1>6, <3>1, SameFiles
  <2> QED
    BY <1>5, <1>6, <2>5, <2>8, <2>9, <2>10, Moves
<1>9. CASE ~Kept!Found /\ j.op = "log"
  <2>1. PICK w, t : w = "get" /\ t = "note"
    OBVIOUS
  <2>2. PICK c : c = [j EXCEPT !.pc = w]
    OBVIOUS
  <2>3. PICK d : d = [c EXCEPT !.then = t]
    OBVIOUS
  <2>4. doing' = [doing EXCEPT ![p] = d]
    BY <1>1, <1>9, <2>1, <2>2, <2>3 DEF Kept!Look, Kept!Put
  <2>5. IsJournalJob(c) /\ c.pc = w /\ c.op = j.op /\ c.status = j.status
    BY <1>2, <2>2, SetJobPc
  <2>6. /\ IsJournalJob(d) /\ d.pc = "get" /\ d.op = "log" /\ d.then = "note"
        /\ d.status = j.status
    BY <1>9, <2>1, <2>3, <2>5, SetJobThen
  <2>7. JobFits(d) /\ ~Unstarted(d)
    BY <1>2, <1>9, <2>6 DEF JobFits, Unstarted, Kept!HasRows
  <2>8. ~excused' => Midway(d)'
    <3>1. Kept!Lasting => Midway(d)
      BY <1>3, <2>6 DEF Midway, MidwayRecord, Kept!Lasting, Before
    <3> QED
      BY <1>4, <1>6, <3>1, SameFiles
  <2> QED
    BY <1>5, <1>6, <2>4, <2>6, <2>7, <2>8, Moves
<1>10. CASE ~Kept!Found /\ j.op = "close"
  <2>1. doing' = [doing EXCEPT ![p] = Kept!Resting]
    BY <1>1, <1>10 DEF Kept!Look, Kept!Put
  <2>2. /\ IsJournalJob(Kept!Resting) /\ JobFits(Kept!Resting) /\ Unstarted(Kept!Resting)
    BY RestingJob DEF JobFits, Unstarted
  <2>3. excused => excused'
    BY DEF Kept!Look, Kept!Meets
  <2> QED
    BY <1>1, <1>2, <1>4, <2>1, <2>2, <2>3, Rests
<1> QED
  BY <1>3, <1>7, <1>8, <1>9, <1>10

\* The event or the entry comes into the log.
LEMMA NoteKept ==
  ASSUME JournalInv, NEW p \in Procs, Kept!Note(p)
  PROVE  JournalInv'
<1>1. PICK j : j = doing[p]
  OBVIOUS
<1>2. IsJournalJob(j) /\ JobFits(j) /\ j.pc = "note" /\ ~Unstarted(j)
  BY <1>1 DEF Kept!Note, Kept!In, JournalInv, Unstarted
<1>3. ~Kept!HasRows /\ (j.op = "log" \/ (j.op = "close" /\ journal = "case" /\ j.id = "closed"))
  BY <1>2 DEF JobFits, Kept!HasRows
<1>4. ~excused' => ~excused /\ Alone(p)
  BY MeetsNone DEF Kept!Note
<1>5. PICK w, t, n : w = "get" /\ t = "rest" /\ n = Kept!NoStatus
  OBVIOUS
<1>6. PICK b : b = [j EXCEPT !.pc = w]
  OBVIOUS
<1>7. PICK c : c = [b EXCEPT !.then = t]
  OBVIOUS
<1>8. PICK d : d = [c EXCEPT !.status = n]
  OBVIOUS
<1>9. doing' = [doing EXCEPT ![p] = d]
  BY <1>1, <1>5, <1>6, <1>7, <1>8 DEF Kept!Note, Kept!Put
<1>10. IsJournalJob(b) /\ b.pc = w /\ b.op = j.op /\ b.first = j.first /\ b.id = j.id
  BY <1>2, <1>6, SetJobPc
<1>11. IsJournalJob(c) /\ c.pc = w /\ c.op = j.op /\ c.first = j.first /\ c.id = j.id /\ c.then = t
  BY <1>7, <1>10, SetJobThen
<1>12. /\ IsJournalJob(d) /\ d.pc = "get" /\ d.op = j.op /\ d.first = j.first /\ d.id = j.id
       /\ d.then = "rest" /\ d.status = Kept!NoStatus
  BY <1>5, <1>8, <1>11, SetJobStatus
<1>13. JobFits(d) /\ ~Unstarted(d)
  BY <1>3, <1>12 DEF JobFits, Unstarted
<1>14. UNCHANGED <<journal, rows, record, truth>> /\ log' = log \union {j.id}
  BY <1>1 DEF Kept!Note
<1>15. IsTruth'
  BY <1>14 DEF JournalInv, IsTruth, Kept!NoStatus, Kept!NoRecord
<1>16. ~excused' => Midway(d)'
  <2>1. ASSUME ~excused' PROVE Kept!Lasting /\ j.first = record
    BY <1>1, <1>2, <1>3, <1>4, <2>1, AloneAt DEF Midway, MidwayRecord
  <2>3. ASSUME ~excused', journal = "case"
        PROVE  log' \ {"closed"} \subseteq Before(d)'.items \union Kept!Brought(d)'
    <3>1. log \ {"closed"} \subseteq record.items
      BY <2>1, <2>3 DEF Kept!Lasting
    <3> QED
      BY <1>3, <1>12, <1>14, <2>3, <3>1 DEF Before, Kept!Brought
  <2> QED
    BY <1>3, <1>12, <1>14, <2>1, <2>3 DEF Midway, MidwayRecord, Before, Kept!Lasting, Kept!HasRows
<1> QED
  BY <1>4, <1>9, <1>12, <1>13, <1>14, <1>15, <1>16, Moves

\* The record is read, to be written over.
LEMMA GetKept ==
  ASSUME JournalInv, NEW p \in Procs, Kept!Get(p)
  PROVE  JournalInv'
<1>1. PICK j : j = doing[p]
  OBVIOUS
<1>2. IsJournalJob(j) /\ JobFits(j) /\ j.pc = "get"
  BY <1>1 DEF Kept!Get, Kept!In, JournalInv
<1>3. ~Kept!HasRows
  BY <1>2 DEF JobFits, Kept!HasRows
<1>4. ~excused' => ~excused /\ Alone(p)
  BY MeetsNone DEF Kept!Get
<1>5. PICK w : w = "write"
  OBVIOUS
<1>6. PICK c : c = [j EXCEPT !.pc = w]
  OBVIOUS
<1>7. PICK d : d = [c EXCEPT !.record = record]
  OBVIOUS
<1>8. doing' = [doing EXCEPT ![p] = d]
  BY <1>1, <1>5, <1>6, <1>7 DEF Kept!Get, Kept!Put
<1>9. /\ IsJournalJob(c) /\ c.pc = w /\ c.op = j.op /\ c.first = j.first /\ c.id = j.id
      /\ c.then = j.then /\ c.status = j.status
  BY <1>2, <1>6, SetJobPc
<1>10. /\ IsJournalJob(d) /\ d.pc = "write" /\ d.op = j.op /\ d.first = j.first /\ d.id = j.id
       /\ d.then = j.then /\ d.status = j.status /\ d.record = record
  BY <1>5, <1>7, <1>9, SetJobRecord
<1>11. JobFits(d) /\ ~Unstarted(d)
  BY <1>2, <1>3, <1>10 DEF JobFits, Unstarted, Kept!HasRows
<1>12. UNCHANGED JournalFiles
  BY DEF Kept!Get, JournalFiles
<1>13. journal' = journal /\ IsTruth'
  BY <1>12, SameFiles DEF JournalFiles, JournalInv
<1>14. Before(j) = record /\ Before(d) = record /\ Kept!Brought(d) = Kept!Brought(j)
  BY <1>2, <1>10 DEF Before, Kept!Brought
<1>15. ~excused' => Midway(d)'
  <2>1. CASE j.op = "upsert"
    <3>1. ~excused' => Kept!Lasting
      BY <1>1, <1>2, <1>4, <2>1, AloneAt DEF Unstarted
    <3>2. Kept!Lasting => Midway(d)
      BY <1>3, <1>10, <1>14, <2>1 DEF Midway, MidwayRecord, Kept!Lasting
    <3> QED
      BY <1>12, <3>1, <3>2, SameFiles
  <2>2. CASE j.op # "upsert"
    <3>1. ~excused' => Midway(j)
      BY <1>1, <1>2, <1>4, <2>2, AloneAt DEF Unstarted
    <3>2. Midway(j) => Midway(d)
      BY <1>2, <1>3, <1>10, <1>14, <2>2 DEF Midway, MidwayRecord
    <3> QED
      BY <1>12, <3>1, <3>2, SameFiles
  <2> QED
    BY <2>1, <2>2
<1> QED
  BY <1>4, <1>8, <1>10, <1>11, <1>13, <1>15, Moves

\* The file of the record is emptied, to be filled again.
LEMMA EmptyRecordKept ==
  ASSUME JournalInv, NEW p \in Procs, Kept!EmptyRecord(p)
  PROVE  JournalInv'
<1>1. PICK j : j = doing[p]
  OBVIOUS
<1>2. IsJournalJob(j) /\ JobFits(j) /\ j.pc = "write" /\ ~Unstarted(j) /\ ~Kept!HasRows
  BY <1>1 DEF Kept!EmptyRecord, Kept!In, JournalInv, Unstarted
<1>3. ~excused' => ~excused /\ Alone(p)
  BY MeetsNone DEF Kept!EmptyRecord
<1>4. PICK w : w = "fill"
  OBVIOUS
<1>5. PICK d : d = [j EXCEPT !.pc = w]
  OBVIOUS
<1>6. doing' = [doing EXCEPT ![p] = d] /\ UNCHANGED <<journal, rows, log, truth>>
  BY <1>1, <1>4, <1>5 DEF Kept!EmptyRecord, Kept!Put
<1>7. /\ IsJournalJob(d) /\ d.pc = "fill" /\ d.op = j.op /\ d.first = j.first /\ d.id = j.id
      /\ d.then = j.then /\ d.status = j.status /\ d.record = j.record
  BY <1>2, <1>4, <1>5, SetJobPc
<1>8. JobFits(d) /\ ~Unstarted(d)
  BY <1>2, <1>7 DEF JobFits, Unstarted, Kept!HasRows
<1>9. IsTruth'
  BY <1>6 DEF JournalInv, IsTruth, Kept!NoStatus, Kept!NoRecord
<1>10. ~excused' => Midway(d)'
  <2>1. ~excused' => Midway(j)
    BY <1>1, <1>2, <1>3, AloneAt
  <2>2. Before(d)' = Before(j) /\ Kept!Brought(d)' = Kept!Brought(j)
    BY <1>2, <1>6, <1>7 DEF Before, Kept!Brought
  <2> QED
    BY <1>2, <1>6, <1>7, <2>1, <2>2 DEF Midway, MidwayRecord, Kept!HasRows, Kept!StatusOf,
       Kept!NoRecord, Kept!NoStatus
<1> QED
  BY <1>3, <1>6, <1>7, <1>8, <1>9, <1>10, Moves

\* What is written is what the operations amount to.
LEMMA FillRecordKept ==
  ASSUME JournalInv, NEW p \in Procs, Kept!FillRecord(p)
  PROVE  JournalInv'
<1>1. PICK j : j = doing[p]
  OBVIOUS
<1>2. IsJournalJob(j) /\ JobFits(j) /\ j.pc = "fill" /\ ~Unstarted(j) /\ ~Kept!HasRows
  BY <1>1 DEF Kept!FillRecord, Kept!In, JournalInv, Unstarted
<1>3. ~excused' => ~excused /\ Alone(p)
  BY MeetsNone DEF Kept!FillRecord
<1>4. PICK w : w = "export"
  OBVIOUS
<1>5. PICK d : d = [j EXCEPT !.pc = w]
  OBVIOUS
<1>6. doing' = [doing EXCEPT ![p] = d] /\ UNCHANGED <<journal, rows, log>>
  BY <1>1, <1>4, <1>5 DEF Kept!FillRecord, Kept!Put
<1>7. /\ IsJournalJob(d) /\ d.pc = "export" /\ d.op = j.op /\ d.first = j.first /\ d.id = j.id
      /\ d.then = j.then /\ d.status = j.status
  BY <1>2, <1>4, <1>5, SetJobPc
<1>8. JobFits(d) /\ ~Unstarted(d)
  BY <1>2, <1>7 DEF JobFits, Unstarted, Kept!HasRows
<1>9. PICK s : s = IF j.status # Kept!NoStatus THEN j.status ELSE Kept!StatusOf(truth.record)
  OBVIOUS
<1>10. PICK t : t = [status |-> s, items |-> truth.record.items \union Kept!Brought(j)]
  OBVIOUS
<1>11. truth' = [truth EXCEPT !.record = t]
  BY <1>1, <1>9, <1>10 DEF Kept!FillRecord
<1>12. truth'.record = t /\ truth'.rows = truth.rows
       /\ truth' = [rows |-> truth'.rows, log |-> truth'.log, record |-> truth'.record]
  BY <1>11 DEF JournalInv, IsTruth
<1>13. s # Kept!NoStatus
  BY <1>9 DEF JournalInv, IsTruth, Kept!StatusOf, Kept!NoStatus
<1>14. t.status = s /\ t # Kept!NoRecord
  BY <1>10, <1>13 DEF Kept!NoRecord
<1>15. IsTruth'
  BY <1>12, <1>13, <1>14 DEF IsTruth, Kept!NoStatus
<1>16. ASSUME ~excused' PROVE Midway(d)'
  <2>1. Midway(j)
    BY <1>1, <1>2, <1>3, <1>16, AloneAt
  <2>2. /\ rows = truth.rows /\ j.record = truth.record
        /\ journal = "case" => log \ {"closed"} \subseteq truth.record.items \union Kept!Brought(j)
        /\ j.op = "close" /\ j.then = "note" => j.first = truth.record
        /\ journal = "episode" /\ j.op = "log" /\ j.then = "rest"
             => Kept!StatusOf(j.first) = Kept!StatusOf(truth.record)
    BY <1>2, <2>1 DEF Midway, MidwayRecord, Before
  <2>3. journal = "episode" /\ j.then = "rest" /\ j.status = Kept!NoStatus => j.op = "log"
    BY <1>2 DEF JobFits, Kept!HasRows, Kept!Statuses, Kept!NoStatus
  <2>4. (IF j.status # Kept!NoStatus THEN j.status
         ELSE IF journal = "episode" /\ j.then = "rest" THEN Kept!StatusOf(j.first)
         ELSE Kept!StatusOf(j.record)) = s
    BY <1>9, <2>2, <2>3
  <2>5. j.record.items \union Kept!Brought(j)
          \union (IF j.op = "close" /\ j.then = "note" THEN j.first.items ELSE {}) = t.items
    BY <1>10, <2>2
  <2>6. record' = Kept!WrittenOver(j)
    BY <1>1 DEF Kept!FillRecord
  <2>7. record' = t
    BY <1>10, <2>4, <2>5, <2>6 DEF Kept!WrittenOver
  <2>8. journal = "case" => log \ {"closed"} \subseteq t.items
    BY <1>10, <2>2
  <2>9. t # Kept!NoRecord'
    BY <1>14 DEF Kept!NoRecord, Kept!NoStatus
  <2> QED
    BY <1>2, <1>6, <1>7, <1>12, <2>2, <2>7, <2>8, <2>9 DEF Midway, MidwayRecord, Kept!HasRows
<1> QED
  BY <1>3, <1>6, <1>7, <1>8, <1>15, <1>16, Moves

\* The page shows the record with its whole log.
LEMMA ExportKept ==
  ASSUME JournalInv, NEW p \in Procs, Kept!Export(p)
  PROVE  JournalInv'
<1>1. PICK j : j = doing[p]
  OBVIOUS
<1>2. IsJournalJob(j) /\ JobFits(j) /\ j.pc = "export" /\ ~Unstarted(j)
  BY <1>1 DEF Kept!Export, Kept!In, JournalInv, Unstarted
<1>3. ~Kept!HasRows /\ j.then \in {"rest", "note"}
  BY <1>2 DEF JobFits, Kept!HasRows
<1>4. ~excused' => ~excused /\ Alone(p)
  BY MeetsNone DEF Kept!Export
<1>5. UNCHANGED <<journal, rows, record, log, truth>>
  BY <1>1 DEF Kept!Export
<1>6. IsTruth'
  BY <1>5 DEF JournalInv, IsTruth, Kept!NoStatus, Kept!NoRecord
<1>7. ~excused' => Kept!Lasting' /\ record # Kept!NoRecord
  <2>1. ASSUME ~excused' PROVE Midway(j)
    BY <1>1, <1>2, <1>4, <2>1, AloneAt
  <2>2. page' = IF ~Kept!Found THEN page ELSE [record |-> record, log |-> log]
    BY <1>1 DEF Kept!Export
  <2> QED
    BY <1>2, <1>3, <1>5, <2>1, <2>2 DEF Midway, MidwayRecord, Kept!Lasting, Kept!Found, Kept!HasRows
<1>8. CASE j.then = "rest"
  <2>1. doing' = [doing EXCEPT ![p] = Kept!Resting]
    BY <1>1, <1>8 DEF Kept!Export, Kept!Put
  <2>2. /\ IsJournalJob(Kept!Resting) /\ JobFits(Kept!Resting) /\ Unstarted(Kept!Resting)
    BY RestingJob DEF JobFits, Unstarted
  <2> QED
    BY <1>4, <1>5, <1>6, <1>7, <2>1, <2>2, Moves
<1>9. CASE j.then = "note"
  <2>1. PICK w : w = "note"
    OBVIOUS
  <2>2. PICK c : c = [j EXCEPT !.pc = w]
    OBVIOUS
  <2>3. PICK d : d = [c EXCEPT !.first = record]
    OBVIOUS
  <2>4. doing' = [doing EXCEPT ![p] = d]
    BY <1>1, <1>9, <2>1, <2>2, <2>3 DEF Kept!Export, Kept!Put
  <2>5. /\ IsJournalJob(c) /\ c.pc = w /\ c.op = j.op /\ c.then = j.then
        /\ c.status = j.status /\ c.id = j.id
    BY <1>2, <2>2, SetJobPc
  <2>6. /\ IsJournalJob(d) /\ d.pc = "note" /\ d.op = j.op /\ d.then = j.then
        /\ d.status = j.status /\ d.first = record /\ d.id = j.id
    BY <2>1, <2>3, <2>5, SetJobFirst
  <2>7. j.op \in {"log", "close"}
    BY <1>2, <1>3, <1>9 DEF JobFits, Kept!HasRows
  <2>8. JobFits(d) /\ ~Unstarted(d)
    BY <1>2, <1>3, <2>6, <2>7 DEF JobFits, Unstarted, Kept!HasRows
  <2>9. ~excused' => Midway(d)'
    BY <1>3, <1>5, <1>7, <2>6 DEF Midway, MidwayRecord, Kept!Lasting, Kept!HasRows, Kept!NoRecord,
       Kept!NoStatus
  <2> QED
    BY <1>4, <1>5, <1>6, <2>4, <2>6, <2>8, <2>9, Moves
<1> QED
  BY <1>3, <1>8, <1>9

\* A process stops.
LEMMA HaltKept ==
  ASSUME JournalInv, NEW p \in Procs, Kept!Halt(p)
  PROVE  JournalInv'
<1>1. PICK j : j = doing[p]
  OBVIOUS
<1>2. IsJournalJob(j) /\ JobFits(j)
  BY <1>1 DEF JournalInv
<1>3. /\ UNCHANGED JournalFiles /\ doing' = [doing EXCEPT ![p] = Kept!Resting]
      /\ excused' = (excused \/ Kept!CutShort(j))
  BY <1>1 DEF Kept!Halt, Kept!Put, JournalFiles
<1>4. /\ IsJournalJob(Kept!Resting) /\ JobFits(Kept!Resting) /\ Unstarted(Kept!Resting)
  BY RestingJob DEF JobFits, Unstarted
<1>5. CASE Unstarted(j)
  BY <1>1, <1>3, <1>4, <1>5, Rests
<1>6. CASE ~Unstarted(j)
  <2>1. ~excused' => ~excused /\ Alone(p)
    BY <1>1, <1>3, <1>6 DEF JournalInv, Alone
  <2>2. ASSUME ~excused' PROVE Kept!Lasting
    <3>1. Midway(j) /\ ~Kept!CutShort(j)
      BY <1>1, <1>3, <1>6, <2>1, <2>2, AloneAt
    <3>2. CASE Kept!HasRows
      <4>1. j.pc = "write"
        BY <1>2, <1>6, <3>1, <3>2 DEF JobFits, Unstarted, Kept!CutShort, Kept!HasRows
      <4> QED
        BY <3>1, <3>2, <4>1 DEF Midway, MidwayRows
    <3>3. CASE ~Kept!HasRows
      <4>1. \/ j.pc = "note"
            \/ j.pc \in {"get", "write"} /\ (j.op = "upsert" \/ j.then = "note")
        BY <1>2, <1>6, <3>1, <3>3 DEF JobFits, Unstarted, Kept!CutShort, Kept!HasRows
      <4> QED
        BY <3>1, <3>3, <4>1 DEF Midway, MidwayRecord
    <3> QED
      BY <3>2, <3>3
  <2>3. IsTruth' /\ journal' = journal
    BY <1>3, SameFiles DEF JournalInv, JournalFiles
  <2>4. ~excused' => Kept!Lasting'
    BY <1>3, <2>2, SameFiles
  <2> QED
    BY <1>3, <1>4, <2>1, <2>3, <2>4, Moves
<1> QED
  BY <1>5, <1>6

LEMMA JournalStep ==
  ASSUME JournalInv, Kept!JournalNext
  PROVE  JournalInv'
BY AsksKept, ReadRowsKept, AppendRowKept, EmptyRowsKept, FillRowsKept, ArchiveKept, LookKept,
   NoteKept, GetKept, EmptyRecordKept, FillRecordKept, ExportKept, HaltKept DEF Kept!JournalNext

LEMMA JournalFrame ==
  ASSUME JournalInv, UNCHANGED journalVars
  PROVE  JournalInv'
BY DEF JournalInv, journalVars, JobFits, Midway, MidwayRows, MidwayRecord, Before, IsTruth,
   Kept!Lasting, Kept!HasRows, Kept!Brought, Kept!StatusOf, Kept!Statuses, Kept!NoStatus,
   Kept!NoRecord

LEMMA JournalInitInv ==
  ASSUME Init
  PROVE  JournalInv
<1>1. PICK r : r = Kept!Resting /\ IsJournalJob(r) /\ r.pc = "rest"
  BY RestingJob
<1>2. /\ doing = [p \in Procs |-> r] /\ rows = <<>> /\ record = Kept!NoRecord /\ log = {}
      /\ page = Kept!NoPage /\ truth = [rows |-> <<>>, log |-> {}, record |-> Kept!NoRecord]
  BY <1>1 DEF Init, Kept!JournalInit
<1>3. \A p \in Procs : doing[p] = r /\ Unstarted(doing[p]) /\ JobFits(doing[p])
  BY <1>1, <1>2 DEF Unstarted, JobFits
<1>4. IsTruth
  BY <1>2 DEF IsTruth
<1>5. Kept!Lasting
  BY <1>2 DEF Kept!Lasting, Kept!NoPage
<1> QED
  BY <1>1, <1>2, <1>3, <1>4, <1>5 DEF JournalInv

\* As long as no operation met another one and none was cut between its writes, at rest
\* every journal is what its operations amount to, one by one.
THEOREM JournalsLast == Spec => []JournalsKept
<1>1. JournalInv /\ [Next]_vars => JournalInv'
  <2> SUFFICES ASSUME JournalInv, [Next]_vars
               PROVE  JournalInv'
    OBVIOUS
  <2>1. CASE Kept!JournalNext
    BY <2>1, JournalStep
  <2>2. CASE UNCHANGED journalVars
    BY <2>2, JournalFrame
  <2> QED
    BY <2>1, <2>2 DEF Next, vars
<1>2. JournalInv => JournalsKept
  BY DEF JournalInv, JournalsKept, Kept!AtRest, Kept!In, Unstarted
<1> QED
  BY <1>1, <1>2, JournalInitInv, PTL DEF Spec

-----------------------------------------------------------------------------
\* The turns of a conversation: sequences.
IsSeq(s) == \E S : s \in Seq(S)

LEMMA SeqFacts ==
  ASSUME NEW s, IsSeq(s)
  PROVE  /\ Len(s) \in Nat /\ DOMAIN s = 1..Len(s)
         /\ s = [k \in DOMAIN s |-> s[k]]
<1>1. PICK S : s \in Seq(S)
  BY DEF IsSeq
<1> QED
  BY <1>1, LenProperties

LEMMA AppendFacts ==
  ASSUME NEW s, IsSeq(s), NEW x
  PROVE  /\ IsSeq(Append(s, x)) /\ Len(Append(s, x)) = Len(s) + 1
         /\ DOMAIN Append(s, x) = 1..(Len(s) + 1)
         /\ Append(s, x)[Len(s) + 1] = x
         /\ \A k \in 1..Len(s) : Append(s, x)[k] = s[k]
<1>1. PICK S : s \in Seq(S)
  BY DEF IsSeq
<1>2. PICK T : T = S \union {x}
  OBVIOUS
<1>3. s \in Seq(T) /\ x \in T
  BY <1>1, <1>2, SeqMonotonic
<1>4. /\ Append(s, x) \in Seq(T) /\ Len(Append(s, x)) = Len(s) + 1
      /\ \A k \in 1..Len(s) : Append(s, x)[k] = s[k]
      /\ Append(s, x)[Len(s) + 1] = x
  BY <1>3, AppendProperties
<1>5. IsSeq(Append(s, x))
  BY <1>4 DEF IsSeq
<1> QED
  BY <1>4, <1>5, SeqFacts

LEMMA ExceptFacts ==
  ASSUME NEW s, IsSeq(s), NEW k \in DOMAIN s, NEW x
  PROVE  /\ IsSeq([s EXCEPT ![k] = x]) /\ Len([s EXCEPT ![k] = x]) = Len(s)
         /\ DOMAIN [s EXCEPT ![k] = x] = DOMAIN s
         /\ [s EXCEPT ![k] = x][k] = x
         /\ \A l \in DOMAIN s \ {k} : [s EXCEPT ![k] = x][l] = s[l]
<1>1. PICK S : s \in Seq(S)
  BY DEF IsSeq
<1>2. PICK T : T = S \union {x}
  OBVIOUS
<1>3. s \in Seq(T) /\ x \in T /\ k \in 1..Len(s)
  BY <1>1, <1>2, SeqMonotonic, LenProperties
<1>4. /\ [s EXCEPT ![k] = x] \in Seq(T) /\ Len([s EXCEPT ![k] = x]) = Len(s)
      /\ \A l \in 1..Len(s) : [s EXCEPT ![k] = x][l] = IF l = k THEN x ELSE s[l]
  BY <1>3, ExceptSeq
<1>5. IsSeq([s EXCEPT ![k] = x])
  BY <1>4 DEF IsSeq
<1> QED
  BY <1>3, <1>4, <1>5, SeqFacts

-----------------------------------------------------------------------------
\* The turns of a conversation: its messages and turns.
IsMsg(j) ==
  j = [stage |-> j.stage, key |-> j.key, repeats |-> j.repeats, guides |-> j.guides,
       residents |-> j.residents, flushed |-> j.flushed]

IsTurn(j) ==
  j = [msg |-> j.msg, side |-> j.side, thread |-> j.thread, named |-> j.named,
       state |-> j.state, renews |-> j.renews, answer |-> j.answer, context |-> j.context,
       residents |-> j.residents, quit |-> j.quit]

\* A message or a turn with one field changed.
LEMMA SetMsgStage ==
  ASSUME NEW j, IsMsg(j), NEW v, NEW d, d = [j EXCEPT !.stage = v]
  PROVE  /\ IsMsg(d) /\ d.stage = v
         /\ d.key = j.key /\ d.repeats = j.repeats /\ d.guides = j.guides /\ d.residents = j.residents
         /\ d.flushed = j.flushed
  BY DEF IsMsg

LEMMA SetMsgResidents ==
  ASSUME NEW j, IsMsg(j), NEW v, NEW d, d = [j EXCEPT !.residents = v]
  PROVE  /\ IsMsg(d) /\ d.residents = v
         /\ d.stage = j.stage /\ d.key = j.key /\ d.repeats = j.repeats /\ d.guides = j.guides
         /\ d.flushed = j.flushed
  BY DEF IsMsg

LEMMA SetTurnState ==
  ASSUME NEW j, IsTurn(j), NEW v, NEW d, d = [j EXCEPT !.state = v]
  PROVE  /\ IsTurn(d) /\ d.state = v
         /\ d.msg = j.msg /\ d.side = j.side /\ d.thread = j.thread /\ d.named = j.named
         /\ d.renews = j.renews /\ d.answer = j.answer /\ d.context = j.context /\ d.residents = j.residents
         /\ d.quit = j.quit
  BY DEF IsTurn

LEMMA SetTurnRenews ==
  ASSUME NEW j, IsTurn(j), NEW v, NEW d, d = [j EXCEPT !.renews = v]
  PROVE  /\ IsTurn(d) /\ d.renews = v
         /\ d.msg = j.msg /\ d.side = j.side /\ d.thread = j.thread /\ d.named = j.named
         /\ d.state = j.state /\ d.answer = j.answer /\ d.context = j.context /\ d.residents = j.residents
         /\ d.quit = j.quit
  BY DEF IsTurn

LEMMA SetTurnAnswer ==
  ASSUME NEW j, IsTurn(j), NEW v, NEW d, d = [j EXCEPT !.answer = v]
  PROVE  /\ IsTurn(d) /\ d.answer = v
         /\ d.msg = j.msg /\ d.side = j.side /\ d.thread = j.thread /\ d.named = j.named
         /\ d.state = j.state /\ d.renews = j.renews /\ d.context = j.context /\ d.residents = j.residents
         /\ d.quit = j.quit
  BY DEF IsTurn

LEMMA SetTurnContext ==
  ASSUME NEW j, IsTurn(j), NEW v, NEW d, d = [j EXCEPT !.context = v]
  PROVE  /\ IsTurn(d) /\ d.context = v
         /\ d.msg = j.msg /\ d.side = j.side /\ d.thread = j.thread /\ d.named = j.named
         /\ d.state = j.state /\ d.renews = j.renews /\ d.answer = j.answer /\ d.residents = j.residents
         /\ d.quit = j.quit
  BY DEF IsTurn

LEMMA SetTurnQuit ==
  ASSUME NEW j, IsTurn(j), NEW v, NEW d, d = [j EXCEPT !.quit = v]
  PROVE  /\ IsTurn(d) /\ d.quit = v
         /\ d.msg = j.msg /\ d.side = j.side /\ d.thread = j.thread /\ d.named = j.named
         /\ d.state = j.state /\ d.renews = j.renews /\ d.answer = j.answer /\ d.context = j.context
         /\ d.residents = j.residents
  BY DEF IsTurn

-----------------------------------------------------------------------------
\* The turns of a conversation: what holds of them.

\* A turn's context is its own, or it shares it with another turn without an id.
Twins(c, k) ==
  \/ c = k
  \/ /\ c \in DOMAIN turns /\ turns[c].thread = turns[k].thread
     /\ ~turns[c].named /\ ~turns[k].named

ShapesFit ==
  /\ msgs = [m \in Turns!Messages |-> msgs[m]]
  /\ \A m \in Turns!Messages : IsMsg(msgs[m])
  /\ thread = [s \in {"user", "system"} |-> thread[s]]
  /\ \A s \in {"user", "system"} : thread[s] \in Turns!Threads \union {0}
  /\ notes = [m \in Turns!Messages |-> notes[m]]
  /\ byThread = [t \in Turns!Threads |-> byThread[t]]
  /\ IsSeq(turns) /\ IsSeq(byRun) /\ Len(byRun) = Len(turns)
  /\ \A k \in DOMAIN turns :
       /\ IsTurn(turns[k])
       /\ turns[k].msg \in Turns!Messages /\ turns[k].thread \in Turns!Threads
       /\ runtime = "claudecode" => turns[k].named

\* A message that is not sent has none but superseded turns, and at most one other.
SentOnce ==
  /\ \A k \in DOMAIN turns :
       turns[k].state # "superseded" => msgs[turns[k].msg].stage = "sent"
  /\ \A j, k \in DOMAIN turns :
       j # k /\ turns[j].msg = turns[k].msg
         => turns[j].state = "superseded" \/ turns[k].state = "superseded"

\* The context of a thread is that of a turn of it without an id; what a turn took at
\* its end was its own, or such a one's.
ContextsFit ==
  /\ \A t \in Turns!Threads :
       byThread[t] # 0 => /\ byThread[t] \in DOMAIN turns
                          /\ ~turns[byThread[t]].named /\ turns[byThread[t]].thread = t
  /\ \A k \in DOMAIN turns :
       turns[k].context # 0 => turns[k].context \in DOMAIN turns /\ Twins(turns[k].context, k)

\* What is written is that of a turn that has ended.
WrittenFit ==
  /\ \A r \in records :
       /\ r = [of |-> r.of, ended |-> r.ended]
       /\ r.ended \in DOMAIN turns /\ turns[r.ended].state = "ended" /\ Twins(r.of, r.ended)
  /\ \A m \in Turns!Messages :
       notes[m] # 0 => /\ notes[m] \in DOMAIN turns
                       /\ \E c \in DOMAIN turns : Twins(c, notes[m]) /\ turns[c].msg = m

TurnInv ==
  /\ ShapesFit /\ SentOnce /\ ContextsFit /\ WrittenFit
  /\ Turns!ContextsKept /\ Turns!ResidentsKnown

\* The invariant says what is to be shown.
LEMMA TurnsRemember ==
  ASSUME TurnInv
  PROVE  TurnsRemembered
<1>1. Turns!RecordsPaired
  <2>0. \A c, k : k \in DOMAIN turns /\ Twins(c, k) /\ Turns!Known(k) => c = k
    BY DEF Twins, Turns!Known
  <2>1. ASSUME NEW r \in records, Turns!Known(r.ended)
        PROVE  r.of = r.ended /\ r = [of |-> r.ended, ended |-> r.ended]
               /\ r.ended \in DOMAIN turns /\ turns[r.ended].state = "ended"
    <3>1. /\ r = [of |-> r.of, ended |-> r.ended] /\ r.ended \in DOMAIN turns
          /\ turns[r.ended].state = "ended" /\ Twins(r.of, r.ended)
      BY DEF TurnInv, WrittenFit
    <3>2. r.of = r.ended
      BY <2>0, <2>1, <3>1
    <3> QED
      BY <3>1, <3>2
  <2>2. ASSUME NEW q \in records, NEW r \in records, Turns!Known(q.ended), Turns!Known(r.ended),
               turns[q.of].msg = turns[r.of].msg
        PROVE  q = r
    <3>1. q.ended = r.ended
      BY <2>1, <2>2 DEF TurnInv, SentOnce
    <3> QED
      BY <2>1, <2>2, <3>1
  <2>3. ASSUME NEW m \in Turns!Messages, notes[m] # Turns!NoTurn, Turns!Known(notes[m])
        PROVE  turns[notes[m]].msg = m
    BY <2>0, <2>3 DEF TurnInv, WrittenFit, Turns!NoTurn
  <2> QED
    BY <2>1, <2>2, <2>3 DEF Turns!RecordsPaired
<1> QED
  BY <1>1 DEF TurnInv, TurnsRemembered

\* A message moves on that is not sent.
LEMMA MsgMoves ==
  ASSUME TurnInv, NEW m \in Turns!Messages, msgs[m].stage # "sent", NEW d, IsMsg(d),
         msgs' = [msgs EXCEPT ![m] = d],
         UNCHANGED <<runtime, thread, turns, byRun, byThread, records, notes>>,
         Turns!ResidentsKnown'
  PROVE  TurnInv'
<1>1. /\ msgs' = [l \in Turns!Messages |-> msgs'[l]] /\ msgs'[m] = d
      /\ \A l \in Turns!Messages \ {m} : msgs'[l] = msgs[l]
  BY DEF TurnInv, ShapesFit
<1>2. ShapesFit'
  BY <1>1 DEF TurnInv, ShapesFit, Turns!Messages, Turns!Threads
<1>3. SentOnce'
  <2>1. \A k \in DOMAIN turns : turns[k].msg = m => turns[k].state = "superseded"
    BY DEF TurnInv, SentOnce
  <2> QED
    BY <1>1, <2>1 DEF TurnInv, SentOnce, ShapesFit
<1>4. ContextsFit' /\ WrittenFit'
  BY DEF TurnInv, ContextsFit, WrittenFit, Twins, Turns!Threads, Turns!Messages
<1>5. Turns!ContextsKept'
  BY DEF TurnInv, Turns!ContextsKept, Turns!Known, Turns!Consumed, Turns!NoTurn
<1> QED
  BY <1>2, <1>3, <1>4, <1>5 DEF TurnInv

\* What a turn is once and for all.
SameTurn(d, o) ==
  /\ d.msg = o.msg /\ d.side = o.side /\ d.thread = o.thread /\ d.named = o.named
  /\ d.residents = o.residents
  /\ o.quit => d.quit

LEMMA TurnMoves ==
  ASSUME ShapesFit, NEW k \in DOMAIN turns, NEW d, IsTurn(d), SameTurn(d, turns[k]),
         turns' = [turns EXCEPT ![k] = d], runtime' = runtime
  PROVE  /\ IsSeq(turns') /\ Len(turns') = Len(turns) /\ DOMAIN turns' = DOMAIN turns
         /\ turns'[k] = d /\ \A l \in DOMAIN turns \ {k} : turns'[l] = turns[l]
         /\ \A l \in DOMAIN turns :
              /\ IsTurn(turns'[l]) /\ SameTurn(turns'[l], turns[l])
              /\ turns'[l].msg \in Turns!Messages /\ turns'[l].thread \in Turns!Threads
              /\ runtime' = "claudecode" => turns'[l].named
              /\ Turns!Known(l)' => Turns!Known(l)
         /\ \A c, l : l \in DOMAIN turns => (Twins(c, l)' <=> Twins(c, l))
<1>1. /\ IsSeq(turns') /\ Len(turns') = Len(turns) /\ DOMAIN turns' = DOMAIN turns
      /\ turns'[k] = d /\ \A l \in DOMAIN turns \ {k} : turns'[l] = turns[l]
  BY ExceptFacts DEF ShapesFit
<1>2. ASSUME NEW l \in DOMAIN turns
      PROVE  IsTurn(turns'[l]) /\ SameTurn(turns'[l], turns[l])
  <2>1. CASE l = k
    BY <1>1, <2>1
  <2>2. CASE l # k
    BY <1>1, <2>2 DEF ShapesFit, SameTurn
  <2> QED
    BY <2>1, <2>2
<1>3. ASSUME NEW l \in DOMAIN turns
      PROVE  /\ turns'[l].msg \in Turns!Messages /\ turns'[l].thread \in Turns!Threads
             /\ runtime' = "claudecode" => turns'[l].named
  BY <1>2 DEF ShapesFit, SameTurn
<1>4. ASSUME NEW l \in DOMAIN turns, Turns!Known(l)'
      PROVE  Turns!Known(l)
  BY <1>1, <1>2, <1>4 DEF SameTurn, Turns!Known
<1>5. ASSUME NEW c, NEW l \in DOMAIN turns
      PROVE  Twins(c, l)' <=> Twins(c, l)
  BY <1>1, <1>2 DEF SameTurn, Twins
<1> QED
  BY <1>1, <1>2, <1>3, <1>4, <1>5

-----------------------------------------------------------------------------
\* The turns of a conversation: before the turn.

\* What was on its way with a message is lost, or was not there.
LEMMA ResidentsLost ==
  ASSUME TurnInv, NEW m \in Turns!Messages, NEW d, msgs' = [msgs EXCEPT ![m] = d],
         UNCHANGED <<turns, marked>>, lost \subseteq lost',
         msgs[m].stage = "ready" /\ msgs[m].residents /\ msgs[m].key # 0 => msgs[m].key \in lost'
  PROVE  Turns!ResidentsKnown'
<1>1. \A l \in Turns!Messages \ {m} : msgs'[l] = msgs[l]
  BY DEF TurnInv, ShapesFit
<1>2. ASSUME NEW t \in marked \ {Turns!Opening}
      PROVE  \/ t \in lost'
             \/ \E k \in DOMAIN turns : turns[k].thread = t /\ turns[k].residents
             \/ \E l \in Turns!Messages : /\ msgs'[l].stage = "ready" /\ msgs'[l].residents
                                          /\ msgs'[l].key = t
  <2>1. t # 0
    BY <1>2 DEF Turns!Opening, Turns!NoThread
  <2>2. CASE \E l \in Turns!Messages : msgs[l].stage = "ready" /\ msgs[l].residents /\ msgs[l].key = t
    BY <1>1, <2>1, <2>2
  <2> QED
    BY <2>2 DEF TurnInv, Turns!ResidentsKnown
<1> QED
  BY <1>2 DEF Turns!ResidentsKnown, Turns!Opening, Turns!NoThread, Turns!Messages

LEMMA FreshMsg ==
  /\ IsMsg(Turns!Fresh) /\ Turns!Fresh.stage = "new"
  BY DEF IsMsg, Turns!Fresh

LEMMA BufferedMsg ==
  IsMsg([Turns!Fresh EXCEPT !.stage = "buffered"])
<1>1. PICK f, w : f = Turns!Fresh /\ w = "buffered"
  OBVIOUS
<1>2. IsMsg([f EXCEPT !.stage = w])
  BY <1>1, FreshMsg, SetMsgStage
<1> QED
  BY <1>1, <1>2

LEMMA CaptureRemembers ==
  ASSUME TurnInv, NEW m \in Turns!Messages, Turns!Capture(m)
  PROVE  TurnInv'
<1>1. PICK d : d = [stage |-> "capturing", key |-> Turns!Key, repeats |-> Turns!Key \in marked,
                    guides |-> Turns!Guides(m), residents |-> FALSE,
                    flushed |-> msgs[m].stage = "buffered"]
  OBVIOUS
<1>2. IsMsg(d)
  BY <1>1 DEF IsMsg
<1>3. /\ msgs' = [msgs EXCEPT ![m] = d] /\ msgs[m].stage \in {"new", "buffered"}
      /\ UNCHANGED <<runtime, thread, turns, byRun, byThread, records, notes, marked, lost>>
  BY <1>1 DEF Turns!Capture, TurnInv, ShapesFit
<1>4. Turns!ResidentsKnown'
  BY <1>3, ResidentsLost
<1> QED
  BY <1>2, <1>3, <1>4, MsgMoves

LEMMA CapturedRemembers ==
  ASSUME TurnInv, NEW m \in Turns!Messages, NEW b \in BOOLEAN, Turns!Captured(m, b)
  PROVE  TurnInv'
<1>1. PICK got : got = msgs[m] /\ IsMsg(got) /\ got.stage = "capturing"
  BY DEF TurnInv, ShapesFit, Turns!Captured
<1>2. PICK w, v : w = "ready" /\ v = (b /\ ~got.repeats)
  OBVIOUS
<1>3. PICK c : c = [got EXCEPT !.stage = w]
  OBVIOUS
<1>4. PICK d : d = [c EXCEPT !.residents = v]
  OBVIOUS
<1>5. IsMsg(c) /\ c.stage = w /\ c.key = got.key
  BY <1>1, <1>3, SetMsgStage
<1>6. IsMsg(d) /\ d.stage = "ready" /\ d.key = got.key /\ d.residents = v
  BY <1>2, <1>4, <1>5, SetMsgResidents
<1>7. msgs' = [msgs EXCEPT ![m] = d]
  <2>1. msgs' = [msgs EXCEPT ![m].stage = w, ![m].residents = v]
    BY <1>1, <1>2 DEF Turns!Captured
  <2>2. [msgs EXCEPT ![m].stage = w, ![m].residents = v] = [msgs EXCEPT ![m] = d]
    BY <1>1, <1>3, <1>4 DEF TurnInv, ShapesFit
  <2> QED
    BY <2>1, <2>2
<1>8. /\ UNCHANGED <<runtime, thread, turns, byRun, byThread, records, notes, lost>>
      /\ marked' = IF b /\ ~got.repeats THEN marked \union {got.key} ELSE marked
  BY <1>1 DEF Turns!Captured
<1>9. Turns!ResidentsKnown'
  <2>1. msgs'[m] = d /\ \A l \in Turns!Messages \ {m} : msgs'[l] = msgs[l]
    BY <1>7 DEF TurnInv, ShapesFit
  <2>2. ASSUME NEW t \in marked' \ {0}
        PROVE  \/ t \in lost
               \/ \E k \in DOMAIN turns : turns[k].thread = t /\ turns[k].residents
               \/ \E l \in Turns!Messages : /\ msgs'[l].stage = "ready" /\ msgs'[l].residents
                                            /\ msgs'[l].key = t
    <3>1. CASE t \in marked
      <4>1. CASE \E l \in Turns!Messages : msgs[l].stage = "ready" /\ msgs[l].residents /\ msgs[l].key = t
        BY <1>1, <2>1, <4>1
      <4> QED
        BY <2>2, <3>1, <4>1 DEF TurnInv, Turns!ResidentsKnown, Turns!Opening, Turns!NoThread
    <3>2. CASE t \notin marked
      <4>1. v /\ t = got.key
        BY <1>2, <1>8, <2>2, <3>2
      <4> QED
        BY <1>6, <2>1, <4>1
    <3> QED
      BY <3>1, <3>2
  <2> QED
    BY <1>8, <2>2 DEF Turns!ResidentsKnown, Turns!Opening, Turns!NoThread, Turns!Messages
<1> QED
  BY <1>1, <1>6, <1>7, <1>8, <1>9, MsgMoves

LEMMA CaptureFailsRemembers ==
  ASSUME TurnInv, NEW m \in Turns!Messages, Turns!CaptureFails(m)
  PROVE  TurnInv'
<1>1. PICK got : got = msgs[m] /\ IsMsg(got) /\ got.stage = "capturing"
  BY DEF TurnInv, ShapesFit, Turns!CaptureFails
<1>2. PICK w : w = "ready"
  OBVIOUS
<1>3. PICK d : d = [got EXCEPT !.stage = w]
  OBVIOUS
<1>4. IsMsg(d)
  BY <1>1, <1>3, SetMsgStage
<1>5. /\ msgs' = [msgs EXCEPT ![m] = d]
      /\ UNCHANGED <<runtime, thread, turns, byRun, byThread, records, notes, marked, lost>>
  BY <1>1, <1>2, <1>3 DEF Turns!CaptureFails, TurnInv, ShapesFit
<1>6. Turns!ResidentsKnown'
  BY <1>1, <1>5, ResidentsLost
<1> QED
  BY <1>1, <1>4, <1>5, <1>6, MsgMoves

LEMMA LostFacts ==
  ASSUME NEW m, NEW t
  PROVE  /\ lost \subseteq Turns!LostBut(m, t)
         /\ msgs[m].residents /\ msgs[m].key # t => msgs[m].key \in Turns!LostBut(m, t)
  BY DEF Turns!LostBut

LEMMA PutBackRemembers ==
  ASSUME TurnInv, NEW m \in Turns!Messages, Turns!Wait(m) \/ Turns!Refused(m)
  PROVE  TurnInv'
<1>1. PICK d : /\ IsMsg(d) /\ msgs' = [msgs EXCEPT ![m] = d]
  <2>1. CASE Turns!Wait(m)
    BY <2>1, BufferedMsg DEF Turns!Wait
  <2>2. CASE Turns!Refused(m)
    BY <2>2, BufferedMsg, FreshMsg DEF Turns!Refused
  <2> QED
    BY <2>1, <2>2
<1>2. /\ msgs[m].stage = "ready" /\ lost' = Turns!LostBut(m, 0)
      /\ UNCHANGED <<runtime, thread, turns, byRun, byThread, records, notes, marked>>
  BY DEF Turns!Wait, Turns!Refused, Turns!NoTurn
<1>3. Turns!ResidentsKnown'
  BY <1>1, <1>2, LostFacts, ResidentsLost
<1> QED
  BY <1>1, <1>2, <1>3, MsgMoves

\* A refresh or a new thread is asked for.
LEMMA AskedRemembers ==
  ASSUME TurnInv, Turns!AskRefresh \/ Turns!NewThread
  PROVE  TurnInv'
<1>1. UNCHANGED <<runtime, msgs, turns, byRun, byThread, records, notes, marked, lost>>
  BY DEF Turns!AskRefresh, Turns!NewThread
<1>2. /\ thread' = [s \in {"user", "system"} |-> thread'[s]]
      /\ \A s \in {"user", "system"} : thread'[s] \in Turns!Threads \union {0}
  BY DEF Turns!AskRefresh, Turns!NewThread, Turns!NoThread, TurnInv, ShapesFit
<1>3. ShapesFit'
  BY <1>1, <1>2 DEF TurnInv, ShapesFit, Turns!Threads, Turns!Messages
<1>4. SentOnce' /\ ContextsFit' /\ WrittenFit'
  BY <1>1 DEF TurnInv, SentOnce, ContextsFit, WrittenFit, Twins, Turns!Threads, Turns!Messages
<1>5. Turns!ContextsKept'
  BY <1>1 DEF TurnInv, Turns!ContextsKept, Turns!Known, Turns!Consumed, Turns!NoTurn
<1>6. Turns!ResidentsKnown'
  BY <1>1 DEF TurnInv, Turns!ResidentsKnown, Turns!Opening, Turns!NoThread, Turns!Messages
<1> QED
  BY <1>3, <1>4, <1>5, <1>6 DEF TurnInv

-----------------------------------------------------------------------------
\* The turns of a conversation: a turn is accepted.

LEMMA DispatchRemembers ==
  ASSUME TurnInv, NEW m \in Turns!Messages, NEW b \in BOOLEAN, Turns!Dispatch(m, b)
  PROVE  TurnInv'
<1>1. PICK side : side = Turns!Side(m) /\ side \in {"user", "system"}
  BY DEF Turns!Side
<1>2. PICK k : k = Len(turns) + 1 /\ k \in Nat \ {0} /\ k \in Turns!Threads
  <2>1. Len(turns) \in Nat
    BY SeqFacts DEF TurnInv, ShapesFit
  <2>2. Len(turns) + 1 <= MaxTurns /\ MaxTurns \in Nat
    BY BoundsAssumption DEF Turns!Dispatch
  <2> QED
    BY <2>1, <2>2 DEF Turns!Threads
<1>3. PICK renews : renews = (refresh /\ side = "user")
  OBVIOUS
<1>4. PICK old : old = IF renews THEN Turns!NoThread ELSE thread[side]
  OBVIOUS
<1>5. PICK t : t = IF old = Turns!NoThread THEN k ELSE old
  OBVIOUS
<1>6. t \in Turns!Threads
  BY <1>1, <1>2, <1>4, <1>5 DEF TurnInv, ShapesFit, Turns!NoThread
<1>7. PICK got : got = msgs[m] /\ IsMsg(got) /\ got.stage = "ready"
  BY DEF TurnInv, ShapesFit, Turns!Dispatch
<1>8. PICK w : w = "sent"
  OBVIOUS
<1>9. PICK d : d = [got EXCEPT !.stage = w]
  OBVIOUS
<1>10. IsMsg(d) /\ d.stage = "sent"
  BY <1>7, <1>8, <1>9, SetMsgStage
<1>11. msgs' = [msgs EXCEPT ![m] = d]
  BY <1>7, <1>8, <1>9 DEF Turns!Dispatch, TurnInv, ShapesFit
<1>12. PICK x : x = [msg |-> m, side |-> side, thread |-> t, named |-> b,
                     state |-> "running", renews |-> renews, answer |-> FALSE,
                     context |-> 0, residents |-> msgs[m].residents, quit |-> FALSE]
  OBVIOUS
<1>13. /\ IsTurn(x) /\ x.msg = m /\ x.thread = t /\ x.named = b /\ x.state = "running"
       /\ x.context = 0 /\ x.residents = got.residents /\ x.quit = FALSE
  BY <1>7, <1>12 DEF IsTurn
<1>14. /\ turns' = Append(turns, x) /\ byRun' = Append(byRun, b)
       /\ byThread' = IF b THEN byThread ELSE [byThread EXCEPT ![t] = k]
       /\ thread' = [thread EXCEPT ![side] = t]
       /\ lost' = Turns!LostBut(m, IF side = "user" THEN t ELSE 0)
       /\ UNCHANGED <<runtime, marked, records, notes>>
       /\ b \/ runtime = "codex"
  BY <1>1, <1>2, <1>3, <1>4, <1>5, <1>12 DEF Turns!Dispatch, Turns!Remember, Turns!NoTurn
<1>15. /\ IsSeq(turns') /\ Len(turns') = k /\ DOMAIN turns' = 1..k /\ turns'[k] = x
       /\ DOMAIN turns = 1..(k - 1) /\ \A l \in DOMAIN turns : turns'[l] = turns[l]
  BY <1>2, <1>14, AppendFacts, SeqFacts DEF TurnInv, ShapesFit
<1>16. /\ IsSeq(byRun') /\ Len(byRun') = k /\ byRun'[k] = b
       /\ \A l \in DOMAIN turns : byRun'[l] = byRun[l]
  BY <1>2, <1>14, AppendFacts, SeqFacts DEF TurnInv, ShapesFit
<1>17. /\ DOMAIN turns' = DOMAIN turns \union {k} /\ k \notin DOMAIN turns
  BY <1>2, <1>15
<1>18. /\ msgs' = [l \in Turns!Messages |-> msgs'[l]] /\ msgs'[m] = d
       /\ \A l \in Turns!Messages \ {m} : msgs'[l] = msgs[l]
  BY <1>11 DEF TurnInv, ShapesFit
<1>19. /\ byThread' = [u \in Turns!Threads |-> byThread'[u]]
       /\ \A u \in Turns!Threads \ {t} : byThread'[u] = byThread[u]
       /\ byThread'[t] = IF b THEN byThread[t] ELSE k
  BY <1>6, <1>14 DEF TurnInv, ShapesFit
<1>20. ShapesFit'
  <2>1. /\ thread' = [s \in {"user", "system"} |-> thread'[s]]
        /\ \A s \in {"user", "system"} : thread'[s] \in Turns!Threads \union {0}
    BY <1>1, <1>6, <1>14 DEF TurnInv, ShapesFit
  <2>2. \A l \in Turns!Messages : IsMsg(msgs'[l])
    BY <1>10, <1>18 DEF TurnInv, ShapesFit
  <2>3. ASSUME NEW l \in DOMAIN turns'
        PROVE  /\ IsTurn(turns'[l])
               /\ turns'[l].msg \in Turns!Messages /\ turns'[l].thread \in Turns!Threads
               /\ runtime' = "claudecode" => turns'[l].named
    <3>1. CASE l = k
      BY <1>6, <1>13, <1>14, <1>15, <3>1
    <3>2. CASE l # k
      BY <1>14, <1>15, <1>17, <3>2 DEF TurnInv, ShapesFit
    <3> QED
      BY <3>1, <3>2
  <2>4. notes' = [l \in Turns!Messages |-> notes'[l]]
    BY <1>14 DEF TurnInv, ShapesFit
  <2> QED
    BY <1>15, <1>16, <1>18, <1>19, <2>1, <2>2, <2>3, <2>4
    DEF ShapesFit, Turns!Messages, Turns!Threads
<1>21. \A l \in DOMAIN turns : turns[l].msg = m => turns[l].state = "superseded"
  BY <1>7 DEF TurnInv, SentOnce
<1>22. SentOnce'
  <2>1. ASSUME NEW l \in DOMAIN turns', turns'[l].state # "superseded"
        PROVE  msgs'[turns'[l].msg].stage = "sent"
    <3>1. CASE l = k
      BY <1>10, <1>13, <1>15, <1>18, <3>1
    <3>2. CASE l # k
      <4>1. l \in DOMAIN turns /\ turns'[l] = turns[l] /\ turns[l].msg \in Turns!Messages
        BY <1>15, <1>17, <3>2 DEF TurnInv, ShapesFit
      <4>2. msgs[turns[l].msg].stage = "sent"
        BY <2>1, <4>1 DEF TurnInv, SentOnce
      <4> QED
        BY <1>10, <1>18, <4>1, <4>2
    <3> QED
      BY <3>1, <3>2
  <2>2. ASSUME NEW j \in DOMAIN turns', NEW l \in DOMAIN turns', j # l,
               turns'[j].msg = turns'[l].msg
        PROVE  turns'[j].state = "superseded" \/ turns'[l].state = "superseded"
    BY <1>13, <1>15, <1>17, <1>21, <2>2 DEF TurnInv, SentOnce
  <2> QED
    BY <2>1, <2>2 DEF SentOnce
<1>23. \A c, l : l \in DOMAIN turns /\ Twins(c, l) => Twins(c, l)'
  BY <1>15, <1>17 DEF Twins
<1>24. ContextsFit'
  <2>1. ASSUME NEW u \in Turns!Threads, byThread'[u] # 0
        PROVE  /\ byThread'[u] \in DOMAIN turns' /\ ~turns'[byThread'[u]].named
               /\ turns'[byThread'[u]].thread = u
    <3>1. CASE u = t /\ ~b
      BY <1>13, <1>15, <1>17, <1>19, <3>1
    <3>2. CASE ~(u = t /\ ~b)
      <4>1. byThread'[u] = byThread[u]
        BY <1>19, <3>2
      <4>2. /\ byThread[u] \in DOMAIN turns /\ ~turns[byThread[u]].named
            /\ turns[byThread[u]].thread = u
        BY <2>1, <4>1 DEF TurnInv, ContextsFit
      <4> QED
        BY <1>15, <1>17, <4>1, <4>2
    <3> QED
      BY <3>1, <3>2
  <2>2. ASSUME NEW l \in DOMAIN turns', turns'[l].context # 0
        PROVE  turns'[l].context \in DOMAIN turns' /\ Twins(turns[l].context, l)'
    <3>1. l \in DOMAIN turns /\ turns'[l] = turns[l]
      BY <1>13, <1>15, <1>17, <2>2
    <3>2. turns[l].context \in DOMAIN turns /\ Twins(turns[l].context, l)
      BY <2>2, <3>1 DEF TurnInv, ContextsFit
    <3>3. Twins(turns[l].context, l)' <=> \/ turns'[l].context = l
                                          \/ /\ turns'[l].context \in DOMAIN turns'
                                             /\ turns'[turns'[l].context].thread = turns'[l].thread
                                             /\ ~turns'[turns'[l].context].named /\ ~turns'[l].named
      BY DEF Twins
    <3> QED
      BY <1>15, <1>17, <3>1, <3>2, <3>3 DEF Twins
  <2> QED
    BY <2>1, <2>2 DEF ContextsFit, Turns!Threads
<1>25. WrittenFit'
  <2>1. ASSUME NEW r \in records'
        PROVE  /\ r = [of |-> r.of, ended |-> r.ended]
               /\ r.ended \in DOMAIN turns' /\ turns'[r.ended].state = "ended"
               /\ Twins(r.of, r.ended)'
    BY <1>14, <1>15, <1>17, <1>23, <2>1 DEF TurnInv, WrittenFit
  <2>2. ASSUME NEW l \in Turns!Messages, notes'[l] # 0
        PROVE  /\ notes'[l] \in DOMAIN turns'
               /\ \E c \in DOMAIN turns' : Twins(c, notes[l])' /\ turns'[c].msg = l
    <3>1. PICK e : e = notes[l] /\ notes'[l] = e
      BY <1>14
    <3>2. e \in DOMAIN turns
      BY <2>2, <3>1 DEF TurnInv, WrittenFit
    <3>3. PICK c \in DOMAIN turns : Twins(c, e) /\ turns[c].msg = l
      BY <2>2, <3>1 DEF TurnInv, WrittenFit
    <3>4. Twins(c, e)' /\ c \in DOMAIN turns' /\ turns'[c].msg = l
      BY <1>15, <1>17, <1>23, <3>2, <3>3
    <3>5. Twins(c, notes[l])'
      BY <3>1, <3>4 DEF Twins
    <3> QED
      BY <1>17, <3>1, <3>2, <3>4, <3>5
  <2> QED
    BY <2>1, <2>2 DEF WrittenFit, Turns!Messages
<1>26. Turns!ContextsKept'
  <2> SUFFICES ASSUME NEW l \in DOMAIN turns', turns'[l].state = "running", Turns!Known(l)'
               PROVE  Turns!Consumed(l)' = l
    BY DEF Turns!ContextsKept
  <2>1. CASE l = k
    BY <1>13, <1>15, <1>16, <1>19, <2>1 DEF Turns!Consumed
  <2>2. CASE l # k
    <3>1. l \in DOMAIN turns /\ turns'[l] = turns[l] /\ byRun'[l] = byRun[l]
      BY <1>15, <1>16, <1>17, <2>2
    <3>2. Turns!Known(l) /\ (~turns[l].named /\ turns[l].thread = t => b)
      BY <1>13, <1>15, <1>17, <2>2, <3>1 DEF Turns!Known
    <3>3. Turns!Consumed(l) = l
      BY <3>1, <3>2 DEF TurnInv, Turns!ContextsKept
    <3>4. turns[l].thread \in Turns!Threads
      BY <3>1 DEF TurnInv, ShapesFit
    <3>5. ~turns[l].named => byThread'[turns[l].thread] = byThread[turns[l].thread]
      BY <1>19, <3>2, <3>4
    <3> QED
      BY <3>1, <3>3, <3>5 DEF Turns!Consumed, Turns!NoTurn
  <2> QED
    BY <2>1, <2>2
<1>27. Turns!ResidentsKnown'
  <2>1. ASSUME NEW u \in marked \ {0}
        PROVE  \/ u \in lost'
               \/ \E l \in DOMAIN turns' : turns'[l].thread = u /\ turns'[l].residents
               \/ \E l \in Turns!Messages : /\ msgs'[l].stage = "ready" /\ msgs'[l].residents
                                            /\ msgs'[l].key = u
    <3>1. CASE u \in lost
      BY <1>14, <3>1, LostFacts
    <3>2. CASE \E l \in DOMAIN turns : turns[l].thread = u /\ turns[l].residents
      BY <1>15, <1>17, <3>2
    <3>3. CASE got.residents /\ got.key = u
      <4>1. CASE u = IF side = "user" THEN t ELSE 0
        <5>1. turns'[k].thread = u /\ turns'[k].residents
          BY <1>13, <1>15, <2>1, <3>3, <4>1
        <5> QED
          BY <1>17, <5>1
      <4>2. CASE ~(u = IF side = "user" THEN t ELSE 0)
        BY <1>7, <1>14, <3>3, <4>2, LostFacts
      <4> QED
        BY <4>1, <4>2
    <3>4. CASE \E l \in Turns!Messages \ {m} : /\ msgs[l].stage = "ready" /\ msgs[l].residents
                                               /\ msgs[l].key = u
      BY <1>18, <3>4
    <3> QED
      BY <1>7, <2>1, <3>1, <3>2, <3>3, <3>4
      DEF TurnInv, Turns!ResidentsKnown, Turns!Opening, Turns!NoThread
  <2> QED
    BY <1>14, <2>1 DEF Turns!ResidentsKnown, Turns!Opening, Turns!NoThread, Turns!Messages
<1> QED
  BY <1>20, <1>22, <1>24, <1>25, <1>26, <1>27 DEF TurnInv

-----------------------------------------------------------------------------
\* The turns of a conversation: a turn goes on and ends.

\* Nothing is taken from what is known of the residents.
LEMMA ResidentsStay ==
  ASSUME TurnInv, DOMAIN turns' = DOMAIN turns,
         \A l \in DOMAIN turns : SameTurn(turns'[l], turns[l]),
         \A l \in Turns!Messages : msgs[l].stage = "ready" => msgs'[l] = msgs[l],
         UNCHANGED <<marked, lost>>
  PROVE  Turns!ResidentsKnown'
BY DEF TurnInv, Turns!ResidentsKnown, SameTurn, Turns!Opening, Turns!NoThread, Turns!Messages

\* A turn gets another state; what its thread and its run hold may go.
LEMMA StateMoves ==
  ASSUME TurnInv, NEW k \in DOMAIN turns, turns[k].state \in {"running", "superseded", "left"},
         NEW d, IsTurn(d), SameTurn(d, turns[k]),
         d.state \in {"superseded", "left", "ending"},
         turns[k].state = "superseded" => d.state = "superseded",
         d.context # 0 => d.context \in DOMAIN turns /\ Twins(d.context, k),
         turns' = [turns EXCEPT ![k] = d],
         thread' = [s \in {"user", "system"} |-> thread'[s]],
         \A s \in {"user", "system"} : thread'[s] \in {thread[s], 0},
         \/ byRun' = byRun
         \/ byRun' = [byRun EXCEPT ![k] = FALSE],
         \/ byThread' = byThread
         \/ /\ byThread' = [byThread EXCEPT ![turns[k].thread] = 0]
            /\ d.quit \/ ~turns[k].named \/ runtime = "claudecode",
         \/ msgs' = msgs
         \/ /\ turns[k].state = "running" /\ d.state = "superseded"
            /\ \E e : IsMsg(e) /\ msgs' = [msgs EXCEPT ![turns[k].msg] = e],
         UNCHANGED <<runtime, marked, records, notes, lost>>
  PROVE  TurnInv'
<1>1. /\ IsSeq(turns') /\ Len(turns') = Len(turns) /\ DOMAIN turns' = DOMAIN turns
      /\ turns'[k] = d /\ \A l \in DOMAIN turns \ {k} : turns'[l] = turns[l]
      /\ \A l \in DOMAIN turns :
           /\ IsTurn(turns'[l]) /\ SameTurn(turns'[l], turns[l])
           /\ turns'[l].msg \in Turns!Messages /\ turns'[l].thread \in Turns!Threads
           /\ runtime' = "claudecode" => turns'[l].named
           /\ Turns!Known(l)' => Turns!Known(l)
      /\ \A c, l : l \in DOMAIN turns => (Twins(c, l)' <=> Twins(c, l))
  BY TurnMoves DEF TurnInv
<1>2. /\ IsSeq(byRun') /\ Len(byRun') = Len(turns)
      /\ \A l \in DOMAIN turns \ {k} : byRun'[l] = byRun[l]
  <2>1. IsSeq(byRun) /\ Len(byRun) = Len(turns) /\ DOMAIN byRun = DOMAIN turns
    BY SeqFacts DEF TurnInv, ShapesFit
  <2>2. CASE byRun' = byRun
    BY <2>1, <2>2
  <2>3. CASE byRun' = [byRun EXCEPT ![k] = FALSE]
    <3>1. PICK b, x : b = byRun /\ x = FALSE /\ IsSeq(b) /\ k \in DOMAIN b /\ Len(b) = Len(turns)
                      /\ DOMAIN b = DOMAIN turns
      BY <2>1, SeqFacts DEF TurnInv, ShapesFit
    <3>2. /\ IsSeq([b EXCEPT ![k] = x]) /\ Len([b EXCEPT ![k] = x]) = Len(b)
          /\ \A l \in DOMAIN b \ {k} : [b EXCEPT ![k] = x][l] = b[l]
      BY <3>1, ExceptFacts
    <3>3. byRun' = [b EXCEPT ![k] = x]
      BY <2>3, <3>1
    <3> QED
      BY <3>1, <3>2, <3>3
  <2> QED
    BY <2>2, <2>3
<1>3. /\ byThread' = [t \in Turns!Threads |-> byThread'[t]]
      /\ \A t \in Turns!Threads : byThread'[t] \in {byThread[t], 0}
      /\ \A t \in Turns!Threads \ {turns[k].thread} : byThread'[t] = byThread[t]
  BY DEF TurnInv, ShapesFit
<1>m. /\ msgs' = [l \in Turns!Messages |-> msgs'[l]]
      /\ \A l \in Turns!Messages : IsMsg(msgs'[l])
      /\ \A l \in Turns!Messages : msgs'[l] # msgs[l] =>
           l = turns[k].msg /\ turns[k].state = "running" /\ d.state = "superseded"
  BY DEF TurnInv, ShapesFit
<1>n. \A l \in Turns!Messages : msgs[l].stage = "ready" => msgs'[l] = msgs[l]
  BY <1>m DEF TurnInv, SentOnce
<1>4. ShapesFit'
  BY <1>1, <1>2, <1>3, <1>m DEF TurnInv, ShapesFit, Turns!Messages, Turns!Threads
<1>5. SentOnce'
  <2>1. \A l \in DOMAIN turns : turns[l].state = "superseded" => turns'[l].state = "superseded"
    BY <1>1
  <2>2. \A l \in DOMAIN turns : turns'[l].msg = turns[l].msg
    BY <1>1 DEF SameTurn
  <2>3. ASSUME NEW l \in DOMAIN turns, turns'[l].state # "superseded"
        PROVE  msgs'[turns'[l].msg].stage = "sent"
    <3>1. turns[l].state # "superseded" /\ msgs[turns[l].msg].stage = "sent"
      BY <2>1, <2>3 DEF TurnInv, SentOnce
    <3>2. msgs'[turns[l].msg] = msgs[turns[l].msg]
      <4>1. turns[l].msg = turns[k].msg /\ turns[k].state = "running" => l = k
        BY <3>1 DEF TurnInv, SentOnce
      <4> QED
        BY <1>1, <1>m, <2>3, <4>1 DEF TurnInv, ShapesFit
    <3> QED
      BY <2>2, <3>1, <3>2
  <2> QED
    BY <1>1, <2>1, <2>2, <2>3 DEF TurnInv, SentOnce
<1>6. ContextsFit'
  <2>1. ASSUME NEW t \in Turns!Threads, byThread'[t] # 0
        PROVE  /\ byThread'[t] \in DOMAIN turns' /\ ~turns'[byThread'[t]].named
               /\ turns'[byThread'[t]].thread = t
    <3>1. byThread'[t] = byThread[t]
      BY <1>3, <2>1
    <3> QED
      BY <1>1, <2>1, <3>1 DEF TurnInv, ContextsFit, SameTurn
  <2>2. ASSUME NEW l \in DOMAIN turns', turns'[l].context # 0
        PROVE  turns'[l].context \in DOMAIN turns' /\ Twins(turns[l].context, l)'
    <3>1. PICK c : c = turns'[l].context
      OBVIOUS
    <3>2. c \in DOMAIN turns /\ Twins(c, l)
      BY <1>1, <2>2, <3>1 DEF TurnInv, ContextsFit
    <3>3. Twins(c, l)'
      BY <1>1, <2>2, <3>2
    <3> QED
      BY <1>1, <3>1, <3>2, <3>3 DEF Twins
  <2> QED
    BY <2>1, <2>2 DEF ContextsFit, Turns!Threads
<1>7. WrittenFit'
  <2>1. ASSUME NEW r \in records'
        PROVE  /\ r = [of |-> r.of, ended |-> r.ended]
               /\ r.ended \in DOMAIN turns' /\ turns'[r.ended].state = "ended"
               /\ Twins(r.of, r.ended)'
    <3>1. /\ r = [of |-> r.of, ended |-> r.ended]
          /\ r.ended \in DOMAIN turns /\ turns[r.ended].state = "ended"
          /\ Twins(r.of, r.ended)
      BY <2>1 DEF TurnInv, WrittenFit
    <3>2. turns'[r.ended] = turns[r.ended]
      BY <1>1, <3>1
    <3> QED
      BY <1>1, <3>1, <3>2
  <2>2. ASSUME NEW l \in Turns!Messages, notes'[l] # 0
        PROVE  /\ notes'[l] \in DOMAIN turns'
               /\ \E c \in DOMAIN turns' : Twins(c, notes[l])' /\ turns'[c].msg = l
    <3>1. PICK e : e = notes[l] /\ notes'[l] = e
      OBVIOUS
    <3>2. e \in DOMAIN turns
      BY <2>2, <3>1 DEF TurnInv, WrittenFit
    <3>3. PICK c \in DOMAIN turns : Twins(c, e) /\ turns[c].msg = l
      BY <2>2, <3>1 DEF TurnInv, WrittenFit
    <3>4. Twins(c, e)' /\ turns'[c].msg = l
      BY <1>1, <3>2, <3>3 DEF SameTurn
    <3>5. Twins(c, notes[l])'
      BY <3>1, <3>4 DEF Twins
    <3> QED
      BY <1>1, <3>1, <3>2, <3>4, <3>5
  <2> QED
    BY <2>1, <2>2 DEF WrittenFit, Turns!Messages
<1>8. Turns!ContextsKept'
  <2> SUFFICES ASSUME NEW l \in DOMAIN turns', turns'[l].state = "running", Turns!Known(l)'
               PROVE  Turns!Consumed(l)' = l
    BY DEF Turns!ContextsKept
  <2>1. l # k /\ l \in DOMAIN turns /\ turns'[l] = turns[l] /\ byRun'[l] = byRun[l]
    BY <1>1, <1>2
  <2>2. Turns!Consumed(l) = l
    BY <1>1, <2>1 DEF TurnInv, Turns!ContextsKept
  <2>3. CASE turns[l].named
    BY <2>1, <2>2, <2>3 DEF Turns!Consumed, Turns!NoTurn
  <2>4. CASE ~turns[l].named
    <3>1. runtime # "claudecode" /\ turns[l].thread \in Turns!Threads
      BY <2>1, <2>4 DEF TurnInv, ShapesFit
    <3>2. turns[k].thread = turns[l].thread => turns[k].named /\ ~d.quit
      BY <1>1, <2>1, <2>4 DEF Turns!Known, SameTurn
    <3>3. byThread'[turns[l].thread] = byThread[turns[l].thread]
      BY <1>3, <3>1, <3>2
    <3> QED
      BY <2>1, <2>2, <2>4, <3>3 DEF Turns!Consumed
  <2> QED
    BY <2>3, <2>4
<1>9. Turns!ResidentsKnown'
  BY <1>1, <1>n, ResidentsStay
<1> QED
  BY <1>4, <1>5, <1>6, <1>7, <1>8, <1>9 DEF TurnInv

LEMMA LeftTurn ==
  ASSUME NEW o, IsTurn(o), NEW w, NEW q, o.quit => q
  PROVE  \E d : /\ d = [o EXCEPT !.state = w, !.quit = q] /\ IsTurn(d) /\ SameTurn(d, o)
                /\ d.state = w /\ d.context = o.context /\ d.quit = q
<1>1. PICK c : c = [o EXCEPT !.state = w]
  OBVIOUS
<1>2. PICK d : d = [c EXCEPT !.quit = q]
  OBVIOUS
<1>3. IsTurn(c) /\ SameTurn(c, o) /\ c.state = w /\ c.context = o.context
  BY <1>1, SetTurnState DEF SameTurn
<1>4. IsTurn(d) /\ SameTurn(d, o) /\ d.state = w /\ d.context = o.context /\ d.quit = q
  BY <1>2, <1>3, SetTurnQuit DEF SameTurn
<1>5. d = [o EXCEPT !.state = w, !.quit = q]
  BY <1>1, <1>2
<1> QED
  BY <1>4, <1>5

LEMMA TurnAt ==
  ASSUME TurnInv, NEW k \in DOMAIN turns
  PROVE  /\ IsTurn(turns[k]) /\ turns = [l \in DOMAIN turns |-> turns[l]]
         /\ turns[k].context # 0 => turns[k].context \in DOMAIN turns /\ Twins(turns[k].context, k)
         /\ thread = [s \in {"user", "system"} |-> thread[s]]
  BY SeqFacts DEF TurnInv, ShapesFit, ContextsFit

LEMMA SupersedeRemembers ==
  ASSUME TurnInv, NEW k \in DOMAIN turns, Turns!Supersede(k)
  PROVE  TurnInv'
<1>1. PICK o, w : o = turns[k] /\ w = "superseded"
  OBVIOUS
<1>2. PICK d : d = [o EXCEPT !.state = w]
  OBVIOUS
<1>3. IsTurn(d) /\ SameTurn(d, o) /\ d.state = w /\ d.context = o.context /\ d.quit = o.quit
  BY <1>1, <1>2, TurnAt, SetTurnState DEF SameTurn
<1>4. turns' = [turns EXCEPT ![k] = d]
  BY <1>1, <1>2, TurnAt DEF Turns!Supersede
<1>5. /\ thread' = [s \in {"user", "system"} |-> thread'[s]]
      /\ \A s \in {"user", "system"} : thread'[s] \in {thread[s], 0}
  BY TurnAt DEF Turns!Supersede, Turns!NoThread
<1>6. \E e : IsMsg(e) /\ msgs' = [msgs EXCEPT ![turns[k].msg] = e]
  BY BufferedMsg DEF Turns!Supersede
<1>7. /\ turns[k].state = "running"
      /\ UNCHANGED <<runtime, byRun, byThread, marked, records, notes, lost>>
  BY DEF Turns!Supersede
<1>8. d.context # 0 => d.context \in DOMAIN turns /\ Twins(d.context, k)
  BY <1>1, <1>3, TurnAt
<1> QED
  BY <1>1, <1>3, <1>4, <1>5, <1>6, <1>7, <1>8, StateMoves

LEMMA GiveUpRemembers ==
  ASSUME TurnInv, NEW k \in DOMAIN turns, Turns!GiveUpQuietly(k)
  PROVE  TurnInv'
<1>1. PICK o, w, q : o = turns[k] /\ w = "left" /\ q = TRUE
  OBVIOUS
<1>0. IsTurn(o) /\ (o.quit => q)
  BY <1>1, TurnAt
<1>2. PICK d : /\ d = [o EXCEPT !.state = w, !.quit = q] /\ IsTurn(d) /\ SameTurn(d, o)
               /\ d.state = w /\ d.context = o.context /\ d.quit = q
  BY <1>0, LeftTurn
<1>3. turns' = [turns EXCEPT ![k] = d]
  <2>1. turns' = [turns EXCEPT ![k].state = w, ![k].quit = q]
    BY <1>1 DEF Turns!GiveUpQuietly
  <2>2. [turns EXCEPT ![k].state = w, ![k].quit = q]
          = [turns EXCEPT ![k] = [o EXCEPT !.state = w, !.quit = q]]
    BY <1>1, TurnAt
  <2> QED
    BY <1>2, <2>1, <2>2
<1>4. /\ thread' = [s \in {"user", "system"} |-> thread'[s]]
      /\ \A s \in {"user", "system"} : thread'[s] \in {thread[s], 0}
  BY TurnAt DEF Turns!GiveUpQuietly, Turns!NoThread
<1>5. /\ turns[k].state = "running" /\ byThread' = [byThread EXCEPT ![turns[k].thread] = 0]
      /\ UNCHANGED <<runtime, msgs, byRun, marked, records, notes, lost>>
  BY DEF Turns!GiveUpQuietly, Turns!NoTurn
<1>6. d.context # 0 => d.context \in DOMAIN turns /\ Twins(d.context, k)
  BY <1>1, <1>2, TurnAt
<1> QED
  BY <1>1, <1>2, <1>3, <1>4, <1>5, <1>6, StateMoves

LEMMA FindStaleRemembers ==
  ASSUME TurnInv, NEW k \in DOMAIN turns, Turns!FindStale(k)
  PROVE  TurnInv'
<1>1. PICK o, w : o = turns[k] /\ w = "left"
  OBVIOUS
<1>2. PICK d : d = [o EXCEPT !.state = w]
  OBVIOUS
<1>3. IsTurn(d) /\ SameTurn(d, o) /\ d.state = w /\ d.context = o.context /\ d.quit = o.quit
  BY <1>1, <1>2, TurnAt, SetTurnState DEF SameTurn
<1>4. turns' = [turns EXCEPT ![k] = d]
  BY <1>1, <1>2, TurnAt DEF Turns!FindStale
<1>5. /\ thread' = [s \in {"user", "system"} |-> thread'[s]]
      /\ \A s \in {"user", "system"} : thread'[s] \in {thread[s], 0}
  BY TurnAt DEF Turns!FindStale
<1>6. /\ turns[k].state = "running" /\ runtime = "claudecode"
      /\ byRun' = [byRun EXCEPT ![k] = FALSE]
      /\ byThread' = [byThread EXCEPT ![turns[k].thread] = 0]
      /\ UNCHANGED <<runtime, msgs, marked, records, notes, lost>>
  BY DEF Turns!FindStale, Turns!NoTurn
<1>7. d.context # 0 => d.context \in DOMAIN turns /\ Twins(d.context, k)
  BY <1>1, <1>3, TurnAt
<1> QED
  BY <1>1, <1>3, <1>4, <1>5, <1>6, <1>7, StateMoves

LEMMA EndRemembers ==
  ASSUME TurnInv, NEW k \in DOMAIN turns, NEW a \in BOOLEAN, NEW b \in BOOLEAN, Turns!End(k, a, b)
  PROVE  TurnInv'
<1>0. /\ turns[k].state \in {"running", "superseded", "left"}
      /\ UNCHANGED <<runtime, msgs, marked, records, notes, lost>>
  BY DEF Turns!End
<1>1. PICK o : o = turns[k] /\ IsTurn(o)
  BY TurnAt
<1>2. PICK gone : gone = \E j \in DOMAIN turns : /\ turns[j].state = "superseded"
                                                 /\ turns[j].thread = turns[k].thread
  OBVIOUS
<1>3. CASE gone
  <2>1. PICK w : w = "superseded"
    OBVIOUS
  <2>2. PICK d : d = [o EXCEPT !.state = w]
    OBVIOUS
  <2>3. IsTurn(d) /\ SameTurn(d, o) /\ d.state = w /\ d.context = o.context /\ d.quit = o.quit
    BY <1>1, <2>2, SetTurnState DEF SameTurn
  <2>4. /\ turns' = [turns EXCEPT ![k].state = "superseded"]
        /\ UNCHANGED <<thread, byRun, byThread>>
    BY <1>2, <1>3 DEF Turns!End
  <2>5. turns' = [turns EXCEPT ![k] = d]
    BY <1>1, <2>1, <2>2, <2>4, TurnAt
  <2>6. d.context # 0 => d.context \in DOMAIN turns /\ Twins(d.context, k)
    BY <1>1, <2>3, TurnAt
  <2>7. /\ thread' = [s \in {"user", "system"} |-> thread'[s]]
        /\ \A s \in {"user", "system"} : thread'[s] \in {thread[s], 0}
    BY <2>4, TurnAt
  <2> QED
    BY <1>0, <1>1, <2>1, <2>3, <2>4, <2>5, <2>6, <2>7, StateMoves
<1>4. CASE ~gone
  <2>1. PICK w, c, v : w = "ending" /\ c = Turns!Consumed(k) /\ v = (a /\ b)
    OBVIOUS
  <2>2. PICK e : e = [o EXCEPT !.state = w]
    OBVIOUS
  <2>3. PICK f : f = [e EXCEPT !.context = c]
    OBVIOUS
  <2>4. PICK d : d = [f EXCEPT !.answer = v]
    OBVIOUS
  <2>5. IsTurn(e) /\ SameTurn(e, o) /\ e.state = w
    BY <1>1, <2>2, SetTurnState DEF SameTurn
  <2>6. IsTurn(f) /\ SameTurn(f, o) /\ f.state = w /\ f.context = c
    BY <2>3, <2>5, SetTurnContext DEF SameTurn
  <2>7. IsTurn(d) /\ SameTurn(d, o) /\ d.state = w /\ d.context = c
    BY <2>4, <2>6, SetTurnAnswer DEF SameTurn
  <2>8. /\ turns' = [turns EXCEPT ![k].state = w, ![k].context = c, ![k].answer = v]
        /\ byRun' = [byRun EXCEPT ![k] = FALSE]
        /\ byThread' = IF turns[k].named THEN byThread
                       ELSE [byThread EXCEPT ![turns[k].thread] = 0]
    BY <1>2, <1>4, <2>1 DEF Turns!End, Turns!NoTurn
  <2>9. turns' = [turns EXCEPT ![k] = d]
    <3>1. [turns EXCEPT ![k].state = w, ![k].context = c, ![k].answer = v] = [turns EXCEPT ![k] = d]
      BY <1>1, <2>2, <2>3, <2>4, TurnAt
    <3> QED
      BY <2>8, <3>1
  <2>10. /\ thread' = [s \in {"user", "system"} |-> thread'[s]]
         /\ \A s \in {"user", "system"} : thread'[s] \in {thread[s], 0}
    BY <1>2, <1>4, TurnAt DEF Turns!End, Turns!NoThread
  <2>11. o.state # "superseded"
    BY <1>1, <1>2, <1>4
  <2>12. d.context # 0 => d.context \in DOMAIN turns /\ Twins(d.context, k)
    <3>1. c = k \/ c = 0 \/ (~turns[k].named /\ c = byThread[turns[k].thread])
      BY <2>1 DEF Turns!Consumed, Turns!NoTurn
    <3> QED
      BY <2>7, <3>1 DEF TurnInv, ShapesFit, ContextsFit, Twins
  <2> QED
    BY <1>0, <1>1, <2>1, <2>7, <2>8, <2>9, <2>10, <2>11, <2>12, StateMoves
<1> QED
  BY <1>3, <1>4

-----------------------------------------------------------------------------
\* The turns of a conversation: what is written, and the theorem.

\* A turn whose context has gone to the memory.
LEMMA EndedTurn ==
  ASSUME NEW o, IsTurn(o), NEW w, NEW x, NEW f
  PROVE  \E d : /\ d = [o EXCEPT !.state = w, !.context = x, !.answer = f, !.renews = f]
                /\ IsTurn(d) /\ SameTurn(d, o) /\ d.state = w /\ d.context = x
<1>1. PICK b : b = [o EXCEPT !.state = w]
  OBVIOUS
<1>2. PICK c : c = [b EXCEPT !.context = x]
  OBVIOUS
<1>3. PICK e : e = [c EXCEPT !.answer = f]
  OBVIOUS
<1>4. PICK d : d = [e EXCEPT !.renews = f]
  OBVIOUS
<1>5. IsTurn(b) /\ SameTurn(b, o) /\ b.state = w
  BY <1>1, SetTurnState DEF SameTurn
<1>6. IsTurn(c) /\ SameTurn(c, o) /\ c.state = w /\ c.context = x
  BY <1>2, <1>5, SetTurnContext DEF SameTurn
<1>7. IsTurn(e) /\ SameTurn(e, o) /\ e.state = w /\ e.context = x
  BY <1>3, <1>6, SetTurnAnswer DEF SameTurn
<1>8. IsTurn(d) /\ SameTurn(d, o) /\ d.state = w /\ d.context = x
  BY <1>4, <1>7, SetTurnRenews DEF SameTurn
<1>9. d = [o EXCEPT !.state = w, !.context = x, !.answer = f, !.renews = f]
  BY <1>1, <1>2, <1>3, <1>4
<1> QED
  BY <1>8, <1>9

LEMMA WrittenRemembers ==
  ASSUME TurnInv, NEW k \in DOMAIN turns, NEW fails \in BOOLEAN, Turns!Written(k, fails)
  PROVE  TurnInv'
<1>a. PICK o, w, x, f, c, m :
        /\ o = turns[k] /\ w = "ended" /\ x = 0 /\ f = FALSE
        /\ c = turns[k].context /\ m = turns[c].msg
  OBVIOUS
<1>b. IsTurn(o) /\ o.state = "ending"
  BY <1>a, TurnAt DEF Turns!Written
<1>c. PICK d : /\ d = [o EXCEPT !.state = w, !.context = x, !.answer = f, !.renews = f]
               /\ IsTurn(d) /\ SameTurn(d, o) /\ d.state = w /\ d.context = x
  BY <1>b, EndedTurn
<1>d. turns' = [turns EXCEPT ![k] = d]
  <2>1. turns' = [turns EXCEPT ![k].state = w, ![k].context = x, ![k].answer = f, ![k].renews = f]
    BY <1>a DEF Turns!Written, Turns!NoTurn
  <2>2. [turns EXCEPT ![k].state = w, ![k].context = x, ![k].answer = f, ![k].renews = f]
          = [turns EXCEPT ![k] = [o EXCEPT !.state = w, !.context = x, !.answer = f, !.renews = f]]
    BY <1>a, TurnAt
  <2> QED
    BY <1>c, <2>1, <2>2
<1>e. /\ UNCHANGED <<runtime, msgs, thread, marked, byRun, byThread, lost>>
      /\ records' \in {records, records \union {[of |-> c, ended |-> k]}}
      /\ records' # records => c # 0
      /\ notes' \in {notes, [notes EXCEPT ![m] = k]}
      /\ notes' # notes => c # 0
  BY <1>a DEF Turns!Written, Turns!NoTurn
<1>f. c # 0 => c \in DOMAIN turns /\ Twins(c, k)
  BY <1>a, TurnAt
<1>1. /\ IsSeq(turns') /\ Len(turns') = Len(turns) /\ DOMAIN turns' = DOMAIN turns
      /\ turns'[k] = d /\ \A l \in DOMAIN turns \ {k} : turns'[l] = turns[l]
      /\ \A l \in DOMAIN turns :
           /\ IsTurn(turns'[l]) /\ SameTurn(turns'[l], turns[l])
           /\ turns'[l].msg \in Turns!Messages /\ turns'[l].thread \in Turns!Threads
           /\ runtime' = "claudecode" => turns'[l].named
           /\ Turns!Known(l)' => Turns!Known(l)
      /\ \A e, l : l \in DOMAIN turns => (Twins(e, l)' <=> Twins(e, l))
  BY <1>a, <1>c, <1>d, <1>e, TurnMoves DEF TurnInv
<1>2. notes' = [l \in Turns!Messages |-> notes'[l]]
      /\ \A l \in Turns!Messages : notes'[l] # notes[l] => l = m /\ notes'[l] = k /\ c # 0
  BY <1>e DEF TurnInv, ShapesFit
<1>3. ShapesFit'
  BY <1>1, <1>2, <1>e DEF TurnInv, ShapesFit, Turns!Messages, Turns!Threads
<1>4. SentOnce'
  <2>1. \A l \in DOMAIN turns :
          /\ turns'[l].msg = turns[l].msg
          /\ turns[l].state = "superseded" <=> turns'[l].state = "superseded"
    <3>1. turns'[k].state = "ended" /\ turns[k].state = "ending" /\ turns'[k].msg = turns[k].msg
      BY <1>1, <1>a, <1>b, <1>c DEF SameTurn
    <3> QED
      BY <1>1, <3>1
  <2> QED
    BY <1>1, <1>e, <2>1 DEF TurnInv, SentOnce
<1>5. ContextsFit'
  <2>1. ASSUME NEW t \in Turns!Threads, byThread'[t] # 0
        PROVE  /\ byThread'[t] \in DOMAIN turns' /\ ~turns'[byThread'[t]].named
               /\ turns'[byThread'[t]].thread = t
    BY <1>1, <1>e, <2>1 DEF TurnInv, ContextsFit, SameTurn
  <2>2. ASSUME NEW l \in DOMAIN turns', turns'[l].context # 0
        PROVE  turns'[l].context \in DOMAIN turns' /\ Twins(turns[l].context, l)'
    <3>1. l # k /\ l \in DOMAIN turns /\ turns'[l] = turns[l]
      BY <1>1, <1>a, <1>c, <2>2
    <3>2. PICK e : e = turns[l].context
      OBVIOUS
    <3>3. e \in DOMAIN turns /\ Twins(e, l)
      BY <2>2, <3>1, <3>2 DEF TurnInv, ContextsFit
    <3>4. Twins(e, l)'
      BY <1>1, <3>1, <3>3
    <3> QED
      BY <1>1, <3>1, <3>2, <3>3, <3>4 DEF Twins
  <2> QED
    BY <2>1, <2>2 DEF ContextsFit, Turns!Threads
<1>6. WrittenFit'
  <2>0. /\ turns'[k].state = "ended"
        /\ c # 0 => c \in DOMAIN turns /\ Twins(c, k)' /\ turns'[c].msg = m
    BY <1>1, <1>a, <1>c, <1>f DEF SameTurn
  <2>1. ASSUME NEW r \in records'
        PROVE  /\ r = [of |-> r.of, ended |-> r.ended]
               /\ r.ended \in DOMAIN turns' /\ turns'[r.ended].state = "ended"
               /\ Twins(r.of, r.ended)'
    <3>1. CASE r \in records
      <4>1. /\ r = [of |-> r.of, ended |-> r.ended]
            /\ r.ended \in DOMAIN turns /\ turns[r.ended].state = "ended"
            /\ Twins(r.of, r.ended)
        BY <3>1 DEF TurnInv, WrittenFit
      <4>2. turns'[r.ended] = turns[r.ended]
        BY <1>1, <1>a, <1>b, <4>1
      <4> QED
        BY <1>1, <4>1, <4>2
    <3>2. CASE r \notin records
      <4>1. r = [of |-> c, ended |-> k] /\ c # 0
        BY <1>e, <2>1, <3>2
      <4>2. PICK a, b : a = r.of /\ b = r.ended /\ a = c /\ b = k
        BY <4>1
      <4>3. Twins(a, b)'
        BY <2>0, <4>1, <4>2
      <4>4. Twins(r.of, r.ended)'
        BY <4>2, <4>3 DEF Twins
      <4> QED
        BY <1>1, <2>0, <4>1, <4>4
    <3> QED
      BY <3>1, <3>2
  <2>2. ASSUME NEW l \in Turns!Messages, notes'[l] # 0
        PROVE  /\ notes'[l] \in DOMAIN turns'
               /\ \E a \in DOMAIN turns' : Twins(a, notes[l])' /\ turns'[a].msg = l
    <3>1. PICK e : e = notes'[l]
      OBVIOUS
    <3>2. CASE e = notes[l]
      <4>1. e \in DOMAIN turns
        BY <2>2, <3>1, <3>2 DEF TurnInv, WrittenFit
      <4>2. PICK a \in DOMAIN turns : Twins(a, e) /\ turns[a].msg = l
        BY <2>2, <3>1, <3>2 DEF TurnInv, WrittenFit
      <4>3. Twins(a, e)' /\ turns'[a].msg = l
        BY <1>1, <4>1, <4>2 DEF SameTurn
      <4>4. Twins(a, notes[l])'
        BY <3>1, <4>3 DEF Twins
      <4> QED
        BY <1>1, <3>1, <4>1, <4>3, <4>4
    <3>3. CASE e # notes[l]
      <4>1. l = m /\ e = k /\ c # 0
        BY <1>2, <3>1, <3>3
      <4>2. Twins(c, notes[l])'
        BY <2>0, <3>1, <4>1 DEF Twins
      <4> QED
        BY <1>1, <2>0, <3>1, <4>1, <4>2
    <3> QED
      BY <3>2, <3>3
  <2> QED
    BY <2>1, <2>2 DEF WrittenFit, Turns!Messages
<1>7. Turns!ContextsKept'
  <2> SUFFICES ASSUME NEW l \in DOMAIN turns', turns'[l].state = "running", Turns!Known(l)'
               PROVE  Turns!Consumed(l)' = l
    BY DEF Turns!ContextsKept
  <2>1. l # k /\ l \in DOMAIN turns /\ turns'[l] = turns[l]
    BY <1>1, <1>a, <1>c
  <2>2. Turns!Consumed(l) = l
    BY <1>1, <2>1 DEF TurnInv, Turns!ContextsKept
  <2> QED
    BY <1>e, <2>1, <2>2 DEF Turns!Consumed, Turns!NoTurn
<1>8. Turns!ResidentsKnown'
  BY <1>1, <1>e, ResidentsStay
<1> QED
  BY <1>3, <1>4, <1>5, <1>6, <1>7, <1>8 DEF TurnInv

LEMMA TurnStep ==
  ASSUME TurnInv, Turns!MemoryNext
  PROVE  TurnInv'
<1>1. CASE \E m \in Turns!Messages :
             \/ Turns!Capture(m) \/ Turns!CaptureFails(m) \/ Turns!Wait(m) \/ Turns!Refused(m)
             \/ \E b \in BOOLEAN : Turns!Captured(m, b) \/ Turns!Dispatch(m, b)
  BY <1>1, CaptureRemembers, CaptureFailsRemembers, PutBackRemembers, CapturedRemembers,
     DispatchRemembers
<1>2. CASE Turns!AskRefresh \/ Turns!NewThread
  BY <1>2, AskedRemembers
<1>3. CASE \E k \in DOMAIN turns :
             \/ Turns!Supersede(k) \/ Turns!GiveUpQuietly(k) \/ Turns!FindStale(k)
             \/ \E a, b \in BOOLEAN : Turns!End(k, a, b)
             \/ \E b \in BOOLEAN : Turns!Written(k, b)
  BY <1>3, SupersedeRemembers, GiveUpRemembers, FindStaleRemembers, EndRemembers, WrittenRemembers
<1> QED
  BY <1>1, <1>2, <1>3 DEF Turns!MemoryNext

LEMMA TurnFrame ==
  ASSUME TurnInv, UNCHANGED turnVars
  PROVE  TurnInv'
<1>1. UNCHANGED <<runtime, msgs, thread, marked, turns, byRun, byThread, records, notes, lost>>
  BY DEF turnVars
<1>2. ShapesFit'
  BY <1>1 DEF TurnInv, ShapesFit, Turns!Threads, Turns!Messages
<1>5. SentOnce' /\ ContextsFit' /\ WrittenFit'
  BY <1>1 DEF TurnInv, SentOnce, ContextsFit, WrittenFit, Twins, Turns!Threads, Turns!Messages
<1>3. Turns!ContextsKept'
  BY <1>1 DEF TurnInv, Turns!ContextsKept, Turns!Known, Turns!Consumed, Turns!NoTurn
<1>4. Turns!ResidentsKnown'
  BY <1>1 DEF TurnInv, Turns!ResidentsKnown, Turns!Opening, Turns!NoThread, Turns!Messages
<1> QED
  BY <1>2, <1>5, <1>3, <1>4 DEF TurnInv

LEMMA TurnInitInv ==
  ASSUME Init
  PROVE  TurnInv
<1>1. PICK f : f = Turns!Fresh /\ IsMsg(f)
  BY FreshMsg
<1>2. /\ thread = [user |-> 0, system |-> 0] /\ marked = {} /\ turns = <<>> /\ byRun = <<>>
      /\ byThread = [t \in Turns!Threads |-> 0] /\ records = {}
      /\ notes = [m \in Turns!Messages |-> 0]
  BY DEF Init, Turns!MemoryInit, Turns!NoThread, Turns!NoTurn
<1>3. /\ msgs = [m \in Turns!Messages |-> msgs[m]]
      /\ \A m \in Turns!Messages : IsMsg(msgs[m])
  <2>1. PICK talk \in Talks :
          msgs = [m \in Turns!Messages |->
                    [Turns!Fresh EXCEPT !.stage = IF m \in talk THEN "new" ELSE "none"]]
    BY DEF Init, Turns!MemoryInit
  <2>2. \A w : IsMsg([f EXCEPT !.stage = w])
    BY <1>1, SetMsgStage
  <2>3. msgs = [m \in Turns!Messages |-> [f EXCEPT !.stage = IF m \in talk THEN "new" ELSE "none"]]
    BY <1>1, <2>1
  <2>4. ASSUME NEW m \in Turns!Messages
        PROVE  IsMsg(msgs[m])
    <3>1. PICK w : w = IF m \in talk THEN "new" ELSE "none"
      OBVIOUS
    <3>2. msgs[m] = [f EXCEPT !.stage = w]
      BY <2>3, <3>1
    <3> QED
      BY <2>2, <3>2
  <2> QED
    BY <2>3, <2>4
<1>4. IsSeq(turns) /\ IsSeq(byRun) /\ Len(byRun) = Len(turns) /\ DOMAIN turns = {}
  <2>1. turns \in Seq({}) /\ byRun \in Seq({}) /\ Len(turns) = 0 /\ Len(byRun) = 0
    BY <1>2, EmptySeq
  <2>2. DOMAIN turns = 1..0
    BY <2>1, LenProperties
  <2> QED
    BY <2>1, <2>2 DEF IsSeq
<1>5. ShapesFit
  BY <1>2, <1>3, <1>4 DEF ShapesFit
<1>6. SentOnce /\ ContextsFit /\ WrittenFit
  BY <1>2, <1>4 DEF SentOnce, ContextsFit, WrittenFit
<1>7. Turns!ContextsKept /\ Turns!ResidentsKnown
  BY <1>2, <1>4 DEF Turns!ContextsKept, Turns!ResidentsKnown
<1> QED
  BY <1>5, <1>6, <1>7 DEF TurnInv

\* What is written of a message has the answer to this message and is written once; a
\* turn at work has its context; and no thread counts as having the residents for which
\* no packet had them.
THEOREM TurnsKeepTheirMemory == Spec => []TurnsRemembered
<1>1. TurnInv /\ [Next]_vars => TurnInv'
  <2> SUFFICES ASSUME TurnInv, [Next]_vars
               PROVE  TurnInv'
    OBVIOUS
  <2>1. CASE Turns!MemoryNext
    BY <2>1, TurnStep
  <2>2. CASE UNCHANGED turnVars
    BY <2>2, TurnFrame
  <2> QED
    BY <2>1, <2>2 DEF Next, vars
<1> QED
  BY <1>1, TurnInitInv, TurnsRemember, PTL DEF Spec

-----------------------------------------------------------------------------
\* The cold memory: the jobs of its processes.
IsColdRecord(j) ==
  j = [pc |-> j.pc, op |-> j.op, want |-> j.want, to |-> j.to, key |-> j.key, value |-> j.value,
       label |-> j.label, pay |-> j.pay, rows |-> j.rows, again |-> j.again]

LEMMA SetColdPc ==
  ASSUME NEW j, IsColdRecord(j), NEW v, NEW d, d = [j EXCEPT !.pc = v]
  PROVE  /\ IsColdRecord(d) /\ d.pc = v
         /\ d.op = j.op /\ d.want = j.want /\ d.to = j.to /\ d.key = j.key /\ d.value = j.value
         /\ d.label = j.label /\ d.pay = j.pay /\ d.rows = j.rows /\ d.again = j.again
  BY DEF IsColdRecord

LEMMA SetColdOp ==
  ASSUME NEW j, IsColdRecord(j), NEW v, NEW d, d = [j EXCEPT !.op = v]
  PROVE  /\ IsColdRecord(d) /\ d.op = v
         /\ d.pc = j.pc /\ d.want = j.want /\ d.to = j.to /\ d.key = j.key /\ d.value = j.value
         /\ d.label = j.label /\ d.pay = j.pay /\ d.rows = j.rows /\ d.again = j.again
  BY DEF IsColdRecord

LEMMA SetColdWant ==
  ASSUME NEW j, IsColdRecord(j), NEW v, NEW d, d = [j EXCEPT !.want = v]
  PROVE  /\ IsColdRecord(d) /\ d.want = v
         /\ d.pc = j.pc /\ d.op = j.op /\ d.to = j.to /\ d.key = j.key /\ d.value = j.value
         /\ d.label = j.label /\ d.pay = j.pay /\ d.rows = j.rows /\ d.again = j.again
  BY DEF IsColdRecord

LEMMA SetColdTo ==
  ASSUME NEW j, IsColdRecord(j), NEW v, NEW d, d = [j EXCEPT !.to = v]
  PROVE  /\ IsColdRecord(d) /\ d.to = v
         /\ d.pc = j.pc /\ d.op = j.op /\ d.want = j.want /\ d.key = j.key /\ d.value = j.value
         /\ d.label = j.label /\ d.pay = j.pay /\ d.rows = j.rows /\ d.again = j.again
  BY DEF IsColdRecord

LEMMA SetColdKey ==
  ASSUME NEW j, IsColdRecord(j), NEW v, NEW d, d = [j EXCEPT !.key = v]
  PROVE  /\ IsColdRecord(d) /\ d.key = v
         /\ d.pc = j.pc /\ d.op = j.op /\ d.want = j.want /\ d.to = j.to /\ d.value = j.value
         /\ d.label = j.label /\ d.pay = j.pay /\ d.rows = j.rows /\ d.again = j.again
  BY DEF IsColdRecord

LEMMA SetColdValue ==
  ASSUME NEW j, IsColdRecord(j), NEW v, NEW d, d = [j EXCEPT !.value = v]
  PROVE  /\ IsColdRecord(d) /\ d.value = v
         /\ d.pc = j.pc /\ d.op = j.op /\ d.want = j.want /\ d.to = j.to /\ d.key = j.key
         /\ d.label = j.label /\ d.pay = j.pay /\ d.rows = j.rows /\ d.again = j.again
  BY DEF IsColdRecord

LEMMA SetColdLabel ==
  ASSUME NEW j, IsColdRecord(j), NEW v, NEW d, d = [j EXCEPT !.label = v]
  PROVE  /\ IsColdRecord(d) /\ d.label = v
         /\ d.pc = j.pc /\ d.op = j.op /\ d.want = j.want /\ d.to = j.to /\ d.key = j.key
         /\ d.value = j.value /\ d.pay = j.pay /\ d.rows = j.rows /\ d.again = j.again
  BY DEF IsColdRecord

LEMMA SetColdPay ==
  ASSUME NEW j, IsColdRecord(j), NEW v, NEW d, d = [j EXCEPT !.pay = v]
  PROVE  /\ IsColdRecord(d) /\ d.pay = v
         /\ d.pc = j.pc /\ d.op = j.op /\ d.want = j.want /\ d.to = j.to /\ d.key = j.key
         /\ d.value = j.value /\ d.label = j.label /\ d.rows = j.rows /\ d.again = j.again
  BY DEF IsColdRecord

LEMMA SetColdRows ==
  ASSUME NEW j, IsColdRecord(j), NEW v, NEW d, d = [j EXCEPT !.rows = v]
  PROVE  /\ IsColdRecord(d) /\ d.rows = v
         /\ d.pc = j.pc /\ d.op = j.op /\ d.want = j.want /\ d.to = j.to /\ d.key = j.key
         /\ d.value = j.value /\ d.label = j.label /\ d.pay = j.pay /\ d.again = j.again
  BY DEF IsColdRecord

LEMMA SetColdAgain ==
  ASSUME NEW j, IsColdRecord(j), NEW v, NEW d, d = [j EXCEPT !.again = v]
  PROVE  /\ IsColdRecord(d) /\ d.again = v
         /\ d.pc = j.pc /\ d.op = j.op /\ d.want = j.want /\ d.to = j.to /\ d.key = j.key
         /\ d.value = j.value /\ d.label = j.label /\ d.pay = j.pay /\ d.rows = j.rows
  BY DEF IsColdRecord

-----------------------------------------------------------------------------
\* The cold memory: what holds of it.

\* A job is what its process does.
IsColdJob(j) ==
  /\ IsColdRecord(j)
  /\ j.pay = [k \in Keys |-> j.pay[k]]
  /\ j.pc \in {"bank", "manifest"} => j.label \in Cold!Labels
  /\ j.pc = "ensure" => j.op \in {"read", "patch"}
  /\ j.pc = "patch" => j.op = "patch"
  /\ j.op = "patch" => j.to \in Cold!Labels

\* From the manifest on a job carries a version; it projects it from the first root on;
\* and it mends the index, or at least it does not stop unseen.
Projects(j) == j.pc \in {"roots", "index"}
Carries(j) == j.pc \in {"manifest", "clear"} \/ Projects(j)
Mends(j) == Projects(j) \/ (Carries(j) /\ j.again)

ColdShape ==
  /\ coldJob = [p \in Procs |-> coldJob[p]]
  /\ \A p \in Procs : IsColdJob(coldJob[p])
  /\ bank = [l \in Cold!Labels |-> bank[l]]
  /\ \A l \in Cold!Labels : bank[l] = [k \in Keys |-> bank[l][k]]
  /\ written \subseteq Cold!Labels
  /\ roots = [k \in Keys |-> roots[k]]

VersionsWritten ==
  /\ active # 0 => active \in written
  /\ shown.version # 0 => shown.version \in written

\* What a job carries is the version of its label.
Honest(j) == Carries(j) /\ j.label # 0 => j.label \in written /\ j.pay = bank[j.label]
\* A job that projects what the index shows already knows it.
Aware(j) == Projects(j) /\ j.label # 0 /\ j.label = shown.version => j.again
\* The roots are those of the projections under way.
RootsAgree ==
  /\ \A p, q \in Procs :
       Projects(coldJob[p]) /\ Projects(coldJob[q]) => coldJob[p].pay = coldJob[q].pay
  /\ \A p \in Procs :
       Projects(coldJob[p]) =>
         \/ roots = coldJob[p].pay
         \/ roots = Cold!Empty /\ \E q \in Procs : coldJob[q].pc = "roots"

\* The index shows its version whole.
Whole ==
  \A k \in Keys :
    /\ k \in shown.keys => roots[k] = bank[shown.version][k]
    /\ k \notin shown.keys => bank[shown.version][k] = Cold!Absent
\* What the index shows is the active version, or is about to be.
Awaited ==
  \/ shown.version = active
  \/ \E p \in Procs : coldJob[p].pc = "manifest" /\ coldJob[p].label = shown.version

ColdFits ==
  /\ VersionsWritten
  /\ \A p \in Procs : Honest(coldJob[p]) /\ Aware(coldJob[p])
  /\ RootsAgree
  /\ shown.version # 0 /\ Awaited => Whole \/ \E p \in Procs : Mends(coldJob[p])

ColdInv == ColdShape /\ (~marred => ColdFits)

\* At rest the invariant says what is to be shown.
LEMMA ColdServes ==
  ASSUME ColdInv
  PROVE  ColdServed
<1> SUFFICES ASSUME Cold!Quiet, active # 0, ~marred
             PROVE  Cold!ServesActive
  BY DEF ColdServed
<1>1. active \in written
  BY DEF ColdInv, ColdFits, VersionsWritten
<1>2. \A p \in Procs : ~Mends(coldJob[p])
  BY DEF Cold!Quiet, Cold!At, Mends, Carries, Projects
<1>3. bank[active] = [k \in Keys |-> bank[active][k]]
  BY <1>1 DEF ColdInv, ColdShape
<1>4. CASE shown.version = active
  <2>1. Whole
    BY <1>2, <1>4 DEF ColdInv, ColdFits, Awaited
  <2>2. [k \in Keys |-> IF k \in shown.keys THEN roots[k] ELSE Cold!Absent]
          = [k \in Keys |-> bank[active][k]]
    BY <1>4, <2>1 DEF Whole
  <2> QED
    BY <1>1, <1>3, <1>4, <2>2 DEF Cold!ServesActive, Cold!Served
<1>5. CASE shown.version # active
  BY <1>1, <1>5 DEF Cold!ServesActive, Cold!Served
<1> QED
  BY <1>4, <1>5

LEMMA IdleColdJob ==
  /\ IsColdRecord(Cold!Idle) /\ IsColdJob(Cold!Idle) /\ Cold!Idle.pc = "idle"
<1>1. IsColdRecord(Cold!Idle) /\ Cold!Idle.pc = "idle" /\ Cold!Idle.op = "none"
  BY DEF IsColdRecord, Cold!Idle
<1>2. Cold!Idle.pay = [k \in Keys |-> Cold!Idle.pay[k]]
  BY DEF Cold!Idle, Cold!Empty
<1> QED
  BY <1>1, <1>2 DEF IsColdJob

\* What is said of a job that is at a place.
LEMMA ColdPlaces ==
  ASSUME NEW j
  PROVE  /\ j.pc \in {"idle", "ensure", "patch", "bank"} => ~Carries(j) /\ ~Mends(j) /\ ~Projects(j)
         /\ j.pc \in {"manifest", "clear"} => Carries(j) /\ ~Projects(j)
         /\ j.pc \in {"roots", "index"} => Carries(j) /\ Projects(j) /\ Mends(j)
         /\ Projects(j) => j.pc # "manifest" /\ Carries(j)
  BY DEF Carries, Projects, Mends

\* One job changes.
LEMMA ColdJobs ==
  ASSUME ColdShape, NEW p \in Procs, NEW d, IsColdJob(d), coldJob' = [coldJob EXCEPT ![p] = d]
  PROVE  /\ coldJob' = [q \in Procs |-> coldJob'[q]] /\ \A q \in Procs : IsColdJob(coldJob'[q])
         /\ coldJob'[p] = d /\ \A q \in Procs \ {p} : coldJob'[q] = coldJob[q]
  BY DEF ColdShape

\* A job that does not touch the roots goes on, comes or goes.
LEMMA ColdJobMoves ==
  ASSUME ColdInv, NEW p \in Procs, NEW d, IsColdJob(d), coldJob' = [coldJob EXCEPT ![p] = d],
         UNCHANGED <<bank, written, active, shown, roots>>, marred => marred',
         ~marred' => /\ Honest(d) /\ ~Projects(d) /\ ~Projects(coldJob[p]) /\ d.pc # "manifest"
                     /\ Mends(coldJob[p]) => Mends(d)
  PROVE  ColdInv'
<1>1. /\ coldJob' = [q \in Procs |-> coldJob'[q]] /\ \A q \in Procs : IsColdJob(coldJob'[q])
      /\ coldJob'[p] = d /\ \A q \in Procs \ {p} : coldJob'[q] = coldJob[q]
  BY ColdJobs DEF ColdInv
<1>2. ColdShape'
  BY <1>1 DEF ColdInv, ColdShape, Cold!Labels
<1>3. ASSUME ~marred'
      PROVE  ColdFits'
  <2>1. ColdFits
    BY <1>3 DEF ColdInv
  <2>2. VersionsWritten'
    BY <2>1 DEF ColdFits, VersionsWritten
  <2>3. ASSUME NEW q \in Procs
        PROVE  (Honest(coldJob[q]) /\ Aware(coldJob[q]))'
    <3>1. CASE q = p
      BY <1>1, <1>3, <3>1 DEF Honest, Aware, Carries, Projects
    <3>2. CASE q # p
      <4>1. coldJob'[q] = coldJob[q] /\ Honest(coldJob[q]) /\ Aware(coldJob[q])
        BY <1>1, <2>1, <3>2 DEF ColdFits
      <4> QED
        BY <4>1 DEF Honest, Aware, Carries, Projects
    <3> QED
      BY <3>1, <3>2
  <2>4. \A q \in Procs : Projects(coldJob'[q]) => q # p /\ coldJob'[q] = coldJob[q]
    BY <1>1, <1>3
  <2>5. \A q \in Procs : coldJob[q].pc = "roots" => coldJob'[q].pc = "roots"
    <3>1. coldJob[p].pc # "roots"
      BY <1>3 DEF Projects
    <3> QED
      BY <1>1, <3>1
  <2>6. RootsAgree'
    BY <2>1, <2>4, <2>5 DEF ColdFits, RootsAgree, Projects, Cold!Empty
  <2>7. ASSUME shown'.version # 0, Awaited'
        PROVE  Whole' \/ \E q \in Procs : Mends(coldJob'[q])
    <3>1. Awaited
      BY <1>1, <1>3, <2>7 DEF Awaited
    <3>2. CASE Whole
      BY <3>2 DEF Whole
    <3>3. CASE \E q \in Procs : Mends(coldJob[q])
      BY <1>1, <1>3, <3>3
    <3> QED
      BY <2>1, <2>7, <3>1, <3>2, <3>3 DEF ColdFits
  <2> QED
    BY <2>2, <2>3, <2>6, <2>7 DEF ColdFits, Mends, Carries, Projects
<1> QED
  BY <1>2, <1>3 DEF ColdInv

-----------------------------------------------------------------------------
\* The cold memory: what comes before a version is written.

\* A job that carries nothing goes on, comes or goes.
LEMMA ColdJobWaits ==
  ASSUME ColdInv, NEW p \in Procs, NEW d, IsColdJob(d), coldJob' = [coldJob EXCEPT ![p] = d],
         coldJob[p].pc \in {"idle", "ensure", "patch", "bank"},
         d.pc \in {"idle", "ensure", "patch", "bank"},
         UNCHANGED <<bank, written, active, shown, roots>>, marred => marred'
  PROVE  ColdInv'
<1>1. /\ Honest(d) /\ ~Projects(d) /\ ~Projects(coldJob[p]) /\ d.pc # "manifest"
      /\ ~Mends(coldJob[p])
  BY ColdPlaces DEF Honest
<1> QED
  BY <1>1, ColdJobMoves

LEMMA ReadServes ==
  ASSUME ColdInv, NEW p \in Procs, Cold!Read(p)
  PROVE  ColdInv'
<1>1. PICK want \in Cold!Labels \union {Cold!NoLabel} :
        /\ coldJob' = [coldJob EXCEPT ![p] = [Cold!Idle EXCEPT !.pc = "ensure", !.op = "read",
                                                               !.want = want]]
        /\ coldJob[p].pc = "idle" /\ UNCHANGED <<bank, written, active, shown, roots, marred>>
  BY DEF Cold!Read, Cold!At
<1>2. PICK i, u, w : i = Cold!Idle /\ u = "ensure" /\ w = "read"
  OBVIOUS
<1>3. PICK a : a = [i EXCEPT !.pc = u]
  OBVIOUS
<1>4. PICK b : b = [a EXCEPT !.op = w]
  OBVIOUS
<1>5. PICK d : d = [b EXCEPT !.want = want]
  OBVIOUS
<1>6. IsColdRecord(a) /\ a.pc = u /\ a.pay = i.pay
  BY <1>2, <1>3, IdleColdJob, SetColdPc
<1>7. IsColdRecord(b) /\ b.pc = u /\ b.op = w /\ b.pay = i.pay
  BY <1>4, <1>6, SetColdOp
<1>8. IsColdRecord(d) /\ d.pc = u /\ d.op = w /\ d.pay = i.pay
  BY <1>5, <1>7, SetColdWant
<1>9. coldJob' = [coldJob EXCEPT ![p] = d]
  BY <1>1, <1>2, <1>3, <1>4, <1>5
<1>10. IsColdJob(d) /\ d.pc = "ensure"
  BY <1>2, <1>8, IdleColdJob DEF IsColdJob
<1> QED
  BY <1>1, <1>9, <1>10, ColdJobWaits

LEMMA PersistServes ==
  ASSUME ColdInv, NEW p \in Procs, Cold!Persist(p)
  PROVE  ColdInv'
<1>1. PICK pay \in Cold!Payloads, label \in Cold!Labels :
        Cold!StartWrite(p, [Cold!Idle EXCEPT !.pc = "bank", !.op = "write", !.label = label,
                                             !.pay = pay])
  BY DEF Cold!Persist
<1>2. PICK i, u, w : i = Cold!Idle /\ u = "bank" /\ w = "write"
  OBVIOUS
<1>3. PICK a : a = [i EXCEPT !.pc = u]
  OBVIOUS
<1>4. PICK b : b = [a EXCEPT !.op = w]
  OBVIOUS
<1>5. PICK c : c = [b EXCEPT !.label = label]
  OBVIOUS
<1>6. PICK d : d = [c EXCEPT !.pay = pay]
  OBVIOUS
<1>7. IsColdRecord(a) /\ a.pc = u
  BY <1>2, <1>3, IdleColdJob, SetColdPc
<1>8. IsColdRecord(b) /\ b.pc = u /\ b.op = w
  BY <1>4, <1>7, SetColdOp
<1>9. IsColdRecord(c) /\ c.pc = u /\ c.op = w /\ c.label = label
  BY <1>5, <1>8, SetColdLabel
<1>10. IsColdRecord(d) /\ d.pc = u /\ d.op = w /\ d.label = label /\ d.pay = pay
  BY <1>6, <1>9, SetColdPay
<1>11. /\ coldJob' = [coldJob EXCEPT ![p] = d] /\ coldJob[p].pc = "idle"
       /\ UNCHANGED <<bank, written, active, shown, roots, marred>>
  BY <1>1, <1>2, <1>3, <1>4, <1>5, <1>6 DEF Cold!StartWrite, Cold!At
<1>12. pay = [k \in Keys |-> pay[k]]
  BY DEF Cold!Payloads
<1>13. IsColdJob(d) /\ d.pc = "bank"
  BY <1>2, <1>10, <1>12 DEF IsColdJob
<1> QED
  BY <1>11, <1>13, ColdJobWaits

LEMMA PatchServes ==
  ASSUME ColdInv, NEW p \in Procs, Cold!Patch(p)
  PROVE  ColdInv'
<1>1. PICK to \in Cold!Labels, k \in Keys, v \in Values \union {Cold!Absent} :
        Cold!StartWrite(p, [Cold!Idle EXCEPT !.pc = "ensure", !.op = "patch", !.to = to,
                                             !.key = k, !.value = v])
  BY DEF Cold!Patch
<1>2. PICK i, u, w : i = Cold!Idle /\ u = "ensure" /\ w = "patch"
  OBVIOUS
<1>3. PICK a : a = [i EXCEPT !.pc = u]
  OBVIOUS
<1>4. PICK b : b = [a EXCEPT !.op = w]
  OBVIOUS
<1>5. PICK c : c = [b EXCEPT !.to = to]
  OBVIOUS
<1>6. PICK e : e = [c EXCEPT !.key = k]
  OBVIOUS
<1>7. PICK d : d = [e EXCEPT !.value = v]
  OBVIOUS
<1>8. IsColdRecord(a) /\ a.pc = u /\ a.pay = i.pay
  BY <1>2, <1>3, IdleColdJob, SetColdPc
<1>9. IsColdRecord(b) /\ b.pc = u /\ b.pay = i.pay /\ b.op = w
  BY <1>4, <1>8, SetColdOp
<1>10. IsColdRecord(c) /\ c.pc = u /\ c.pay = i.pay /\ c.op = w /\ c.to = to
  BY <1>5, <1>9, SetColdTo
<1>11. IsColdRecord(e) /\ e.pc = u /\ e.pay = i.pay /\ e.op = w /\ e.to = to
  BY <1>6, <1>10, SetColdKey
<1>12. IsColdRecord(d) /\ d.pc = u /\ d.pay = i.pay /\ d.op = w /\ d.to = to
  BY <1>7, <1>11, SetColdValue
<1>13. /\ coldJob' = [coldJob EXCEPT ![p] = d] /\ coldJob[p].pc = "idle"
       /\ UNCHANGED <<bank, written, active, shown, roots, marred>>
  BY <1>1, <1>2, <1>3, <1>4, <1>5, <1>6, <1>7 DEF Cold!StartWrite, Cold!At
<1>14. IsColdJob(d) /\ d.pc = "ensure"
  BY <1>2, <1>12, IdleColdJob DEF IsColdJob
<1> QED
  BY <1>13, <1>14, ColdJobWaits

LEMMA ColdJobEnds ==
  ASSUME ColdInv, NEW p \in Procs, Cold!Done(p),
         coldJob[p].pc \in {"idle", "ensure", "patch", "bank"},
         UNCHANGED <<bank, written, active, shown, roots>>, marred => marred'
  PROVE  ColdInv'
<1>1. PICK d : d = Cold!Idle /\ IsColdJob(d) /\ d.pc = "idle"
  BY IdleColdJob
<1>2. coldJob' = [coldJob EXCEPT ![p] = d]
  BY <1>1 DEF Cold!Done
<1> QED
  BY <1>1, <1>2, ColdJobWaits

\* A version, or none, is to be projected.
LEMMA ProjectServes ==
  ASSUME ColdInv, NEW p \in Procs, NEW label, NEW pay, Cold!Project(p, label, pay),
         coldJob[p].pc = "ensure", pay = [k \in Keys |-> pay[k]],
         label # 0 => label \in written /\ pay = bank[label],
         UNCHANGED <<bank, written, active, shown, roots, marred>>
  PROVE  ColdInv'
<1>1. PICK o, w, r : o = coldJob[p] /\ w = "clear" /\ r = Cold!KeysOf(pay)
  OBVIOUS
<1>2. PICK a : a = [o EXCEPT !.pc = w]
  OBVIOUS
<1>3. PICK b : b = [a EXCEPT !.label = label]
  OBVIOUS
<1>4. PICK c : c = [b EXCEPT !.pay = pay]
  OBVIOUS
<1>5. PICK d : d = [c EXCEPT !.rows = r]
  OBVIOUS
<1>6. IsColdRecord(o) /\ IsColdJob(o)
  BY <1>1 DEF ColdInv, ColdShape, IsColdJob
<1>7. IsColdRecord(a) /\ a.pc = w /\ a.op = o.op /\ a.to = o.to
  BY <1>2, <1>6, SetColdPc
<1>8. IsColdRecord(b) /\ b.pc = w /\ b.op = o.op /\ b.to = o.to /\ b.label = label
  BY <1>3, <1>7, SetColdLabel
<1>9. IsColdRecord(c) /\ c.pc = w /\ c.op = o.op /\ c.to = o.to /\ c.label = label /\ c.pay = pay
  BY <1>4, <1>8, SetColdPay
<1>10. IsColdRecord(d) /\ d.pc = w /\ d.op = o.op /\ d.to = o.to /\ d.label = label /\ d.pay = pay
  BY <1>5, <1>9, SetColdRows
<1>11. coldJob' = [coldJob EXCEPT ![p] = d]
  <2>1. coldJob' = [coldJob EXCEPT ![p].pc = w, ![p].label = label, ![p].pay = pay, ![p].rows = r]
    BY <1>1 DEF Cold!Project
  <2>2. [coldJob EXCEPT ![p].pc = w, ![p].label = label, ![p].pay = pay, ![p].rows = r]
          = [coldJob EXCEPT ![p] = d]
    BY <1>1, <1>2, <1>3, <1>4, <1>5 DEF ColdInv, ColdShape
  <2> QED
    BY <2>1, <2>2
<1>12. IsColdJob(d) /\ d.pc = "clear"
  BY <1>1, <1>6, <1>10 DEF IsColdJob
<1>13. Honest(d) /\ ~Projects(d) /\ ~Projects(coldJob[p]) /\ ~Mends(coldJob[p]) /\ d.pc # "manifest"
  BY <1>10, <1>12, ColdPlaces DEF Honest
<1> QED
  BY <1>11, <1>12, <1>13, ColdJobMoves

LEMMA EnsureServes ==
  ASSUME ColdInv, NEW p \in Procs, Cold!Ensure(p)
  PROVE  ColdInv'
<1>1. /\ coldJob[p].pc = "ensure" /\ IsColdJob(coldJob[p])
      /\ UNCHANGED <<bank, written, active, shown, roots, marred>>
  BY DEF Cold!Ensure, Cold!At, ColdInv, ColdShape
<1>2. PICK label : label = Cold!Loaded(coldJob[p].want)
  OBVIOUS
<1>3. Cold!Readable(label) => label \in written /\ label \in Cold!Labels
  BY DEF Cold!Readable, ColdInv, ColdShape
<1>4. CASE Cold!Done(p)
  BY <1>1, <1>4, ColdJobEnds
<1>5. CASE Cold!Project(p, 0, Cold!Empty)
  <2>1. PICK pay : pay = Cold!Empty /\ pay = [k \in Keys |-> pay[k]]
    BY DEF Cold!Empty
  <2>2. Cold!Project(p, 0, pay)
    BY <1>5, <2>1
  <2> QED
    BY <1>1, <2>1, <2>2, ProjectServes
<1>6. CASE Cold!Readable(label) /\ Cold!Project(p, label, bank[label])
  <2>1. PICK pay : pay = bank[label]
    OBVIOUS
  <2>2. Cold!Project(p, label, pay)
    BY <1>6, <2>1
  <2>3. pay = [k \in Keys |-> pay[k]]
    BY <1>3, <1>6, <2>1 DEF ColdInv, ColdShape
  <2> QED
    BY <1>1, <1>3, <1>6, <2>1, <2>2, <2>3, ProjectServes
<1>7. CASE /\ coldJob[p].op # "read"
           /\ coldJob' = [coldJob EXCEPT ![p].pc = "patch", ![p].label = label, ![p].rows = shown.keys]
  <2>1. PICK o, w, r : o = coldJob[p] /\ w = "patch" /\ r = shown.keys
    OBVIOUS
  <2>2. PICK a : a = [o EXCEPT !.pc = w]
    OBVIOUS
  <2>3. PICK b : b = [a EXCEPT !.label = label]
    OBVIOUS
  <2>4. PICK d : d = [b EXCEPT !.rows = r]
    OBVIOUS
  <2>5. IsColdRecord(o)
    BY <1>1, <2>1 DEF IsColdJob
  <2>6. IsColdRecord(a) /\ a.pc = w /\ a.op = o.op /\ a.to = o.to /\ a.pay = o.pay
    BY <2>2, <2>5, SetColdPc
  <2>7. IsColdRecord(b) /\ b.pc = w /\ b.op = o.op /\ b.to = o.to /\ b.pay = o.pay
    BY <2>3, <2>6, SetColdLabel
  <2>8. IsColdRecord(d) /\ d.pc = w /\ d.op = o.op /\ d.to = o.to /\ d.pay = o.pay
    BY <2>4, <2>7, SetColdRows
  <2>9. coldJob' = [coldJob EXCEPT ![p] = d]
    <3>1. coldJob' = [coldJob EXCEPT ![p].pc = w, ![p].label = label, ![p].rows = r]
      BY <1>7, <2>1
    <3>2. [coldJob EXCEPT ![p].pc = w, ![p].label = label, ![p].rows = r] = [coldJob EXCEPT ![p] = d]
      BY <2>1, <2>2, <2>3, <2>4 DEF ColdInv, ColdShape
    <3> QED
      BY <3>1, <3>2
  <2>10. IsColdJob(d) /\ d.pc = "patch"
    BY <1>1, <1>7, <2>1, <2>8 DEF IsColdJob
  <2> QED
    BY <1>1, <2>9, <2>10, ColdJobWaits
<1> QED
  <2>1. CASE ~Cold!Readable(label)
    BY <1>2, <1>4, <1>5, <2>1 DEF Cold!Ensure, Cold!NoLabel
  <2>2. CASE Cold!Readable(label) /\ Cold!Shows(label)
    BY <1>2, <1>4, <1>7, <2>2 DEF Cold!Ensure
  <2>3. CASE Cold!Readable(label) /\ ~Cold!Shows(label)
    BY <1>2, <1>6, <2>3 DEF Cold!Ensure
  <2> QED
    BY <2>1, <2>2, <2>3

LEMMA MakePatchServes ==
  ASSUME ColdInv, NEW p \in Procs, Cold!MakePatch(p)
  PROVE  ColdInv'
<1>1. /\ coldJob[p].pc = "patch" /\ IsColdJob(coldJob[p])
      /\ UNCHANGED <<bank, written, active, shown, roots, marred>>
  BY DEF Cold!MakePatch, Cold!At, ColdInv, ColdShape
<1>2. CASE Cold!Done(p)
  BY <1>1, <1>2, ColdJobEnds
<1>3. CASE ~Cold!Done(p)
  <2>1. PICK o, w, u, pay :
          o = coldJob[p] /\ w = "bank" /\ u = "write" /\ pay = [bank[o.label] EXCEPT ![o.key] = o.value]
    OBVIOUS
  <2>2. /\ coldJob' = [coldJob EXCEPT ![p].pc = w, ![p].op = u, ![p].label = o.to, ![p].pay = pay]
        /\ o.label \in written
    BY <1>3, <2>1 DEF Cold!MakePatch
  <2>3. pay = [k \in Keys |-> pay[k]]
    <3>1. bank[o.label] = [k \in Keys |-> bank[o.label][k]]
      BY <2>2 DEF ColdInv, ColdShape
    <3>2. PICK b : b = bank[o.label] /\ b = [k \in Keys |-> b[k]]
      BY <3>1
    <3> QED
      BY <2>1, <3>2
  <2>4. PICK a : a = [o EXCEPT !.pc = w]
    OBVIOUS
  <2>5. PICK b : b = [a EXCEPT !.op = u]
    OBVIOUS
  <2>6. PICK c : c = [b EXCEPT !.label = o.to]
    OBVIOUS
  <2>7. PICK d : d = [c EXCEPT !.pay = pay]
    OBVIOUS
  <2>8. IsColdRecord(o)
    BY <1>1, <2>1 DEF IsColdJob
  <2>9. IsColdRecord(a) /\ a.pc = w
    BY <2>4, <2>8, SetColdPc
  <2>10. IsColdRecord(b) /\ b.pc = w /\ b.op = u
    BY <2>5, <2>9, SetColdOp
  <2>11. IsColdRecord(c) /\ c.pc = w /\ c.op = u /\ c.label = o.to
    BY <2>6, <2>10, SetColdLabel
  <2>12. IsColdRecord(d) /\ d.pc = w /\ d.op = u /\ d.label = o.to /\ d.pay = pay
    BY <2>7, <2>11, SetColdPay
  <2>13. coldJob' = [coldJob EXCEPT ![p] = d]
    <3>1. [coldJob EXCEPT ![p].pc = w, ![p].op = u, ![p].label = o.to, ![p].pay = pay]
            = [coldJob EXCEPT ![p] = d]
      BY <2>1, <2>4, <2>5, <2>6, <2>7 DEF ColdInv, ColdShape
    <3> QED
      BY <2>2, <3>1
  <2>14. o.to \in Cold!Labels
    BY <1>1, <2>1 DEF IsColdJob
  <2>15. IsColdJob(d) /\ d.pc = "bank"
    BY <2>1, <2>3, <2>12, <2>14 DEF IsColdJob
  <2> QED
    BY <1>1, <2>13, <2>15, ColdJobWaits
<1> QED
  BY <1>2, <1>3

-----------------------------------------------------------------------------
\* The cold memory: a version is written and projected.

\* The jobs but that of p stay as they are, and so does what is said of them.
LEMMA ColdOthersStay ==
  ASSUME UNCHANGED <<bank, written, shown>>, NEW q, coldJob'[q] = coldJob[q],
         Honest(coldJob[q]) /\ Aware(coldJob[q])
  PROVE  (Honest(coldJob[q]) /\ Aware(coldJob[q]))'
  BY DEF Honest, Aware, Carries, Projects

LEMMA WriteVersionServes ==
  ASSUME ColdInv, NEW p \in Procs, Cold!WriteVersion(p)
  PROVE  ColdInv'
<1>1. PICK o, w, n, label :
        o = coldJob[p] /\ w = "manifest" /\ label = o.label /\ n = (label \in written)
  OBVIOUS
<1>2. IsColdJob(o) /\ IsColdRecord(o) /\ o.pc = "bank" /\ label \in Cold!Labels
  BY <1>1 DEF ColdInv, ColdShape, IsColdJob, Cold!WriteVersion, Cold!At
<1>3. PICK a : a = [o EXCEPT !.pc = w]
  OBVIOUS
<1>4. PICK d : d = [a EXCEPT !.again = n]
  OBVIOUS
<1>5. IsColdRecord(a) /\ a.pc = w /\ a.op = o.op /\ a.to = o.to /\ a.label = label /\ a.pay = o.pay
  BY <1>1, <1>2, <1>3, SetColdPc
<1>6. /\ IsColdRecord(d) /\ d.pc = w /\ d.op = o.op /\ d.to = o.to /\ d.label = label
      /\ d.pay = o.pay /\ d.again = n
  BY <1>4, <1>5, SetColdAgain
<1>7. IsColdJob(d) /\ d.pc = "manifest"
  BY <1>1, <1>2, <1>6 DEF IsColdJob
<1>8. coldJob' = [coldJob EXCEPT ![p] = d]
  <2>1. coldJob' = [coldJob EXCEPT ![p].pc = w, ![p].again = n]
    BY <1>1 DEF Cold!WriteVersion
  <2>2. [coldJob EXCEPT ![p].pc = w, ![p].again = n] = [coldJob EXCEPT ![p] = d]
    BY <1>1, <1>3, <1>4 DEF ColdInv, ColdShape
  <2> QED
    BY <2>1, <2>2
<1>9. /\ bank' = [bank EXCEPT ![label] = o.pay] /\ written' = written \union {label}
      /\ UNCHANGED <<active, shown, roots>> /\ (marred => marred')
  BY <1>1 DEF Cold!WriteVersion
<1>10. ASSUME ~marred', NEW q \in Procs \ {p}, Carries(coldJob[q])
       PROVE  coldJob[q].label # label
  BY <1>1, <1>10 DEF Cold!WriteVersion, Cold!Others, Cold!Projecting, Cold!At, Carries, Projects
<1>11. /\ coldJob' = [q \in Procs |-> coldJob'[q]] /\ \A q \in Procs : IsColdJob(coldJob'[q])
       /\ coldJob'[p] = d /\ \A q \in Procs \ {p} : coldJob'[q] = coldJob[q]
  BY <1>7, <1>8, ColdJobs DEF ColdInv
<1>12. /\ bank' = [l \in Cold!Labels |-> bank'[l]] /\ bank'[label] = o.pay
       /\ \A l \in Cold!Labels \ {label} : bank'[l] = bank[l]
       /\ \A l \in Cold!Labels : bank'[l] = [k \in Keys |-> bank'[l][k]]
  BY <1>2, <1>9 DEF ColdInv, ColdShape, IsColdJob
<1>13. ColdShape'
  BY <1>2, <1>9, <1>11, <1>12 DEF ColdInv, ColdShape, Cold!Labels
<1>14. ASSUME ~marred'
       PROVE  ColdFits'
  <2>1. ColdFits
    BY <1>9, <1>14 DEF ColdInv
  <2>2. VersionsWritten'
    BY <1>9, <2>1 DEF ColdFits, VersionsWritten
  <2>3. ASSUME NEW q \in Procs
        PROVE  (Honest(coldJob[q]) /\ Aware(coldJob[q]))'
    <3>1. CASE q = p
      <4>1. coldJob'[q] = d /\ d.label \in written' /\ d.pay = bank'[label]
        BY <1>6, <1>9, <1>11, <1>12, <3>1
      <4> QED
        BY <1>6, <1>7, <4>1 DEF Honest, Aware, Projects
    <3>2. CASE q # p
      <4>1. coldJob'[q] = coldJob[q] /\ Honest(coldJob[q]) /\ Aware(coldJob[q])
        BY <1>11, <2>1, <3>2 DEF ColdFits
      <4>2. Aware(coldJob[q])'
        BY <1>9, <4>1 DEF Aware, Projects
      <4>3. CASE Carries(coldJob[q]) /\ coldJob[q].label # 0
        <5>1. /\ coldJob[q].label \in written /\ coldJob[q].pay = bank[coldJob[q].label]
              /\ coldJob[q].label # label /\ coldJob[q].label \in Cold!Labels
          BY <1>10, <1>14, <3>2, <4>1, <4>3 DEF Honest, ColdInv, ColdShape
        <5>2. bank'[coldJob[q].label] = bank[coldJob[q].label]
          BY <1>12, <5>1
        <5> QED
          BY <1>9, <4>1, <4>2, <5>1, <5>2 DEF Honest
      <4>4. CASE ~(Carries(coldJob[q]) /\ coldJob[q].label # 0)
        BY <4>1, <4>2, <4>4 DEF Honest, Carries, Projects
      <4> QED
        BY <4>3, <4>4
    <3> QED
      BY <3>1, <3>2
  <2>4. \A q \in Procs :
          /\ Projects(coldJob'[q]) => coldJob'[q] = coldJob[q]
          /\ coldJob[q].pc = "roots" => coldJob'[q].pc = "roots"
          /\ Mends(coldJob[q]) => Mends(coldJob'[q])
          /\ coldJob'[q].pc = "manifest" => coldJob'[q] = coldJob[q] \/ coldJob'[q].label = label
    <3>1. ~Projects(d) /\ ~Mends(coldJob[p]) /\ coldJob[p].pc # "roots"
      BY <1>1, <1>2, <1>7, ColdPlaces
    <3> QED
      BY <1>6, <1>11, <3>1
  <2>5. RootsAgree'
    BY <1>9, <2>1, <2>4 DEF ColdFits, RootsAgree, Projects, Cold!Empty
  <2>6. ASSUME shown'.version # 0, Awaited'
        PROVE  Whole' \/ \E q \in Procs : Mends(coldJob'[q])
    <3>1. CASE shown.version = label
      <4>1. n
        BY <1>1, <1>9, <2>1, <2>6, <3>1 DEF ColdFits, VersionsWritten
      <4>2. Mends(d)
        BY <1>6, <1>7, <4>1 DEF Mends, Carries
      <4> QED
        BY <1>11, <4>2
    <3>2. CASE shown.version # label
      <4>1. Awaited
        BY <1>9, <2>4, <2>6, <3>2 DEF Awaited
      <4>2. CASE Whole
        <5>1. shown.version \in Cold!Labels
          BY <1>9, <2>1, <2>6 DEF ColdInv, ColdShape, ColdFits, VersionsWritten
        <5>2. bank'[shown.version] = bank[shown.version]
          BY <1>12, <3>2, <5>1
        <5> QED
          BY <1>9, <4>2, <5>2 DEF Whole
      <4> QED
        BY <1>9, <2>1, <2>4, <2>6, <4>1, <4>2 DEF ColdFits
    <3> QED
      BY <3>1, <3>2
  <2> QED
    BY <2>2, <2>3, <2>5, <2>6 DEF ColdFits, Mends, Carries, Projects
<1> QED
  BY <1>13, <1>14 DEF ColdInv

\* A job that carries a version goes to its next place.
LEMMA ColdGoto ==
  ASSUME ColdInv, NEW p \in Procs, NEW w, w \in {"clear", "index"}, Cold!Goto(p, w),
         coldJob[p].pc # "ensure", coldJob[p].pc # "patch"
  PROVE  \E d : /\ IsColdJob(d) /\ coldJob' = [coldJob EXCEPT ![p] = d] /\ d.pc = w
                /\ d.label = coldJob[p].label /\ d.pay = coldJob[p].pay
                /\ d.again = coldJob[p].again
<1>1. PICK o : o = coldJob[p] /\ IsColdJob(o) /\ IsColdRecord(o)
  BY DEF ColdInv, ColdShape, IsColdJob
<1>2. PICK d : d = [o EXCEPT !.pc = w]
  OBVIOUS
<1>3. /\ IsColdRecord(d) /\ d.pc = w /\ d.op = o.op /\ d.to = o.to /\ d.label = o.label
      /\ d.pay = o.pay /\ d.again = o.again
  BY <1>1, <1>2, SetColdPc
<1>4. w # "bank" /\ w # "manifest" /\ w # "ensure" /\ w # "patch"
  OBVIOUS
<1>5. IsColdJob(d)
  BY <1>1, <1>3, <1>4 DEF IsColdJob
<1>6. coldJob' = [coldJob EXCEPT ![p] = d]
  BY <1>1, <1>2 DEF Cold!Goto, ColdInv, ColdShape
<1> QED
  BY <1>1, <1>3, <1>5, <1>6

LEMMA WriteManifestServes ==
  ASSUME ColdInv, NEW p \in Procs, Cold!WriteManifest(p)
  PROVE  ColdInv'
<1>1. PICK o : o = coldJob[p] /\ IsColdJob(o) /\ o.pc = "manifest" /\ o.label \in Cold!Labels
  BY DEF ColdInv, ColdShape, IsColdJob, Cold!WriteManifest, Cold!At
<1>2. PICK w : w = "clear"
  OBVIOUS
<1>3. Cold!Goto(p, w)
  BY <1>2 DEF Cold!WriteManifest
<1>4. PICK d : /\ IsColdJob(d) /\ coldJob' = [coldJob EXCEPT ![p] = d] /\ d.pc = w
               /\ d.label = o.label /\ d.pay = o.pay /\ d.again = o.again
  BY <1>1, <1>2, <1>3, ColdGoto
<1>5. /\ active' = o.label /\ UNCHANGED <<bank, written, shown, roots, marred>>
  BY <1>1 DEF Cold!WriteManifest
<1>6. /\ coldJob' = [q \in Procs |-> coldJob'[q]] /\ \A q \in Procs : IsColdJob(coldJob'[q])
      /\ coldJob'[p] = d /\ \A q \in Procs \ {p} : coldJob'[q] = coldJob[q]
  BY <1>4, ColdJobs DEF ColdInv
<1>7. ColdShape'
  BY <1>5, <1>6 DEF ColdInv, ColdShape, Cold!Labels
<1>8. Carries(o) /\ ~Projects(o) /\ Carries(d) /\ ~Projects(d) /\ (Mends(o) => Mends(d))
  BY <1>1, <1>2, <1>4 DEF Carries, Projects, Mends
<1>9. o.label # 0
  BY <1>1, BoundsAssumption DEF Cold!Labels
<1>10. ASSUME ~marred'
       PROVE  ColdFits'
  <2>1. ColdFits
    BY <1>5, <1>10 DEF ColdInv
  <2>2. o.label \in written /\ o.pay = bank[o.label]
    BY <1>1, <1>8, <1>9, <2>1 DEF ColdFits, Honest
  <2>3. VersionsWritten'
    BY <1>5, <2>1, <2>2 DEF ColdFits, VersionsWritten
  <2>4. ASSUME NEW q \in Procs
        PROVE  (Honest(coldJob[q]) /\ Aware(coldJob[q]))'
    <3>1. CASE q = p
      BY <1>4, <1>5, <1>6, <1>8, <2>2, <3>1 DEF Honest, Aware, Projects
    <3>2. CASE q # p
      BY <1>5, <1>6, <2>1, <3>2, ColdOthersStay DEF ColdFits
    <3> QED
      BY <3>1, <3>2
  <2>5. \A q \in Procs :
          /\ Projects(coldJob'[q]) => coldJob'[q] = coldJob[q]
          /\ coldJob[q].pc = "roots" => coldJob'[q].pc = "roots"
          /\ Mends(coldJob[q]) => Mends(coldJob'[q])
          /\ coldJob'[q].pc = "manifest" => coldJob'[q] = coldJob[q]
    BY <1>1, <1>2, <1>4, <1>6, <1>8
  <2>6. RootsAgree'
    BY <1>5, <2>1, <2>5 DEF ColdFits, RootsAgree, Projects, Cold!Empty
  <2>7. ASSUME shown'.version # 0, Awaited'
        PROVE  Whole' \/ \E q \in Procs : Mends(coldJob'[q])
    <3>1. Awaited
      BY <1>1, <1>5, <2>5, <2>7 DEF Awaited
    <3>2. Whole => Whole'
      BY <1>5 DEF Whole
    <3> QED
      BY <1>5, <2>1, <2>5, <2>7, <3>1, <3>2 DEF ColdFits
  <2> QED
    BY <2>3, <2>4, <2>6, <2>7 DEF ColdFits, Mends, Carries, Projects
<1> QED
  BY <1>7, <1>10 DEF ColdInv

LEMMA ClearRootsServes ==
  ASSUME ColdInv, NEW p \in Procs, Cold!ClearRoots(p)
  PROVE  ColdInv'
<1>1. PICK o, w, n :
        o = coldJob[p] /\ w = "roots" /\ n = (o.again \/ Cold!Shows(o.label))
  OBVIOUS
<1>2. IsColdJob(o) /\ IsColdRecord(o) /\ o.pc = "clear"
  BY <1>1 DEF ColdInv, ColdShape, IsColdJob, Cold!ClearRoots, Cold!At
<1>3. PICK a : a = [o EXCEPT !.pc = w]
  OBVIOUS
<1>4. PICK d : d = [a EXCEPT !.again = n]
  OBVIOUS
<1>5. /\ IsColdRecord(a) /\ a.pc = w /\ a.op = o.op /\ a.to = o.to /\ a.label = o.label
      /\ a.pay = o.pay /\ a.again = o.again
  BY <1>2, <1>3, SetColdPc
<1>6. /\ IsColdRecord(d) /\ d.pc = w /\ d.op = o.op /\ d.to = o.to /\ d.label = o.label
      /\ d.pay = o.pay /\ d.again = n
  BY <1>4, <1>5, SetColdAgain
<1>7. IsColdJob(d) /\ d.pc = "roots"
  BY <1>1, <1>2, <1>6 DEF IsColdJob
<1>8. coldJob' = [coldJob EXCEPT ![p] = d]
  <2>1. coldJob' = [coldJob EXCEPT ![p].pc = w, ![p].again = n]
    BY <1>1 DEF Cold!ClearRoots, ColdInv, ColdShape
  <2>2. [coldJob EXCEPT ![p].pc = w, ![p].again = n] = [coldJob EXCEPT ![p] = d]
    BY <1>1, <1>3, <1>4 DEF ColdInv, ColdShape
  <2> QED
    BY <2>1, <2>2
<1>9. /\ roots' = Cold!Empty /\ marred' = (marred \/ Cold!Meet(p))
      /\ UNCHANGED <<bank, written, active, shown>>
  BY DEF Cold!ClearRoots
<1>10. /\ coldJob' = [q \in Procs |-> coldJob'[q]] /\ \A q \in Procs : IsColdJob(coldJob'[q])
       /\ coldJob'[p] = d /\ \A q \in Procs \ {p} : coldJob'[q] = coldJob[q]
  BY <1>7, <1>8, ColdJobs DEF ColdInv
<1>11. ColdShape'
  BY <1>9, <1>10 DEF ColdInv, ColdShape, Cold!Labels, Cold!Empty
<1>12. Carries(o) /\ Carries(d) /\ Projects(d) /\ Mends(d)
  BY <1>2, <1>7, ColdPlaces
<1>13. ASSUME ~marred'
       PROVE  ColdFits'
  <2>1. ColdFits
    BY <1>9, <1>13 DEF ColdInv
  <2>2. VersionsWritten'
    BY <1>9, <2>1 DEF ColdFits, VersionsWritten
  <2>3. ASSUME NEW q \in Procs
        PROVE  (Honest(coldJob[q]) /\ Aware(coldJob[q]))'
    <3>1. CASE q = p
      <4>1. Honest(o)
        BY <1>1, <2>1 DEF ColdFits
      <4>2. d.label # 0 => d.label \in written /\ d.pay = bank[d.label]
        BY <1>6, <1>12, <4>1 DEF Honest
      <4>3. d.label = shown.version => d.again
        BY <1>1, <1>6 DEF Cold!Shows
      <4> QED
        BY <1>9, <1>10, <3>1, <4>2, <4>3 DEF Honest, Aware
    <3>2. CASE q # p
      BY <1>9, <1>10, <2>1, <3>2, ColdOthersStay DEF ColdFits
    <3> QED
      BY <3>1, <3>2
  <2>4. \A q \in Procs \ {p} : Projects(coldJob[q]) => coldJob[q].pay = o.pay
    BY <1>1, <1>9, <1>13 DEF Cold!Meet, Cold!Others, Cold!Projecting, Cold!At, Projects
  <2>5. \A q \in Procs : Projects(coldJob'[q]) => coldJob'[q].pay = o.pay
    BY <1>6, <1>10, <2>4
  <2>6. RootsAgree'
    BY <1>7, <1>9, <1>10, <2>5 DEF RootsAgree, Projects, Cold!Empty
  <2> QED
    BY <1>10, <1>12, <2>2, <2>3, <2>6 DEF ColdFits, Mends, Carries, Projects
<1> QED
  BY <1>11, <1>13 DEF ColdInv

LEMMA WriteRootsServes ==
  ASSUME ColdInv, NEW p \in Procs, Cold!WriteRoots(p)
  PROVE  ColdInv'
<1>1. PICK o : o = coldJob[p] /\ IsColdJob(o) /\ o.pc = "roots" /\ o.pay = [k \in Keys |-> o.pay[k]]
  BY DEF ColdInv, ColdShape, IsColdJob, Cold!WriteRoots, Cold!At
<1>2. PICK w : w = "index"
  OBVIOUS
<1>3. Cold!Goto(p, w)
  BY <1>2 DEF Cold!WriteRoots
<1>4. PICK d : /\ IsColdJob(d) /\ coldJob' = [coldJob EXCEPT ![p] = d] /\ d.pc = w
               /\ d.label = o.label /\ d.pay = o.pay /\ d.again = o.again
  BY <1>1, <1>2, <1>3, ColdGoto
<1>5. /\ roots' = [k \in Keys |-> IF o.pay[k] # Cold!Absent THEN o.pay[k] ELSE roots[k]]
      /\ UNCHANGED <<bank, written, active, shown, marred>>
  BY <1>1 DEF Cold!WriteRoots
<1>6. /\ coldJob' = [q \in Procs |-> coldJob'[q]] /\ \A q \in Procs : IsColdJob(coldJob'[q])
      /\ coldJob'[p] = d /\ \A q \in Procs \ {p} : coldJob'[q] = coldJob[q]
  BY <1>4, ColdJobs DEF ColdInv
<1>7. ColdShape'
  BY <1>5, <1>6 DEF ColdInv, ColdShape, Cold!Labels
<1>8. Projects(o) /\ Carries(o) /\ Carries(d) /\ Projects(d) /\ Mends(d)
  BY <1>1, <1>2, <1>4, ColdPlaces
<1>9. ASSUME ~marred'
      PROVE  ColdFits'
  <2>1. ColdFits
    BY <1>5, <1>9 DEF ColdInv
  <2>2. VersionsWritten'
    BY <1>5, <2>1 DEF ColdFits, VersionsWritten
  <2>3. ASSUME NEW q \in Procs
        PROVE  (Honest(coldJob[q]) /\ Aware(coldJob[q]))'
    <3>1. CASE q = p
      <4>1. Honest(o) /\ Aware(o)
        BY <1>1, <2>1 DEF ColdFits
      <4>2. /\ d.label # 0 => d.label \in written /\ d.pay = bank[d.label]
            /\ d.label # 0 /\ d.label = shown.version => d.again
        BY <1>4, <1>8, <4>1 DEF Honest, Aware
      <4> QED
        BY <1>5, <1>6, <3>1, <4>2 DEF Honest, Aware
    <3>2. CASE q # p
      BY <1>5, <1>6, <2>1, <3>2, ColdOthersStay DEF ColdFits
    <3> QED
      BY <3>1, <3>2
  <2>4. roots = o.pay \/ roots = Cold!Empty
    BY <1>1, <1>8, <2>1 DEF ColdFits, RootsAgree
  <2>5. roots' = o.pay
    <3>1. \A k \in Keys : (IF o.pay[k] # Cold!Absent THEN o.pay[k] ELSE roots[k]) = o.pay[k]
      BY <2>4 DEF Cold!Empty
    <3>2. roots' = [k \in Keys |-> o.pay[k]]
      BY <1>5, <3>1
    <3> QED
      BY <1>1, <3>2
  <2>6. \A q \in Procs : Projects(coldJob'[q]) => coldJob'[q].pay = o.pay
    BY <1>1, <1>4, <1>6, <1>8, <2>1 DEF ColdFits, RootsAgree
  <2>7. RootsAgree'
    BY <2>5, <2>6 DEF RootsAgree, Projects, Cold!Empty
  <2> QED
    BY <1>6, <1>8, <2>2, <2>3, <2>7 DEF ColdFits, Mends, Carries, Projects
<1> QED
  BY <1>7, <1>9 DEF ColdInv

LEMMA WriteIndexServes ==
  ASSUME ColdInv, NEW p \in Procs, Cold!WriteIndex(p)
  PROVE  ColdInv'
<1>1. PICK o : o = coldJob[p] /\ IsColdJob(o) /\ o.pc = "index"
  BY DEF ColdInv, ColdShape, Cold!WriteIndex, Cold!At
<1>2. /\ shown'.version = o.label /\ shown'.keys = Cold!KeysOf(o.pay)
      /\ UNCHANGED <<bank, written, active, roots, marred>>
  BY <1>1 DEF Cold!WriteIndex
<1>3. /\ coldJob' = [q \in Procs |-> coldJob'[q]]
      /\ \A q \in Procs \ {p} :
           coldJob'[q] = [coldJob[q] EXCEPT !.again = coldJob[q].again \/ Cold!Projecting(q)]
      /\ coldJob'[p] = IF o.op = "patch" THEN [o EXCEPT !.pc = "patch"] ELSE Cold!Idle
  BY <1>1 DEF Cold!WriteIndex
<1>4. ASSUME NEW q \in Procs \ {p}
      PROVE  /\ IsColdJob(coldJob'[q]) /\ coldJob'[q].pc = coldJob[q].pc
             /\ coldJob'[q].label = coldJob[q].label /\ coldJob'[q].pay = coldJob[q].pay
             /\ coldJob'[q].again = (coldJob[q].again \/ Projects(coldJob[q]))
  <2>1. PICK e, n : /\ e = coldJob[q] /\ IsColdJob(e) /\ IsColdRecord(e)
                    /\ n = (coldJob[q].again \/ Cold!Projecting(q))
    BY DEF ColdInv, ColdShape, IsColdJob
  <2>2. PICK d : d = [e EXCEPT !.again = n]
    OBVIOUS
  <2>3. /\ IsColdRecord(d) /\ d.pc = e.pc /\ d.op = e.op /\ d.to = e.to /\ d.label = e.label
        /\ d.pay = e.pay /\ d.again = n
    BY <2>1, <2>2, SetColdAgain
  <2>4. IsColdJob(d)
    BY <2>1, <2>3 DEF IsColdJob
  <2>5. coldJob'[q] = d
    BY <1>3, <2>1, <2>2
  <2>6. Cold!Projecting(q) <=> Projects(coldJob[q])
    BY DEF Cold!Projecting, Projects
  <2> QED
    BY <2>1, <2>3, <2>4, <2>5, <2>6
<1>5. IsColdJob(coldJob'[p]) /\ coldJob'[p].pc \in {"patch", "idle"}
  <2>1. CASE o.op = "patch"
    <3>1. PICK w : w = "patch"
      OBVIOUS
    <3>2. PICK d : d = [o EXCEPT !.pc = w]
      OBVIOUS
    <3>3. IsColdRecord(o)
      BY <1>1 DEF IsColdJob
    <3>4. IsColdRecord(d) /\ d.pc = w /\ d.op = o.op /\ d.to = o.to /\ d.pay = o.pay
      BY <3>2, <3>3, SetColdPc
    <3>5. IsColdJob(d) /\ d.pc = "patch"
      BY <1>1, <2>1, <3>1, <3>4 DEF IsColdJob
    <3>6. coldJob'[p] = d
      BY <1>3, <2>1, <3>1, <3>2
    <3> QED
      BY <3>5, <3>6
  <2>2. CASE o.op # "patch"
    BY <1>3, <2>2, IdleColdJob
  <2> QED
    BY <2>1, <2>2
<1>6. ColdShape'
  <2>1. \A q \in Procs : IsColdJob(coldJob'[q])
    BY <1>4, <1>5
  <2> QED
    BY <1>2, <1>3, <2>1 DEF ColdInv, ColdShape, Cold!Labels
<1>7. ASSUME ~marred'
      PROVE  ColdFits'
  <2>1. ColdFits /\ Projects(o) /\ Carries(o)
    BY <1>1, <1>2, <1>7, ColdPlaces DEF ColdInv
  <2>2. o.label # 0 => o.label \in written /\ o.pay = bank[o.label]
    BY <1>1, <2>1 DEF ColdFits, Honest
  <2>3. VersionsWritten'
    BY <1>2, <2>1, <2>2 DEF ColdFits, VersionsWritten
  <2>4. ASSUME NEW q \in Procs
        PROVE  (Honest(coldJob[q]) /\ Aware(coldJob[q]))'
    <3>1. CASE q = p
      BY <1>5, <3>1 DEF Honest, Aware, Carries, Projects
    <3>2. CASE q # p
      <4>1. Honest(coldJob[q])
        BY <2>1 DEF ColdFits
      <4>2. Honest(coldJob[q])'
        BY <1>2, <1>4, <3>2, <4>1 DEF Honest, Carries, Projects
      <4>3. Projects(coldJob'[q]) => coldJob'[q].again
        BY <1>4, <3>2 DEF Projects
      <4> QED
        BY <4>2, <4>3 DEF Aware, Projects
    <3> QED
      BY <3>1, <3>2
  <2>5. ~Projects(coldJob'[p])
    BY <1>5 DEF Projects
  <2>6. \A q \in Procs \ {p} : Projects(coldJob'[q]) <=> Projects(coldJob[q])
    BY <1>4 DEF Projects
  <2>7. \A q \in Procs : coldJob[q].pc = "roots" => q # p /\ coldJob'[q].pc = "roots"
    BY <1>1, <1>4
  <2>8. RootsAgree'
    <3>1. \A q, r \in Procs :
            Projects(coldJob'[q]) /\ Projects(coldJob'[r]) => coldJob'[q].pay = coldJob'[r].pay
      BY <1>4, <2>1, <2>5, <2>6 DEF ColdFits, RootsAgree
    <3>2. ASSUME NEW q \in Procs, Projects(coldJob'[q])
          PROVE  \/ roots' = coldJob'[q].pay
                 \/ roots' = Cold!Empty /\ \E r \in Procs : coldJob'[r].pc = "roots"
      BY <1>2, <1>4, <2>1, <2>5, <2>6, <2>7, <3>2 DEF ColdFits, RootsAgree
    <3> QED
      BY <3>1, <3>2 DEF RootsAgree, Projects, Cold!Empty
  <2>9. ASSUME shown'.version # 0
        PROVE  Whole' \/ \E q \in Procs : Mends(coldJob'[q])
    <3>1. CASE \E q \in Procs \ {p} : Projects(coldJob[q])
      <4>1. PICK q \in Procs \ {p} : Projects(coldJob[q])
        BY <3>1
      <4>2. Mends(coldJob'[q])
        BY <2>6, <4>1 DEF Mends
      <4> QED
        BY <4>2
    <3>2. CASE ~\E q \in Procs \ {p} : Projects(coldJob[q])
      <4>1. ~\E q \in Procs : coldJob[q].pc = "roots"
        BY <2>7, <3>2 DEF Projects
      <4>2. roots = o.pay
        BY <1>1, <2>1, <4>1 DEF ColdFits, RootsAgree
      <4>3. o.pay = bank[o.label]
        BY <1>2, <2>2, <2>9
      <4>4. \A k \in Keys : /\ k \in shown'.keys => roots[k] = bank[o.label][k]
                            /\ k \notin shown'.keys => bank[o.label][k] = Cold!Absent
        BY <1>2, <4>2, <4>3 DEF Cold!KeysOf
      <4> QED
        BY <1>2, <4>4 DEF Whole
    <3> QED
      BY <3>1, <3>2
  <2> QED
    BY <2>3, <2>4, <2>8, <2>9 DEF ColdFits, Mends, Carries, Projects
<1> QED
  BY <1>6, <1>7 DEF ColdInv

LEMMA StopServes ==
  ASSUME ColdInv, NEW p \in Procs, Cold!StopBetween(p) \/ Cold!StopWithin(p)
  PROVE  ColdInv'
<1>1. PICK o : o = coldJob[p] /\ IsColdJob(o)
  BY DEF ColdInv, ColdShape
<1>2. PICK d : d = Cold!Idle /\ IsColdJob(d) /\ d.pc = "idle"
  BY IdleColdJob
<1>3. /\ coldJob' = [coldJob EXCEPT ![p] = d] /\ UNCHANGED <<bank, roots>>
      /\ marred' = (marred \/ Cold!Spoils(p))
  BY <1>2 DEF Cold!StopBetween, Cold!StopWithin, Cold!Stop, Cold!Done
<1>4. \/ UNCHANGED <<written, active, shown>>
      \/ o.pc = "bank" /\ written' = written \ {o.label} /\ UNCHANGED <<active, shown>>
      \/ o.pc = "manifest" /\ active' = 0 /\ UNCHANGED <<written, shown>>
      \/ o.pc = "index" /\ shown'.version = 0 /\ UNCHANGED <<written, active>>
  BY <1>1 DEF Cold!StopBetween, Cold!StopWithin, Cold!At, Cold!NoLabel, Cold!NoIndex
<1>5. /\ coldJob' = [q \in Procs |-> coldJob'[q]] /\ \A q \in Procs : IsColdJob(coldJob'[q])
      /\ coldJob'[p] = d /\ \A q \in Procs \ {p} : coldJob'[q] = coldJob[q]
  BY <1>2, <1>3, ColdJobs DEF ColdInv
<1>6. ColdShape'
  BY <1>3, <1>4, <1>5 DEF ColdInv, ColdShape, Cold!Labels
<1>7. ~Projects(d) /\ ~Carries(d) /\ d.pc # "manifest"
  BY <1>2, ColdPlaces
<1>8. ASSUME ~marred'
      PROVE  ColdFits'
  <2>1. ColdFits
    BY <1>3, <1>8 DEF ColdInv
  <2>2. /\ ~o.again /\ (o.pc = "bank" => o.label \notin written)
        /\ Projects(o) => /\ o.label = active
                          /\ \A q \in Procs \ {p} :
                               /\ ~Projects(coldJob[q])
                               /\ coldJob[q].pc = "manifest" => shown.version # coldJob[q].label
    BY <1>1, <1>3, <1>8 DEF Cold!Spoils, Cold!At, Cold!Others, Cold!Projecting, Cold!Shows, Projects
  <2>3. /\ written' = written /\ active' \in {active, 0} /\ (active' # active => o.pc = "manifest")
        /\ shown' = shown \/ shown'.version = 0
    BY <1>4, <2>2
  <2>4. VersionsWritten'
    BY <2>1, <2>3 DEF ColdFits, VersionsWritten
  <2>5. ASSUME NEW q \in Procs
        PROVE  (Honest(coldJob[q]) /\ Aware(coldJob[q]))'
    <3>1. CASE q = p
      BY <1>5, <1>7, <3>1 DEF Honest, Aware, Carries, Projects
    <3>2. CASE q # p
      <4>1. coldJob'[q] = coldJob[q] /\ Honest(coldJob[q]) /\ Aware(coldJob[q])
        BY <1>5, <2>1, <3>2 DEF ColdFits
      <4>2. Honest(coldJob[q])'
        BY <1>3, <2>3, <4>1 DEF Honest, Carries, Projects
      <4>3. Aware(coldJob[q])'
        BY <2>3, <4>1 DEF Aware, Projects
      <4> QED
        BY <4>2, <4>3
    <3> QED
      BY <3>1, <3>2
  <2>6. RootsAgree'
    <3>1. \A q \in Procs : Projects(coldJob'[q]) => q # p /\ coldJob'[q] = coldJob[q] /\ ~Projects(o)
      BY <1>5, <1>7, <2>2
    <3>2. \A q \in Procs : ~Projects(o) /\ coldJob[q].pc = "roots" => coldJob'[q].pc = "roots"
      BY <1>1, <1>5 DEF Projects
    <3>3. \A q, r \in Procs :
            Projects(coldJob'[q]) /\ Projects(coldJob'[r]) => coldJob'[q].pay = coldJob'[r].pay
      BY <2>1, <3>1 DEF ColdFits, RootsAgree
    <3>4. ASSUME NEW q \in Procs, Projects(coldJob'[q])
          PROVE  \/ roots' = coldJob'[q].pay
                 \/ roots' = Cold!Empty /\ \E r \in Procs : coldJob'[r].pc = "roots"
      BY <1>3, <2>1, <3>1, <3>2, <3>4 DEF ColdFits, RootsAgree
    <3> QED
      BY <3>3, <3>4 DEF RootsAgree, Projects, Cold!Empty
  <2>7. ASSUME shown'.version # 0, Awaited'
        PROVE  Whole' \/ \E q \in Procs : Mends(coldJob'[q])
    <3>1. shown' = shown
      BY <2>3, <2>7
    <3>2. \/ active' = active /\ shown.version = active
          \/ \E q \in Procs \ {p} : coldJob[q].pc = "manifest" /\ coldJob[q].label = shown.version
      BY <1>5, <1>7, <2>3, <2>7, <3>1 DEF Awaited
    <3>3. ~Projects(o)
      <4>1. Projects(o) /\ o.label # 0 /\ o.label = shown.version => o.again
        BY <1>1, <2>1 DEF ColdFits, Aware
      <4> QED
        BY <2>2, <2>7, <3>1, <3>2, <4>1
    <3>4. ~Mends(o) /\ Awaited
      BY <2>2, <3>2, <3>3 DEF Mends, Awaited
    <3>5. CASE Whole
      BY <1>3, <3>1, <3>5 DEF Whole
    <3>6. CASE \E q \in Procs : Mends(coldJob[q])
      BY <1>1, <1>5, <3>4, <3>6
    <3> QED
      BY <2>1, <2>7, <3>1, <3>4, <3>5, <3>6 DEF ColdFits
  <2> QED
    BY <2>4, <2>5, <2>6, <2>7 DEF ColdFits, Mends, Carries, Projects
<1> QED
  BY <1>6, <1>8 DEF ColdInv

LEMMA ColdStep ==
  ASSUME ColdInv, Cold!ColdNext
  PROVE  ColdInv'
BY ReadServes, PersistServes, PatchServes, EnsureServes, MakePatchServes, WriteVersionServes,
   WriteManifestServes, ClearRootsServes, WriteRootsServes, WriteIndexServes, StopServes
   DEF Cold!ColdNext

LEMMA ColdFrame ==
  ASSUME ColdInv, UNCHANGED coldVars
  PROVE  ColdInv'
<1>1. UNCHANGED <<bank, written, active, shown, roots, coldJob, marred>>
  BY DEF coldVars
<1>2. ColdShape'
  BY <1>1 DEF ColdInv, ColdShape, IsColdJob, IsColdRecord, Cold!Labels
<1>3. ColdFits => ColdFits'
  BY <1>1 DEF ColdFits, VersionsWritten, Honest, Aware, RootsAgree, Awaited, Whole, Mends, Carries,
     Projects, Cold!Empty
<1> QED
  BY <1>1, <1>2, <1>3 DEF ColdInv

LEMMA ColdInitInv ==
  ASSUME Init
  PROVE  ColdInv
<1>1. PICK d : d = Cold!Idle /\ IsColdJob(d) /\ d.pc = "idle"
  BY IdleColdJob
<1>2. /\ bank = [l \in Cold!Labels |-> Cold!Empty] /\ written = {} /\ active = 0
      /\ shown.version = 0 /\ roots = Cold!Empty /\ coldJob = [p \in Procs |-> d]
  BY <1>1 DEF Init, Cold!ColdInit, Cold!NoLabel, Cold!NoIndex
<1>3. \A p \in Procs : coldJob[p] = d /\ ~Projects(coldJob[p]) /\ ~Carries(coldJob[p])
  BY <1>1, <1>2, ColdPlaces
<1>4. ColdShape
  BY <1>1, <1>2 DEF ColdShape, Cold!Empty
<1>5. ColdFits
  BY <1>2, <1>3 DEF ColdFits, VersionsWritten, Honest, Aware, RootsAgree
<1> QED
  BY <1>4, <1>5 DEF ColdInv

\* When no process is at work, the active version of the cold memory can be read and the
\* next read serves the whole of it, but for the exceptions of ColdServed.
THEOREM ColdIsServed == Spec => []ColdServed
<1>1. ColdInv /\ [Next]_vars => ColdInv'
  <2> SUFFICES ASSUME ColdInv, [Next]_vars
               PROVE  ColdInv'
    OBVIOUS
  <2>1. CASE Cold!ColdNext
    BY <2>1, ColdStep
  <2>2. CASE UNCHANGED coldVars
    BY <2>2, ColdFrame
  <2> QED
    BY <2>1, <2>2 DEF Next, vars
<1> QED
  BY <1>1, ColdInitInv, ColdServes, PTL DEF Spec

-----------------------------------------------------------------------------
\* The check-ins: the clock.

\* Every nonempty set of natural numbers has a least member.
LEMMA LeastNumber ==
  ASSUME NEW T \in SUBSET Nat, T # {}
  PROVE  \E x \in T : \A y \in T : x <= y
<1> DEFINE R == {ss \in Nat \X Nat : ss[1] < ss[2]}
<1>1. IsWellFoundedOn(R, Nat)
  BY NatLessThanWellFounded DEF OpToRel
<1>2. \A x, y \in Nat : y < x => <<y, x>> \in R
  OBVIOUS
<1> HIDE DEF R
<1>3. PICK x \in T : \A y \in T : ~(<<y, x>> \in R)
  BY <1>1, WFMin
<1>4. ASSUME NEW y \in T PROVE x <= y
  <2>1. x \in Nat /\ y \in Nat /\ ~(y < x)
    BY <1>2, <1>3
  <2> QED
    BY <2>1
<1> QED
  BY <1>4

\* A set of numbers below a bound has a greatest member.
LEMMA GreatestNumber ==
  ASSUME NEW n \in Int, NEW T \in SUBSET Int, T # {}, \A x \in T : x <= n
  PROVE  \E x \in T : \A y \in T : y <= x
<1> DEFINE D == {n - x : x \in T}
<1>1. D \in SUBSET Nat /\ D # {}
  <2>1. \A x \in T : n - x \in Nat
    OBVIOUS
  <2> QED
    BY <2>1
<1>2. PICK d \in D : \A e \in D : d <= e
  BY <1>1, LeastNumber
<1>3. PICK x \in T : d = n - x
  BY <1>2
<1>4. ASSUME NEW y \in T PROVE y <= x
  BY <1>2, <1>3
<1> QED
  BY <1>4

LEMMA GreatestIsMax ==
  ASSUME NEW n \in Int, NEW T \in SUBSET Int, T # {}, \A x \in T : x <= n
  PROVE  Rule!Max(T) \in T /\ \A y \in T : y <= Rule!Max(T)
<1>1. \E x \in T : \A y \in T : x >= y
  BY GreatestNumber
<1>2. Rule!Max(T) \in T /\ \A y \in T : Rule!Max(T) >= y
  BY <1>1 DEF Rule!Max
<1> QED
  BY <1>2

LEMMA LeastIsMin ==
  ASSUME NEW T \in SUBSET Nat, T # {}
  PROVE  Rule!Min(T) \in T /\ \A y \in T : Rule!Min(T) <= y
<1>1. \E x \in T : \A y \in T : x =< y
  BY LeastNumber
<1> QED
  BY <1>1 DEF Rule!Min

LEMMA MaxOfTwo ==
  ASSUME NEW a \in Int, NEW b \in Int
  PROVE  Rule!Max({a, b}) = IF a >= b THEN a ELSE b
<1>1. \E x \in {a, b} : \A y \in {a, b} : x >= y
  OBVIOUS
<1> QED
  BY <1>1 DEF Rule!Max

LEMMA MinOfTwo ==
  ASSUME NEW a \in Int, NEW b \in Int
  PROVE  Rule!Min({a, b}) = IF a <= b THEN a ELSE b
<1>1. \E x \in {a, b} : \A y \in {a, b} : x =< y
  OBVIOUS
<1> QED
  BY <1>1 DEF Rule!Min

LEMMA NonNegative ==
  ASSUME NEW a \in Nat, NEW b \in Nat
  PROVE  a * b \in Nat
  OBVIOUS

\* Division: quotient and remainder are the only ones.
LEMMA Quotient ==
  ASSUME NEW d \in Nat \ {0}, NEW x \in Int
  PROVE  /\ x \div d \in Int /\ x % d \in 0..(d - 1)
         /\ x = d * (x \div d) + (x % d)
<1>1. x \div d \in Int
  OBVIOUS
<1>2. x % d \in 0..(d - 1)
  OBVIOUS
<1>3. \A q, r : q = x \div d /\ r = x % d => x = d * q + r
  OBVIOUS
<1>4. x = d * (x \div d) + (x % d)
  BY <1>3, Zenon
<1> QED
  BY <1>1, <1>2, <1>4, Zenon

LEMMA QuotientIs ==
  ASSUME NEW d \in Nat \ {0}, NEW q \in Int, NEW r \in 0..(d - 1)
  PROVE  (d * q + r) \div d = q /\ (d * q + r) % d = r
<1> DEFINE x == d * q + r
           p == x \div d
           s == x % d
<1>1. x \in Int
  OBVIOUS
<1>2. p \in Int /\ s \in 0..(d - 1) /\ x = d * p + s
  BY <1>1, Quotient
<1> HIDE DEF p, s
<1>3. ~(p >= q + 1)
  <2> SUFFICES ASSUME p >= q + 1 PROVE FALSE
    OBVIOUS
  <2>1. PICK k \in Nat : p = q + 1 + k
    <3>1. p - q - 1 \in Nat
      BY <1>2
    <3> QED
      BY <1>2, <3>1
  <2>2. d * p = d * q + d + d * k
    BY <2>1
  <2>3. d * k \in Nat /\ d * q \in Int
    BY <2>1, NonNegative
  <2> QED
    BY <1>2, <2>2, <2>3
<1>4. ~(q >= p + 1)
  <2> SUFFICES ASSUME q >= p + 1 PROVE FALSE
    OBVIOUS
  <2>1. PICK k \in Nat : q = p + 1 + k
    <3>1. q - p - 1 \in Nat
      BY <1>2
    <3> QED
      BY <1>2, <3>1
  <2>2. d * q = d * p + d + d * k
    BY <1>2, <2>1
  <2>3. d * k \in Nat /\ d * p \in Int
    BY <1>2, <2>1, NonNegative
  <2> QED
    BY <1>2, <2>2, <2>3
<1>5. p = q
  BY <1>2, <1>3, <1>4
<1>6. s = r
  BY <1>2, <1>5
<1> QED
  BY <1>5, <1>6 DEF p, s

LEMMA DayBounds ==
  /\ Day \in Nat /\ Day >= 4 /\ Year \in Nat /\ Year >= 1 /\ Step \in Nat /\ Step >= 1
  /\ Margin \in Nat /\ Step + Margin <= Day
BY BoundsAssumption

\* Minutes of this day and of the next one.
LEMMA MinuteNear ==
  /\ \A x \in 0..(Day - 1) : x % Day = x /\ x \div Day = 0
  /\ \A x \in Day..(2 * Day - 1) : x % Day = x - Day /\ x \div Day = 1
<1>1. ASSUME NEW x \in 0..(Day - 1) PROVE x % Day = x /\ x \div Day = 0
  <2>1. Day * 0 + x = x
    BY DayBounds
  <2> QED
    BY <2>1, DayBounds, QuotientIs
<1>2. ASSUME NEW x \in Day..(2 * Day - 1) PROVE x % Day = x - Day /\ x \div Day = 1
  <2>1. x - Day \in 0..(Day - 1) /\ Day * 1 + (x - Day) = x
    BY DayBounds
  <2> QED
    BY <2>1, DayBounds, QuotientIs
<1> QED
  BY <1>1, <1>2

\* The end of a quiet window is where it is said to be.
LEMMA WindowsEnd ==
  ASSUME NEW w \in Rule!Windows, NEW m \in Rule!Minutes
  PROVE  Rule!QuietEnds(w, m)
<1> DEFINE a == w[1]
           b == w[2]
           left == Rule!UntilEnd(m, w)
<1>1. a \in 0..(Day - 1) /\ b \in 0..(Day - 1) /\ a # b /\ m \in 0..(Day - 1)
  BY DEF Rule!Windows, Rule!Minutes
<1>2. \A x : Rule!InWindow(x, w) <=> IF a < b THEN a <= x /\ x < b ELSE a <= x \/ x < b
  BY DEF Rule!InWindow
<1>3. left = IF ~Rule!InWindow(m, w) THEN 0
             ELSE IF a >= b /\ m >= a THEN Day - m + b ELSE b - m
  BY DEF Rule!UntilEnd
<1> HIDE DEF a, b, left
<1>4. ASSUME Rule!InWindow(m, w)
      PROVE  (m + left) % Day = b /\ \A k \in 0..(left - 1) : Rule!InWindow((m + k) % Day, w)
  <2>1. CASE a >= b /\ m >= a
    <3>1. left = Day - m + b
      BY <1>3, <1>4, <2>1
    <3>2. m + left \in Day..(2 * Day - 1) /\ (m + left) - Day = b
      BY <1>1, <3>1, DayBounds
    <3>3. ASSUME NEW k \in 0..(left - 1) PROVE Rule!InWindow((m + k) % Day, w)
      <4>1. CASE m + k < Day
        <5>1. m + k \in 0..(Day - 1) /\ a <= m + k
          BY <1>1, <2>1, <4>1, DayBounds
        <5>2. (m + k) % Day = m + k
          BY <5>1, MinuteNear
        <5> QED
          BY <1>1, <1>2, <2>1, <5>1, <5>2
      <4>2. CASE m + k >= Day
        <5>1. m + k \in Day..(2 * Day - 1) /\ (m + k) - Day < b
          BY <1>1, <3>1, <4>2, DayBounds
        <5>2. (m + k) % Day = (m + k) - Day
          BY <5>1, MinuteNear, Zenon
        <5> QED
          BY <1>1, <1>2, <2>1, <5>1, <5>2
      <4> QED
        BY <1>1, <3>1, <4>1, <4>2, DayBounds
    <3>4. (m + left) % Day = (m + left) - Day
      BY <3>2, MinuteNear, Zenon
    <3> QED
      BY <3>2, <3>3, <3>4
  <2>2. CASE ~(a >= b /\ m >= a)
    <3>1. left = b - m /\ m < b /\ (a < b => a <= m)
      BY <1>1, <1>2, <1>3, <1>4, <2>2
    <3>2. m + left = b
      BY <1>1, <3>1
    <3>3. ASSUME NEW k \in 0..(left - 1) PROVE Rule!InWindow((m + k) % Day, w)
      <4>1. m + k \in 0..(Day - 1) /\ m + k < b /\ m <= m + k
        BY <1>1, <3>1, DayBounds
      <4>2. (m + k) % Day = m + k
        BY <4>1, MinuteNear
      <4> QED
        BY <1>1, <1>2, <3>1, <4>1, <4>2
    <3> QED
      BY <1>1, <3>2, <3>3, MinuteNear
  <2> QED
    BY <2>1, <2>2
<1>5. ~Rule!InWindow(m, w) => left = 0
  BY <1>3
<1> QED
  BY <1>4, <1>5 DEF Rule!QuietEnds, left, b

\* Pressure on tokens only stretches the interval.
LEMMA IntervalsStretch ==
  ASSUME NEW lo \in Rule!Minutes, NEW hi \in Rule!Minutes, NEW bound \in Rule!Minutes
  PROVE  Rule!StretchKeeps(lo, hi, bound)
<1>1. lo \in Nat /\ hi \in Nat /\ bound \in Nat
  BY DEF Rule!Minutes
<1>2. ASSUME NEW n \in 1..3, lo <= hi
      PROVE  LET r == Rule!Stretched(<<lo, hi>>, n, bound)
             IN  lo <= r[1] /\ r[1] <= r[2] /\ hi <= r[2] /\ r[2] <= Rule!Max({hi, bound})
  <2> DEFINE most == Rule!Max({bound, hi})
             low == lo * n
             high == hi * n
             r1 == Rule!Min({most, low})
             r2 == Rule!Min({most, high})
             r3 == Rule!Max({r1, r2})
  <2>1. most \in Nat /\ most >= hi /\ most = Rule!Max({hi, bound})
    BY <1>1, MaxOfTwo
  <2>2. low \in Nat /\ high \in Nat /\ low >= lo /\ high >= hi /\ high >= low
    BY <1>1, <1>2
  <2> HIDE DEF most, low, high
  <2>3. r1 = IF most <= low THEN most ELSE low
    BY <2>1, <2>2, MinOfTwo
  <2>4. r2 = IF most <= high THEN most ELSE high
    BY <2>1, <2>2, MinOfTwo
  <2> HIDE DEF r1, r2
  <2>5. r3 = IF r1 >= r2 THEN r1 ELSE r2
    <3>1. r1 \in Int /\ r2 \in Int
      BY <2>1, <2>2, <2>3, <2>4
    <3> QED
      BY <3>1, MaxOfTwo
  <2> HIDE DEF r3
  <2>6. Rule!Stretched(<<lo, hi>>, n, bound) = IF n = 1 THEN <<lo, hi>> ELSE <<r1, r3>>
    BY DEF Rule!Stretched, most, low, high, r1, r2, r3
  <2>7. lo <= r1 /\ r1 <= r3 /\ hi <= r3 /\ r3 <= most /\ r1 \in Nat /\ r3 \in Nat
    BY <1>1, <1>2, <2>1, <2>2, <2>3, <2>4, <2>5
  <2>8. CASE n = 1
    <3>1. Rule!Stretched(<<lo, hi>>, n, bound) = <<lo, hi>>
      BY <2>6, <2>8
    <3> QED
      BY <1>1, <1>2, <2>1, <3>1
  <2>9. CASE n # 1
    <3>1. Rule!Stretched(<<lo, hi>>, n, bound) = <<r1, r3>>
      BY <2>6, <2>9
    <3> QED
      BY <2>1, <2>7, <3>1
  <2> QED
    BY <2>8, <2>9
<1>3. \A used \in 0..3 : Rule!Multiplier(used, [severe |-> 3, severeTimes |-> 3,
                                               backoff |-> 2, times |-> 2]) \in 1..3
  BY DEF Rule!Multiplier
<1> QED
  BY <1>2, <1>3 DEF Rule!StretchKeeps

LEMMA DayParts ==
  \A x \in Int : x \div Day \in Int /\ x % Day \in 0..(Day - 1)
                   /\ x = Day * (x \div Day) + (x % Day)
BY DayBounds, Quotient

\* The day and the minute of a time that is at most a day and some minutes later.
LEMMA LaterDay ==
  ASSUME NEW now \in Nat, NEW k \in Nat, k + (now % Day) < 2 * Day
  PROVE  LET d == now \div Day
             r == now % Day
         IN  /\ d \in Nat /\ r \in 0..(Day - 1) /\ now = Day * d + r
             /\ r + k < Day => (now + k) \div Day = d /\ (now + k) % Day = r + k
             /\ r + k >= Day => (now + k) \div Day = d + 1 /\ (now + k) % Day = (r + k) - Day
<1> DEFINE d == now \div Day
           r == now % Day
<1>1. d \in Int /\ r \in 0..(Day - 1) /\ now = Day * d + r /\ Day \in Nat \ {0}
  <2>1. now \in Int /\ Day \in Nat \ {0}
    BY DayBounds
  <2> QED
    BY <2>1, DayParts, Zenon
<1>2. k + r < 2 * Day
  OBVIOUS
<1> HIDE DEF d, r
<1>3. d \in Nat
  <2>1. ~(d <= -1)
    <3> SUFFICES ASSUME d <= -1 PROVE FALSE
      OBVIOUS
    <3>1. -1 - d \in Nat
      BY <1>1
    <3>2. Day * (-1 - d) \in Nat
      BY <1>1, <3>1, NonNegative
    <3>3. Day * (-1 - d) = -Day - Day * d
      BY <1>1
    <3> QED
      BY <1>1, <3>2, <3>3
  <2> QED
    BY <1>1, <2>1
<1>4. ASSUME r + k < Day PROVE (now + k) \div Day = d /\ (now + k) % Day = r + k
  <2>1. now + k = Day * d + (r + k) /\ r + k \in 0..(Day - 1)
    BY <1>1, <1>4
  <2>2. PICK h \in 0..(Day - 1) : h = r + k
    BY <2>1
  <2>3. now + k = Day * d + h
    BY <2>1, <2>2, Zenon
  <2>4. (Day * d + h) \div Day = d /\ (Day * d + h) % Day = h
    BY <1>1, <2>2, QuotientIs, Zenon
  <2> QED
    BY <2>2, <2>3, <2>4, Zenon
<1>5. ASSUME r + k >= Day PROVE (now + k) \div Day = d + 1 /\ (now + k) % Day = (r + k) - Day
  <2>1. (r + k) - Day \in 0..(Day - 1) /\ d + 1 \in Int
    BY <1>1, <1>2, <1>5
  <2>2. Day * (d + 1) = Day * d + Day
    BY <1>1
  <2>3. now + k = Day * (d + 1) + ((r + k) - Day)
    BY <1>1, <2>2
  <2>4. PICK e \in Int, h \in 0..(Day - 1) : e = d + 1 /\ h = (r + k) - Day
    BY <2>1
  <2>5. now + k = Day * e + h
    BY <2>3, <2>4, Zenon
  <2>6. (Day * e + h) \div Day = e /\ (Day * e + h) % Day = h
    BY <1>1, <2>4, QuotientIs, Zenon
  <2> QED
    BY <2>4, <2>5, <2>6, Zenon
<1> QED
  BY <1>1, <1>3, <1>4, <1>5 DEF d, r

LEMMA TimesAreNumbers == Rule!Times \subseteq Nat /\ Year * Day \in Nat \ {0}
<1>1. Year * Day \in Nat
  BY DayBounds, NonNegative
<1>2. Year * Day >= Day
  <2>1. (Year - 1) * Day \in Nat
    BY DayBounds, NonNegative
  <2>2. (Year - 1) * Day = Year * Day - Day
    BY DayBounds
  <2> QED
    BY <1>1, <2>1, <2>2, DayBounds
<1> QED
  BY <1>1, <1>2, DayBounds DEF Rule!Times

\* A pause ends early on the next day.
LEMMA PausesEnd ==
  ASSUME NEW now \in Rule!Times
  PROVE  Rule!PauseEnds(now)
<1> DEFINE d == now \div Day
           r == now % Day
           n == Day \div Step + 1
           M == {Step * i : i \in 1..n}
           S == {k \in M : (now + k) \div Day # d}
           m == Rule!Min(S)
<1>1. now \in Nat /\ d \in Nat /\ r \in 0..(Day - 1) /\ now = Day * d + r
  <2>1. now \in Nat
    BY TimesAreNumbers
  <2>2. 0 + (now % Day) < 2 * Day /\ 0 \in Nat
    <3>1. now % Day \in 0..(Day - 1)
      BY <2>1, DayBounds, Quotient
    <3> QED
      BY <3>1, DayBounds
  <2> QED
    BY <2>1, <2>2, LaterDay
<1>2. n \in Nat \ {0} /\ Step * n > Day
  <2> DEFINE q == Day \div Step
             s == Day % Step
  <2>1. q \in Int /\ s \in 0..(Step - 1) /\ Day = Step * q + s
    BY DayBounds, Quotient
  <2> HIDE DEF q, s
  <2>2. q >= 0
    <3> SUFFICES ASSUME q <= -1 PROVE FALSE
      BY <2>1
    <3>1. Step * (-1 - q) \in Nat
      BY <2>1, DayBounds, NonNegative
    <3>2. Step * (-1 - q) = -Step - Step * q
      BY <2>1, DayBounds
    <3> QED
      BY <2>1, <3>1, <3>2, DayBounds
  <2>3. Step * (q + 1) = Step * q + Step
    BY <2>1, DayBounds
  <2> QED
    BY <2>1, <2>2, <2>3, DayBounds DEF q
<1> HIDE DEF d, r, n
<1>3. \A k \in M : k \in Nat
  BY <1>2, DayBounds, NonNegative
<1>4. \A k \in Nat : r + k < 2 * Day =>
        (now + k) \div Day = (IF r + k < Day THEN d ELSE d + 1)
        /\ (now + k) % Day = (IF r + k < Day THEN r + k ELSE (r + k) - Day)
  <2> SUFFICES ASSUME NEW k \in Nat, r + k < 2 * Day
               PROVE  /\ (now + k) \div Day = (IF r + k < Day THEN d ELSE d + 1)
                      /\ (now + k) % Day = (IF r + k < Day THEN r + k ELSE (r + k) - Day)
    OBVIOUS
  <2>1. k + (now % Day) < 2 * Day
    BY <1>1 DEF r
  <2>2. /\ r + k < Day => (now + k) \div Day = d /\ (now + k) % Day = r + k
        /\ r + k >= Day => (now + k) \div Day = d + 1 /\ (now + k) % Day = (r + k) - Day
    BY <1>1, <2>1, LaterDay, Zenon DEF d, r
  <2>3. ~(r + k < Day) => r + k >= Day
    BY <1>1, DayBounds
  <2> QED
    BY <2>2, <2>3, Zenon
<1>5. Step * n \in S
  <2>1. Step * n \in M
    BY <1>2
  <2>2. Step * n \in Nat
    BY <1>3, <2>1
  <2> DEFINE x == now + Step * n
             e == x \div Day
             u == x % Day
  <2>3. x \in Nat /\ x >= Day * d + Day
    BY <1>1, <1>2, <2>2, DayBounds
  <2>4. e \in Int /\ u \in 0..(Day - 1) /\ x = Day * e + u
    <3>1. x \in Int
      BY <2>3
    <3> HIDE DEF x
    <3> QED
      BY <3>1, DayParts, Zenon
  <2>5. e # d
    <3> HIDE DEF x, e, u
    <3> SUFFICES ASSUME e = d PROVE FALSE
      OBVIOUS
    <3>1. Day * e = Day * d /\ Day * d \in Nat
      BY <1>1, DayBounds, NonNegative
    <3> QED
      BY <2>3, <2>4, <3>1, DayBounds
  <2> QED
    BY <2>1, <2>5
<1>6. m \in S /\ \A k \in S : m <= k
  <2>1. S \in SUBSET Nat /\ S # {}
    BY <1>3, <1>5
  <2> HIDE DEF S
  <2> QED
    BY <2>1, LeastIsMin
<1>7. PICK i \in 1..n : m = Step * i
  BY <1>6
<1>8. m \in Nat
  BY <1>3, <1>6
<1>9. m >= Step /\ r + (m - Step) < Day
  <2>1. CASE i = 1
    <3>1. m = Step
      BY <1>7, <2>1, DayBounds
    <3> QED
      BY <1>1, <3>1, DayBounds
  <2>2. CASE i # 1
    <3>1. i - 1 \in 1..n
      BY <1>2, <1>7, <2>2
    <3>2. Step * (i - 1) = m - Step
      BY <1>7, <3>1, DayBounds
    <3>3. m - Step \in M
      BY <3>1, <3>2
    <3>4. m - Step \in Nat
      BY <1>3, <3>3
    <3>5. m - Step \notin S
      <4>1. ~(m <= m - Step)
        BY <1>8, DayBounds
      <4> HIDE DEF S
      <4> QED
        BY <1>6, <4>1
    <3>6. (now + (m - Step)) \div Day = d
      BY <3>3, <3>5
    <3> DEFINE x == now + (m - Step)
               u == x % Day
    <3>7. x \in Int
      BY <1>1, <3>4
    <3>8. x = Day * d + u /\ u \in 0..(Day - 1)
      <4> HIDE DEF x
      <4> QED
        BY <3>6, <3>7, DayParts, Zenon DEF x
    <3> HIDE DEF u
    <3>9. now + (m - Step) = Day * d + u /\ u \in 0..(Day - 1)
      BY <3>8
    <3>10. Day * d \in Nat
      BY <1>1, DayBounds, NonNegative
    <3> QED
      BY <1>1, <1>8, <3>4, <3>9, <3>10, DayBounds
  <2> QED
    BY <2>1, <2>2
<1>10. r + m >= Day
  <2>1. (now + m) \div Day # d
    BY <1>6
  <2>2. r + m < 2 * Day
    BY <1>1, <1>8, <1>9, DayBounds
  <2> HIDE DEF m
  <2>3. ~(r + m < Day)
    BY <1>4, <1>8, <2>1, <2>2, Zenon
  <2> QED
    BY <1>1, <1>8, <2>3, DayBounds
<1>11. Rule!Pause(now) = m + Margin
  BY DEF Rule!Pause, Rule!DayOf, S, M, n, d
<1> DEFINE p == m + Margin
<1>12. p \in Nat /\ r + p >= Day /\ r + p < Day + Step + Margin /\ r + p < 2 * Day
  BY <1>1, <1>8, <1>9, <1>10, DayBounds
<1> HIDE DEF m, p
<1>13. (now + p) \div Day = d + 1 /\ (now + p) % Day = (r + p) - Day
  <2>1. ~(r + p < Day)
    BY <1>1, <1>12, DayBounds
  <2> QED
    BY <1>4, <1>12, <2>1
<1>14. (r + p) - Day <= Step + Margin
  BY <1>1, <1>12, DayBounds
<1> QED
  BY <1>11, <1>13, <1>14 DEF Rule!PauseEnds, Rule!DayOf, Rule!MinuteOf, d, p

\* Minute t of day e.
LEMMA MinuteOfDay ==
  ASSUME NEW e \in Nat, NEW t \in Rule!Minutes
  PROVE  /\ Day * e + t \in Nat
         /\ (Day * e + t) \div Day = e /\ (Day * e + t) % Day = t
<1>1. t \in 0..(Day - 1) /\ Day \in Nat \ {0} /\ e \in Int
  BY DayBounds DEF Rule!Minutes
<1>2. Day * e \in Nat
  BY DayBounds, NonNegative
<1>3. (Day * e + t) \div Day = e /\ (Day * e + t) % Day = t
  BY <1>1, QuotientIs
<1>4. Day * e + t \in Nat
  BY <1>1, <1>2
<1> QED
  BY <1>3, <1>4

\* The reset of a notice that names a time of day, or a day and a time.
LEMMA ClockReset ==
  ASSUME NEW now \in Rule!Times, NEW n \in Rule!Notices, n.kind = "clock", NEW fallback
  PROVE  LET a == Day * (now \div Day) + n.minute + Margin
         IN  /\ n.minute \in Rule!Minutes
             /\ Rule!ResetAt(now, n, fallback) = IF a <= now THEN a + Day ELSE a
             /\ a \in Nat /\ now < a + Day /\ now \in Nat /\ now \div Day \in Nat
<1> DEFINE d == now \div Day
           r == now % Day
           a == Day * d + n.minute + Margin
<1>1. n.minute \in Rule!Minutes
  BY DEF Rule!Notices
<1>2. now \in Nat /\ d \in Nat /\ r \in 0..(Day - 1) /\ now = Day * d + r
  <2>1. now \in Nat
    BY TimesAreNumbers
  <2>2. now % Day \in 0..(Day - 1)
    BY <2>1, DayParts
  <2>3. 0 + (now % Day) < 2 * Day
    BY <2>2, DayBounds
  <2> QED
    BY <2>1, <2>3, LaterDay
<1>3. Rule!ResetAt(now, n, fallback)
        = LET at == d * Day + n.minute + Margin IN IF at <= now THEN at + Day ELSE at
  BY DEF Rule!ResetAt, Rule!DayOf
<1> HIDE DEF d, r
<1>4. d * Day = Day * d /\ Day * d \in Nat
  BY <1>2, DayBounds, NonNegative
<1>5. n.minute \in Nat
  BY <1>1, DayBounds DEF Rule!Minutes
<1>6. a \in Nat /\ now < a + Day
  BY <1>2, <1>4, <1>5, DayBounds
<1>7. Rule!ResetAt(now, n, fallback) = IF a <= now THEN a + Day ELSE a
  BY <1>3, <1>4
<1> QED
  BY <1>1, <1>2, <1>6, <1>7 DEF d

LEMMA DateReset ==
  ASSUME NEW now \in Rule!Times, NEW n \in Rule!Notices, n.kind = "date", NEW fallback
  PROVE  LET a == Day * n.day + n.minute + Margin
         IN  /\ n.minute \in Rule!Minutes /\ n.day \in 0..(Year - 1)
             /\ Rule!ResetAt(now, n, fallback) = IF a <= now THEN a + Year * Day ELSE a
             /\ a \in Nat /\ now < a + Year * Day
<1> DEFINE a == Day * n.day + n.minute + Margin
<1>1. n.minute \in Rule!Minutes /\ n.day \in 0..(Year - 1)
  BY DEF Rule!Notices
<1>2. Rule!ResetAt(now, n, fallback)
        = LET at == n.day * Day + n.minute + Margin IN IF at <= now THEN at + Year * Day ELSE at
  BY DEF Rule!ResetAt
<1> DEFINE e == n.day
           y == Year * Day
<1>3. e \in Nat /\ y \in Nat /\ now \in 0..(y - 1)
  BY <1>1, DayBounds, TimesAreNumbers DEF Rule!Times
<1> HIDE DEF e, y
<1>4. e * Day = Day * e /\ Day * e \in Nat
  BY <1>3, DayBounds, NonNegative
<1>5. n.minute \in Nat
  BY <1>1, DayBounds DEF Rule!Minutes
<1>6. a \in Nat /\ now < a + y
  BY <1>3, <1>4, <1>5, DayBounds DEF e
<1>7. Rule!ResetAt(now, n, fallback) = IF a <= now THEN a + y ELSE a
  BY <1>2, <1>4 DEF e, y
<1> QED
  BY <1>1, <1>6, <1>7 DEF y

\* A cooldown ends with the next reset that the notice announces.
LEMMA CooldownsEnd ==
  ASSUME NEW now \in Rule!Times, NEW n \in Rule!Notices
  PROVE  Rule!CooldownEnds(now, n)
<1> DEFINE reset == Rule!ResetAt(now, n, Day)
<1>1. CASE n.kind = "clock"
  <2> DEFINE d == now \div Day
             t == n.minute
             a == Day * d + t + Margin
  <2>1. /\ t \in Rule!Minutes /\ reset = (IF a <= now THEN a + Day ELSE a)
        /\ a \in Nat /\ now < a + Day /\ now \in Nat /\ d \in Nat
    BY <1>1, ClockReset
  <2>2. t \in Nat
    BY <2>1, DayBounds DEF Rule!Minutes
  <2> HIDE DEF d, t, reset
  <2>3. Day * d \in Nat /\ Day * (d + 1) = Day * d + Day
    BY <2>1, DayBounds, NonNegative
  <2>4. CASE a <= now
    <3>1. reset = a + Day /\ reset - Margin = Day * (d + 1) + t
      BY <2>1, <2>2, <2>3, <2>4, DayBounds
    <3>2. (reset - Margin) % Day = t
      BY <2>1, <3>1, MinuteOfDay
    <3>3. reset > now /\ (reset - Margin) + Margin > now
          /\ (reset - Margin) + Margin - Day <= now
      BY <2>1, <2>4, <3>1, DayBounds
    <3> QED
      BY <1>1, <3>2, <3>3 DEF Rule!CooldownEnds, reset, t
  <2>5. CASE ~(a <= now)
    <3>1. reset = a /\ reset - Margin = Day * d + t
      BY <2>1, <2>2, <2>3, <2>5, DayBounds
    <3>2. (reset - Margin) % Day = t
      BY <2>1, <3>1, MinuteOfDay
    <3>3. (reset - Margin) + Margin > now
      BY <2>1, <2>5, <3>1, DayBounds
    <3>4. ((reset - Margin) - Day) \div Day = d - 1
      <4>1. t \in 0..(Day - 1) /\ d - 1 \in Int /\ Day \in Nat \ {0}
        BY <2>1, DayBounds DEF Rule!Minutes
      <4>2. Day * (d - 1) = Day * d - Day
        BY <2>1, DayBounds
      <4>3. (reset - Margin) - Day = Day * (d - 1) + t
        BY <2>2, <2>3, <3>1, <4>2, DayBounds
      <4> QED
        BY <4>1, <4>3, QuotientIs
    <3>5. d - 1 < d
      BY <2>1
    <3> QED
      BY <1>1, <3>2, <3>3, <3>4, <3>5 DEF Rule!CooldownEnds, reset, t, d
  <2> QED
    BY <2>4, <2>5
<1>2. CASE n.kind = "date"
  <2> DEFINE y == Year * Day
             e == n.day
             t == n.minute
             a == Day * e + t + Margin
  <2>1. /\ t \in Rule!Minutes /\ e \in 0..(Year - 1)
        /\ reset = (IF a <= now THEN a + y ELSE a)
        /\ a \in Nat /\ now < a + y
    BY <1>2, DateReset
  <2>2. t \in Nat /\ t <= Day - 1 /\ e \in Nat /\ now \in 0..(y - 1) /\ y \in Nat \ {0}
    BY <2>1, DayBounds, TimesAreNumbers DEF Rule!Minutes, Rule!Times
  <2>3. y = Day * Year
    BY DayBounds
  <2> HIDE DEF y, e, t, reset
  <2>4. Day * e \in Nat /\ Day * (e + Year) = Day * e + y
    BY <2>2, <2>3, DayBounds, NonNegative
  <2>5. CASE a <= now
    <3>1. reset = a + y /\ reset - Margin = Day * (e + Year) + t /\ e + Year \in Nat
      BY <2>1, <2>2, <2>4, <2>5, DayBounds
    <3>2. (reset - Margin) % Day = t /\ (reset - Margin) \div Day = e + Year
      BY <2>1, <3>1, MinuteOfDay
    <3>3. (reset - Margin) + Margin > now /\ (reset - Margin) + Margin - y <= now
      BY <2>1, <2>2, <2>5, <3>1, DayBounds
    <3>4. (e + Year) % Year = e
      <4>1. Year * 1 + e = e + Year /\ Year \in Nat \ {0} /\ 1 \in Int
        BY <2>2, DayBounds
      <4> QED
        BY <2>1, <4>1, QuotientIs
    <3> QED
      BY <1>2, <3>2, <3>3, <3>4 DEF Rule!CooldownEnds, reset, t, e, y
  <2>6. CASE ~(a <= now)
    <3>1. reset = a /\ reset - Margin = Day * e + t
      BY <2>1, <2>2, <2>4, <2>6, DayBounds
    <3>2. (reset - Margin) % Day = t /\ (reset - Margin) \div Day = e
      BY <2>1, <2>2, <3>1, MinuteOfDay
    <3>3. (reset - Margin) + Margin > now
      BY <2>1, <2>2, <2>6, <3>1, DayBounds
    <3>4. e % Year = e
      <4>1. Year * 0 + e = e /\ Year \in Nat \ {0} /\ 0 \in Int
        BY <2>2, DayBounds
      <4> QED
        BY <2>1, <4>1, QuotientIs
    <3>5. Day * e + t \in 0..(y - 1)
      <4>1. Year - 1 - e \in Nat
        BY <2>1, DayBounds
      <4>2. Day * (Year - 1 - e) \in Nat /\ Day * (Year - 1 - e) = y - Day - Day * e
        BY <2>2, <2>3, <4>1, DayBounds, NonNegative
      <4> QED
        BY <2>2, <2>4, <4>2, DayBounds
    <3>6. ((reset - Margin) - y) \div y = -1
      <4>1. y * (-1) + (Day * e + t) = (Day * e + t) - y
        BY <2>2, <2>4
      <4>2. (y * (-1) + (Day * e + t)) \div y = -1
        BY <2>2, <3>5, QuotientIs
      <4> QED
        BY <3>1, <4>1, <4>2
    <3>7. now \div y = 0
      <4>1. y * 0 + now = now
        BY <2>2
      <4> QED
        BY <2>2, <4>1, QuotientIs
    <3> QED
      BY <1>2, <3>2, <3>3, <3>4, <3>6, <3>7 DEF Rule!CooldownEnds, reset, t, e, y
  <2> QED
    BY <2>5, <2>6
<1>3. CASE n.kind \notin {"clock", "date"}
  BY <1>3 DEF Rule!CooldownEnds
<1> QED
  BY <1>1, <1>2, <1>3

-----------------------------------------------------------------------------
\* The check-ins: two days of rounds.

LEMMA RuleCardinality ==
  ASSUME NEW S
  PROVE  Rule!Cardinality(S) = Cardinality(S)
BY DEF Rule!Cardinality, Cardinality

\* Where every context has used one token, as many were used as there are contexts.
LEMMA SumOfOnes ==
  ASSUME NEW contexts, NEW now, IsFiniteSet(Rule!Today(contexts, now)),
         \A x \in Rule!Today(contexts, now) : contexts[x].tokens = 1
  PROVE  Rule!TokensToday(contexts, now) = Cardinality(Rule!Today(contexts, now))
<1> DEFINE S == Rule!Today(contexts, now)
           sum == CHOOSE f : f = [s \in SUBSET S |->
                    IF s = {} THEN 0
                    ELSE contexts[CHOOSE x \in s : TRUE].tokens + f[s \ {CHOOSE x \in s : TRUE}]]
           size == [s \in SUBSET S |-> Cardinality(s)]
<1>1. Rule!TokensToday(contexts, now) = sum[S]
  BY DEF Rule!TokensToday, Rule!MapThenSumSet, Rule!MapThenFoldSet
<1> HIDE DEF S
<1>2. \A s \in SUBSET S : IsFiniteSet(s) /\ Cardinality(s) \in Nat
  BY FS_Subset, FS_CardinalityType DEF S
<1>3. ASSUME NEW s \in SUBSET S, s # {}
      PROVE  LET x == CHOOSE x \in s : TRUE
             IN  /\ x \in s /\ contexts[x].tokens = 1 /\ s \ {x} \in SUBSET S
                 /\ Cardinality(s) = 1 + Cardinality(s \ {x})
  <2> DEFINE x == CHOOSE x \in s : TRUE
  <2>1. x \in s
    BY <1>3
  <2> HIDE DEF x
  <2>2. Cardinality(s \ {x}) = Cardinality(s) - 1
    BY <1>2, <2>1, FS_RemoveElement
  <2> QED
    BY <1>2, <2>1, <2>2 DEF x, S
<1>4. size = [s \in SUBSET S |->
                IF s = {} THEN 0
                ELSE contexts[CHOOSE x \in s : TRUE].tokens + size[s \ {CHOOSE x \in s : TRUE}]]
  <2>1. ASSUME NEW s \in SUBSET S
        PROVE  size[s] = IF s = {} THEN 0
                         ELSE contexts[CHOOSE x \in s : TRUE].tokens
                                + size[s \ {CHOOSE x \in s : TRUE}]
    <3>1. CASE s = {}
      BY <3>1, FS_EmptySet
    <3>2. CASE s # {}
      BY <1>3, <3>2
    <3> QED
      BY <3>1, <3>2
  <2> QED
    BY <2>1
<1>5. sum = [s \in SUBSET S |->
               IF s = {} THEN 0
               ELSE contexts[CHOOSE x \in s : TRUE].tokens + sum[s \ {CHOOSE x \in s : TRUE}]]
  <2> HIDE DEF size
  <2> DEFINE Body(e) == [s \in SUBSET S |->
                           IF s = {} THEN 0
                           ELSE contexts[CHOOSE x \in s : TRUE].tokens
                                  + e[s \ {CHOOSE x \in s : TRUE}]]
  <2>1. size = Body(size)
    BY <1>4, Zenon
  <2>2. sum = CHOOSE e : e = Body(e)
    OBVIOUS
  <2>3. sum = Body(sum)
    <3> HIDE DEF Body, sum
    <3> QED
      BY <2>1, <2>2, Zenon
  <2> QED
    BY <2>3, Zenon
<1> HIDE DEF sum, size
<1> DEFINE Wrong == {n \in Nat : \E s \in SUBSET S : Cardinality(s) = n /\ sum[s] # n}
<1>6. Wrong = {}
  <2> SUFFICES ASSUME Wrong # {} PROVE FALSE
    OBVIOUS
  <2>1. PICK n \in Wrong : \A k \in Wrong : n <= k
    <3>1. Wrong \in SUBSET Nat
      OBVIOUS
    <3> HIDE DEF Wrong
    <3> QED
      BY <3>1, LeastNumber
  <2>2. PICK s \in SUBSET S : Cardinality(s) = n /\ sum[s] # n
    BY <2>1
  <2> DEFINE x == CHOOSE x \in s : TRUE
  <2>3. s # {}
    BY <1>5, <2>2, FS_EmptySet
  <2>4. /\ contexts[x].tokens = 1 /\ s \ {x} \in SUBSET S
        /\ Cardinality(s) = 1 + Cardinality(s \ {x})
    BY <1>3, <2>3
  <2>5. sum[s] = contexts[x].tokens + sum[s \ {x}]
    BY <1>5, <2>3
  <2> HIDE DEF x
  <2>6. Cardinality(s \ {x}) \in Nat /\ n \in Nat
    BY <1>2, <2>1, <2>4
  <2>7. Cardinality(s \ {x}) = n - 1
    BY <2>2, <2>4, <2>6
  <2>8. ~(n <= n - 1)
    BY <2>6
  <2>9. n - 1 \notin Wrong
    BY <2>1, <2>8
  <2>10. sum[s \ {x}] = n - 1
    BY <2>4, <2>6, <2>7, <2>9
  <2>11. sum[s] = 1 + (n - 1)
    BY <2>4, <2>5, <2>10
  <2> QED
    BY <2>2, <2>6, <2>11
<1> QED
  BY <1>1, <1>2, <1>6 DEF S

\* The state after a round is made of the one before it.
IsRounds(f, c, last, hi) ==
  f = [t \in last..hi |-> IF t = last THEN Rule!Started(c, last)
                          ELSE Rule!After(f[t - 1], t, c)]

LEMMA RoundsGo ==
  ASSUME NEW c, NEW last \in Nat, NEW hi \in Nat, last <= hi
  PROVE  \E f : IsRounds(f, c, last, hi)
<1> DEFINE Good(n) == \E f : IsRounds(f, c, last, last + n)
           Bad == {n \in Nat : ~Good(n)}
<1>1. Bad = {}
  <2> SUFFICES ASSUME Bad # {} PROVE FALSE
    OBVIOUS
  <2>1. PICK n \in Bad : \A k \in Bad : n <= k
    <3>1. Bad \in SUBSET Nat
      OBVIOUS
    <3> HIDE DEF Bad
    <3> QED
      BY <3>1, LeastNumber
  <2>2. n \in Nat /\ ~Good(n)
    BY <2>1
  <2>3. n # 0
    <3> SUFFICES ASSUME n = 0 PROVE FALSE
      OBVIOUS
    <3> DEFINE f == [t \in last..last |-> Rule!Started(c, last)]
    <3>1. \A t \in last..last : t = last
      OBVIOUS
    <3>2. f = [t \in last..last |-> IF t = last THEN Rule!Started(c, last)
                                   ELSE Rule!After(f[t - 1], t, c)]
      BY <3>1
    <3>3. last + n = last
      OBVIOUS
    <3> QED
      BY <2>2, <3>2, <3>3 DEF IsRounds
  <2>4. n - 1 \in Nat /\ Good(n - 1)
    <3>1. n - 1 \in Nat /\ ~(n <= n - 1)
      BY <2>2, <2>3
    <3> QED
      BY <2>1, <3>1
  <2> DEFINE hj == last + (n - 1)
             hk == last + n
  <2>5. hj \in Nat /\ hk = hj + 1 /\ last <= hj /\ hk \in Nat
    BY <2>2, <2>4
  <2>6. PICK f : IsRounds(f, c, last, hj)
    BY <2>4
  <2> HIDE DEF hj
  <2> DEFINE g == [t \in last..hk |-> IF t = hk THEN Rule!After(f[hj], hk, c) ELSE f[t]]
  <2>7. ASSUME NEW t \in last..hk
        PROVE  g[t] = IF t = last THEN Rule!Started(c, last) ELSE Rule!After(g[t - 1], t, c)
    <3>1. CASE t = hk
      <4>1. g[t] = Rule!After(f[hj], hk, c) /\ hk # last
        BY <2>5, <3>1
      <4>2. g[t - 1] = f[hj]
        BY <2>5, <3>1
      <4> QED
        BY <3>1, <4>1, <4>2
    <3>2. CASE t # hk
      <4>1. t \in last..hj /\ g[t] = f[t]
        BY <2>5, <3>2
      <4>2. f[t] = IF t = last THEN Rule!Started(c, last) ELSE Rule!After(f[t - 1], t, c)
        BY <2>6, <4>1 DEF IsRounds
      <4>3. CASE t = last
        BY <4>1, <4>2, <4>3
      <4>4. CASE t # last
        <5>1. t - 1 \in last..hk /\ t - 1 # hk
          BY <2>5, <3>2, <4>4
        <5>2. g[t - 1] = f[t - 1]
          BY <5>1
        <5> QED
          BY <4>1, <4>2, <4>4, <5>2
      <4> QED
        BY <4>3, <4>4
    <3> QED
      BY <3>1, <3>2
  <2>8. IsRounds(g, c, last, hk)
    <3>1. g = [t \in last..hk |-> g[t]]
      OBVIOUS
    <3> HIDE DEF g
    <3> QED
      BY <2>7, <3>1 DEF IsRounds
  <2> QED
    BY <2>2, <2>8
<1>2. hi - last \in Nat /\ last + (hi - last) = hi
  OBVIOUS
<1>3. Good(hi - last)
  BY <1>1, <1>2
<1> QED
  BY <1>2, <1>3

\* The contexts after wakes at the times W.
ContextsOf(last, W) ==
  [u \in W \union {last} |-> [system |-> u # last, at |-> u, tokens |-> 1]]
StateOf(c, last, W) ==
  [queued |-> FALSE, deferred |-> 0,
   cooldown |-> IF c.notice.kind = "nothing" THEN -1 ELSE Rule!ResetAt(last, c.notice, Day),
   contexts |-> ContextsOf(last, W), tokenAt |-> last, activity |-> <<last>>]
WokenOn(W, d) == {u \in W : u \div Day = d}

WakesFit(c, last, W, t) ==
  /\ \A u \in W : /\ ~Rule!InWindow(u % Day, c.quiet)
                  /\ c.notice.kind = "nothing" \/ u >= Rule!ResetAt(last, c.notice, Day)
                  /\ c.maxAge = 0 \/ u - last <= c.graceAge
  /\ \A u, v \in W : u < v => v - u >= c.gap
  /\ \A d \in Nat : /\ c.budget.threads > 0 => Cardinality(WokenOn(W, d)) <= c.budget.threads
                    /\ c.budget.tokens > 0 => Cardinality(WokenOn(W, d)) <= c.budget.tokens
  /\ c.maxAge = 0 /\ c.notice.kind = "nothing" /\ t >= Day + 2 => WokenOn(W, 1) # {}

\* What the configurations are.
LEMMA ConfigFacts ==
  ASSUME NEW c \in Rule!CheckinConfigs
  PROVE  /\ c.maxAge \in Nat /\ c.graceAge = c.maxAge + 1 /\ c.gap \in 0..2 /\ c.active = 1
         /\ c.heat = [window |-> 2, recent |-> 1, events |-> 2]
         /\ c.quiet \in {<<1, 2>>, <<Day - 1, 2>>}
         /\ c.budget.tokens \in Nat /\ c.budget.threads \in Nat
         /\ c.notice.kind = "nothing" \/ c.notice \in Rule!Notices
         /\ c.notice.kind \in {"nothing", "none", "clock"}
<1>1. PICK a \in {0, Day \div 2}, g \in {<<1, 3>>}, q \in {<<1, 2>>, <<Day - 1, 2>>}, m \in 0..2,
           b \in [tokens : {0, 2}, threads : {0, 1, 3}],
           n \in {[kind |-> "nothing"], [kind |-> "none"], [kind |-> "clock", minute |-> 2]} :
        c = [maxAge |-> a, graceAge |-> a + 1, grace |-> g, quiet |-> q, gap |-> m, active |-> 1,
             heat |-> [window |-> 2, recent |-> 1, events |-> 2], budget |-> b, notice |-> n]
  BY DEF Rule!CheckinConfigs
<1>2. a \in Nat
  <2>1. Day \div 2 \in Nat
    BY DayBounds
  <2> QED
    BY <1>1, <2>1
<1>3. b.tokens \in Nat /\ b.threads \in Nat
  OBVIOUS
<1>4. n.kind \in {"nothing", "none", "clock"}
  OBVIOUS
<1>5. n.kind = "nothing" \/ n \in Rule!Notices
  <2>1. 2 \in Rule!Minutes
    BY DayBounds DEF Rule!Minutes
  <2>2. CASE n = [kind |-> "none"]
    BY <2>2 DEF Rule!Notices
  <2>3. CASE n = [kind |-> "clock", minute |-> 2]
    BY <2>1, <2>3 DEF Rule!Notices
  <2> QED
    BY <2>2, <2>3
<1> QED
  BY <1>1, <1>2, <1>3, <1>4, <1>5

LEMMA RoundQueues ==
  ASSUME NEW s, NEW t, NEW c, s.queued = FALSE, s.deferred = 0
  PROVE  Rule!Round(t, s, c) = "queue" <=>
           /\ ~Rule!Cooling(s.cooldown, t)
           /\ ~Rule!Quiet(t, c.quiet)
           /\ ~Rule!BudgetExceeded(s.contexts, t, c.budget)
           /\ Rule!TokenUsable(t, s.tokenAt, c)
           /\ ~Rule!RecentlyActive(s.activity, t, c.active)
           /\ ~Rule!Hot(s.activity, t, c.heat)
           /\ Rule!WakeDue(s.contexts, t, c.gap)
<1>1. Rule!BudgetAction("checkin", Rule!BudgetExceeded(s.contexts, t, c.budget)) = "drop"
        <=> Rule!BudgetExceeded(s.contexts, t, c.budget)
  BY DEF Rule!BudgetAction
<1>2. ~(s.deferred > 0)
  OBVIOUS
<1> QED
  BY <1>1, <1>2 DEF Rule!Round

\* The first state; a cooldown that a notice has started ends later.
LEMMA RoundsStart ==
  ASSUME NEW c \in Rule!CheckinConfigs, NEW last \in 0..(Day - 1)
  PROVE  /\ Rule!Started(c, last) = StateOf(c, last, {})
         /\ c.notice.kind = "nothing" \/ Rule!ResetAt(last, c.notice, Day) \in Nat
<1>1. last \in Rule!Times /\ last \in Nat
  <2>1. (Year - 1) * Day \in Nat /\ (Year - 1) * Day = Year * Day - Day /\ Year * Day \in Nat
    BY DayBounds, NonNegative
  <2> QED
    BY <2>1, DayBounds DEF Rule!Times
<1>2. c.notice.kind = "nothing" \/ c.notice \in Rule!Notices
  BY ConfigFacts
<1>3. c.notice.kind \in {"nothing", "none", "clock"}
  BY ConfigFacts
<1> DEFINE at == Rule!ResetAt(last, c.notice, Day)
<1>4. c.notice.kind = "nothing" \/ (at \in Nat /\ at > last)
  <2>1. CASE c.notice.kind = "none"
    <3>1. at = last + Day
      BY <2>1 DEF Rule!ResetAt
    <3> QED
      BY <1>1, <3>1, DayBounds
  <2>2. CASE c.notice.kind = "clock"
    <3>1. c.notice \in Rule!Notices
      BY <1>2, <2>2
    <3> DEFINE a == Day * (last \div Day) + c.notice.minute + Margin
    <3>2. at = (IF a <= last THEN a + Day ELSE a) /\ a \in Nat /\ last < a + Day
      BY <1>1, <2>2, <3>1, ClockReset
    <3> HIDE DEF a, at
    <3> QED
      BY <1>1, <3>2, DayBounds
  <2> QED
    BY <1>3, <2>1, <2>2
<1>5. c.notice.kind # "nothing" => Rule!Cooldown(Rule!None, last, c.notice, Day) = at
  <2>1. at \in Nat /\ at > last => ~(at <= last)
    BY <1>1
  <2> HIDE DEF at
  <2> QED
    BY <1>4, <2>1 DEF Rule!Cooldown, at
<1>6. Rule!Recorded(<<>>, last, [system |-> FALSE, at |-> last, tokens |-> 1])
        = ContextsOf(last, {})
  <2>1. DOMAIN <<>> = {} /\ last \notin {}
    OBVIOUS
  <2>2. Rule!Recorded(<<>>, last, [system |-> FALSE, at |-> last, tokens |-> 1])
          = [u \in {} \union {last} |->
               IF u = last THEN [system |-> FALSE, at |-> last, tokens |-> 1] ELSE <<>>[u]]
    BY <2>1 DEF Rule!Recorded
  <2>3. ContextsOf(last, {}) = [u \in {} \union {last} |-> [system |-> u # last, at |-> u, tokens |-> 1]]
    BY DEF ContextsOf
  <2>4. \A u \in {} \union {last} :
          (IF u = last THEN [system |-> FALSE, at |-> last, tokens |-> 1] ELSE <<>>[u])
            = [system |-> u # last, at |-> u, tokens |-> 1]
    OBVIOUS
  <2> QED
    BY <2>2, <2>3, <2>4
<1> QED
  BY <1>4, <1>5, <1>6 DEF Rule!Started, StateOf, Rule!None

\* A wake is recorded, and stays so when it is recorded without its numbers.
LEMMA WakeRecorded ==
  ASSUME NEW c, NEW last \in Nat, NEW t \in Nat, last < t,
         NEW W \in SUBSET ((last + 1)..(t - 1))
  PROVE  Rule!Woken(StateOf(c, last, W), t) = StateOf(c, last, W \union {t})
<1> DEFINE used == [system |-> TRUE, at |-> t, tokens |-> 1]
           K == ContextsOf(last, W)
           L == ContextsOf(last, W \union {t})
<1>1. DOMAIN K = W \union {last} /\ t \notin DOMAIN K
  BY DEF ContextsOf
<1>2. Rule!Recorded(K, t, used) = [u \in DOMAIN K \union {t} |-> IF u = t THEN used ELSE K[u]]
  BY <1>1 DEF Rule!Recorded
<1>3. L = [u \in (W \union {t}) \union {last} |-> [system |-> u # last, at |-> u, tokens |-> 1]]
  BY DEF ContextsOf
<1>4. DOMAIN K \union {t} = (W \union {t}) \union {last}
  BY <1>1
<1>5. \A u \in (W \union {t}) \union {last} :
        (IF u = t THEN used ELSE K[u]) = [system |-> u # last, at |-> u, tokens |-> 1]
  <2> TAKE u \in (W \union {t}) \union {last}
  <2>1. CASE u = t
    <3>1. u # last
      BY <2>1
    <3> QED
      BY <2>1, <3>1
  <2>2. CASE u # t
    BY <2>2 DEF ContextsOf
  <2> QED
    BY <2>1, <2>2
<1>6. Rule!Recorded(K, t, used) = L
  BY <1>2, <1>3, <1>4, <1>5
<1>7. t \in DOMAIN L /\ L[t].tokens = 1
  BY <1>3
<1>8. [used EXCEPT !.tokens = 0].tokens = 0
  OBVIOUS
<1>9. Rule!Recorded(L, t, [used EXCEPT !.tokens = 0]) = L
  <2>1. L[t].tokens > 0
    BY <1>7
  <2> HIDE DEF L
  <2> QED
    BY <1>7, <1>8, <2>1 DEF Rule!Recorded
<1>10. Rule!Woken(StateOf(c, last, W), t)
         = [StateOf(c, last, W) EXCEPT !.contexts =
              Rule!Recorded(Rule!Recorded(K, t, used), t, [used EXCEPT !.tokens = 0])]
  BY DEF Rule!Woken, StateOf
<1> QED
  BY <1>6, <1>9, <1>10 DEF StateOf

\* What a round asks of the wakes so far.
LEMMA WakeMeans ==
  ASSUME NEW c \in Rule!CheckinConfigs, NEW last \in 0..(Day - 1), NEW t \in Nat, last < t,
         NEW W \in SUBSET ((last + 1)..(t - 1))
  PROVE  Rule!Round(t, StateOf(c, last, W), c) = "queue" <=>
           /\ c.notice.kind = "nothing" \/ Rule!ResetAt(last, c.notice, Day) <= t
           /\ ~Rule!InWindow(t % Day, c.quiet)
           /\ c.budget.tokens > 0 => Cardinality(WokenOn(W, t \div Day)) < c.budget.tokens
           /\ c.budget.threads > 0 => Cardinality(WokenOn(W, t \div Day)) < c.budget.threads
           /\ Rule!TokenUsable(t, last, c)
           /\ \A u \in W : t - u >= c.gap
<1> DEFINE s == StateOf(c, last, W)
           K == ContextsOf(last, W)
           d == t \div Day
<1>1. last \in Nat /\ W \in SUBSET Nat /\ last \notin W
  OBVIOUS
<1>2. DOMAIN K = W \union {last}
      /\ \A u \in DOMAIN K : K[u].system = (u # last) /\ K[u].at = u /\ K[u].tokens = 1
  BY DEF ContextsOf
<1>3. c.notice.kind = "nothing" \/ Rule!ResetAt(last, c.notice, Day) \in Nat
  BY RoundsStart
<1>4. ~Rule!Cooling(s.cooldown, t)
        <=> (c.notice.kind = "nothing" \/ Rule!ResetAt(last, c.notice, Day) <= t)
  <2>1. CASE c.notice.kind = "nothing"
    <3>1. s.cooldown = -1
      BY <2>1 DEF StateOf
    <3> QED
      BY <2>1, <3>1 DEF Rule!Cooling, Rule!None
  <2>2. CASE c.notice.kind # "nothing"
    <3>1. s.cooldown = Rule!ResetAt(last, c.notice, Day)
      BY <2>2 DEF StateOf
    <3> QED
      BY <1>3, <2>2, <3>1 DEF Rule!Cooling, Rule!None
  <2> QED
    BY <2>1, <2>2
<1>5. Rule!Quiet(t, c.quiet) <=> Rule!InWindow(t % Day, c.quiet)
  BY DEF Rule!Quiet, Rule!MinuteOf
<1>6. Rule!Today(K, t) = WokenOn(W, d)
  <2>1. Rule!Today(K, t) = {u \in DOMAIN K : K[u].system /\ K[u].at \div Day = d}
    BY DEF Rule!Today, Rule!DayOf
  <2>2. \A u : u \in Rule!Today(K, t) <=> u \in WokenOn(W, d)
    <3> HIDE DEF K, d
    <3> QED
      BY <1>1, <1>2, <2>1 DEF WokenOn
  <2> QED
    BY <2>2
<1>7. IsFiniteSet(WokenOn(W, d)) /\ Cardinality(WokenOn(W, d)) \in Nat
  <2>1. IsFiniteSet((last + 1)..(t - 1))
    BY <1>1, FS_Interval
  <2>2. WokenOn(W, d) \subseteq (last + 1)..(t - 1)
    BY DEF WokenOn
  <2> QED
    BY <2>1, <2>2, FS_Subset, FS_CardinalityType
<1>8. Rule!TokensToday(K, t) = Cardinality(WokenOn(W, d))
  <2>1. \A u \in WokenOn(W, d) : K[u].tokens = 1
    BY <1>2 DEF WokenOn
  <2> HIDE DEF K, d
  <2> QED
    BY <1>6, <1>7, <2>1, SumOfOnes
<1>9. ~Rule!BudgetExceeded(K, t, c.budget) <=>
        /\ c.budget.tokens > 0 => Cardinality(WokenOn(W, d)) < c.budget.tokens
        /\ c.budget.threads > 0 => Cardinality(WokenOn(W, d)) < c.budget.threads
  <2>1. c.budget.tokens \in Nat /\ c.budget.threads \in Nat
    BY ConfigFacts
  <2>2. Rule!Cardinality(Rule!Today(K, t)) = Cardinality(WokenOn(W, d))
    BY <1>6, RuleCardinality
  <2> HIDE DEF K, d
  <2> QED
    BY <1>7, <1>8, <2>1, <2>2 DEF Rule!BudgetExceeded
<1>10. ~Rule!RecentlyActive(s.activity, t, c.active)
  <2>1. c.active = 1 /\ s.activity = <<last>>
    BY ConfigFacts DEF StateOf
  <2> QED
    BY <1>1, <2>1 DEF Rule!RecentlyActive
<1>11. ~Rule!Hot(s.activity, t, c.heat)
  <2>1. c.heat.events = 2 /\ s.activity = <<last>>
    BY ConfigFacts DEF StateOf
  <2> DEFINE H == {i \in DOMAIN s.activity : t - s.activity[i] <= c.heat.window}
  <2>2. H \subseteq {1}
    BY <2>1
  <2>3. IsFiniteSet({1}) /\ Cardinality({1}) = 1
    BY FS_Singleton
  <2> HIDE DEF H
  <2>4. Cardinality(H) <= 1 /\ Cardinality(H) \in Nat
    BY <2>2, <2>3, FS_Subset, FS_CardinalityType
  <2>5. Rule!Cardinality(H) = Cardinality(H)
    BY RuleCardinality
  <2>6. Rule!Hot(s.activity, t, c.heat) => Rule!Cardinality(H) >= 2
    BY <2>1 DEF Rule!Hot, H
  <2> QED
    BY <2>4, <2>5, <2>6
<1>12. Rule!WakeDue(K, t, c.gap) <=> \A u \in W : t - u >= c.gap
  <2> DEFINE T == {K[x].at : x \in {u \in DOMAIN K : K[u].system}} \union {-1}
             wake == Rule!Max(T)
  <2>1. T = W \union {-1}
    <3>1. \A x : x \in T <=> x \in W \union {-1}
      <4> HIDE DEF K
      <4>1. ASSUME NEW x \in T, x # -1 PROVE x \in W
        <5>1. PICK u \in {v \in DOMAIN K : K[v].system} : x = K[u].at
          BY <4>1
        <5>2. u \in DOMAIN K /\ K[u].system
          BY <5>1
        <5>3. u # last /\ x = u
          BY <1>2, <5>1, <5>2
        <5> QED
          BY <1>2, <5>2, <5>3
      <4>2. ASSUME NEW x \in W PROVE x \in {u \in DOMAIN K : K[u].system} /\ K[x].at = x
        BY <1>1, <1>2
      <4> QED
        BY <4>1, <4>2
    <3> QED
      BY <3>1
  <2>2. wake \in W \union {-1} /\ \A u \in W \union {-1} : u <= wake
    <3>1. W \union {-1} \in SUBSET Int /\ W \union {-1} # {}
      BY <1>1
    <3>2. \A x \in W \union {-1} : x <= t
      OBVIOUS
    <3>3. t \in Int
      OBVIOUS
    <3>4. T \in SUBSET Int /\ T # {} /\ \A x \in T : x <= t
      BY <2>1, <3>1, <3>2
    <3>5. Rule!Max(T) \in T /\ \A y \in T : y <= Rule!Max(T)
      <4> HIDE DEF T
      <4> QED
        BY <3>3, <3>4, GreatestIsMax
    <3> QED
      BY <2>1, <3>5
  <2>3. c.gap \in Nat /\ Rule!None = -1
    BY ConfigFacts DEF Rule!None
  <2>4. Rule!WakeDue(K, t, c.gap) <=> c.gap = 0 \/ wake = -1 \/ t - wake >= c.gap
    BY <2>3 DEF Rule!WakeDue, Rule!LastWake
  <2> HIDE DEF wake, T, K
  <2>5. ASSUME NEW u \in W PROVE u \in Nat /\ u < t
    OBVIOUS
  <2>6. ASSUME c.gap = 0 \/ wake = -1 \/ t - wake >= c.gap, NEW u \in W PROVE t - u >= c.gap
    BY <2>2, <2>3, <2>5, <2>6
  <2>7. ASSUME \A u \in W : t - u >= c.gap
        PROVE  c.gap = 0 \/ wake = -1 \/ t - wake >= c.gap
    BY <2>2, <2>7
  <2> QED
    BY <2>4, <2>6, <2>7
<1>13. s.queued = FALSE /\ s.deferred = 0 /\ s.contexts = K /\ s.tokenAt = last
  BY DEF StateOf
<1> HIDE DEF s, K, d
<1>14. Rule!Round(t, s, c) = "queue" <=>
         /\ ~Rule!Cooling(s.cooldown, t)
         /\ ~Rule!Quiet(t, c.quiet)
         /\ ~Rule!BudgetExceeded(K, t, c.budget)
         /\ Rule!TokenUsable(t, last, c)
         /\ ~Rule!RecentlyActive(s.activity, t, c.active)
         /\ ~Rule!Hot(s.activity, t, c.heat)
         /\ Rule!WakeDue(K, t, c.gap)
  BY <1>13, RoundQueues
<1> QED
  BY <1>4, <1>5, <1>9, <1>10, <1>11, <1>12, <1>14 DEF s, d

\* A round keeps what the wakes fit.
LEMMA WakesStep ==
  ASSUME NEW c \in Rule!CheckinConfigs, NEW last \in 0..(Day - 1),
         NEW t \in (last + 1)..(2 * Day - 1),
         NEW W \in SUBSET ((last + 1)..(t - 1)), WakesFit(c, last, W, t - 1)
  PROVE  \E V \in SUBSET ((last + 1)..t) :
           /\ Rule!After(StateOf(c, last, W), t, c) = StateOf(c, last, V)
           /\ WakesFit(c, last, V, t)
<1> DEFINE queues == Rule!Round(t, StateOf(c, last, W), c) = "queue"
<1>1. last \in Nat /\ t \in Nat /\ last < t /\ W \in SUBSET Nat /\ t \notin W
  BY DayBounds
<1>2. queues <=>
        /\ c.notice.kind = "nothing" \/ Rule!ResetAt(last, c.notice, Day) <= t
        /\ ~Rule!InWindow(t % Day, c.quiet)
        /\ c.budget.tokens > 0 => Cardinality(WokenOn(W, t \div Day)) < c.budget.tokens
        /\ c.budget.threads > 0 => Cardinality(WokenOn(W, t \div Day)) < c.budget.threads
        /\ Rule!TokenUsable(t, last, c)
        /\ \A u \in W : t - u >= c.gap
  BY <1>1, WakeMeans
<1>3. \A d : IsFiniteSet(WokenOn(W, d)) /\ Cardinality(WokenOn(W, d)) \in Nat
  <2>1. IsFiniteSet((last + 1)..(t - 1))
    BY <1>1, FS_Interval
  <2>2. \A d : WokenOn(W, d) \subseteq (last + 1)..(t - 1)
    BY DEF WokenOn
  <2> QED
    BY <2>1, <2>2, FS_Subset, FS_CardinalityType
<1>4. c.maxAge \in Nat /\ c.graceAge = c.maxAge + 1 /\ c.gap \in 0..2
      /\ c.budget.tokens \in Nat /\ c.budget.threads \in Nat
  BY ConfigFacts
<1>5. c.notice.kind = "nothing" \/ Rule!ResetAt(last, c.notice, Day) \in Nat
  BY RoundsStart
<1> HIDE DEF queues
<1>6. CASE queues
  <2> DEFINE V == W \union {t}
  <2>1. Rule!After(StateOf(c, last, W), t, c) = StateOf(c, last, V)
    BY <1>1, <1>6, WakeRecorded DEF Rule!After, queues
  <2>2. ASSUME NEW u \in V
        PROVE  /\ ~Rule!InWindow(u % Day, c.quiet)
               /\ c.notice.kind = "nothing" \/ u >= Rule!ResetAt(last, c.notice, Day)
               /\ c.maxAge = 0 \/ u - last <= c.graceAge
    <3>1. CASE u = t
      <4>1. c.notice.kind = "nothing" \/ t >= Rule!ResetAt(last, c.notice, Day)
        BY <1>1, <1>2, <1>5, <1>6
      <4>2. c.maxAge = 0 \/ t - last <= c.graceAge
        <5>1. Rule!TokenUsable(t, last, c)
          BY <1>2, <1>6
        <5> QED
          BY <1>1, <1>4, <5>1 DEF Rule!TokenUsable
      <4> QED
        BY <1>2, <1>6, <3>1, <4>1, <4>2
    <3>2. CASE u # t
      BY <3>2 DEF WakesFit
    <3> QED
      BY <3>1, <3>2
  <2>3. ASSUME NEW u \in V, NEW v \in V, u < v PROVE v - u >= c.gap
    <3>1. u \in W
      BY <1>1, <2>3
    <3>2. CASE v = t
      BY <1>2, <1>6, <3>1, <3>2
    <3>3. CASE v # t
      BY <2>3, <3>1, <3>3 DEF WakesFit
    <3> QED
      BY <3>2, <3>3
  <2>4. ASSUME NEW d \in Nat
        PROVE  /\ c.budget.threads > 0 => Cardinality(WokenOn(V, d)) <= c.budget.threads
               /\ c.budget.tokens > 0 => Cardinality(WokenOn(V, d)) <= c.budget.tokens
    <3>1. CASE t \div Day = d
      <4>1. WokenOn(V, d) = WokenOn(W, d) \union {t} /\ t \notin WokenOn(W, d)
        BY <1>1, <3>1 DEF WokenOn
      <4>2. Cardinality(WokenOn(V, d)) = Cardinality(WokenOn(W, d)) + 1
        BY <1>3, <4>1, FS_AddElement
      <4>3. /\ c.budget.tokens > 0 => Cardinality(WokenOn(W, d)) < c.budget.tokens
            /\ c.budget.threads > 0 => Cardinality(WokenOn(W, d)) < c.budget.threads
        BY <1>2, <1>6, <3>1
      <4> QED
        BY <1>3, <1>4, <4>2, <4>3
    <3>2. CASE t \div Day # d
      <4>1. WokenOn(V, d) = WokenOn(W, d)
        BY <3>2 DEF WokenOn
      <4> QED
        BY <4>1 DEF WakesFit
    <3> QED
      BY <3>1, <3>2
  <2>5. c.maxAge = 0 /\ c.notice.kind = "nothing" /\ t >= Day + 2 => WokenOn(V, 1) # {}
    <3>1. t >= Day + 2 => t \div Day = 1
      <4>1. t >= Day + 2 => t \in Day..(2 * Day - 1)
        BY DayBounds
      <4> QED
        BY <4>1, MinuteNear
    <3> QED
      BY <3>1 DEF WokenOn
  <2>6. V \in SUBSET ((last + 1)..t)
    BY <1>1
  <2> HIDE DEF V
  <2>7. WakesFit(c, last, V, t)
    BY <2>2, <2>3, <2>4, <2>5 DEF WakesFit
  <2> QED
    BY <2>1, <2>6, <2>7
<1>7. CASE ~queues
  <2>1. Rule!After(StateOf(c, last, W), t, c) = StateOf(c, last, W)
    BY <1>7 DEF Rule!After, queues
  <2>2. ASSUME c.maxAge = 0, c.notice.kind = "nothing", t >= Day + 2
        PROVE  WokenOn(W, 1) # {}
    <3>1. CASE t - 1 >= Day + 2
      BY <2>2, <3>1 DEF WakesFit
    <3>2. CASE ~(t - 1 >= Day + 2)
      <4> SUFFICES ASSUME WokenOn(W, 1) = {} PROVE FALSE
        OBVIOUS
      <4>1. t = Day + 2
        BY <1>1, <2>2, <3>2, DayBounds
      <4>2. t \in Day..(2 * Day - 1) /\ t - Day = 2
        BY <4>1, DayBounds
      <4>3. t \div Day = 1 /\ t % Day = 2
        BY <4>2, MinuteNear
      <4>4. ~Rule!InWindow(2, c.quiet)
        <5>1. c.quiet \in {<<1, 2>>, <<Day - 1, 2>>}
          BY ConfigFacts
        <5> QED
          BY <5>1, DayBounds DEF Rule!InWindow
      <4>5. Cardinality(WokenOn(W, 1)) = 0
        BY FS_EmptySet
      <4>6. Rule!TokenUsable(t, last, c)
        BY <2>2 DEF Rule!TokenUsable
      <4>7. ASSUME NEW u \in W PROVE t - u >= c.gap
        <5>1. u < Day
          <6> SUFFICES ASSUME u >= Day PROVE FALSE
            BY <1>1, DayBounds
          <6>1. u \in Day..(2 * Day - 1)
            BY <1>1, DayBounds
          <6>2. u \div Day = 1
            BY <6>1, MinuteNear
          <6> QED
            BY <6>2 DEF WokenOn
        <5> QED
          BY <1>1, <1>4, <4>1, <5>1, DayBounds
      <4> QED
        BY <1>2, <1>4, <1>7, <2>2, <4>3, <4>4, <4>5, <4>6, <4>7
    <3> QED
      BY <3>1, <3>2
  <2>3. W \in SUBSET ((last + 1)..t)
    BY <1>1
  <2>4. WakesFit(c, last, W, t)
    BY <2>2 DEF WakesFit
  <2> QED
    BY <2>1, <2>3, <2>4
<1> QED
  BY <1>6, <1>7

\* The wakes of two days.
LEMMA RoundsFit ==
  ASSUME NEW c \in Rule!CheckinConfigs, NEW last \in 0..(Day - 1)
  PROVE  \E W \in SUBSET ((last + 1)..(2 * Day - 1)) :
           /\ Rule!Rounds(c, last, 2 * Day - 1) = StateOf(c, last, W)
           /\ WakesFit(c, last, W, 2 * Day - 1)
<1> DEFINE hi == 2 * Day - 1
           f == CHOOSE g : IsRounds(g, c, last, hi)
<1>1. hi \in Nat /\ last \in Nat /\ last <= hi
  BY DayBounds
<1>2. IsRounds(f, c, last, hi)
  BY <1>1, RoundsGo, Zenon
<1>3. Rule!Rounds(c, last, hi) = f[hi]
  BY DEF Rule!Rounds, IsRounds
<1> HIDE DEF f
<1> DEFINE Fine(t) == \E W \in SUBSET ((last + 1)..t) :
                        f[t] = StateOf(c, last, W) /\ WakesFit(c, last, W, t)
           Bad == {t \in last..hi : ~Fine(t)}
<1>4. Bad = {}
  <2> SUFFICES ASSUME Bad # {} PROVE FALSE
    OBVIOUS
  <2>1. PICK t \in Bad : \A k \in Bad : t <= k
    <3>1. Bad \in SUBSET Nat
      BY <1>1
    <3> HIDE DEF Bad
    <3> QED
      BY <3>1, LeastNumber
  <2>2. t \in last..hi /\ t \in Nat /\ ~Fine(t)
    BY <1>1, <2>1
  <2>3. f[t] = IF t = last THEN Rule!Started(c, last) ELSE Rule!After(f[t - 1], t, c)
    BY <1>2, <2>2 DEF IsRounds
  <2>4. CASE t = last
    <3>1. f[t] = StateOf(c, last, {})
      BY <2>3, <2>4, RoundsStart
    <3>2. \A d : Cardinality(WokenOn({}, d)) = 0
      <4>1. \A d : WokenOn({}, d) = {}
        BY DEF WokenOn
      <4> QED
        BY <4>1, FS_EmptySet
    <3>3. ~(t >= Day + 2)
      BY <1>1, <2>4, DayBounds
    <3>4. c.budget.tokens \in Nat /\ c.budget.threads \in Nat
      BY ConfigFacts
    <3>5. WakesFit(c, last, {}, t)
      BY <3>2, <3>3, <3>4 DEF WakesFit
    <3> QED
      BY <2>2, <3>1, <3>5
  <2>5. CASE t # last
    <3>1. t - 1 \in last..hi /\ ~(t <= t - 1) /\ t \in (last + 1)..hi
      BY <1>1, <2>2, <2>5
    <3>2. Fine(t - 1)
      BY <2>1, <3>1
    <3>3. PICK W \in SUBSET ((last + 1)..(t - 1)) :
            f[t - 1] = StateOf(c, last, W) /\ WakesFit(c, last, W, t - 1)
      BY <3>2
    <3>4. f[t] = Rule!After(StateOf(c, last, W), t, c)
      BY <2>3, <2>5, <3>3
    <3>5. Fine(t)
      BY <3>1, <3>3, <3>4, WakesStep
    <3> QED
      BY <2>2, <3>5
  <2> QED
    BY <2>4, <2>5
<1>5. Fine(hi)
  BY <1>1, <1>4
<1> QED
  BY <1>3, <1>5

LEMMA WakesBounded ==
  ASSUME NEW c \in Rule!CheckinConfigs, NEW last \in 0..(Day - 1)
  PROVE  Rule!WakesInBounds(c, last)
<1>1. PICK W \in SUBSET ((last + 1)..(2 * Day - 1)) :
        /\ Rule!Rounds(c, last, 2 * Day - 1) = StateOf(c, last, W)
        /\ WakesFit(c, last, W, 2 * Day - 1)
  BY RoundsFit
<1>2. DOMAIN Rule!Rounds(c, last, 2 * Day - 1).contexts \ {last} = W
  <2>1. last \notin W
    BY DayBounds
  <2> QED
    BY <1>1, <2>1 DEF StateOf, ContextsOf
<1>3. \A d : {t \in W : Rule!DayOf(t) = d} = WokenOn(W, d)
  BY DEF WokenOn, Rule!DayOf
<1>4. 2 * Day - 1 >= Day + 2
  BY DayBounds
<1>5. \A S : Rule!Cardinality(S) = Cardinality(S)
  BY RuleCardinality
<1>6. /\ \A t \in W : ~Rule!InWindow(Rule!MinuteOf(t), c.quiet)
      /\ \A t \in W : c.notice.kind = "nothing" \/ t >= Rule!ResetAt(last, c.notice, Day)
      /\ \A t \in W : c.maxAge = 0 \/ t - last <= c.graceAge
      /\ \A t, u \in W : t < u => u - t >= c.gap
  BY <1>1 DEF WakesFit, Rule!MinuteOf
<1>7. \A d \in 0..1 :
        /\ c.budget.threads > 0 => Cardinality(WokenOn(W, d)) <= c.budget.threads
        /\ c.budget.tokens > 0 => Cardinality(WokenOn(W, d)) <= c.budget.tokens
  BY <1>1 DEF WakesFit
<1>8. c.maxAge = 0 /\ c.notice.kind = "nothing" => WokenOn(W, 1) # {}
  BY <1>1, <1>4 DEF WakesFit
<1> QED
  BY <1>2, <1>3, <1>5, <1>6, <1>7, <1>8, Zenon DEF Rule!WakesInBounds
-----------------------------------------------------------------------------
\* What is asked about times, check-ins and replies is in range: the policies meet
\* nothing else.
AskedFit ==
  /\ input.about = "window" => input.window \in Rule!Windows /\ input.minute \in Rule!Minutes
  /\ input.about = "notice" => input.now \in Rule!Times /\ input.notice \in Rule!Notices
  /\ input.about = "range" =>
       input.lo \in Rule!Minutes /\ input.hi \in Rule!Minutes /\ input.bound \in Rule!Minutes
  /\ input.about = "checkin" =>
       input.config \in Rule!CheckinConfigs /\ input.last \in 0..(Day - 1)
  /\ input.about = "reply" =>
       /\ input.text \in Rule!Sayings /\ input.limit \in Limits
       /\ input.short \in Shorts /\ input.most \in Mosts

Elsewhere == {"nothing", "message", "usage", "limits", "model", "prelude", "time",
              "records", "tracks", "recall", "cards", "patch", "duplicates", "related",
              "search", "package", "slices", "hot"}

LEMMA AskedInRange ==
  ASSUME Rule!AskWindow \/ Rule!AskNotice \/ Rule!AskRange \/ Rule!AskCheckin \/ Rule!AskReply
  PROVE  AskedFit'
<1>1. CASE Rule!AskWindow
  BY <1>1 DEF AskedFit, Rule!AskWindow
<1>2. CASE Rule!AskNotice
  BY <1>2 DEF AskedFit, Rule!AskNotice
<1>3. CASE Rule!AskRange
  BY <1>3 DEF AskedFit, Rule!AskRange
<1>4. CASE Rule!AskCheckin
  BY <1>4 DEF AskedFit, Rule!AskCheckin
<1>5. CASE Rule!AskReply
  BY <1>5 DEF AskedFit, Rule!AskReply
<1> QED
  BY <1>1, <1>2, <1>3, <1>4, <1>5

LEMMA AskedStep ==
  ASSUME Rule!Next
  PROVE  AskedFit'
<1> SUFFICES ASSUME ~AskedFit'
             PROVE  FALSE
  OBVIOUS
<1>1. input'.about \notin Elsewhere
  BY DEF AskedFit, Elsewhere
<1>3. ~Rule!AskMessage
  BY <1>1 DEF Rule!AskMessage, Elsewhere
<1>4. ~Rule!AskUsage
  <2> SUFFICES ASSUME Rule!AskUsage
               PROVE  FALSE
    OBVIOUS
  <2>1. PICK summed \in {0, 59, 74, 80, 85, 92, 99, 120}, tokens \in {Rule!Absent, 0, 76, 90},
             window \in {Rule!Absent, 0, 100}, reserved \in {0, 10, 110},
             percents \in {0, Rule!Absent, 50, 76, 120} \X {Rule!Absent, 30, 95},
             run \in Rule!Runtimes, on \in BOOLEAN :
          input' = [about |-> "usage", runtime |-> run,
                    report |-> [tokens |-> tokens, summed |-> summed, window |-> window],
                    config |-> [window |-> 100, reserved |-> reserved, compacts |-> on,
                                refreshPercent |-> percents[1], compactPercent |-> percents[2]]]
    BY Zenon DEF Rule!AskUsage
  <2>2. PICK report, config :
          /\ report = [tokens |-> tokens, summed |-> summed, window |-> window]
          /\ config = [window |-> 100, reserved |-> reserved, compacts |-> on,
                       refreshPercent |-> percents[1], compactPercent |-> percents[2]]
    OBVIOUS
  <2>3. input' = [about |-> "usage", runtime |-> run, report |-> report, config |-> config]
    BY <2>1, <2>2, Zenon
  <2> QED
    BY <1>1, <2>3 DEF Elsewhere
<1>5. ~Rule!AskLimits
  BY <1>1 DEF Rule!AskLimits, Elsewhere
<1>6. ~Rule!AskModel
  <2>1. Rule!AskModel =>
          \E words, run, offered, choices, now :
            input' = [about |-> "model", words |-> words, runtime |-> run, offered |-> offered,
                         choices |-> choices, now |-> now]
    BY Zenon DEF Rule!AskModel
  <2> QED
    BY <1>1, <2>1 DEF Elsewhere
<1>7. ~Rule!AskPrelude
  BY <1>1 DEF Rule!AskPrelude, Elsewhere
<1>8. ~Rule!AskTime
  BY <1>1 DEF Rule!AskTime, Elsewhere
<1>9. ~Rule!AskRecords
  BY <1>1 DEF Rule!AskRecords, Elsewhere
<1>10. ~Rule!AskTracks
  BY <1>1 DEF Rule!AskTracks, Elsewhere
<1>11. ~Rule!AskQuery
  <2>1. Rule!AskQuery =>
          \E cards, query :
            input' = [about |-> "recall", cards |-> cards, mode |-> "user", pool |-> 1, query |-> query]
    BY Zenon DEF Rule!AskQuery
  <2> QED
    BY <1>1, <2>1 DEF Elsewhere
<1>12. ~Rule!AskRecall
  BY <1>1 DEF Rule!AskRecall, Elsewhere
<1>13. ~Rule!AskCards
  <2>1. Rule!AskCards =>
          \E ks, seen :
            input' = [about |-> "cards", cards |-> ks, recalled |-> seen]
    BY Zenon DEF Rule!AskCards
  <2> QED
    BY <1>1, <2>1 DEF Elsewhere
<1>14. ~Rule!AskPatch
  BY <1>1 DEF Rule!AskPatch, Elsewhere
<1>15. ~Rule!AskDuplicates
  BY <1>1 DEF Rule!AskDuplicates, Elsewhere
<1>16. ~Rule!AskRelated
  BY <1>1 DEF Rule!AskRelated, Elsewhere
<1>17. ~Rule!AskSearch
  BY <1>1 DEF Rule!AskSearch, Elsewhere
<1>18. ~Rule!AskPackage
  BY <1>1 DEF Rule!AskPackage, Elsewhere
<1>19. ~Rule!AskSlices
  BY <1>1 DEF Rule!AskSlices, Elsewhere
<1>20. ~Rule!AskHot
  BY <1>1 DEF Rule!AskHot, Elsewhere
<1> QED
  BY AskedInRange, <1>3, <1>4, <1>5, <1>6, <1>7, <1>8, <1>9, <1>10, <1>11, <1>12, <1>13,
     <1>14, <1>15, <1>16, <1>17, <1>18, <1>19, <1>20 DEF Rule!Next

LEMMA AskedTimely ==
  ASSUME AskedFit
  PROVE  CheckinsTimely
<1>1. Rule!TimesHonest
  <2>1. CASE input.about = "window"
    <3>1. Rule!QuietEnds(input.window, input.minute)
      BY <2>1, WindowsEnd DEF AskedFit
    <3> QED
      BY <2>1, <3>1 DEF Rule!TimesHonest
  <2>2. CASE input.about = "notice"
    <3>1. Rule!PauseEnds(input.now) /\ Rule!CooldownEnds(input.now, input.notice)
      BY <2>2, PausesEnd, CooldownsEnd DEF AskedFit
    <3> QED
      BY <2>2, <3>1 DEF Rule!TimesHonest
  <2>3. CASE input.about = "range"
    <3>1. Rule!StretchKeeps(input.lo, input.hi, input.bound)
      BY <2>3, IntervalsStretch DEF AskedFit
    <3> QED
      BY <2>3, <3>1 DEF Rule!TimesHonest
  <2>4. CASE input.about \notin {"window", "notice", "range"}
    BY <2>4 DEF Rule!TimesHonest
  <2> QED
    BY <2>1, <2>2, <2>3, <2>4
<1>2. Rule!CheckinsInBounds
  BY WakesBounded DEF AskedFit, Rule!CheckinsInBounds
<1> QED
  BY <1>1, <1>2 DEF CheckinsTimely

LEMMA AskedAlways == Spec => []AskedFit
<1>1. Init => AskedFit
  BY DEF Init, Rule!Init, Rule!Unasked, AskedFit
<1>2. AskedFit /\ [Next]_vars => AskedFit'
  <2> SUFFICES ASSUME AskedFit, [Next]_vars
               PROVE  AskedFit'
    OBVIOUS
  <2>1. CASE Rule!Next
    BY <2>1, AskedStep
  <2>2. CASE UNCHANGED input
    BY <2>2 DEF AskedFit
  <2> QED
    BY <2>1, <2>2 DEF Next, vars
<1> QED
  BY <1>1, <1>2, PTL DEF Spec

\* Check-ins come when they may, on a day of any length, with any step and margin of a
\* pause: a quiet window ends where it is said to, over midnight too, a pause for the
\* day's budget ends on the next day, a cooldown with the reset that the notice announces
\* (runtime-cooldown-store.js), pressure on tokens only stretches an interval; and two
\* days of the poller's rounds (system-checkin-poller.js) wake the model within the bounds
\* of every configuration that is tried.
THEOREM CheckinsKeepTime == Spec => []CheckinsTimely
<1>1. AskedFit => CheckinsTimely
  BY AskedTimely
<1> QED
  BY AskedAlways, <1>1, PTL
-----------------------------------------------------------------------------
\* The replies: functions by recursion, and sequences that are joined.

\* A function on D that is b on B and else follows from its value at h[d], nearer to B.
Nearer(D, B, N, rank, h) ==
  /\ \A d \in D : rank[d] \in 0..N
  /\ \A d \in D \ B : h[d] \in D /\ rank[h[d]] < rank[d]
Yields(D, B, V, g) == \A d \in D \ B : \A v \in V : g[d][v] \in V
Solves(f, D, B, b, g, h) == \A d \in D : f[d] = IF d \in B THEN b ELSE g[d][f[h[d]]]

LEMMA Recursion ==
  ASSUME NEW D, NEW B, NEW N \in Nat, NEW rank, NEW h, Nearer(D, B, N, rank, h),
         NEW V, NEW b \in V, NEW g, Yields(D, B, V, g)
  PROVE  \E f \in [D -> V] : Solves(f, D, B, b, g, h)
<1> USE DEF Nearer, Yields, Solves
<1> DEFINE Rec(f, d) == f[d] = IF d \in B THEN b ELSE g[d][f[h[d]]]
           Good(k) == \E f \in [D -> V] : \A d \in D : rank[d] < k => Rec(f, d)
           Bad == {k \in Nat : ~Good(k)}
<1>1. Good(0)
  <2>1. [d \in D |-> b] \in [D -> V]
    OBVIOUS
  <2>2. \A d \in D : ~(rank[d] < 0)
    OBVIOUS
  <2> QED
    BY <2>1, <2>2
<1>2. ASSUME NEW k \in Nat, Good(k)
      PROVE  Good(k + 1)
  <2>1. PICK f \in [D -> V] : \A d \in D : rank[d] < k => Rec(f, d)
    BY <1>2
  <2> DEFINE e == [d \in D |-> IF d \in B THEN b ELSE g[d][f[h[d]]]]
  <2>2. e \in [D -> V]
    BY <2>1
  <2>3. ASSUME NEW d \in D, rank[d] < k + 1
        PROVE  Rec(e, d)
    <3>1. CASE d \in B
      BY <3>1
    <3>2. CASE d \notin B
      <4>1. h[d] \in D /\ rank[h[d]] < rank[d] /\ rank[h[d]] \in Nat /\ rank[d] \in Nat
        BY <3>2
      <4>2. rank[h[d]] < k
        BY <2>3, <4>1
      <4>3. e[h[d]] = f[h[d]]
        BY <2>1, <4>1, <4>2
      <4> QED
        BY <3>2, <4>3
    <3> QED
      BY <3>1, <3>2
  <2> HIDE DEF e, Rec
  <2> QED
    BY <2>2, <2>3
<1> HIDE DEF Good
<1>3. Bad = {}
  <2> SUFFICES ASSUME Bad # {} PROVE FALSE
    OBVIOUS
  <2>1. PICK k \in Bad : \A i \in Bad : k <= i
    <3>1. Bad \in SUBSET Nat
      OBVIOUS
    <3> HIDE DEF Bad
    <3> QED
      BY <3>1, LeastNumber
  <2>2. k # 0 /\ k \in Nat
    BY <1>1, <2>1
  <2>3. k - 1 \in Nat /\ ~(k <= k - 1)
    BY <2>2
  <2>4. Good(k - 1)
    BY <2>1, <2>3
  <2>5. Good((k - 1) + 1)
    BY <1>2, <2>3, <2>4
  <2> QED
    BY <2>1, <2>2, <2>5
<1>4. Good(N + 1)
  BY <1>3
<1>5. PICK f \in [D -> V] : \A d \in D : rank[d] < N + 1 => Rec(f, d)
  BY <1>4 DEF Good
<1> QED
  BY <1>5

\* What holds for 0 and goes on holds for every number of Good's range.
LEMMA Stepwise ==
  ASSUME NEW n \in Nat, NEW G, 0 \in G, \A k \in 0..(n - 1) : k \in G => k + 1 \in G
  PROVE  \A k \in 0..n : k \in G
<1> DEFINE Bad == {k \in 0..n : k \notin G}
<1> SUFFICES ASSUME Bad # {} PROVE FALSE
  OBVIOUS
<1>1. PICK k \in Bad : \A i \in Bad : k <= i
  <2>1. Bad \in SUBSET Nat
    OBVIOUS
  <2> HIDE DEF Bad
  <2> QED
    BY <2>1, LeastNumber
<1>2. k \in 1..n /\ k - 1 \in 0..(n - 1) /\ ~(k <= k - 1) /\ (k - 1) + 1 = k
  BY <1>1
<1>3. k - 1 \in G
  BY <1>1, <1>2
<1> QED
  BY <1>1, <1>2, <1>3

\* Joining is recursive.
JoinsTo(f, ts) ==
  /\ f[1] = ts[1]
  /\ \A i \in 2..Len(ts) : f[i] = f[i - 1] \o ts[i]

LEMMA JoinGoes ==
  ASSUME NEW S, NEW ts \in Seq(Seq(S)), ts # <<>>
  PROVE  \E f \in [1..Len(ts) -> Seq(S)] : JoinsTo(f, ts) /\ Rule!Join(ts) = f[Len(ts)]
<1> DEFINE n == Len(ts)
           D == 1..n
           g == [i \in D |-> [v \in Seq(S) |-> v \o ts[i]]]
           rank == [i \in D |-> i]
           h == [i \in D |-> i - 1]
           Body(e) == [i \in 1..n |-> IF i = 1 THEN ts[i] ELSE e[i - 1] \o ts[i]]
           flatten == CHOOSE e : e = Body(e)
<1>1. n \in Nat /\ n # 0 /\ \A i \in D : ts[i] \in Seq(S)
  BY EmptySeq
<1>2. \E f \in [D -> Seq(S)] : Solves(f, D, {1}, ts[1], g, h)
  <2>1. Nearer(D, {1}, n, rank, h) /\ Yields(D, {1}, Seq(S), g) /\ ts[1] \in Seq(S)
    BY <1>1, ConcatProperties DEF Nearer, Yields
  <2> HIDE DEF D, g, h, rank, n
  <2> QED
    BY <1>1, <2>1, Recursion
<1>3. PICK f \in [D -> Seq(S)] : \A i \in D : f[i] = IF i = 1 THEN ts[i] ELSE f[i - 1] \o ts[i]
  <2>1. PICK f \in [D -> Seq(S)] : \A i \in D : f[i] = IF i \in {1} THEN ts[1] ELSE g[i][f[h[i]]]
    BY <1>2 DEF Solves
  <2>2. ASSUME NEW i \in D
        PROVE  f[i] = IF i = 1 THEN ts[i] ELSE f[i - 1] \o ts[i]
    <3>1. CASE i = 1
      BY <2>1, <3>1
    <3>2. CASE i # 1
      <4>1. i - 1 \in D
        BY <1>1, <3>2
      <4>2. f[i - 1] \in Seq(S)
        BY <2>1, <4>1
      <4>3. f[i] = g[i][f[i - 1]]
        BY <2>1, <3>2
      <4> QED
        BY <3>2, <4>2, <4>3
    <3> QED
      BY <3>1, <3>2
  <2> QED
    BY <2>1, <2>2
<1>4. f = Body(f)
  BY <1>3
<1>5. flatten = Body(flatten)
  <2> HIDE DEF Body
  <2> QED
    BY <1>4, Zenon
<1>6. Rule!Join(ts) = flatten[n]
  BY <1>1 DEF Rule!Join, Rule!FlattenSeq
<1> HIDE DEF flatten
<1>7. flatten[1] = ts[1] /\ \A i \in 2..n : flatten[i] = flatten[i - 1] \o ts[i]
  <2>1. \A i \in 1..n : flatten[i] = IF i = 1 THEN ts[i] ELSE flatten[i - 1] \o ts[i]
    BY <1>5
  <2>2. 1 \in 1..n /\ \A i \in 2..n : i \in 1..n /\ i # 1
    BY <1>1
  <2> QED
    BY <2>1, <2>2
<1>8. \A i \in D : flatten[i] \in Seq(S)
  <2> DEFINE G == {k \in Nat : k + 1 \in D => flatten[k + 1] \in Seq(S)}
  <2>1. 0 \in G
    BY <1>1, <1>7
  <2>2. ASSUME NEW k \in 0..(n - 1), k \in G
        PROVE  k + 1 \in G
    <3>1. CASE (k + 1) + 1 \in D
      <4>1. flatten[(k + 1) + 1] = flatten[k + 1] \o ts[(k + 1) + 1]
        <5>1. (k + 1) + 1 \in 2..n /\ ((k + 1) + 1) - 1 = k + 1
          BY <1>1, <3>1
        <5> QED
          BY <1>7, <5>1
      <4>2. flatten[k + 1] \in Seq(S) /\ ts[(k + 1) + 1] \in Seq(S)
        BY <1>1, <2>2, <3>1
      <4>3. flatten[(k + 1) + 1] \in Seq(S)
        BY <4>1, <4>2, ConcatProperties
      <4> QED
        BY <4>3
    <3> QED
      BY <1>1, <3>1
  <2> HIDE DEF G
  <2>3. \A k \in 0..n : k \in G
    BY <1>1, <2>1, <2>2, Stepwise
  <2>4. ASSUME NEW i \in D PROVE i - 1 \in 0..n /\ (i - 1) + 1 = i
    BY <1>1
  <2> QED
    BY <2>3, <2>4 DEF G
<1>9. flatten \in [D -> Seq(S)]
  BY <1>5, <1>8
<1> QED
  BY <1>6, <1>7, <1>9 DEF JoinsTo

LEMMA JoinNone ==
  Rule!Join(<<>>) = <<>>
  BY EmptySeq DEF Rule!Join, Rule!FlattenSeq

LEMMA JoinIsSeq ==
  ASSUME NEW S, NEW ts \in Seq(Seq(S))
  PROVE  Rule!Join(ts) \in Seq(S)
<1>1. CASE ts = <<>>
  BY <1>1, JoinNone, EmptySeq
<1>2. CASE ts # <<>>
  <2>1. PICK f \in [1..Len(ts) -> Seq(S)] : Rule!Join(ts) = f[Len(ts)]
    BY <1>2, JoinGoes
  <2>2. Len(ts) \in 1..Len(ts)
    <3>1. Len(ts) \in Nat /\ Len(ts) # 0
      BY <1>2, EmptySeq, LenProperties
    <3> QED
      BY <3>1
  <2> QED
    BY <2>1, <2>2
<1> QED
  BY <1>1, <1>2

LEMMA JoinOne ==
  ASSUME NEW S, NEW ts \in Seq(Seq(S)), NEW t \in Seq(S)
  PROVE  Rule!Join(Append(ts, t)) = Rule!Join(ts) \o t
<1> DEFINE us == Append(ts, t)
           n == Len(ts)
<1>1. us \in Seq(Seq(S)) /\ Len(us) = n + 1 /\ us[n + 1] = t /\ n \in Nat
      /\ us # <<>> /\ \A i \in 1..n : us[i] = ts[i]
  BY AppendProperties
<1> HIDE DEF us
<1>2. PICK f \in [1..(n + 1) -> Seq(S)] : JoinsTo(f, us) /\ Rule!Join(us) = f[n + 1]
  BY <1>1, JoinGoes
<1>3. CASE ts = <<>>
  BY <1>1, <1>2, <1>3, JoinNone DEF JoinsTo
<1>4. CASE ts # <<>>
  <2>1. PICK e \in [1..n -> Seq(S)] : JoinsTo(e, ts) /\ Rule!Join(ts) = e[n]
    BY <1>4, JoinGoes
  <2>2. n # 0
    BY <1>4, EmptySeq
  <2> DEFINE G == {k \in Nat : k + 1 \in 1..n => f[k + 1] = e[k + 1]}
  <2>3. 0 \in G
    BY <1>1, <1>2, <2>1, <2>2 DEF JoinsTo
  <2>4. ASSUME NEW k \in 0..(n - 1), k \in G
        PROVE  k + 1 \in G
    <3>1. CASE (k + 1) + 1 \in 1..n
      <4>1. (k + 1) + 1 \in 2..n /\ (k + 1) + 1 \in 2..(n + 1) /\ ((k + 1) + 1) - 1 = k + 1
        BY <1>1, <3>1
      <4>2. f[(k + 1) + 1] = f[k + 1] \o us[(k + 1) + 1]
        BY <1>1, <1>2, <4>1 DEF JoinsTo
      <4>3. e[(k + 1) + 1] = e[k + 1] \o ts[(k + 1) + 1]
        BY <2>1, <4>1 DEF JoinsTo
      <4>4. f[k + 1] = e[k + 1] /\ us[(k + 1) + 1] = ts[(k + 1) + 1]
        BY <1>1, <2>4, <3>1
      <4>5. f[(k + 1) + 1] = e[(k + 1) + 1]
        BY <4>2, <4>3, <4>4
      <4> QED
        BY <4>5
    <3> QED
      BY <1>1, <3>1
  <2> HIDE DEF G
  <2>5. \A k \in 0..n : k \in G
    BY <1>1, <2>3, <2>4, Stepwise
  <2>6. n - 1 \in 0..n /\ (n - 1) + 1 = n /\ n \in 1..n
    BY <1>1, <2>2
  <2>7. f[n] = e[n]
    BY <2>5, <2>6 DEF G
  <2>8. f[n + 1] = f[(n + 1) - 1] \o us[n + 1] /\ (n + 1) - 1 = n
    <3>1. n + 1 \in 2..Len(us) /\ (n + 1) - 1 = n
      BY <1>1, <2>2
    <3> QED
      BY <1>2, <3>1 DEF JoinsTo
  <2> QED
    BY <1>1, <1>2, <2>1, <2>7, <2>8 DEF us
<1> QED
  BY <1>2, <1>3, <1>4 DEF us

\* Induction over sequences, for a set.
LEMMA OneByOne ==
  ASSUME NEW S, NEW G, <<>> \in G, \A s \in Seq(S) : \A x \in S : s \in G => Append(s, x) \in G
  PROVE  \A s \in Seq(S) : s \in G
<1> SUFFICES ASSUME NEW t \in Seq(S)
             PROVE  t \in G
  OBVIOUS
<1> DEFINE H == {k \in Nat : \A s \in Seq(S) : Len(s) = k => s \in G}
<1>1. 0 \in H
  BY EmptySeq
<1>2. ASSUME NEW k \in 0..(Len(t) - 1), k \in H
      PROVE  k + 1 \in H
  <2>1. ASSUME NEW s \in Seq(S), Len(s) = k + 1
        PROVE  s \in G
    <3>0. s # <<>>
      <4>1. k + 1 # 0
        BY <1>2
      <4> QED
        BY <2>1, <4>1, EmptySeq
    <3>1. PICK u \in Seq(S), x \in S : s = Append(u, x)
      BY <3>0, SequenceEmptyOrAppend
    <3>2. Len(u) = k
      BY <1>2, <2>1, <3>1, AppendProperties
    <3> QED
      BY <1>2, <3>1, <3>2
  <2> QED
    BY <1>2, <2>1
<1>3. Len(t) \in Nat
  BY LenProperties
<1> HIDE DEF H
<1>4. \A k \in 0..Len(t) : k \in H
  BY <1>1, <1>2, <1>3, Stepwise
<1> QED
  BY <1>3, <1>4 DEF H

\* Keeping the elements at some indices is recursive.
KeptIn(f, s, I) ==
  /\ f[0] = <<>>
  /\ \A i \in 1..Len(s) : f[i] = IF i \in I THEN Append(f[i - 1], s[i]) ELSE f[i - 1]

LEMMA KeptGoes ==
  ASSUME NEW S, NEW s \in Seq(S), NEW I
  PROVE  \E f \in [0..Len(s) -> Seq(S)] : KeptIn(f, s, I) /\ Rule!ElementsAt(s, I) = f[Len(s)]
<1> DEFINE n == Len(s)
           D == 0..n
           g == [i \in D |-> [v \in Seq(S) |-> IF i \in I THEN Append(v, s[i]) ELSE v]]
           rank == [i \in D |-> i]
           h == [i \in D |-> i - 1]
           Body(e) == [i \in 0..n |-> IF i = 0 THEN <<>>
                                      ELSE IF i \in I THEN Append(e[i - 1], s[i]) ELSE e[i - 1]]
           kept == CHOOSE e : e = Body(e)
<1>1. n \in Nat /\ \A i \in 1..n : s[i] \in S
  BY LenProperties, ElementOfSeq
<1>2. \E f \in [D -> Seq(S)] : Solves(f, D, {0}, <<>>, g, h)
  <2>1. Nearer(D, {0}, n, rank, h) /\ Yields(D, {0}, Seq(S), g) /\ <<>> \in Seq(S)
    BY <1>1, AppendProperties DEF Nearer, Yields
  <2> HIDE DEF D, g, h, rank, n
  <2> QED
    BY <1>1, <2>1, Recursion
<1>3. PICK f \in [D -> Seq(S)] :
        \A i \in D : f[i] = IF i = 0 THEN <<>>
                            ELSE IF i \in I THEN Append(f[i - 1], s[i]) ELSE f[i - 1]
  <2>1. PICK f \in [D -> Seq(S)] : \A i \in D : f[i] = IF i \in {0} THEN <<>> ELSE g[i][f[h[i]]]
    BY <1>2 DEF Solves
  <2>2. ASSUME NEW i \in D
        PROVE  f[i] = IF i = 0 THEN <<>> ELSE IF i \in I THEN Append(f[i - 1], s[i]) ELSE f[i - 1]
    <3>1. CASE i = 0
      BY <2>1, <3>1
    <3>2. CASE i # 0
      <4>1. i - 1 \in D
        BY <1>1, <3>2
      <4>2. f[i - 1] \in Seq(S)
        BY <2>1, <4>1
      <4>3. f[i] = g[i][f[i - 1]]
        BY <2>1, <3>2
      <4> QED
        BY <3>2, <4>2, <4>3
    <3> QED
      BY <3>1, <3>2
  <2> QED
    BY <2>1, <2>2
<1>4. f = Body(f)
  BY <1>3
<1>5. kept = Body(kept)
  <2> HIDE DEF Body
  <2> QED
    BY <1>4, Zenon
<1>6. Rule!ElementsAt(s, I) = kept[n]
  BY DEF Rule!ElementsAt
<1> HIDE DEF kept
<1>7. kept[0] = <<>>
      /\ \A i \in 1..n : kept[i] = IF i \in I THEN Append(kept[i - 1], s[i]) ELSE kept[i - 1]
  <2>1. \A i \in 0..n : kept[i] = IF i = 0 THEN <<>>
                                  ELSE IF i \in I THEN Append(kept[i - 1], s[i]) ELSE kept[i - 1]
    BY <1>5
  <2>2. 0 \in 0..n /\ \A i \in 1..n : i \in 0..n /\ i # 0
    BY <1>1
  <2> QED
    BY <2>1, <2>2
<1>8. \A i \in D : kept[i] \in Seq(S)
  <2> DEFINE G == {k \in Nat : k \in D => kept[k] \in Seq(S)}
  <2>1. 0 \in G
    BY <1>7, EmptySeq
  <2>2. ASSUME NEW k \in 0..(n - 1), k \in G
        PROVE  k + 1 \in G
    <3>1. k \in D /\ k + 1 \in 1..n /\ (k + 1) - 1 = k /\ k + 1 \in Nat
      BY <1>1
    <3>2. kept[k] \in Seq(S) /\ s[k + 1] \in S
      BY <1>1, <2>2, <3>1
    <3>3. kept[k + 1] = IF k + 1 \in I THEN Append(kept[k], s[k + 1]) ELSE kept[k]
      BY <1>7, <3>1
    <3>4. kept[k + 1] \in Seq(S)
      BY <3>2, <3>3, AppendProperties
    <3> QED
      BY <3>1, <3>4
  <2> HIDE DEF G
  <2>3. \A k \in 0..n : k \in G
    BY <1>1, <2>1, <2>2, Stepwise
  <2> QED
    BY <1>1, <2>3 DEF G
<1>9. kept \in [D -> Seq(S)]
  BY <1>5, <1>8
<1> QED
  BY <1>6, <1>7, <1>9 DEF KeptIn

LEMMA KeptNone ==
  ASSUME NEW I
  PROVE  Rule!ElementsAt(<<>>, I) = <<>>
<1>1. <<>> \in Seq({}) /\ Len(<<>>) = 0
  BY EmptySeq
<1>2. PICK f : KeptIn(f, <<>>, I) /\ Rule!ElementsAt(<<>>, I) = f[0]
  BY <1>1, KeptGoes
<1> QED
  BY <1>2 DEF KeptIn

LEMMA KeptIsSeq ==
  ASSUME NEW S, NEW s \in Seq(S), NEW I
  PROVE  Rule!ElementsAt(s, I) \in Seq(S)
<1>1. Len(s) \in 0..Len(s)
  BY LenProperties
<1> QED
  BY <1>1, KeptGoes

LEMMA KeptOne ==
  ASSUME NEW S, NEW s \in Seq(S), NEW x \in S, NEW I, NEW J,
         \A i \in 1..Len(s) : i \in I <=> i \in J
  PROVE  Rule!ElementsAt(Append(s, x), J)
           = IF Len(s) + 1 \in J THEN Append(Rule!ElementsAt(s, I), x) ELSE Rule!ElementsAt(s, I)
<1> DEFINE u == Append(s, x)
           n == Len(s)
<1>1. u \in Seq(S) /\ Len(u) = n + 1 /\ u[n + 1] = x /\ n \in Nat
      /\ \A i \in 1..n : u[i] = s[i]
  BY AppendProperties, LenProperties
<1> HIDE DEF u
<1>0. n \in Nat
  BY <1>1
<1>2. PICK f \in [0..(n + 1) -> Seq(S)] : KeptIn(f, u, J) /\ Rule!ElementsAt(u, J) = f[n + 1]
  BY <1>1, KeptGoes
<1>3. PICK e \in [0..n -> Seq(S)] : KeptIn(e, s, I) /\ Rule!ElementsAt(s, I) = e[n]
  BY KeptGoes
<1> DEFINE G == {k \in Nat : k \in 0..n => f[k] = e[k]}
<1>4. 0 \in G
  BY <1>2, <1>3 DEF KeptIn
<1>5. ASSUME NEW k \in 0..(n - 1), k \in G
      PROVE  k + 1 \in G
  <2>1. k + 1 \in 1..n /\ k + 1 \in 1..(n + 1) /\ (k + 1) - 1 = k /\ k \in 0..n /\ k + 1 \in Nat
    BY <1>0
  <2>2. f[k + 1] = IF k + 1 \in J THEN Append(f[k], u[k + 1]) ELSE f[k]
    BY <1>1, <1>2, <2>1 DEF KeptIn
  <2>3. e[k + 1] = IF k + 1 \in I THEN Append(e[k], s[k + 1]) ELSE e[k]
    BY <1>3, <2>1 DEF KeptIn
  <2>4. f[k] = e[k] /\ u[k + 1] = s[k + 1] /\ (k + 1 \in I <=> k + 1 \in J)
    BY <1>1, <1>5, <2>1
  <2>5. f[k + 1] = e[k + 1]
    BY <2>2, <2>3, <2>4
  <2> QED
    BY <2>1, <2>5
<1> HIDE DEF G
<1>6. \A k \in 0..n : k \in G
  BY <1>1, <1>4, <1>5, Stepwise
<1>7. f[n] = e[n]
  BY <1>1, <1>6 DEF G
<1>8. f[n + 1] = IF n + 1 \in J THEN Append(f[n], u[n + 1]) ELSE f[n]
  <2>1. n + 1 \in 1..(n + 1) /\ (n + 1) - 1 = n
    BY <1>1
  <2> QED
    BY <1>1, <1>2, <2>1 DEF KeptIn
<1> QED
  BY <1>1, <1>2, <1>3, <1>7, <1>8 DEF u

LEMMA AppendMoves ==
  ASSUME NEW S, NEW v \in Seq(S), NEW w \in Seq(S), NEW x \in S
  PROVE  v \o Append(w, x) = Append(v \o w, x)
<1>1. <<x>> \in Seq(S) /\ v \o w \in Seq(S)
  BY ConcatProperties
<1>2. Append(w, x) = w \o <<x>> /\ Append(v \o w, x) = (v \o w) \o <<x>>
  BY <1>1, AppendIsConcat
<1> QED
  BY <1>1, <1>2, ConcatAssociative

\* Ink, and what has some: one by one, and of what is joined.
LEMMA InkedNone == Rule!Inked(<<>>) = <<>>
  BY KeptNone DEF Rule!Inked

LEMMA InkedIsSeq ==
  ASSUME NEW S, NEW s \in Seq(S)
  PROVE  Rule!Inked(s) \in Seq(S)
  BY KeptIsSeq DEF Rule!Inked

LEMMA InkedOne ==
  ASSUME NEW S, NEW s \in Seq(S), NEW x \in S
  PROVE  Rule!Inked(Append(s, x))
           = IF x \in Rule!White THEN Rule!Inked(s) ELSE Append(Rule!Inked(s), x)
<1> DEFINE u == Append(s, x)
           I == {i \in DOMAIN s : s[i] \notin Rule!White}
           J == {i \in DOMAIN u : u[i] \notin Rule!White}
<1>1. /\ DOMAIN s = 1..Len(s) /\ DOMAIN u = 1..(Len(s) + 1) /\ u[Len(s) + 1] = x
      /\ Len(s) \in Nat /\ \A i \in 1..Len(s) : u[i] = s[i]
  BY AppendProperties, LenProperties
<1>2. \A i \in 1..Len(s) : i \in I <=> i \in J
  BY <1>1
<1>3. Len(s) + 1 \in J <=> x \notin Rule!White
  BY <1>1
<1>4. Rule!Inked(s) = Rule!ElementsAt(s, I) /\ Rule!Inked(u) = Rule!ElementsAt(u, J)
  BY DEF Rule!Inked
<1> HIDE DEF I, J
<1>5. Rule!ElementsAt(u, J)
        = IF Len(s) + 1 \in J THEN Append(Rule!ElementsAt(s, I), x) ELSE Rule!ElementsAt(s, I)
  BY <1>2, KeptOne
<1> QED
  BY <1>3, <1>4, <1>5

LEMMA InkedJoins ==
  ASSUME NEW S, NEW a \in Seq(S), NEW b \in Seq(S)
  PROVE  Rule!Inked(a \o b) = Rule!Inked(a) \o Rule!Inked(b)
<1> DEFINE G == {s \in Seq(S) : Rule!Inked(a \o s) = Rule!Inked(a) \o Rule!Inked(s)}
<1>1. <<>> \in G
  <2>1. a \o <<>> = a /\ Rule!Inked(a) \o <<>> = Rule!Inked(a)
    BY InkedIsSeq, ConcatEmptySeq
  <2> QED
    BY <2>1, InkedNone, EmptySeq
<1>2. ASSUME NEW s \in Seq(S), NEW x \in S, s \in G
      PROVE  Append(s, x) \in G
  <2>1. Append(s, x) \in Seq(S) /\ a \o s \in Seq(S)
    BY AppendProperties, ConcatProperties
  <2>2. a \o Append(s, x) = Append(a \o s, x)
    BY AppendMoves
  <2>3. Rule!Inked(Append(a \o s, x))
          = IF x \in Rule!White THEN Rule!Inked(a \o s) ELSE Append(Rule!Inked(a \o s), x)
    BY <2>1, InkedOne
  <2>4. Rule!Inked(Append(s, x))
          = IF x \in Rule!White THEN Rule!Inked(s) ELSE Append(Rule!Inked(s), x)
    BY InkedOne
  <2>5. Append(Rule!Inked(a) \o Rule!Inked(s), x) = Rule!Inked(a) \o Append(Rule!Inked(s), x)
    <3>1. PICK v \in Seq(S), w \in Seq(S) : v = Rule!Inked(a) /\ w = Rule!Inked(s)
      BY InkedIsSeq
    <3>2. v \o Append(w, x) = Append(v \o w, x)
      BY AppendMoves
    <3> QED
      BY <3>1, <3>2
  <2>6. Rule!Inked(a \o s) = Rule!Inked(a) \o Rule!Inked(s)
    BY <1>2
  <2> QED
    BY <2>1, <2>2, <2>3, <2>4, <2>5, <2>6
<1> HIDE DEF G
<1>3. b \in G
  BY <1>1, <1>2, OneByOne
<1> QED
  BY <1>3 DEF G

LEMMA InkedBlank ==
  ASSUME NEW S, NEW t \in Seq(S), Rule!IsBlank(t)
  PROVE  Rule!Inked(t) = <<>>
<1> DEFINE G == {s \in Seq(S) : Rule!IsBlank(s) => Rule!Inked(s) = <<>>}
<1>1. <<>> \in G
  BY InkedNone, EmptySeq
<1>2. ASSUME NEW s \in Seq(S), NEW x \in S, s \in G
      PROVE  Append(s, x) \in G
  <2> DEFINE u == Append(s, x)
  <2>1. /\ DOMAIN s = 1..Len(s) /\ DOMAIN u = 1..(Len(s) + 1) /\ u[Len(s) + 1] = x
        /\ Len(s) \in Nat /\ u \in Seq(S) /\ \A i \in 1..Len(s) : u[i] = s[i]
    BY AppendProperties, LenProperties
  <2>2. ASSUME Rule!IsBlank(u)
        PROVE  Rule!Inked(u) = <<>>
    <3>1. \A i \in 1..(Len(s) + 1) : u[i] \in Rule!White
      BY <2>1, <2>2 DEF Rule!IsBlank
    <3>2. x \in Rule!White /\ Rule!IsBlank(s)
      BY <2>1, <3>1 DEF Rule!IsBlank
    <3> QED
      BY <1>2, <3>2, InkedOne
  <2> QED
    BY <2>1, <2>2
<1> HIDE DEF G
<1>3. t \in G
  BY <1>1, <1>2, OneByOne
<1> QED
  BY <1>3 DEF G

\* In Seq(S) the brackets of a concatenation do not matter.
Associates(S) == \A u, v, w \in Seq(S) : (u \o v) \o w = u \o (v \o w)

LEMMA ConcatRegroups ==
  ASSUME NEW S
  PROVE  Associates(S)
BY ConcatAssociative DEF Associates

LEMMA JoinJoins ==
  ASSUME NEW S, NEW a \in Seq(Seq(S)), NEW b \in Seq(Seq(S))
  PROVE  Rule!Join(a \o b) = Rule!Join(a) \o Rule!Join(b)
<1> DEFINE G == {s \in Seq(Seq(S)) : Rule!Join(a \o s) = Rule!Join(a) \o Rule!Join(s)}
<1>1. <<>> \in G
  <2>1. a \o <<>> = a /\ Rule!Join(a) \o <<>> = Rule!Join(a)
    BY JoinIsSeq, ConcatEmptySeq
  <2> QED
    BY <2>1, JoinNone, EmptySeq
<1>2. ASSUME NEW s \in Seq(Seq(S)), NEW x \in Seq(S), s \in G
      PROVE  Append(s, x) \in G
  <2>1. Append(s, x) \in Seq(Seq(S)) /\ a \o s \in Seq(Seq(S))
    BY AppendProperties, ConcatProperties
  <2>2. a \o Append(s, x) = Append(a \o s, x)
    BY AppendMoves
  <2>3. Rule!Join(Append(a \o s, x)) = Rule!Join(a \o s) \o x
    BY <2>1, JoinOne
  <2>4. Rule!Join(Append(s, x)) = Rule!Join(s) \o x
    BY JoinOne
  <2>5. (Rule!Join(a) \o Rule!Join(s)) \o x = Rule!Join(a) \o (Rule!Join(s) \o x)
    <3>1. PICK u \in Seq(S) : u = Rule!Join(a)
      BY JoinIsSeq, Zenon
    <3>2. PICK v \in Seq(S) : v = Rule!Join(s)
      BY JoinIsSeq, Zenon
    <3> HIDE DEF G
    <3>4. Associates(S)
      BY ConcatRegroups
    <3>3. (u \o v) \o x = u \o (v \o x)
      BY <3>4, Zenon DEF Associates
    <3> QED
      BY <3>1, <3>2, <3>3, Zenon
  <2> QED
    BY <1>2, <2>1, <2>2, <2>3, <2>4, <2>5
<1> HIDE DEF G
<1>3. b \in G
  BY <1>1, <1>2, OneByOne
<1> QED
  BY <1>3 DEF G

LEMMA JoinSingle ==
  ASSUME NEW S, NEW t \in Seq(S)
  PROVE  Rule!Join(<<t>>) = t
<1>1. <<t>> = Append(<<>>, t) /\ <<>> \in Seq(Seq(S)) /\ <<>> \in Seq(S)
  BY EmptySeq
<1>2. Rule!Join(Append(<<>>, t)) = Rule!Join(<<>>) \o t
  BY <1>1, JoinOne
<1> QED
  BY <1>1, <1>2, JoinNone, ConcatEmptySeq

LEMMA InkOfOneMore ==
  ASSUME NEW S, NEW ts \in Seq(Seq(S)), NEW t \in Seq(S)
  PROVE  Rule!Inked(Rule!Join(Append(ts, t))) = Rule!Inked(Rule!Join(ts)) \o Rule!Inked(t)
<1>1. Rule!Join(Append(ts, t)) = Rule!Join(ts) \o t /\ Rule!Join(ts) \in Seq(S)
  BY JoinOne, JoinIsSeq
<1>2. Rule!Inked(Rule!Join(ts) \o t) = Rule!Inked(Rule!Join(ts)) \o Rule!Inked(t)
  BY <1>1, InkedJoins
<1> QED
  BY <1>1, <1>2

LEMMA FilledNone == Rule!Filled(<<>>) = <<>>
  BY KeptNone DEF Rule!Filled

LEMMA FilledIsSeq ==
  ASSUME NEW S, NEW ts \in Seq(S)
  PROVE  Rule!Filled(ts) \in Seq(S)
  BY KeptIsSeq DEF Rule!Filled

LEMMA FilledOne ==
  ASSUME NEW S, NEW s \in Seq(S), NEW x \in S
  PROVE  Rule!Filled(Append(s, x))
           = IF Rule!IsBlank(x) THEN Rule!Filled(s) ELSE Append(Rule!Filled(s), x)
<1> DEFINE u == Append(s, x)
           I == {i \in DOMAIN s : ~Rule!IsBlank(s[i])}
           J == {i \in DOMAIN u : ~Rule!IsBlank(u[i])}
<1>1. /\ DOMAIN s = 1..Len(s) /\ DOMAIN u = 1..(Len(s) + 1) /\ u[Len(s) + 1] = x
      /\ Len(s) \in Nat /\ \A i \in 1..Len(s) : u[i] = s[i]
  BY AppendProperties, LenProperties
<1>2. \A i \in 1..Len(s) : i \in I <=> i \in J
  BY <1>1
<1>3. Len(s) + 1 \in J <=> ~Rule!IsBlank(x)
  BY <1>1
<1>4. Rule!Filled(s) = Rule!ElementsAt(s, I) /\ Rule!Filled(u) = Rule!ElementsAt(u, J)
  BY DEF Rule!Filled
<1> HIDE DEF I, J
<1>5. Rule!ElementsAt(u, J)
        = IF Len(s) + 1 \in J THEN Append(Rule!ElementsAt(s, I), x) ELSE Rule!ElementsAt(s, I)
  BY <1>2, KeptOne
<1> QED
  BY <1>3, <1>4, <1>5

\* Chunks without anything in them can be left out.
LEMMA FilledKeepsInk ==
  ASSUME NEW S, NEW ts \in Seq(Seq(S))
  PROVE  Rule!Inked(Rule!Join(Rule!Filled(ts))) = Rule!Inked(Rule!Join(ts))
<1> DEFINE Same(s) == Rule!Inked(Rule!Join(Rule!Filled(s))) = Rule!Inked(Rule!Join(s))
           G == {s \in Seq(Seq(S)) : Same(s)}
<1>1. <<>> \in G
  BY FilledNone, EmptySeq
<1>2. ASSUME NEW s \in Seq(Seq(S)), NEW x \in Seq(S), s \in G
      PROVE  Append(s, x) \in G
  <2>1. Append(s, x) \in Seq(Seq(S)) /\ Rule!Join(s) \in Seq(S)
        /\ Rule!Filled(s) \in Seq(Seq(S)) /\ Rule!Join(Rule!Filled(s)) \in Seq(S)
    BY AppendProperties, JoinIsSeq, FilledIsSeq
  <2>2. Rule!Inked(Rule!Join(Append(s, x))) = Rule!Inked(Rule!Join(s)) \o Rule!Inked(x)
    BY InkOfOneMore
  <2>3. Rule!Inked(Rule!Join(Rule!Filled(s))) = Rule!Inked(Rule!Join(s))
    BY <1>2
  <2>4. CASE Rule!IsBlank(x)
    <3>1. Rule!Filled(Append(s, x)) = Rule!Filled(s)
      BY <2>4, FilledOne
    <3>2. Rule!Inked(Rule!Join(Append(s, x))) = Rule!Inked(Rule!Join(s))
      <4>1. Rule!Inked(x) = <<>> /\ Rule!Inked(Rule!Join(s)) \in Seq(S)
        BY <2>1, <2>4, InkedBlank, InkedIsSeq
      <4> QED
        BY <2>2, <4>1, ConcatEmptySeq
    <3> QED
      BY <2>1, <2>3, <3>1, <3>2
  <2>5. CASE ~Rule!IsBlank(x)
    <3>1. Rule!Filled(Append(s, x)) = Append(Rule!Filled(s), x)
      BY <2>5, FilledOne
    <3>2. Rule!Inked(Rule!Join(Append(Rule!Filled(s), x)))
            = Rule!Inked(Rule!Join(Rule!Filled(s))) \o Rule!Inked(x)
      BY <2>1, InkOfOneMore
    <3>3. Same(Append(s, x))
      BY <2>2, <2>3, <3>1, <3>2
    <3> QED
      BY <2>1, <3>3
  <2> QED
    BY <2>4, <2>5
<1> HIDE DEF G
<1>3. ts \in G
  BY <1>1, <1>2, OneByOne
<1> QED
  BY <1>3 DEF G

\* White space at the ends is trimmed, and nothing else.
LEMMA SplitAt ==
  ASSUME NEW S, NEW s \in Seq(S), NEW k \in 0..Len(s)
  PROVE  /\ SubSeq(s, 1, k) \in Seq(S) /\ SubSeq(s, k + 1, Len(s)) \in Seq(S)
         /\ Len(SubSeq(s, 1, k)) = k /\ Len(SubSeq(s, k + 1, Len(s))) = Len(s) - k
         /\ \A i \in 1..k : SubSeq(s, 1, k)[i] = s[i]
         /\ \A i \in 1..(Len(s) - k) : SubSeq(s, k + 1, Len(s))[i] = s[k + i]
         /\ s = SubSeq(s, 1, k) \o SubSeq(s, k + 1, Len(s))
<1>1. Len(s) \in Nat /\ k \in Nat /\ k <= Len(s)
  BY LenProperties
<1>2. /\ SubSeq(s, 1, k) \in Seq(S) /\ Len(SubSeq(s, 1, k)) = k
      /\ \A i \in 1..k : SubSeq(s, 1, k)[i] = s[i]
  BY <1>1
<1>3. /\ SubSeq(s, k + 1, Len(s)) \in Seq(S) /\ Len(SubSeq(s, k + 1, Len(s))) = Len(s) - k
      /\ \A i \in 1..(Len(s) - k) : SubSeq(s, k + 1, Len(s))[i] = s[k + i]
  BY <1>1
<1>4. s = SubSeq(s, 1, k) \o SubSeq(s, k + 1, Len(s))
  <2>1. 1 \in 1..(Len(s) + 1) /\ k \in (1 - 1)..Len(s) /\ Len(s) \in k..Len(s)
    BY <1>1
  <2>2. SubSeq(s, 1, k) \o SubSeq(s, k + 1, Len(s)) = SubSeq(s, 1, Len(s))
    BY <2>1, ConcatAdjacentSubSeq
  <2> QED
    BY <2>2, SubSeqFull
<1> QED
  BY <1>2, <1>3, <1>4

LEMMA BlankBefore ==
  ASSUME NEW S, NEW t \in Seq(S), NEW k \in 0..Len(t), Rule!Only(t, 1, k, Rule!White)
  PROVE  Rule!Inked(SubSeq(t, k + 1, Len(t))) = Rule!Inked(t)
<1> DEFINE a == SubSeq(t, 1, k)
           b == SubSeq(t, k + 1, Len(t))
<1>1. /\ a \in Seq(S) /\ b \in Seq(S) /\ Len(a) = k /\ t = a \o b
      /\ \A i \in 1..k : a[i] = t[i]
  <2>1. a \in Seq(S) /\ b \in Seq(S) /\ t = a \o b
    BY SplitAt
  <2>2. Len(a) = k /\ \A i \in 1..k : a[i] = t[i]
    BY SplitAt
  <2> QED
    BY <2>1, <2>2, Zenon
<1> HIDE DEF a, b
<1>2. Rule!IsBlank(a)
  <2>1. DOMAIN a = 1..k
    BY <1>1, LenProperties
  <2> QED
    BY <1>1, <2>1 DEF Rule!IsBlank, Rule!Only
<1>3. Rule!Inked(a) = <<>> /\ Rule!Inked(b) \in Seq(S)
  BY <1>1, <1>2, InkedBlank, InkedIsSeq
<1>4. Rule!Inked(t) = Rule!Inked(a) \o Rule!Inked(b)
  BY <1>1, InkedJoins
<1>5. Rule!Inked(t) = Rule!Inked(b)
  BY <1>3, <1>4, ConcatEmptySeq
<1> QED
  BY <1>5 DEF b

LEMMA BlankBehind ==
  ASSUME NEW S, NEW t \in Seq(S), NEW k \in 0..Len(t), Rule!Only(t, k + 1, Len(t), Rule!White)
  PROVE  Rule!Inked(SubSeq(t, 1, k)) = Rule!Inked(t)
<1> DEFINE a == SubSeq(t, 1, k)
           b == SubSeq(t, k + 1, Len(t))
<1>1. /\ a \in Seq(S) /\ b \in Seq(S) /\ Len(b) = Len(t) - k /\ t = a \o b
      /\ \A i \in 1..(Len(t) - k) : b[i] = t[k + i]
  BY SplitAt
<1> HIDE DEF a, b
<1>2. Rule!IsBlank(b)
  <2>1. DOMAIN b = 1..(Len(t) - k) /\ Len(t) \in Nat
    BY <1>1, LenProperties
  <2>2. \A i \in 1..(Len(t) - k) : k + i \in (k + 1)..Len(t)
    BY <2>1
  <2> QED
    BY <1>1, <2>1, <2>2 DEF Rule!IsBlank, Rule!Only
<1>3. Rule!Inked(b) = <<>> /\ Rule!Inked(a) \in Seq(S)
  BY <1>1, <1>2, InkedBlank, InkedIsSeq
<1>4. Rule!Inked(t) = Rule!Inked(a) \o Rule!Inked(b)
  BY <1>1, InkedJoins
<1>5. Rule!Inked(t) = Rule!Inked(a)
  BY <1>3, <1>4, ConcatEmptySeq
<1> QED
  BY <1>5 DEF a

LEMMA TrimmedKeepsInk ==
  ASSUME NEW S, NEW t \in Seq(S)
  PROVE  Rule!Trimmed(t) \in Seq(S) /\ Rule!Inked(Rule!Trimmed(t)) = Rule!Inked(t)
<1> DEFINE lead == {i \in DOMAIN t : t[i] = "n" /\ Rule!Only(t, 1, i, Rule!White)}
           k == Rule!Max(lead \union {0})
           u == SubSeq(t, k + 1, Len(t))
           tail == {i \in DOMAIN u : u[i] = "n" /\ Rule!Only(u, i, Len(u), Rule!White)}
           m == Rule!Min(tail \union {Len(u) + 1})
<1>1. Len(t) \in Nat /\ DOMAIN t = 1..Len(t)
  BY LenProperties
<1>2. k \in 0..Len(t) /\ Rule!Only(t, 1, k, Rule!White)
  <2>1. lead \union {0} \in SUBSET Int /\ \A i \in lead \union {0} : i <= Len(t) /\ i >= 0
    BY <1>1
  <2>2. lead \union {0} # {} /\ Len(t) \in Int
    BY <1>1
  <2>3. \A i \in lead \union {0} : Rule!Only(t, 1, i, Rule!White)
    BY DEF Rule!Only
  <2> HIDE DEF lead
  <2>4. k \in lead \union {0}
    BY <2>1, <2>2, GreatestIsMax
  <2> HIDE DEF k
  <2> QED
    BY <1>1, <2>1, <2>3, <2>4
<1> HIDE DEF k
<1>3. u \in Seq(S) /\ Rule!Inked(u) = Rule!Inked(t)
  BY <1>2, SplitAt, BlankBefore
<1> HIDE DEF u
<1>4. Len(u) \in Nat /\ DOMAIN u = 1..Len(u)
  BY <1>3, LenProperties
<1>5. m - 1 \in 0..Len(u) /\ Rule!Only(u, (m - 1) + 1, Len(u), Rule!White)
  <2>1. tail \union {Len(u) + 1} \in SUBSET Nat
    BY <1>4
  <2>2. tail \union {Len(u) + 1} # {} /\ \A i \in tail \union {Len(u) + 1} : i \in 1..(Len(u) + 1)
    BY <1>4
  <2>3. \A i \in tail \union {Len(u) + 1} : Rule!Only(u, i, Len(u), Rule!White)
    BY <1>4 DEF Rule!Only
  <2> HIDE DEF tail
  <2>4. m \in tail \union {Len(u) + 1}
    BY <2>1, <2>2, LeastIsMin
  <2> HIDE DEF m
  <2>5. m \in 1..(Len(u) + 1)
    BY <2>2, <2>4
  <2>6. m - 1 \in 0..Len(u) /\ (m - 1) + 1 = m
    BY <1>4, <2>5
  <2> QED
    BY <2>3, <2>4, <2>6
<1> HIDE DEF m
<1>6. SubSeq(u, 1, m - 1) \in Seq(S) /\ Rule!Inked(SubSeq(u, 1, m - 1)) = Rule!Inked(u)
  BY <1>3, <1>5, SplitAt, BlankBehind
<1>7. Rule!Trimmed(t) = SubSeq(u, 1, m - 1)
  BY DEF Rule!Trimmed, m, tail, u, k, lead
<1> QED
  BY <1>3, <1>6, <1>7

\* A text in pieces.
LEMMA Downwards ==
  ASSUME NEW n \in Nat, NEW G, n \in G,
         \A i \in 0..(n - 1) : (\A j \in (i + 1)..n : j \in G) => i \in G
  PROVE  \A i \in 0..n : i \in G
<1> DEFINE Bad == {k \in 0..n : k \notin G}
<1> SUFFICES ASSUME Bad # {} PROVE FALSE
  OBVIOUS
<1>1. PICK k \in Bad : \A i \in Bad : k >= i
  <2>1. Bad \in SUBSET Int /\ n \in Int /\ \A i \in Bad : i <= n
    OBVIOUS
  <2> HIDE DEF Bad
  <2> QED
    BY <2>1, GreatestNumber
<1>2. k \in 0..n /\ k # n /\ k \in 0..(n - 1)
  BY <1>1
<1>3. \A j \in (k + 1)..n : j \in 0..n /\ ~(k >= j)
  BY <1>2
<1>4. \A j \in (k + 1)..n : j \in G
  BY <1>1, <1>3
<1> QED
  BY <1>1, <1>2, <1>4

PiecesTo(f, t, to) ==
  /\ f[Len(t)] = <<>>
  /\ \A i \in 0..(Len(t) - 1) : f[i] = <<SubSeq(t, i + 1, to[i])>> \o f[to[i]]

LEMMA PiecesGo ==
  ASSUME NEW S, NEW t \in Seq(S), NEW to, \A i \in 0..(Len(t) - 1) : to[i] \in (i + 1)..Len(t),
         NEW Fit, \A i \in 0..(Len(t) - 1) : SubSeq(t, i + 1, to[i]) \in Fit
  PROVE  \E f \in [0..Len(t) -> Seq(Fit)] : PiecesTo(f, t, to) /\ Rule!Pieces(t, to) = f[0]
<1> DEFINE n == Len(t)
           D == 0..n
           P(i) == <<SubSeq(t, i + 1, to[i])>>
           g == [i \in D |-> [v \in Seq(Fit) |-> P(i) \o v]]
           rank == [i \in D |-> n - i]
           Body(e) == [i \in 0..n |-> IF i = n THEN <<>> ELSE P(i) \o e[to[i]]]
           pieces == CHOOSE e : e = Body(e)
<1>1. n \in Nat
  BY LenProperties
<1>2. \A i \in D \ {n} : /\ i \in 0..(n - 1) /\ i + 1 \in Nat /\ to[i] \in (i + 1)..n /\ to[i] \in D
                         /\ P(i) \in Seq(Fit)
  BY <1>1
<1>3. \A i \in D \ {n} : \A v \in Seq(Fit) : P(i) \o v \in Seq(Fit)
  <2> HIDE DEF P, D
  <2> QED
    BY <1>2, ConcatProperties
<1> HIDE DEF P
<1>4. \E f \in [D -> Seq(Fit)] : Solves(f, D, {n}, <<>>, g, to)
  <2>1. Nearer(D, {n}, n, rank, to)
    <3>1. \A i \in D : rank[i] \in 0..n
      BY <1>1
    <3>2. ASSUME NEW i \in D \ {n}
          PROVE  to[i] \in D /\ rank[to[i]] < rank[i]
      <4>1. to[i] \in (i + 1)..n /\ to[i] \in D /\ i \in 0..(n - 1)
        BY <1>2
      <4> QED
        BY <1>1, <4>1
    <3> QED
      BY <3>1, <3>2 DEF Nearer
  <2>2. Yields(D, {n}, Seq(Fit), g) /\ <<>> \in Seq(Fit)
    BY <1>3, EmptySeq DEF Yields
  <2> HIDE DEF D, g, rank, n
  <2> QED
    BY <1>1, <2>1, <2>2, Recursion
<1>5. PICK f \in [D -> Seq(Fit)] : \A i \in D : f[i] = IF i = n THEN <<>> ELSE P(i) \o f[to[i]]
  <2>1. PICK f \in [D -> Seq(Fit)] : \A i \in D : f[i] = IF i \in {n} THEN <<>> ELSE g[i][f[to[i]]]
    BY <1>4 DEF Solves
  <2>2. ASSUME NEW i \in D
        PROVE  f[i] = IF i = n THEN <<>> ELSE P(i) \o f[to[i]]
    <3>1. CASE i = n
      BY <2>1, <3>1
    <3>2. CASE i # n
      <4>1. f[to[i]] \in Seq(Fit)
        BY <1>2, <2>1, <3>2
      <4>2. f[i] = g[i][f[to[i]]]
        BY <2>1, <3>2
      <4> QED
        BY <3>2, <4>1, <4>2
    <3> QED
      BY <3>1, <3>2
  <2> QED
    BY <2>1, <2>2
<1>6. f = Body(f)
  BY <1>5
<1>7. pieces = Body(pieces)
  <2> HIDE DEF Body
  <2> QED
    BY <1>6, Zenon
<1>8. Rule!Pieces(t, to) = pieces[0]
  BY DEF Rule!Pieces, P
<1> HIDE DEF pieces
<1>9. \A i \in D : pieces[i] = IF i = n THEN <<>> ELSE P(i) \o pieces[to[i]]
  BY <1>7
<1>10. \A i \in D : pieces[i] \in Seq(Fit)
  <2> DEFINE G == {i \in D : pieces[i] \in Seq(Fit)}
  <2>1. n \in G
    <3>1. n \in D /\ <<>> \in Seq(Fit)
      BY <1>1, EmptySeq
    <3>2. pieces[n] = <<>>
      BY <1>9, <3>1
    <3> QED
      BY <3>1, <3>2
  <2>2. ASSUME NEW i \in 0..(n - 1), \A j \in (i + 1)..n : j \in G
        PROVE  i \in G
    <3>1. i \in D \ {n}
      BY <1>1
    <3>2. pieces[to[i]] \in Seq(Fit)
      BY <1>2, <2>2, <3>1
    <3>3. pieces[i] = P(i) \o pieces[to[i]]
      BY <1>9, <3>1
    <3>4. pieces[i] \in Seq(Fit)
      BY <1>3, <3>1, <3>2, <3>3
    <3> QED
      BY <3>1, <3>4
  <2> HIDE DEF G
  <2>3. \A i \in 0..n : i \in G
    BY <1>1, <2>1, <2>2, Downwards
  <2> QED
    BY <2>3 DEF G
<1>11. pieces \in [D -> Seq(Fit)]
  BY <1>7, <1>10
<1>12. PiecesTo(pieces, t, to)
  <2>1. n \in D /\ \A i \in 0..(n - 1) : i \in D /\ i # n
    BY <1>1
  <2> QED
    BY <1>9, <2>1 DEF PiecesTo, P
<1> QED
  BY <1>8, <1>11, <1>12

\* The pieces are the text, one after the other.
LEMMA PiecesJoin ==
  ASSUME NEW S, NEW t \in Seq(S), NEW to, \A i \in 0..(Len(t) - 1) : to[i] \in (i + 1)..Len(t),
         NEW Fit \in SUBSET Seq(S), \A i \in 0..(Len(t) - 1) : SubSeq(t, i + 1, to[i]) \in Fit
  PROVE  Rule!Pieces(t, to) \in Seq(Fit) /\ Rule!Join(Rule!Pieces(t, to)) = t
<1> DEFINE n == Len(t)
<1>1. n \in Nat /\ Seq(Fit) \subseteq Seq(Seq(S))
  BY LenProperties, SeqMonotonic
<1>2. PICK f \in [0..n -> Seq(Fit)] : PiecesTo(f, t, to) /\ Rule!Pieces(t, to) = f[0]
  BY PiecesGo
<1> DEFINE G == {i \in 0..n : Rule!Join(f[i]) = SubSeq(t, i + 1, n)}
<1>3. n \in G
  <2>1. SubSeq(t, n + 1, n) = <<>>
    BY <1>1, SubSeqEmpty
  <2> QED
    BY <1>1, <1>2, <2>1, JoinNone DEF PiecesTo
<1>4. ASSUME NEW i \in 0..(n - 1), \A j \in (i + 1)..n : j \in G
      PROVE  i \in G
  <2> DEFINE p == SubSeq(t, i + 1, to[i])
  <2>1. /\ i \in 0..n /\ i + 1 \in 1..(n + 1) /\ to[i] \in ((i + 1) - 1)..n /\ to[i] \in 0..n
        /\ n \in to[i]..n /\ to[i] \in (i + 1)..n
    BY <1>1
  <2>2. p \in Seq(S) /\ <<p>> \in Seq(Seq(S)) /\ f[to[i]] \in Seq(Seq(S))
    <3>1. p \in Seq(S)
      OBVIOUS
    <3> HIDE DEF p
    <3> QED
      BY <1>1, <2>1, <3>1
  <2>3. f[i] = <<p>> \o f[to[i]]
    BY <1>2 DEF PiecesTo
  <2>4. Rule!Join(f[to[i]]) = SubSeq(t, to[i] + 1, n)
    BY <1>4, <2>1
  <2>5. p \o SubSeq(t, to[i] + 1, n) = SubSeq(t, i + 1, n)
    BY <2>1, ConcatAdjacentSubSeq
  <2> HIDE DEF p
  <2>6. Rule!Join(f[i]) = p \o Rule!Join(f[to[i]])
    <3>1. PICK a \in Seq(Seq(S)), b \in Seq(Seq(S)) : a = <<p>> /\ b = f[to[i]]
      BY <2>2
    <3>2. Rule!Join(a \o b) = Rule!Join(a) \o Rule!Join(b)
      BY JoinJoins
    <3>3. Rule!Join(a) = p
      BY <2>2, <3>1, JoinSingle
    <3> QED
      BY <2>3, <3>1, <3>2, <3>3
  <2> QED
    BY <2>1, <2>4, <2>5, <2>6
<1> HIDE DEF G, n
<1>5. \A i \in 0..n : i \in G
  BY <1>1, <1>3, <1>4, Downwards
<1>6. Rule!Join(f[0]) = SubSeq(t, 0 + 1, n)
  BY <1>1, <1>5 DEF G
<1> QED
  BY <1>1, <1>2, <1>6, SubSeqFull DEF n

\* Units end at the boundaries; a hard cut finds a boundary or the limit.
LEMMA BoundariesWithin ==
  ASSUME NEW t
  PROVE  Rule!Boundaries(t) \subseteq 1..Len(t) \/ Len(t) \notin Nat
  BY DEF Rule!Boundaries

LEMMA UnitsKeepInk ==
  ASSUME NEW S, NEW t \in Seq(S), NEW bs \in SUBSET (1..Len(t))
  PROVE  /\ Rule!Units(t, bs) \in Seq(Seq(S))
         /\ Rule!Inked(Rule!Join(Rule!Units(t, bs))) = Rule!Inked(t)
<1> DEFINE n == Len(t)
           to == [from \in 0..(n - 1) |-> Rule!Min({b \in bs \union {n} : b > from})]
<1>1. n \in Nat
  BY LenProperties
<1>2. ASSUME NEW i \in 0..(n - 1)
      PROVE  to[i] \in (i + 1)..n /\ SubSeq(t, i + 1, to[i]) \in Seq(S)
  <2> DEFINE M == {b \in bs \union {n} : b > i}
  <2>1. M \in SUBSET Nat /\ n \in M /\ \A b \in M : b \in (i + 1)..n
    <3>1. \A b \in bs \union {n} : b \in Nat /\ b <= n
      BY <1>1
    <3>2. i \in Nat /\ n > i
      BY <1>1
    <3>3. \A b \in M : b \in bs \union {n} /\ b > i
      OBVIOUS
    <3>4. n \in M
      BY <3>2
    <3> HIDE DEF M, n
    <3> QED
      BY <1>1, <3>1, <3>2, <3>3, <3>4
  <2> HIDE DEF M
  <2>2. Rule!Min(M) \in M
    BY <2>1, LeastIsMin
  <2>3. to[i] \in (i + 1)..n
    BY <2>1, <2>2 DEF M
  <2> HIDE DEF to
  <2>4. SubSeq(t, i + 1, to[i]) \in Seq(S)
    BY <1>1, <2>3
  <2> QED
    BY <2>3, <2>4
<1>3. Rule!Units(t, bs) = Rule!Filled(Rule!Pieces(t, to))
  BY DEF Rule!Units
<1> HIDE DEF to
<1>4. Seq(S) \in SUBSET Seq(S)
  OBVIOUS
<1>5. Rule!Pieces(t, to) \in Seq(Seq(S)) /\ Rule!Join(Rule!Pieces(t, to)) = t
  BY <1>2, <1>4, PiecesJoin
<1> QED
  BY <1>3, <1>5, FilledIsSeq, FilledKeepsInk

Fitting(S, limit) == {c \in Seq(S) : Len(c) <= limit}

LEMMA FittingAreSeqs ==
  ASSUME NEW S, NEW limit
  PROVE  Fitting(S, limit) \in SUBSET Seq(S) /\ Seq(Fitting(S, limit)) \subseteq Seq(Seq(S))
<1>1. Fitting(S, limit) \subseteq Seq(S)
  BY DEF Fitting
<1> QED
  BY <1>1, SeqMonotonic

LEMMA PreferredCutFits ==
  ASSUME NEW S, NEW t \in Seq(S), NEW limit \in Nat \ {0}
  PROVE  Rule!PreferredCut(t, limit) \in 1..limit
<1> DEFINE fit == {b \in Rule!Boundaries(t) : b <= limit}
<1>1. fit \in SUBSET (1..limit) /\ fit \in SUBSET Int
  <2>1. Rule!Boundaries(t) \subseteq 1..Len(t) /\ Len(t) \in Nat
    BY BoundariesWithin, LenProperties
  <2> QED
    BY <2>1
<1>2. Rule!PreferredCut(t, limit)
        = IF fit # {} /\ Rule!Max(fit) > (limit * 2) \div 5 THEN Rule!Max(fit) ELSE limit
  BY DEF Rule!PreferredCut
<1> HIDE DEF fit
<1>3. fit # {} => Rule!Max(fit) \in fit
  <2>1. limit \in Int /\ \A b \in fit : b <= limit
    BY <1>1
  <2> QED
    BY <1>1, <2>1, GreatestIsMax
<1>4. CASE fit # {} /\ Rule!Max(fit) > (limit * 2) \div 5
  BY <1>1, <1>2, <1>3, <1>4
<1>5. CASE ~(fit # {} /\ Rule!Max(fit) > (limit * 2) \div 5)
  <2>1. Rule!PreferredCut(t, limit) = limit
    BY <1>2, <1>5, Zenon
  <2> QED
    BY <2>1
<1> QED
  BY <1>4, <1>5

LEMMA HardChunksKeepInk ==
  ASSUME NEW S, NEW text \in Seq(S), NEW limit \in Nat \ {0}
  PROVE  /\ Rule!HardChunks(text, limit) \in Seq(Fitting(S, limit))
         /\ Rule!Inked(Rule!Join(Rule!HardChunks(text, limit))) = Rule!Inked(text)
<1> DEFINE t == Rule!Trimmed(text)
           n == Len(t)
           Cut(rest) == IF Len(rest) > limit THEN Rule!PreferredCut(rest, limit) ELSE Len(rest)
           to == [from \in 0..(n - 1) |-> from + Cut(SubSeq(t, from + 1, n))]
<1>1. t \in Seq(S) /\ Rule!Inked(t) = Rule!Inked(text)
  BY TrimmedKeepsInk
<1>2. Rule!HardChunks(text, limit) = IF Rule!IsBlank(t) THEN <<>> ELSE Rule!Pieces(t, to)
  BY DEF Rule!HardChunks
<1> HIDE DEF t
<1>3. n \in Nat
  BY <1>1, LenProperties
<1>4. CASE Rule!IsBlank(t)
  <2>1. Rule!Inked(t) = <<>>
    BY <1>1, <1>4, InkedBlank
  <2> QED
    BY <1>1, <1>2, <1>4, <2>1, JoinNone, InkedNone, EmptySeq
<1>5. CASE ~Rule!IsBlank(t)
  <2>1. ASSUME NEW i \in 0..(n - 1)
        PROVE  to[i] \in (i + 1)..n /\ SubSeq(t, i + 1, to[i]) \in Fitting(S, limit)
    <3> DEFINE rest == SubSeq(t, i + 1, n)
    <3>1. i \in 0..n /\ n - i \in Nat /\ n - i >= 1
      BY <1>3
    <3>2. rest \in Seq(S) /\ Len(rest) = n - i
      BY <1>1, <3>1, SplitAt
    <3>3. to[i] = i + Cut(rest)
      OBVIOUS
    <3> HIDE DEF rest, to
    <3>4. Rule!PreferredCut(rest, limit) \in 1..limit
      BY <3>2, PreferredCutFits
    <3>5. Cut(rest) \in 1..(n - i) /\ Cut(rest) <= limit
      BY <1>3, <3>1, <3>2, <3>4
    <3> HIDE DEF Cut
    <3>6. to[i] \in (i + 1)..n /\ to[i] - i <= limit
      BY <1>3, <3>3, <3>5
    <3>7. SubSeq(t, i + 1, to[i]) \in Seq(S) /\ Len(SubSeq(t, i + 1, to[i])) = to[i] - i
      BY <1>1, <1>3, <3>6
    <3> QED
      BY <3>6, <3>7 DEF Fitting
  <2> HIDE DEF to
  <2>2. Rule!Pieces(t, to) \in Seq(Fitting(S, limit)) /\ Rule!Join(Rule!Pieces(t, to)) = t
    <3>1. PICK Fit \in SUBSET Seq(S) : Fit = Fitting(S, limit)
      BY FittingAreSeqs
    <3>2. \A i \in 0..(n - 1) : to[i] \in (i + 1)..n /\ SubSeq(t, i + 1, to[i]) \in Fit
      BY <2>1, <3>1
    <3>3. Rule!Pieces(t, to) \in Seq(Fit) /\ Rule!Join(Rule!Pieces(t, to)) = t
      BY <1>1, <3>2, PiecesJoin
    <3> QED
      BY <3>1, <3>3
  <2> QED
    BY <1>1, <1>2, <1>5, <2>2
<1> QED
  BY <1>4, <1>5

\* Merging keeps the text: the fold goes from left to right.
Merge(out, c, limit, short) ==
  IF Len(out[Len(out)]) < short /\ Len(c) < short /\ Len(out[Len(out)]) + Len(c) <= limit
  THEN [out EXCEPT ![Len(out)] = out[Len(out)] \o c] ELSE Append(out, c)

\* The chunks hold the text of what they were and of c.
Continues(next, out, c) == Rule!Join(next) = Rule!Join(out) \o c

LEMMA MergeKeeps ==
  ASSUME NEW S, NEW limit \in Nat, NEW short \in Nat,
         NEW out \in Seq(Fitting(S, limit)), out # <<>>, NEW c \in Fitting(S, limit)
  PROVE  /\ Merge(out, c, limit, short) \in Seq(Fitting(S, limit))
         /\ Merge(out, c, limit, short) # <<>>
         /\ Continues(Merge(out, c, limit, short), out, c)
<1> DEFINE Fit == Fitting(S, limit)
           n == Len(out)
           last == out[n]
<1>0. out \in Seq(Fit)
  OBVIOUS
<1>1. Fit \in SUBSET Seq(S) /\ Seq(Fit) \subseteq Seq(Seq(S))
  BY FittingAreSeqs
<1>2. PICK front \in Seq(Fit), x \in Fit : out = Append(front, x)
  BY SequenceEmptyOrAppend
<1>3. n = Len(front) + 1 /\ last = x /\ Len(front) \in Nat /\ n \in Nat
  <2> HIDE DEF Fit
  <2> QED
    BY <1>2, AppendProperties, LenProperties
<1>4. x \in Seq(S) /\ c \in Seq(S) /\ front \in Seq(Seq(S)) /\ out \in Seq(Seq(S))
  BY <1>1
<1>5. CASE Len(last) < short /\ Len(c) < short /\ Len(last) + Len(c) <= limit
  <2>1. Merge(out, c, limit, short) = [out EXCEPT ![n] = last \o c]
    BY <1>5 DEF Merge
  <2>2. x \o c \in Fit
    BY <1>3, <1>4, <1>5, ConcatProperties DEF Fitting
  <2> HIDE DEF Fit
  <2>3. [out EXCEPT ![n] = last \o c] = Append(front, x \o c)
    <3> DEFINE a == [out EXCEPT ![n] = last \o c]
               b == Append(front, x \o c)
    <3>1. a \in Seq(Fit) /\ Len(a) = n /\ \A i \in 1..n : a[i] = IF i = n THEN x \o c ELSE out[i]
      <4>1. n \in 1..Len(out) /\ DOMAIN out = 1..n
        BY <1>3, LenProperties
      <4>2. a = [i \in 1..n |-> IF i = n THEN x \o c ELSE out[i]]
        BY <1>3, <4>1
      <4>3. a \in Seq(Fit) /\ Len(a) = Len(out)
        <5>1. PICK y \in Fit : y = last \o c
          BY <1>3, <2>2
        <5>2. [out EXCEPT ![n] = y] \in Seq(Fit) /\ Len([out EXCEPT ![n] = y]) = Len(out)
          BY <1>0, <4>1, ExceptSeq
        <5> QED
          BY <5>1, <5>2
      <4> QED
        BY <4>2, <4>3
    <3>2. b \in Seq(Fit) /\ Len(b) = n /\ \A i \in 1..n : b[i] = IF i = n THEN x \o c ELSE front[i]
      BY <1>3, <2>2, AppendProperties
    <3>3. \A i \in 1..n : i # n => out[i] = front[i]
      BY <1>2, <1>3, AppendProperties
    <3>4. \A i \in 1..n : a[i] = b[i]
      BY <3>1, <3>2, <3>3
    <3> HIDE DEF a, b
    <3>5. a = b
      BY <3>1, <3>2, <3>4, SeqEqual
    <3> QED
      BY <3>5 DEF a, b
  <2>4. /\ Append(front, x \o c) \in Seq(Fit) /\ Append(front, x \o c) # <<>>
    <3>1. Append(front, x \o c) \in Seq(Fit) /\ Len(Append(front, x \o c)) = n
      BY <1>3, <2>2, AppendProperties
    <3> QED
      BY <1>3, <3>1, EmptySeq
  <2>5. Rule!Join(Append(front, x \o c)) = Rule!Join(out) \o c
    <3>1. x \o c \in Seq(S) /\ Rule!Join(front) \in Seq(S)
      BY <1>1, <1>4, <2>2, JoinIsSeq
    <3>2. Rule!Join(Append(front, x \o c)) = Rule!Join(front) \o (x \o c)
      BY <1>4, <3>1, JoinOne
    <3>3. Rule!Join(out) = Rule!Join(front) \o x
      BY <1>2, <1>4, JoinOne
    <3>4. (Rule!Join(front) \o x) \o c = Rule!Join(front) \o (x \o c)
      <4>1. x \in Seq(S) /\ c \in Seq(S)
        BY <1>4
      <4>2. Associates(S)
        BY ConcatRegroups
      <4> QED
        BY <3>1, <4>1, <4>2, Zenon DEF Associates
    <3> QED
      BY <3>2, <3>3, <3>4
  <2> QED
    BY <2>1, <2>3, <2>4, <2>5 DEF Fit, Continues
<1>6. CASE ~(Len(last) < short /\ Len(c) < short /\ Len(last) + Len(c) <= limit)
  <2>1. Merge(out, c, limit, short) = Append(out, c)
    BY <1>6 DEF Merge
  <2> HIDE DEF Fit
  <2>2. Append(out, c) \in Seq(Fit) /\ Len(Append(out, c)) = n + 1
    BY AppendProperties DEF Fit
  <2>3. Append(out, c) # <<>>
    BY <1>3, <2>2, EmptySeq
  <2>4. Rule!Join(Append(out, c)) = Rule!Join(out) \o c
    BY <1>4, JoinOne
  <2> QED
    BY <2>1, <2>2, <2>3, <2>4 DEF Fit, Continues
<1> QED
  BY <1>5, <1>6

MergesTo(f, cs, limit, short) ==
  /\ f[0] = <<cs[1]>>
  /\ \A k \in 1..(Len(cs) - 1) : f[k] = Merge(f[k - 1], cs[k + 1], limit, short)

LEMMA MergedGoes ==
  ASSUME NEW S, NEW limit \in Nat, NEW short \in Nat,
         NEW cs \in Seq(Fitting(S, limit)), cs # <<>>
  PROVE  \E f : MergesTo(f, cs, limit, short) /\ Rule!MergedShort(cs, limit, short) = f[Len(cs) - 1]
<1> DEFINE Fit == Fitting(S, limit)
           s == Tail(cs)
           m == Len(s)
           D == SUBSET (1..m)
           V == Seq(Fit) \ {<<>>}
           b == <<cs[1]>>
           g == [i \in D |-> [v \in V |-> Merge(v, s[Rule!Max(i)], limit, short)]]
           rank == [i \in D |-> Cardinality(i)]
           h == [i \in D |-> i \ {Rule!Max(i)}]
           Body(e) == [i \in D |-> IF i = {} THEN b
                                   ELSE Merge(e[i \ {Rule!Max(i)}], s[Rule!Max(i)], limit, short)]
           iter == CHOOSE e : e = Body(e)
<1>1. /\ s \in Seq(Fit) /\ m = Len(cs) - 1 /\ m \in Nat /\ cs[1] \in Fit
      /\ \A k \in 1..m : s[k] = cs[k + 1] /\ s[k] \in Fit
  <2>1. cs \in Seq(Fit) /\ Len(cs) \in Nat \ {0}
    BY EmptySeq, LenProperties
  <2> HIDE DEF Fit
  <2>2. s \in Seq(Fit) /\ m = Len(cs) - 1 /\ \A k \in 1..m : s[k] = cs[k + 1]
    BY <2>1, HeadTailProperties
  <2>3. \A k \in 1..m : s[k] \in Fit
    BY <2>2, ElementOfSeq
  <2>4. cs[1] \in Fit
    BY <2>1, ElementOfSeq
  <2> QED
    BY <2>1, <2>2, <2>3, <2>4
<1>2. Rule!MergedShort(cs, limit, short) = iter[1..m]
  <2>1. DOMAIN s = 1..m
    BY <1>1, LenProperties
  <2> QED
    BY <2>1 DEF Rule!MergedShort, Rule!FoldLeft, Rule!MapThenFoldSet, Merge
<1>3. \A i \in D : IsFiniteSet(i) /\ Cardinality(i) \in 0..m
  <2>1. IsFiniteSet(1..m) /\ Cardinality(1..m) <= m
    <3>1. m \in Nat
      BY <1>1
    <3> HIDE DEF m
    <3>2. IsFiniteSet(1..m) /\ Cardinality(1..m) = IF 1 > m THEN 0 ELSE m - 1 + 1
      BY <3>1, FS_Interval
    <3> QED
      BY <3>1, <3>2
  <2>2. ASSUME NEW i \in D
        PROVE  IsFiniteSet(i) /\ Cardinality(i) \in 0..m
    <3>1. IsFiniteSet(i) /\ Cardinality(i) <= Cardinality(1..m)
      BY <2>1, FS_Subset
    <3>2. Cardinality(i) \in Nat /\ Cardinality(1..m) \in Nat
      BY <2>1, <3>1, FS_CardinalityType
    <3> QED
      BY <1>1, <2>1, <3>1, <3>2
  <2> QED
    BY <2>2
<1>4. ASSUME NEW i \in D \ {{}}
      PROVE  /\ Rule!Max(i) \in i /\ Rule!Max(i) \in 1..m
             /\ h[i] \in D /\ h[i] = i \ {Rule!Max(i)} /\ rank[h[i]] < rank[i]
  <2>1. Rule!Max(i) \in i
    <3>1. i \in SUBSET Int /\ m \in Int /\ \A x \in i : x <= m
      BY <1>1
    <3> HIDE DEF m
    <3> QED
      BY <3>1, GreatestIsMax
  <2>2. h[i] \in D /\ h[i] = i \ {Rule!Max(i)}
    OBVIOUS
  <2>3. Cardinality(i \ {Rule!Max(i)}) = Cardinality(i) - 1 /\ Cardinality(i) \in Nat
    BY <1>3, <2>1, FS_RemoveElement
  <2>4. rank[h[i]] = Cardinality(h[i]) /\ rank[i] = Cardinality(i)
    BY <2>2
  <2>5. Rule!Max(i) \in 1..m
    BY <2>1
  <2> HIDE DEF h, rank, D, m
  <2>6. rank[h[i]] = rank[i] - 1 /\ rank[i] \in Nat
    BY <2>2, <2>3, <2>4
  <2>7. rank[h[i]] < rank[i]
    BY <2>6
  <2> QED
    BY <2>1, <2>2, <2>5, <2>7
<1>5. b \in V /\ \A i \in D \ {{}} : \A v \in V : Merge(v, s[Rule!Max(i)], limit, short) \in V
  <2>1. b \in V
    <3>1. b \in Seq(Fit) /\ Len(b) = 1
      BY <1>1
    <3>2. b # <<>>
      OBVIOUS
    <3> QED
      BY <3>1, <3>2
  <2>2. ASSUME NEW i \in D \ {{}}, NEW v \in V
        PROVE  Merge(v, s[Rule!Max(i)], limit, short) \in V
    <3>1. s[Rule!Max(i)] \in Fit
      BY <1>1, <1>4
    <3>2. PICK c \in Fitting(S, limit) : c = s[Rule!Max(i)]
      BY <3>1
    <3>3. v \in Seq(Fitting(S, limit)) /\ v # <<>>
      OBVIOUS
    <3>4. Merge(v, c, limit, short) \in Seq(Fitting(S, limit)) /\ Merge(v, c, limit, short) # <<>>
      BY <3>3, MergeKeeps
    <3> QED
      BY <3>2, <3>4
  <2> QED
    BY <2>1, <2>2
<1>6. \E f \in [D -> V] : Solves(f, D, {{}}, b, g, h)
  <2>1. Nearer(D, {{}}, m, rank, h)
    BY <1>3, <1>4 DEF Nearer
  <2>2. Yields(D, {{}}, V, g)
    <3>1. \A i \in D : \A v \in V : g[i][v] = Merge(v, s[Rule!Max(i)], limit, short)
      OBVIOUS
    <3> HIDE DEF g, D, V
    <3> QED
      BY <1>5, <3>1 DEF Yields
  <2> HIDE DEF D, g, h, rank, m, V, b
  <2> QED
    BY <1>1, <1>5, <2>1, <2>2, Recursion
<1>7. PICK f \in [D -> V] : f = Body(f)
  <2>1. PICK f \in [D -> V] : \A i \in D : f[i] = IF i \in {{}} THEN b ELSE g[i][f[h[i]]]
    BY <1>6 DEF Solves
  <2>2. ASSUME NEW i \in D
        PROVE  f[i] = IF i = {} THEN b ELSE Merge(f[i \ {Rule!Max(i)}], s[Rule!Max(i)], limit, short)
    <3>1. CASE i = {}
      BY <2>1, <3>1
    <3>2. CASE i # {}
      <4>1. h[i] \in D /\ h[i] = i \ {Rule!Max(i)} /\ f[i] = g[i][f[h[i]]]
        BY <1>4, <2>1, <3>2
      <4>2. f[h[i]] \in V
        BY <2>1, <4>1
      <4>3. \A v \in V : g[i][v] = Merge(v, s[Rule!Max(i)], limit, short)
        OBVIOUS
      <4> HIDE DEF g, h, V, D
      <4> QED
        BY <3>2, <4>1, <4>2, <4>3
    <3> QED
      BY <3>1, <3>2
  <2> HIDE DEF V, b, g, h, rank
  <2> QED
    BY <2>1, <2>2
<1>8. iter = Body(iter)
  <2> HIDE DEF Body
  <2> QED
    BY <1>7, Zenon
<1>9. \A i \in D : iter[i] = IF i = {} THEN b
                             ELSE Merge(iter[i \ {Rule!Max(i)}], s[Rule!Max(i)], limit, short)
  <2> HIDE DEF iter, b, V, g, h, rank
  <2> QED
    BY <1>8
<1> HIDE DEF iter
<1> DEFINE e == [k \in 0..m |-> iter[1..k]]
<1>10. e[0] = b
  <2>1. 1..0 = {} /\ {} \in D /\ 0 \in 0..m
    BY <1>1
  <2> QED
    BY <1>9, <2>1
<1>11. ASSUME NEW k \in 1..m
       PROVE  e[k] = Merge(e[k - 1], cs[k + 1], limit, short)
  <2>1. 1..k \in D /\ 1..k # {} /\ k \in 0..m /\ k - 1 \in 0..m
    <3>1. m \in Nat
      BY <1>1
    <3> HIDE DEF m
    <3>2. k \in 1..k /\ \A x \in 1..k : x \in 1..m
      BY <3>1
    <3>3. k \in 0..m /\ k - 1 \in 0..m
      BY <3>1
    <3>4. 1..k \in D
      BY <3>2, Zenon
    <3> QED
      BY <3>2, <3>3, <3>4, Zenon
  <2>2. Rule!Max(1..k) = k
    <3>1. 1..k \in SUBSET Int /\ k \in Int /\ (\A x \in 1..k : x <= k) /\ k \in 1..k
      BY <1>1
    <3>2. Rule!Max(1..k) \in 1..k /\ k <= Rule!Max(1..k)
      BY <2>1, <3>1, GreatestIsMax
    <3> QED
      BY <1>1, <3>2
  <2>3. (1..k) \ {k} = 1..(k - 1)
    BY <1>1
  <2>4. iter[1..k] = Merge(iter[(1..k) \ {k}], s[k], limit, short)
    BY <1>9, <2>1, <2>2
  <2>5. e[k] = iter[1..k] /\ e[k - 1] = iter[1..(k - 1)] /\ s[k] = cs[k + 1]
    BY <1>1, <2>1
  <2> QED
    BY <2>3, <2>4, <2>5
<1>12. Rule!MergedShort(cs, limit, short) = e[Len(cs) - 1]
  <2>1. m \in 0..m /\ m = Len(cs) - 1
    BY <1>1
  <2> QED
    BY <1>2, <2>1
<1>13. MergesTo(e, cs, limit, short)
  <2> HIDE DEF e
  <2> QED
    BY <1>1, <1>10, <1>11 DEF MergesTo
<1> QED
  BY <1>12, <1>13

LEMMA OneMore ==
  ASSUME NEW S, NEW s \in Seq(S), NEW k \in 1..Len(s)
  PROVE  /\ SubSeq(s, 1, k) = Append(SubSeq(s, 1, k - 1), s[k])
         /\ SubSeq(s, 1, k) \in Seq(S) /\ SubSeq(s, 1, k - 1) \in Seq(S) /\ s[k] \in S
<1>1. /\ Len(s) \in Nat /\ s[k] \in S
      /\ k \in 0..Len(s) /\ k - 1 \in 0..Len(s) /\ (k - 1) + 1 = k /\ k \in Nat
      /\ \A i \in 1..k : i # k => i \in 1..(k - 1)
  BY LenProperties, ElementOfSeq
<1> DEFINE a == SubSeq(s, 1, k)
           w == SubSeq(s, 1, k - 1)
           b == Append(w, s[k])
<1>2. a \in Seq(S) /\ Len(a) = k /\ \A i \in 1..k : a[i] = s[i]
  BY <1>1, SplitAt
<1>3. w \in Seq(S) /\ Len(w) = k - 1 /\ \A i \in 1..(k - 1) : w[i] = s[i]
  BY <1>1, SplitAt
<1> HIDE DEF w
<1>4. b \in Seq(S) /\ Len(b) = k /\ b[k] = s[k] /\ \A i \in 1..(k - 1) : b[i] = w[i]
  BY <1>1, <1>3, AppendProperties
<1>5. \A i \in 1..k : a[i] = b[i]
  BY <1>1, <1>2, <1>3, <1>4
<1> HIDE DEF a, b
<1>6. a = b
  BY <1>2, <1>4, <1>5, SeqEqual
<1> QED
  BY <1>1, <1>2, <1>3, <1>6 DEF a, b, w

\* The chunks that are merged are the same text, and still fit into messages.
LEMMA MergedKeeps ==
  ASSUME NEW S, NEW limit \in Nat, NEW short \in Nat, NEW cs \in Seq(Fitting(S, limit))
  PROVE  /\ Rule!MergedShort(cs, limit, short) \in Seq(Fitting(S, limit))
         /\ Rule!Join(Rule!MergedShort(cs, limit, short)) = Rule!Join(cs)
<1>1. CASE cs = <<>>
  <2>1. Rule!MergedShort(cs, limit, short) = cs
    BY <1>1 DEF Rule!MergedShort
  <2> QED
    BY <2>1
<1>2. CASE cs # <<>>
  <2>0. \A out \in Seq(Fitting(S, limit)), c \in Fitting(S, limit) : out # <<>> =>
          /\ Merge(out, c, limit, short) \in Seq(Fitting(S, limit))
          /\ Merge(out, c, limit, short) # <<>>
          /\ Continues(Merge(out, c, limit, short), out, c)
    <3> TAKE out \in Seq(Fitting(S, limit)), c \in Fitting(S, limit)
    <3> HAVE out # <<>>
    <3> QED
      BY MergeKeeps
  <2>1. PICK f : MergesTo(f, cs, limit, short)
                 /\ Rule!MergedShort(cs, limit, short) = f[Len(cs) - 1]
    BY <1>2, MergedGoes
  <2>2. PICK Fit : Fit = Fitting(S, limit)
    OBVIOUS
  <2>3. Fit \in SUBSET Seq(S) /\ Seq(Fit) \subseteq Seq(Seq(S)) /\ cs \in Seq(Fit)
    BY <2>2, FittingAreSeqs
  <2> DEFINE n == Len(cs)
             Good(k) == /\ f[k] \in Seq(Fit) /\ f[k] # <<>>
                        /\ Rule!Join(f[k]) = Rule!Join(SubSeq(cs, 1, k + 1))
             G == {k \in Nat : Good(k)}
  <2>4. n \in Nat /\ n # 0 /\ n - 1 \in 0..(n - 1) /\ (n - 1) + 1 = n /\ n - 1 \in Nat
    BY <1>2, <2>3, EmptySeq, LenProperties
  <2>5. 0 \in G
    <3>1. 1 \in 1..n
      BY <2>4
    <3>2. cs[1] \in Fit /\ SubSeq(cs, 1, 1) = Append(SubSeq(cs, 1, 1 - 1), cs[1])
      BY <2>3, <3>1, OneMore
    <3>3. SubSeq(cs, 1, 1 - 1) = <<>>
      BY SubSeqEmpty
    <3>4. SubSeq(cs, 1, 0 + 1) = <<cs[1]>>
      <4>1. Append(<<>>, cs[1]) = <<cs[1]>> /\ 0 + 1 = 1
        OBVIOUS
      <4> QED
        BY <3>2, <3>3, <4>1
    <3>5. f[0] = <<cs[1]>>
      BY <2>1 DEF MergesTo
    <3>6. <<cs[1]>> \in Seq(Fit) /\ <<cs[1]>> # <<>>
      BY <3>2
    <3> QED
      BY <3>4, <3>5, <3>6
  <2>6. ASSUME NEW k \in 0..((n - 1) - 1), k \in G
        PROVE  k + 1 \in G
    <3>1. /\ k + 1 \in 1..(n - 1) /\ (k + 1) - 1 = k /\ (k + 1) + 1 \in 1..n /\ k + 1 \in Nat
          /\ ((k + 1) + 1) - 1 = k + 1
      BY <2>4
    <3>2. f[k + 1] = Merge(f[k], cs[(k + 1) + 1], limit, short)
      BY <2>1, <3>1 DEF MergesTo
    <3>3. /\ SubSeq(cs, 1, (k + 1) + 1) = Append(SubSeq(cs, 1, k + 1), cs[(k + 1) + 1])
          /\ SubSeq(cs, 1, k + 1) \in Seq(Fit) /\ cs[(k + 1) + 1] \in Fit
      BY <2>3, <3>1, OneMore
    <3>4. PICK out \in Seq(Fitting(S, limit)), c \in Fitting(S, limit) :
                 out = f[k] /\ c = cs[(k + 1) + 1]
      BY <2>2, <2>6, <3>3
    <3>5. out # <<>>
      BY <2>6, <3>4
    <3>6. /\ Merge(out, c, limit, short) \in Seq(Fitting(S, limit))
          /\ Merge(out, c, limit, short) # <<>>
          /\ Continues(Merge(out, c, limit, short), out, c)
      BY <3>4, <3>5, <2>0
    <3>9. Rule!Join(Merge(out, c, limit, short)) = Rule!Join(out) \o c
      BY <3>6 DEF Continues
    <3>8. Rule!Join(out) = Rule!Join(SubSeq(cs, 1, k + 1))
      BY <2>6, <3>4
    <3>7. Rule!Join(Append(SubSeq(cs, 1, k + 1), c)) = Rule!Join(SubSeq(cs, 1, k + 1)) \o c
      <4>1. SubSeq(cs, 1, k + 1) \in Seq(Seq(S)) /\ c \in Seq(S)
        BY <2>2, <2>3, <3>3, <3>4
      <4> QED
        BY <4>1, JoinOne
    <3> QED
      BY <2>2, <3>1, <3>2, <3>3, <3>4, <3>6, <3>7, <3>8, <3>9
  <2> HIDE DEF G
  <2>7. \A k \in 0..(n - 1) : k \in G
    BY <2>4, <2>5, <2>6, Stepwise
  <2>8. Good(n - 1)
    BY <2>4, <2>7 DEF G
  <2>9. SubSeq(cs, 1, n) = cs
    BY <2>3
  <2> QED
    BY <2>1, <2>2, <2>4, <2>8, <2>9
<1> QED
  BY <1>1, <1>2

\* Units that do not fit are cut, in place.
Piece(u, limit) == IF Len(u) <= limit THEN <<u>> ELSE Rule!HardChunks(u, limit)
AllFitted(us, limit) == [i \in DOMAIN us |-> Piece(us[i], limit)]

LEMMA PieceKeepsInk ==
  ASSUME NEW S, NEW limit \in Nat \ {0}, NEW u \in Seq(S)
  PROVE  /\ Piece(u, limit) \in Seq(Fitting(S, limit))
         /\ Rule!Inked(Rule!Join(Piece(u, limit))) = Rule!Inked(u)
<1>1. CASE Len(u) <= limit
  <2>1. u \in Fitting(S, limit)
    BY <1>1 DEF Fitting
  <2>2. Rule!Join(<<u>>) = u
    BY JoinSingle
  <2> QED
    BY <1>1, <2>1, <2>2 DEF Piece
<1>2. CASE ~(Len(u) <= limit)
  BY <1>2, HardChunksKeepInk DEF Piece
<1> QED
  BY <1>1, <1>2

LEMMA FittedOne ==
  ASSUME NEW S, NEW limit, NEW us \in Seq(S), NEW u \in S
  PROVE  AllFitted(Append(us, u), limit) = Append(AllFitted(us, limit), Piece(u, limit))
<1> DEFINE n == Len(us)
           V == {Piece(x, limit) : x \in S}
           a == AllFitted(Append(us, u), limit)
           w == AllFitted(us, limit)
           b == Append(w, Piece(u, limit))
           long == Append(us, u)
<1>1. /\ n \in Nat /\ n + 1 \in Nat /\ long \in Seq(S) /\ Len(long) = n + 1 /\ long[n + 1] = u
      /\ \A i \in 1..n : long[i] = us[i] /\ us[i] \in S
  BY AppendProperties, LenProperties, ElementOfSeq
<1>2. DOMAIN long = 1..(n + 1) /\ DOMAIN us = 1..n
  BY <1>1, LenProperties
<1>3. \A i \in 1..(n + 1) : i # n + 1 => i \in 1..n
  BY <1>1
<1>4. a = [i \in 1..(n + 1) |-> Piece(long[i], limit)] /\ w = [i \in 1..n |-> Piece(us[i], limit)]
  BY <1>2 DEF AllFitted
<1> HIDE DEF long, a, w
<1>5. \A i \in 1..(n + 1) : Piece(long[i], limit) \in V
  BY <1>1, <1>3
<1>6. \A i \in 1..n : Piece(us[i], limit) \in V
  BY <1>1
<1>7. Piece(u, limit) \in V
  OBVIOUS
<1> HIDE DEF V
<1>8. a \in Seq(V) /\ Len(a) = n + 1 /\ w \in Seq(V) /\ Len(w) = n
  BY <1>1, <1>4, <1>5, <1>6, IsASeq
<1>9. b \in Seq(V) /\ Len(b) = n + 1 /\ b[n + 1] = Piece(u, limit) /\ \A i \in 1..n : b[i] = w[i]
  BY <1>7, <1>8, AppendProperties
<1>10. \A i \in 1..(n + 1) : a[i] = b[i]
  BY <1>1, <1>3, <1>4, <1>9
<1> HIDE DEF b
<1>11. a = b
  BY <1>8, <1>9, <1>10, SeqEqual
<1> QED
  BY <1>11 DEF a, b, w, long

LEMMA FittedKeepInk ==
  ASSUME NEW S, NEW limit \in Nat \ {0}, NEW units \in Seq(Seq(S))
  PROVE  /\ Rule!Join(AllFitted(units, limit)) \in Seq(Fitting(S, limit))
         /\ Rule!Inked(Rule!Join(Rule!Join(AllFitted(units, limit)))) = Rule!Inked(Rule!Join(units))
<1>1. PICK Fit : Fit = Fitting(S, limit)
  OBVIOUS
<1>2. Fit \in SUBSET Seq(S) /\ Seq(Fit) \subseteq Seq(Seq(S))
  BY <1>1, FittingAreSeqs
<1> DEFINE Good(us) ==
             /\ AllFitted(us, limit) \in Seq(Seq(Fit))
             /\ Rule!Inked(Rule!Join(Rule!Join(AllFitted(us, limit)))) = Rule!Inked(Rule!Join(us))
           G == {us \in Seq(Seq(S)) : Good(us)}
<1>3. <<>> \in G
  <2>1. AllFitted(<<>>, limit) = <<>>
    BY DEF AllFitted
  <2> QED
    BY <2>1, JoinNone, EmptySeq
<1>4. ASSUME NEW us \in Seq(Seq(S)), NEW u \in Seq(S), us \in G
      PROVE  Append(us, u) \in G
  <2>1. AllFitted(Append(us, u), limit) = Append(AllFitted(us, limit), Piece(u, limit))
    BY FittedOne
  <2>2. /\ Piece(u, limit) \in Seq(Fit)
        /\ Rule!Inked(Rule!Join(Piece(u, limit))) = Rule!Inked(u)
    BY <1>1, PieceKeepsInk
  <2>3. PICK w \in Seq(Seq(Fit)), p \in Seq(Fit) : w = AllFitted(us, limit) /\ p = Piece(u, limit)
    BY <1>4, <2>2
  <2>4. Append(w, p) \in Seq(Seq(Fit)) /\ Append(us, u) \in Seq(Seq(S))
    BY AppendProperties
  <2>5. Rule!Join(Append(w, p)) = Rule!Join(w) \o p /\ Rule!Join(w) \in Seq(Fit)
    BY JoinOne, JoinIsSeq
  <2>6. PICK v \in Seq(Seq(S)), q \in Seq(Seq(S)) : v = Rule!Join(w) /\ q = p
    BY <1>2, <2>5
  <2>7. Rule!Join(v \o q) = Rule!Join(v) \o Rule!Join(q)
        /\ Rule!Join(v) \in Seq(S) /\ Rule!Join(q) \in Seq(S)
    BY JoinJoins, JoinIsSeq
  <2>8. Rule!Inked(Rule!Join(v) \o Rule!Join(q))
          = Rule!Inked(Rule!Join(v)) \o Rule!Inked(Rule!Join(q))
    BY <2>7, InkedJoins
  <2>9. Rule!Inked(Rule!Join(Append(us, u))) = Rule!Inked(Rule!Join(us)) \o Rule!Inked(u)
    BY InkOfOneMore
  <2>10. Rule!Inked(Rule!Join(v)) = Rule!Inked(Rule!Join(us))
         /\ Rule!Inked(Rule!Join(q)) = Rule!Inked(u)
    BY <1>4, <2>2, <2>3, <2>6
  <2> QED
    BY <2>1, <2>3, <2>4, <2>5, <2>6, <2>7, <2>8, <2>9, <2>10
<1> HIDE DEF G
<1>5. units \in G
  BY <1>3, <1>4, OneByOne
<1>6. Good(units)
  BY <1>5 DEF G
<1>7. Rule!Join(AllFitted(units, limit)) \in Seq(Fit)
  BY <1>6, JoinIsSeq
<1> QED
  BY <1>1, <1>6, <1>7

\* The cuts of a reply keep its text.
LEMMA ChunksKeepText ==
  ASSUME NEW S, NEW text \in Seq(S), NEW limit \in Nat \ {0}, NEW short \in Nat
  PROVE  /\ Rule!Chunks(text, limit, short) \in Seq(Fitting(S, limit))
         /\ Rule!Inked(Rule!Join(Rule!Chunks(text, limit, short))) = Rule!Inked(text)
<1>1. PICK t \in Seq(S) : t = Rule!Trimmed(text) /\ Rule!Inked(t) = Rule!Inked(text)
  BY TrimmedKeepsInk
<1>2. PICK bs : bs = Rule!Boundaries(t)
  OBVIOUS
<1>3. Rule!Chunks(text, limit, short)
        = IF Rule!IsBlank(t) THEN <<>>
          ELSE IF bs = {} THEN Rule!HardChunks(t, limit)
          ELSE Rule!MergedShort(Rule!Join(AllFitted(Rule!Units(t, bs), limit)), limit, short)
  BY <1>1, <1>2 DEF Rule!Chunks, AllFitted, Piece
<1>4. CASE Rule!IsBlank(t)
  <2>1. Rule!Inked(t) = <<>>
    BY <1>4, InkedBlank
  <2> QED
    BY <1>1, <1>3, <1>4, <2>1, JoinNone, InkedNone, EmptySeq
<1>5. CASE ~Rule!IsBlank(t) /\ bs = {}
  BY <1>1, <1>3, <1>5, HardChunksKeepInk
<1>6. CASE ~Rule!IsBlank(t) /\ bs # {}
  <2>1. bs \in SUBSET (1..Len(t))
    BY <1>2, BoundariesWithin, LenProperties
  <2>2. PICK us \in Seq(Seq(S)) :
               us = Rule!Units(t, bs) /\ Rule!Inked(Rule!Join(us)) = Rule!Inked(t)
    BY <2>1, UnitsKeepInk
  <2>3. PICK cs \in Seq(Fitting(S, limit)) :
               cs = Rule!Join(AllFitted(us, limit))
               /\ Rule!Inked(Rule!Join(cs)) = Rule!Inked(Rule!Join(us))
    BY FittedKeepInk
  <2>4. /\ Rule!MergedShort(cs, limit, short) \in Seq(Fitting(S, limit))
        /\ Rule!Join(Rule!MergedShort(cs, limit, short)) = Rule!Join(cs)
    BY MergedKeeps
  <2> QED
    BY <1>1, <1>3, <1>6, <2>2, <2>3, <2>4
<1> QED
  BY <1>4, <1>5, <1>6

LEMMA CutsAreWhole ==
  ASSUME NEW S, NEW text \in Seq(S), NEW limit \in Nat \ {0}, NEW short \in Nat
  PROVE  Rule!CutsKeepText(text, limit, short)
<1>1. PICK cs \in Seq(Fitting(S, limit)) :
             cs = Rule!Chunks(text, limit, short) /\ Rule!Inked(Rule!Join(cs)) = Rule!Inked(text)
  BY ChunksKeepText
<1>2. \A i \in DOMAIN cs : Len(cs[i]) <= limit
  <2>1. DOMAIN cs = 1..Len(cs) /\ \A i \in 1..Len(cs) : cs[i] \in Fitting(S, limit)
    BY LenProperties, ElementOfSeq
  <2> QED
    BY <2>1 DEF Fitting
<1> QED
  BY <1>1, <1>2 DEF Rule!CutsKeepText

\* What packing leaves out is behind what it keeps.
From(s, m) == SubSeq(s, m, Len(s))

LEMMA FromOne ==
  ASSUME NEW S, NEW s \in Seq(S), NEW x \in S, NEW m \in Nat \ {0}
  PROVE  /\ From(s, m) \in Seq(S)
         /\ From(Append(s, x), m) = IF m <= Len(s) + 1 THEN Append(From(s, m), x) ELSE <<>>
<1> DEFINE n == Len(s)
           u == Append(s, x)
           w == From(s, m)
           a == From(u, m)
           b == Append(w, x)
<1>1. /\ n \in Nat /\ u \in Seq(S) /\ Len(u) = n + 1 /\ u[n + 1] = x
      /\ \A i \in 1..n : u[i] = s[i] /\ s[i] \in S
  BY AppendProperties, LenProperties, ElementOfSeq
<1>2. CASE m <= n + 1
  <2> DEFINE k == m - 1
  <2>1. k \in 0..n /\ k \in 0..Len(u) /\ m = k + 1
    BY <1>1, <1>2
  <2> HIDE DEF k
  <2>2. /\ w \in Seq(S) /\ Len(w) = n - k
        /\ \A i \in 1..(n - k) : w[i] = s[k + i]
    BY <2>1, SplitAt DEF From
  <2> HIDE DEF w
  <2>3. /\ a \in Seq(S) /\ Len(a) = (n + 1) - k
        /\ \A i \in 1..((n + 1) - k) : a[i] = u[k + i]
    BY <1>1, <2>1, SplitAt DEF From
  <2> HIDE DEF a, u
  <2>4. n - k \in Nat /\ (n + 1) - k = (n - k) + 1
    BY <1>1, <2>1
  <2>5. /\ b \in Seq(S) /\ Len(b) = (n - k) + 1 /\ b[(n - k) + 1] = x
        /\ \A i \in 1..(n - k) : b[i] = w[i]
    BY <2>2, <2>4, AppendProperties
  <2>6. \A i \in 1..((n + 1) - k) : a[i] = b[i]
    <3>1. ASSUME NEW i \in 1..((n + 1) - k)
          PROVE  a[i] = b[i]
      <4>1. CASE i = (n - k) + 1
        <5>1. k + i = n + 1
          BY <1>1, <2>1, <4>1
        <5> QED
          BY <1>1, <2>3, <2>5, <4>1, <5>1
      <4>2. CASE i # (n - k) + 1
        <5>1. i \in 1..(n - k) /\ k + i \in 1..n
          BY <1>1, <2>1, <2>4, <4>2
        <5> QED
          BY <1>1, <2>2, <2>3, <2>5, <5>1
      <4> QED
        BY <4>1, <4>2
    <3> QED
      BY <3>1
  <2> HIDE DEF b
  <2>7. a = b
    BY <2>3, <2>4, <2>5, <2>6, SeqEqual
  <2> QED
    BY <1>2, <2>2, <2>7 DEF a, b, u, w
<1>3. CASE ~(m <= n + 1)
  <2>1. m > n /\ m > Len(u) /\ m \in Int /\ n \in Int /\ Len(u) \in Int
    BY <1>1, <1>3
  <2>2. a = <<>> /\ w = <<>>
    BY <2>1, SubSeqEmpty DEF From
  <2> QED
    BY <1>3, <2>2, EmptySeq
<1> QED
  BY <1>2, <1>3

LEMMA FilledIsShorter ==
  ASSUME NEW S, NEW ts \in Seq(Seq(S)), NEW most \in Nat \ {0}
  PROVE  /\ Len(Rule!Filled(ts)) <= Len(ts)
         /\ Len(Rule!Join(From(Rule!Filled(ts), most))) <= Len(Rule!Join(From(ts, most)))
<1> DEFINE Weight(s) == Len(Rule!Join(From(s, most)))
           Shorter(s) == /\ Len(Rule!Filled(s)) <= Len(s)
                         /\ Weight(Rule!Filled(s)) <= Weight(s)
           G == {s \in Seq(Seq(S)) : Shorter(s)}
<1>1. <<>> \in G
  <2>1. Rule!Filled(<<>>) = <<>> /\ Len(<<>>) = 0
    BY FilledNone
  <2>2. From(<<>>, most) = <<>>
    BY <2>1, SubSeqEmpty DEF From
  <2> QED
    BY <2>1, <2>2, JoinNone, EmptySeq
<1>2. ASSUME NEW s \in Seq(Seq(S)), NEW x \in Seq(S)
      PROVE  /\ Weight(s) \in Nat /\ Len(s) \in Nat
             /\ Len(Append(s, x)) = Len(s) + 1 /\ Append(s, x) \in Seq(Seq(S))
             /\ Weight(Append(s, x)) = IF most <= Len(s) + 1 THEN Weight(s) + Len(x) ELSE 0
             /\ Weight(Append(s, x)) \in Nat /\ Len(x) \in Nat
             /\ most > Len(s) => Weight(s) = 0
  <2>1. /\ From(s, most) \in Seq(Seq(S))
        /\ From(Append(s, x), most) = IF most <= Len(s) + 1 THEN Append(From(s, most), x) ELSE <<>>
    BY FromOne
  <2>2. Rule!Join(Append(From(s, most), x)) = Rule!Join(From(s, most)) \o x
        /\ Rule!Join(From(s, most)) \in Seq(S)
    BY <2>1, JoinOne, JoinIsSeq
  <2>3. Len(Rule!Join(From(s, most)) \o x) = Weight(s) + Len(x)
    <3>1. PICK v \in Seq(S) : v = Rule!Join(From(s, most))
      BY <2>2
    <3>2. Len(v \o x) = Len(v) + Len(x)
      BY ConcatProperties
    <3> QED
      BY <3>1, <3>2
  <2>4. Weight(s) \in Nat /\ Len(s) \in Nat /\ Len(x) \in Nat
    BY <2>2, LenProperties
  <2>5. Len(Append(s, x)) = Len(s) + 1 /\ Append(s, x) \in Seq(Seq(S))
    BY AppendProperties
  <2>6. Len(Rule!Join(<<>>)) = 0
    BY JoinNone
  <2>7. most > Len(s) => From(s, most) = <<>>
    BY <2>4, SubSeqEmpty DEF From
  <2>8. Weight(Append(s, x)) = IF most <= Len(s) + 1 THEN Weight(s) + Len(x) ELSE 0
    BY <2>1, <2>2, <2>3, <2>6
  <2>9. most > Len(s) => Weight(s) = 0
    BY <2>6, <2>7
  <2> HIDE DEF Weight
  <2> QED
    BY <2>4, <2>5, <2>8, <2>9
<1> HIDE DEF Weight
<1>3. ASSUME NEW s \in Seq(Seq(S)), NEW x \in Seq(S), s \in G
      PROVE  Append(s, x) \in G
  <2>1. PICK f \in Seq(Seq(S)) : f = Rule!Filled(s)
    BY FilledIsSeq
  <2>2. Len(f) <= Len(s) /\ Weight(f) <= Weight(s)
    BY <1>3, <2>1
  <2>3. Rule!Filled(Append(s, x)) = IF Rule!IsBlank(x) THEN f ELSE Append(f, x)
    BY <2>1, FilledOne
  <2>4. /\ Weight(s) \in Nat /\ Len(s) \in Nat /\ Len(x) \in Nat
        /\ Len(Append(s, x)) = Len(s) + 1 /\ Append(s, x) \in Seq(Seq(S))
        /\ Weight(Append(s, x)) = IF most <= Len(s) + 1 THEN Weight(s) + Len(x) ELSE 0
    BY <1>2
  <2>5. /\ Weight(f) \in Nat /\ Len(f) \in Nat
        /\ Len(Append(f, x)) = Len(f) + 1
        /\ Weight(Append(f, x)) = IF most <= Len(f) + 1 THEN Weight(f) + Len(x) ELSE 0
        /\ most > Len(f) => Weight(f) = 0
    BY <1>2
  <2>6. Len(f) <= Len(Append(s, x)) /\ Weight(f) <= Weight(Append(s, x))
    <3>1. CASE most <= Len(s) + 1
      BY <2>2, <2>4, <2>5, <3>1
    <3>2. CASE ~(most <= Len(s) + 1)
      <4>1. most > Len(f)
        BY <2>2, <2>4, <2>5, <3>2
      <4> QED
        BY <2>2, <2>4, <2>5, <3>2, <4>1
    <3> QED
      BY <3>1, <3>2
  <2>7. Len(Append(f, x)) <= Len(Append(s, x)) /\ Weight(Append(f, x)) <= Weight(Append(s, x))
    BY <2>2, <2>4, <2>5
  <2>8. Shorter(Append(s, x))
    BY <2>3, <2>6, <2>7
  <2> QED
    BY <2>4, <2>8
<1> HIDE DEF G
<1>4. ts \in G
  BY <1>1, <1>3, OneByOne
<1> QED
  BY <1>4 DEF G, Weight

LEMMA BeginsWith ==
  ASSUME NEW S, NEW v \in Seq(S), NEW w \in Seq(S)
  PROVE  Rule!IsPrefix(v, v \o w)
<1> DEFINE n == Len(v)
           u == v \o w
<1>1. /\ n \in Nat /\ u \in Seq(S) /\ Len(u) = n + Len(w) /\ Len(w) \in Nat
      /\ \A i \in 1..n : u[i] = v[i]
  BY ConcatProperties, LenProperties
<1> HIDE DEF u
<1>2. n <= Len(u) /\ n \in 0..n /\ n \in 0..Len(u)
  BY <1>1
<1>3. \A i \in 1..n : i \in DOMAIN u /\ i \in DOMAIN v
  BY <1>1, <1>2, LenProperties
<1>4. SubSeq(u, 1, n) = SubSeq(v, 1, n)
  <2>1. /\ SubSeq(u, 1, n) \in Seq(S) /\ Len(SubSeq(u, 1, n)) = n
        /\ \A i \in 1..n : SubSeq(u, 1, n)[i] = u[i]
    BY <1>1, <1>2, SplitAt
  <2>2. /\ SubSeq(v, 1, n) \in Seq(S) /\ Len(SubSeq(v, 1, n)) = n
        /\ \A i \in 1..n : SubSeq(v, 1, n)[i] = v[i]
    BY <1>2, SplitAt
  <2>3. \A i \in 1..n : SubSeq(u, 1, n)[i] = SubSeq(v, 1, n)[i]
    BY <1>1, <2>1, <2>2
  <2> QED
    BY <2>1, <2>2, <2>3, SeqEqual
<1> QED
  BY <1>2, <1>3, <1>4 DEF Rule!IsPrefix, u

\* The chunks k+1.. follow the chunks 1..k.
LEMMA JoinSplit ==
  ASSUME NEW S, NEW s \in Seq(Seq(S)), NEW k \in 0..Len(s)
  PROVE  /\ SubSeq(s, 1, k) \in Seq(Seq(S)) /\ SubSeq(s, k + 1, Len(s)) \in Seq(Seq(S))
         /\ Rule!Join(s) = Rule!Join(SubSeq(s, 1, k)) \o Rule!Join(SubSeq(s, k + 1, Len(s)))
<1>1. PICK a \in Seq(Seq(S)), b \in Seq(Seq(S)) :
             a = SubSeq(s, 1, k) /\ b = SubSeq(s, k + 1, Len(s)) /\ s = a \o b
  <2>1. SubSeq(s, 1, k) \in Seq(Seq(S)) /\ SubSeq(s, k + 1, Len(s)) \in Seq(Seq(S))
    BY SplitAt
  <2>2. s = SubSeq(s, 1, k) \o SubSeq(s, k + 1, Len(s))
    BY SplitAt
  <2> QED
    BY <2>1, <2>2, Zenon
<1>2. Rule!Join(a \o b) = Rule!Join(a) \o Rule!Join(b)
  BY JoinJoins
<1> QED
  BY <1>1, <1>2

\* The text of chunks as messages: few enough, short enough, the beginning of ink.
Begins(out, most, limit, ink) ==
  /\ Len(out) <= most
  /\ \A i \in DOMAIN out : Len(out[i]) <= limit
  /\ Rule!IsPrefix(Rule!Inked(Rule!Join(out)), ink)

LEMMA WholeBegins ==
  ASSUME NEW S, NEW most \in Nat, NEW limit \in Nat,
         NEW out \in Seq(Fitting(S, limit)), Len(out) <= most,
         NEW w \in Seq(S)
  PROVE  Begins(out, most, limit, Rule!Inked(Rule!Join(out)) \o w)
<1>1. \A i \in DOMAIN out : Len(out[i]) <= limit
  <2>1. DOMAIN out = 1..Len(out) /\ \A i \in 1..Len(out) : out[i] \in Fitting(S, limit)
    BY LenProperties, ElementOfSeq
  <2> QED
    BY <2>1 DEF Fitting
<1>2. out \in Seq(Seq(S))
  BY FittingAreSeqs
<1>3. Rule!Inked(Rule!Join(out)) \in Seq(S)
  BY <1>2, JoinIsSeq, InkedIsSeq
<1>4. PICK v \in Seq(S) : v = Rule!Inked(Rule!Join(out))
  BY <1>3
<1>5. Rule!IsPrefix(v, v \o w)
  BY BeginsWith
<1> QED
  BY <1>1, <1>4, <1>5 DEF Begins

Tailed(cs, most) == Rule!Join(SubSeq(cs, most, Len(cs)))
Stays(rest, most, limit) == Rule!Max({0, most - ((Len(rest) + limit - 1) \div limit)})
Regrouped(cs, n, limit) == SubSeq(cs, 1, n) \o Rule!Grouped(SubSeq(cs, n + 1, Len(cs)), limit)

LEMMA StaysWithin ==
  ASSUME NEW S, NEW rest \in Seq(S), NEW most \in Nat, NEW limit \in Nat \ {0}
  PROVE  Stays(rest, most, limit) \in 0..most
<1> DEFINE q == (Len(rest) + limit - 1) \div limit
           T == {0, most - q}
<1>1. q \in Int /\ q >= 0
  <2>1. PICK x \in Nat : x = Len(rest) + limit - 1
    <3>1. Len(rest) \in Nat
      BY LenProperties
    <3>2. Len(rest) + limit - 1 \in Nat
      BY <3>1
    <3> QED
      BY <3>2, Zenon
  <2>2. x \div limit \in Int /\ x \div limit >= 0
    OBVIOUS
  <2> QED
    BY <2>1, <2>2
<1> HIDE DEF q
<1>2. T \in SUBSET Int /\ 0 \in T /\ \A x \in T : x <= most
  BY <1>1
<1>3. Rule!Max(T) \in T /\ \A y \in T : y <= Rule!Max(T)
  <2>1. most \in Int
    OBVIOUS
  <2> HIDE DEF T
  <2> QED
    BY <1>2, <2>1, GreatestIsMax
<1>4. Rule!Max(T) \in 0..most
  BY <1>2, <1>3
<1> QED
  BY <1>4 DEF Stays, q

LEMMA RegroupedKeeps ==
  ASSUME NEW S, NEW limit \in Nat, NEW cs \in Seq(Fitting(S, limit)), NEW n \in 0..Len(cs)
  PROVE  /\ Regrouped(cs, n, limit) \in Seq(Fitting(S, limit))
         /\ Rule!Join(Regrouped(cs, n, limit)) = Rule!Join(cs)
<1>1. PICK a \in Seq(Fitting(S, limit)), b \in Seq(Fitting(S, limit)) :
             a = SubSeq(cs, 1, n) /\ b = SubSeq(cs, n + 1, Len(cs)) /\ cs = a \o b
  <2>1. /\ SubSeq(cs, 1, n) \in Seq(Fitting(S, limit))
        /\ SubSeq(cs, n + 1, Len(cs)) \in Seq(Fitting(S, limit))
    BY SplitAt
  <2>2. cs = SubSeq(cs, 1, n) \o SubSeq(cs, n + 1, Len(cs))
    BY SplitAt
  <2> QED
    BY <2>1, <2>2, Zenon
<1>2. limit + 1 \in Nat
  OBVIOUS
<1>3. PICK c \in Seq(Fitting(S, limit)) :
             c = Rule!Grouped(b, limit) /\ Rule!Join(c) = Rule!Join(b)
  BY <1>2, MergedKeeps DEF Rule!Grouped
<1>4. a \in Seq(Seq(S)) /\ b \in Seq(Seq(S)) /\ c \in Seq(Seq(S))
  BY FittingAreSeqs
<1>5. Rule!Join(a \o b) = Rule!Join(a) \o Rule!Join(b)
      /\ Rule!Join(a \o c) = Rule!Join(a) \o Rule!Join(c)
  BY <1>4, JoinJoins
<1>6. a \o c \in Seq(Fitting(S, limit))
  BY ConcatProperties
<1>7. Regrouped(cs, n, limit) = a \o c
  BY <1>1, <1>3 DEF Regrouped
<1> QED
  BY <1>1, <1>3, <1>5, <1>6, <1>7

LEMMA PackedKeeps ==
  ASSUME NEW S, NEW limit \in Nat \ {0}, NEW most \in Nat \ {0},
         NEW chunks \in Seq(Fitting(S, limit))
  PROVE  LET out == Rule!Packed(chunks, most, limit)
             ink == Rule!Inked(Rule!Join(chunks))
         IN Begins(out, most, limit, ink)
            /\ (Len(Tailed(chunks, most)) <= limit => Rule!Inked(Rule!Join(out)) = ink)
<1> DEFINE ink == Rule!Inked(Rule!Join(chunks))
           out == Rule!Packed(chunks, most, limit)
<1>0. PICK Fit : Fit = Fitting(S, limit)
  OBVIOUS
<1>1. Fit \in SUBSET Seq(S) /\ Seq(Fit) \subseteq Seq(Seq(S)) /\ chunks \in Seq(Fit)
  BY <1>0, FittingAreSeqs
<1>2. PICK cs \in Seq(Fit) : cs = Rule!Filled(chunks)
  BY <1>1, FilledIsSeq
<1>3. Rule!Inked(Rule!Join(cs)) = ink
  <2>1. chunks \in Seq(Seq(S))
    BY <1>1
  <2> QED
    BY <1>2, <2>1, FilledKeepsInk
<1>4. cs \in Seq(Seq(S)) /\ Rule!Join(cs) \in Seq(S) /\ ink \in Seq(S)
  BY <1>1, <1>3, JoinIsSeq, InkedIsSeq
<1>5. PICK rest : rest = Tailed(cs, most)
  OBVIOUS
<1> DEFINE n == Len(cs)
           stay == Stays(rest, most, limit)
           all == Regrouped(cs, stay, limit)
<1>6. out = IF n <= most THEN cs
            ELSE IF Len(rest) <= limit THEN Append(SubSeq(cs, 1, most - 1), rest)
            ELSE SubSeq(all, 1, Rule!Min({most, Len(all)}))
  BY <1>2, <1>5 DEF Rule!Packed, Tailed, Stays, Regrouped
<1>7. ASSUME NEW o \in Seq(Fitting(S, limit)), Len(o) <= most, NEW w \in Seq(S),
             ink = Rule!Inked(Rule!Join(o)) \o w
      PROVE  Begins(o, most, limit, ink)
  BY <1>7, WholeBegins
<1> HIDE DEF out, ink
<1>8. ASSUME NEW o \in Seq(Fitting(S, limit)), Len(o) <= most, ink = Rule!Inked(Rule!Join(o))
      PROVE  Begins(o, most, limit, ink)
  <2>1. <<>> \in Seq(S) /\ ink = ink \o <<>>
    BY <1>4, ConcatEmptySeq, EmptySeq
  <2>2. ink = Rule!Inked(Rule!Join(o)) \o <<>>
    BY <1>8, <2>1
  <2> QED
    BY <1>7, <1>8, <2>1, <2>2
<1>9. n \in Nat /\ most \in Nat /\ most - 1 \in Nat /\ (most - 1) + 1 = most
  BY <1>4, LenProperties
<1>10. CASE n <= most
  <2>1. out = cs
    BY <1>6, <1>10
  <2>2. Begins(cs, most, limit, ink)
    BY <1>0, <1>3, <1>8, <1>10
  <2> QED
    BY <1>3, <2>1, <2>2 DEF out, ink
<1>11. CASE ~(n <= most) /\ Len(rest) <= limit
  <2> DEFINE k == most - 1
             front == SubSeq(cs, 1, k)
  <2>1. k \in 0..n /\ k + 1 = most
    BY <1>9, <1>11
  <2> HIDE DEF k, n
  <2>2. /\ front \in Seq(Fit) /\ Len(front) = k
    BY <2>1, SplitAt DEF n
  <2>3. rest = Rule!Join(SubSeq(cs, k + 1, Len(cs)))
    BY <1>5, <2>1 DEF Tailed, n
  <2>4. /\ SubSeq(cs, k + 1, Len(cs)) \in Seq(Seq(S))
        /\ Rule!Join(cs) = Rule!Join(front) \o rest
    BY <1>4, <2>1, <2>3, JoinSplit DEF n
  <2>5. rest \in Seq(S) /\ front \in Seq(Seq(S))
    BY <1>1, <2>2, <2>3, <2>4, JoinIsSeq
  <2> HIDE DEF front
  <2>6. Rule!Join(Append(front, rest)) = Rule!Join(front) \o rest
    BY <2>5, JoinOne
  <2>7. rest \in Fit
    BY <1>0, <1>11, <2>5 DEF Fitting
  <2>8. Append(front, rest) \in Seq(Fit) /\ Len(Append(front, rest)) = k + 1
    BY <2>2, <2>7, AppendProperties
  <2>9. out = Append(front, rest)
    BY <1>6, <1>11 DEF front, k
  <2>10. ink = Rule!Inked(Rule!Join(out)) /\ out \in Seq(Fitting(S, limit)) /\ Len(out) <= most
    <3>1. Rule!Join(out) = Rule!Join(cs)
      BY <2>4, <2>6, <2>9
    <3>2. out \in Seq(Fit) /\ Len(out) = k + 1
      BY <2>8, <2>9
    <3>3. Len(out) <= most
      BY <1>9, <2>1, <3>2
    <3> QED
      BY <1>0, <1>3, <3>1, <3>2, <3>3
  <2>11. Begins(out, most, limit, ink)
    BY <1>8, <2>10
  <2> QED
    BY <2>10, <2>11 DEF out, ink
<1>12. CASE ~(n <= most) /\ ~(Len(rest) <= limit)
  <2>1. rest \in Seq(S)
    <3> DEFINE k == most - 1
    <3>1. k \in 0..n /\ k + 1 = most
      BY <1>9, <1>12
    <3> HIDE DEF k, n
    <3>2. SubSeq(cs, k + 1, Len(cs)) \in Seq(Seq(S))
      BY <1>4, <3>1, JoinSplit DEF n
    <3> QED
      BY <1>5, <3>1, <3>2, JoinIsSeq DEF Tailed
  <2>2. stay \in 0..n
    <3>1. stay \in 0..most
      BY <1>9, <2>1, StaysWithin
    <3> HIDE DEF stay, n
    <3> QED
      BY <1>9, <1>12, <3>1
  <2>3. all \in Seq(Fitting(S, limit)) /\ Rule!Join(all) = Rule!Join(cs)
    <3> HIDE DEF stay
    <3>1. cs \in Seq(Fitting(S, limit)) /\ stay \in 0..Len(cs) /\ limit \in Nat
      BY <1>0, <2>2
    <3> QED
      BY <3>1, RegroupedKeeps
  <2> DEFINE k == Rule!Min({most, Len(all)})
  <2> HIDE DEF all, stay
  <2>4. k \in 0..Len(all) /\ k <= most
    <3>1. Len(all) \in Nat
      BY <2>3, LenProperties
    <3>2. {most, Len(all)} \in SUBSET Nat /\ {most, Len(all)} # {}
      BY <1>9, <3>1
    <3>3. k \in {most, Len(all)} /\ \A y \in {most, Len(all)} : k <= y
      BY <3>2, LeastIsMin
    <3> HIDE DEF k
    <3> QED
      BY <1>9, <3>1, <3>3
  <2>5. out = SubSeq(all, 1, k)
    BY <1>6, <1>12 DEF all, stay
  <2> HIDE DEF k, out
  <2>6. out \in Seq(Fitting(S, limit)) /\ Len(out) <= most
    <3>1. SubSeq(all, 1, k) \in Seq(Fitting(S, limit)) /\ Len(SubSeq(all, 1, k)) = k
      BY <2>3, <2>4, SplitAt
    <3> QED
      BY <2>4, <2>5, <3>1
  <2>7. PICK w \in Seq(S) : ink = Rule!Inked(Rule!Join(out)) \o w
    <3>1. all \in Seq(Seq(S))
      BY <2>3, FittingAreSeqs
    <3>5. /\ SubSeq(all, 1, k) \in Seq(Seq(S)) /\ SubSeq(all, k + 1, Len(all)) \in Seq(Seq(S))
          /\ Rule!Join(all) = Rule!Join(SubSeq(all, 1, k)) \o Rule!Join(SubSeq(all, k + 1, Len(all)))
      BY <2>4, <3>1, JoinSplit, Zenon
    <3>2. PICK a \in Seq(Seq(S)), b \in Seq(Seq(S)) :
                 a = SubSeq(all, 1, k) /\ Rule!Join(all) = Rule!Join(a) \o Rule!Join(b)
      BY <3>5, Zenon
    <3>3. PICK v \in Seq(S), w \in Seq(S) : v = Rule!Join(a) /\ w = Rule!Join(b)
      BY JoinIsSeq
    <3>4. Rule!Inked(v \o w) = Rule!Inked(v) \o Rule!Inked(w) /\ Rule!Inked(w) \in Seq(S)
      BY InkedJoins, InkedIsSeq
    <3> QED
      BY <1>3, <2>3, <2>5, <3>2, <3>3, <3>4
  <2>8. Begins(out, most, limit, ink)
    BY <1>7, <2>6, <2>7
  <2>9. ~(Len(Tailed(chunks, most)) <= limit)
    <3>1. chunks \in Seq(Seq(S))
      BY <1>1
    <3>2. Len(Tailed(cs, most)) <= Len(Tailed(chunks, most))
      BY <1>2, <3>1, FilledIsShorter DEF Tailed, From
    <3>3. /\ Rule!Join(From(chunks, most)) \in Seq(S)
      <4>1. From(chunks, most) \in Seq(Seq(S))
        <5>1. Len(chunks) \in Nat /\ \A i \in most..Len(chunks) : chunks[i] \in Seq(S)
          <6>1. Len(chunks) \in Nat /\ \A i \in 1..Len(chunks) : chunks[i] \in Seq(S)
            BY <3>1, LenProperties, ElementOfSeq
          <6> QED
            BY <1>9, <6>1
        <5> QED
          BY <1>9, <5>1, SubSeqProperties DEF From
      <4> QED
        BY <4>1, JoinIsSeq
    <3>4. Len(Tailed(chunks, most)) \in Nat /\ Len(rest) \in Nat
      BY <2>1, <3>3, LenProperties DEF Tailed, From
    <3> QED
      BY <1>5, <1>12, <3>2, <3>4
  <2> QED
    BY <2>8, <2>9 DEF out, ink
<1> QED
  BY <1>10, <1>11, <1>12

LEMMA PacksInOrder ==
  ASSUME NEW S, NEW text \in Seq(S), NEW most \in Nat \ {0}, NEW limit \in Nat \ {0},
         NEW short \in Nat
  PROVE  Rule!PackKeepsOrder(text, most, limit, short)
<1>1. PICK cs \in Seq(Fitting(S, limit)) :
             cs = Rule!Chunks(text, limit, short) /\ Rule!Inked(Rule!Join(cs)) = Rule!Inked(text)
  BY ChunksKeepText
<1>2. PICK out : out = Rule!Packed(cs, most, limit)
  OBVIOUS
<1>3. Begins(out, most, limit, Rule!Inked(text))
      /\ (Len(Tailed(cs, most)) <= limit => Rule!Inked(Rule!Join(out)) = Rule!Inked(text))
  BY <1>1, <1>2, PackedKeeps
<1> QED
  BY <1>1, <1>2, <1>3 DEF Rule!PackKeepsOrder, Begins, Tailed

\* The texts and bounds that are asked about are those of the reply's lemmas.
LEMMA SayingsAreTexts ==
  ASSUME NEW t \in Rule!Sayings
  PROVE  t \in Seq(Rule!Kinds)
<1>1. PICK n \in 0..MaxText : t \in [1..n -> Rule!Kinds]
  BY DEF Rule!Sayings
<1> QED
  BY <1>1, BoundsAssumption

LEMMA AskedWhole ==
  ASSUME AskedFit
  PROVE  RepliesKept
<1> SUFFICES ASSUME input.about = "reply"
             PROVE  /\ Rule!CutsKeepText(input.text, input.limit, input.short)
                    /\ Rule!PackKeepsOrder(input.text, input.most, input.limit, input.short)
  BY DEF RepliesKept, Rule!RepliesKept
<1>1. PICK text \in Seq(Rule!Kinds), limit \in Nat \ {0}, short \in Nat, most \in Nat \ {0} :
             /\ text = input.text /\ limit = input.limit
             /\ short = input.short /\ most = input.most
  <2>1. /\ input.text \in Rule!Sayings /\ input.limit \in Limits
        /\ input.short \in Shorts /\ input.most \in Mosts
    BY DEF AskedFit
  <2>2. /\ input.text \in Seq(Rule!Kinds) /\ input.limit \in Nat \ {0}
        /\ input.short \in Nat /\ input.most \in Nat \ {0}
    BY <2>1, SayingsAreTexts, BoundsAssumption
  <2> QED
    BY <2>2
<1>2. Rule!CutsKeepText(text, limit, short)
  BY CutsAreWhole
<1>3. Rule!PackKeepsOrder(text, most, limit, short)
  BY PacksInOrder
<1> QED
  BY <1>1, <1>2, <1>3

\* A reply of any length, in messages of any size and of any number: cut at its
\* boundaries, joined where the pieces are short and packed into the messages that it may
\* have (adapters/channel/weixin/index.js), it keeps its order, loses, doubles and moves
\* nothing but white space, no message is longer than the channel takes, and it is whole
\* whenever what follows the messages but one fits into the last one.
THEOREM RepliesAreWhole == Spec => []RepliesKept
<1>1. AskedFit => RepliesKept
  BY AskedWhole
<1> QED
  BY AskedAlways, <1>1, PTL
=============================================================================
