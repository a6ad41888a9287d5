------------------------ MODULE ClaudeRuntimeProofs ------------------------
(***************************************************************************)
(* A theorem about ClaudeRuntime, for every number of processes, inputs    *)
(* and faults: that a conversation keeps its thread and its answers        *)
(* (ConversationKept).                                                     *)
(***************************************************************************)
EXTENDS ClaudeRuntime, SequenceTheorems, WellFoundedInduction, TLAPS

USE ClaudeAssumption DEF Threads, Procs, None, Pending, User, System, Scopes,
    Main, Chain, Callers

-----------------------------------------------------------------------------
\* Queues.

\* Every nonempty set of natural numbers has a least member.
LEMMA LeastNat ==
  ASSUME NEW T \in SUBSET Nat, T # {}
  PROVE  \E x \in T : \A y \in T : x <= y
<1> DEFINE R == {ss \in Nat \X Nat : ss[1] < ss[2]}
<1>1. IsWellFoundedOn(R, Nat)
  BY NatLessThanWellFounded DEF OpToRel
<1>2. \A x, y \in Nat : y < x => <<y, x>> \in R
  OBVIOUS
<1> HIDE DEF R
<1>3. PICK x \in T : \A y \in T : ~(<<y, x>> \in R)
  BY <1>1, WFMin
<1>4. ASSUME NEW y \in T PROVE x <= y
  <2>1. x \in Nat /\ y \in Nat /\ ~(y < x)
    BY <1>2, <1>3
  <2> QED
    BY <2>1
<1> QED
  BY <1>4

\* What is left of a queue when one is taken out of it.
LEMMA RemovedQueue ==
  ASSUME NEW S, NEW q \in Seq(S), NEW r
  PROVE  RemoveFirst(q, r) \in Seq(S)
<1>1. CASE ~\E i \in 1..Len(q) : q[i] = r
  BY <1>1 DEF RemoveFirst
<1>2. CASE \E i \in 1..Len(q) : q[i] = r
  <2> DEFINE I == {i \in 1..Len(q) : q[i] = r}
  <2>1. I \in SUBSET Nat /\ I # {}
    BY <1>2
  <2>2. PICK n \in I : n = Min(I)
    <3>1. \E x \in I : \A y \in I : x <= y
      BY <2>1, LeastNat
    <3> QED
      BY <3>1 DEF Min
  <2>3. SelectInSeq(q, LAMBDA v : v = r) = n
    BY <2>1, <2>2 DEF SelectInSeq
  <2>4. RemoveFirst(q, r) = SubSeq(q, 1, n - 1) \o SubSeq(q, n + 1, Len(q))
    BY <1>2, <2>3 DEF RemoveFirst, RemoveAt
  <2>5. /\ SubSeq(q, 1, n - 1) \in Seq(S)
        /\ SubSeq(q, n + 1, Len(q)) \in Seq(S)
    OBVIOUS
  <2> QED
    BY <2>4, <2>5, ConcatProperties
<1> QED
  BY <1>1, <1>2
-----------------------------------------------------------------------------
\* The thread state store: what it offers are requests, those in Asking.
States == {"idle", "running", "waiting"}

IsThread(st, Asking) ==
  /\ st = [status |-> st.status, pending |-> st.pending, queue |-> st.queue]
  /\ st.pending \in Asking \union {None}
  /\ st.queue \in Seq(Asking)

AreThreads(th, Asking) ==
  /\ th = [t \in Threads |-> th[t]]
  /\ \A t \in Threads : IsThread(th[t], Asking)

LEMMA EmptyIsThread ==
  ASSUME NEW Asking
  PROVE  IsThread(EmptyThread, Asking)
<1>1. /\ EmptyThread = [status |-> "idle", pending |-> None, queue |-> <<>>]
      /\ EmptyThread.status = "idle" /\ EmptyThread.pending = None
      /\ EmptyThread.queue = <<>>
  BY DEF EmptyThread
<1>2. <<>> \in Seq(Asking)
  OBVIOUS
<1> QED
  BY <1>1, <1>2 DEF IsThread

LEMMA MoreAsking ==
  ASSUME NEW th, NEW A, NEW B, A \subseteq B, AreThreads(th, A)
  PROVE  AreThreads(th, B)
<1>1. Seq(A) \subseteq Seq(B)
  BY SeqMonotonic
<1> QED
  BY <1>1 DEF AreThreads, IsThread

\* One thread is given another state.
LEMMA OneThread ==
  ASSUME NEW th, NEW A, AreThreads(th, A), NEW t, NEW st, t \in Threads => IsThread(st, A)
  PROVE  AreThreads([th EXCEPT ![t] = st], A)
<1> DEFINE new == [th EXCEPT ![t] = st]
<1>1. new = [u \in Threads |-> new[u]]
  BY DEF AreThreads
<1>2. ASSUME NEW u \in Threads PROVE IsThread(new[u], A)
  <2>1. CASE u = t
    <3>1. new[u] = st
      BY <2>1 DEF AreThreads
    <3> HIDE DEF new
    <3> QED
      BY <2>1, <3>1
  <2>2. CASE u # t
    <3>1. new[u] = th[u]
      BY <2>2 DEF AreThreads
    <3> HIDE DEF new
    <3> QED
      BY <3>1 DEF AreThreads
  <2> QED
    BY <2>1, <2>2
<1> HIDE DEF new
<1>3. AreThreads(new, A)
  BY <1>1, <1>2 DEF AreThreads
<1> QED
  BY <1>3 DEF new

LEMMA StartedThreads ==
  ASSUME NEW th, NEW A, AreThreads(th, A), NEW t
  PROVE  AreThreads(Started(th, t), A)
<1>1. CASE t \in Threads
  <2>1. PICK old : old = th[t] /\ IsThread(old, A)
    BY <1>1 DEF AreThreads
  <2>2. PICK w : w = "running"
    OBVIOUS
  <2>3. PICK new : new = [old EXCEPT !.status = w]
    OBVIOUS
  <2>4. IsThread(new, A)
    BY <2>1, <2>3 DEF IsThread
  <2>5. Started(th, t) = [th EXCEPT ![t] = new]
    BY <1>1, <2>1, <2>2, <2>3 DEF Started
  <2>6. AreThreads([th EXCEPT ![t] = new], A)
    BY <2>4, OneThread
  <2> QED
    BY <2>5, <2>6
<1>2. CASE t \notin Threads
  BY <1>2 DEF Started
<1> QED
  BY <1>1, <1>2

LEMMA EndedThreads ==
  ASSUME NEW th, NEW A, AreThreads(th, A), NEW t
  PROVE  AreThreads(Ended(th, t), A)
<1>1. CASE t \in Threads
  BY <1>1, OneThread, EmptyIsThread DEF Ended
<1>2. CASE t \notin Threads
  BY <1>2 DEF Ended
<1> QED
  BY <1>1, <1>2

\* A process that has not asked before asks.
LEMMA AskedThreads ==
  ASSUME NEW th, NEW A, AreThreads(th, A), NEW t, NEW p \in Procs, p \notin A
  PROVE  AreThreads(Asked(th, t, p), A \union {p})
<1> DEFINE B == A \union {p}
<1>0. AreThreads(th, B)
  BY MoreAsking
<1>1. CASE t \notin Threads
  BY <1>0, <1>1 DEF Asked
<1>2. CASE t \in Threads
  <2>1. PICK old : old = th[t] /\ IsThread(old, A)
    BY <1>2 DEF AreThreads
  <2>2. PICK w : w = "waiting"
    OBVIOUS
  <2>3. CASE old.pending \in {None, p}
    <3>1. PICK mid : mid = [old EXCEPT !.status = w]
      OBVIOUS
    <3>2. PICK new : new = [mid EXCEPT !.pending = p]
      OBVIOUS
    <3>3. IsThread(mid, B)
      BY <2>1, <3>1 DEF IsThread
    <3>4. IsThread(new, B)
      BY <3>2, <3>3 DEF IsThread
    <3>5. Asked(th, t, p) = [th EXCEPT ![t].status = w, ![t].pending = p]
      BY <1>2, <2>1, <2>2, <2>3 DEF Asked
    <3>6. [th EXCEPT ![t].status = w, ![t].pending = p] = [th EXCEPT ![t] = new]
      BY <1>2, <2>1, <3>1, <3>2 DEF AreThreads
    <3> HIDE DEF B
    <3>7. AreThreads([th EXCEPT ![t] = new], B)
      BY <1>0, <3>4, OneThread
    <3> QED
      BY <3>5, <3>6, <3>7 DEF B
  <2>4. CASE old.pending \notin {None, p}
    <3>0. PICK q : q = Append(old.queue, p)
      OBVIOUS
    <3>q. q \in Seq(B)
      <4>1. old.queue \in Seq(B)
        BY <2>1, SeqMonotonic DEF IsThread
      <4> QED
        BY <3>0, <4>1
    <3>1. PICK mid : mid = [old EXCEPT !.status = w]
      OBVIOUS
    <3>2. PICK new : new = [mid EXCEPT !.queue = q]
      OBVIOUS
    <3>3. IsThread(mid, A) /\ mid.queue = old.queue
      BY <2>1, <3>1 DEF IsThread
    <3>4. IsThread(new, B)
      BY <3>q, <3>2, <3>3 DEF IsThread
    <3>5. Asked(th, t, p) = [th EXCEPT ![t].status = w, ![t].queue = Append(@, p)]
      BY <1>2, <2>1, <2>2, <2>4 DEF Asked
    <3>6. [th EXCEPT ![t].status = w, ![t].queue = Append(@, p)] = [th EXCEPT ![t] = new]
      BY <1>2, <2>1, <3>0, <3>1, <3>2, <3>3 DEF AreThreads
    <3> HIDE DEF B
    <3>7. AreThreads([th EXCEPT ![t] = new], B)
      BY <1>0, <3>4, OneThread
    <3> QED
      BY <3>5, <3>6, <3>7 DEF B
  <2> QED
    BY <2>3, <2>4
<1> QED
  BY <1>1, <1>2

LEMMA ResolvedThreads ==
  ASSUME NEW th, NEW A, AreThreads(th, A), NEW t, NEW p
  PROVE  AreThreads(Resolved(th, t, p), A)
<1>1. CASE t \notin Threads
  BY <1>1 DEF Resolved
<1>2. CASE t \in Threads
  <2>1. PICK old : old = th[t] /\ IsThread(old, A)
    BY <1>2 DEF AreThreads
  <2>2. CASE old.pending \notin {None, p}
    <3>1. PICK q : q = RemoveFirst(old.queue, p)
      OBVIOUS
    <3>2. q \in Seq(A)
      <4>1. old.queue \in Seq(A)
        BY <2>1 DEF IsThread
      <4> QED
        BY <3>1, <4>1, RemovedQueue
    <3>3. PICK new : new = [old EXCEPT !.queue = q]
      OBVIOUS
    <3>4. IsThread(new, A)
      BY <2>1, <3>2, <3>3 DEF IsThread
    <3>5. Resolved(th, t, p) = [th EXCEPT ![t] = new]
      BY <1>2, <2>1, <2>2, <3>1, <3>3 DEF Resolved
    <3>6. AreThreads([th EXCEPT ![t] = new], A)
      BY <3>4, OneThread
    <3> QED
      BY <3>5, <3>6
  <2>3. CASE old.pending \in {None, p} /\ old.queue = <<>>
    <3>1. PICK w, e : w = "running" /\ e = EmptyThread
      OBVIOUS
    <3>2. PICK new : new = [e EXCEPT !.status = w]
      OBVIOUS
    <3>3. IsThread(e, A)
      BY <3>1, EmptyIsThread
    <3>4. IsThread(new, A)
      BY <3>2, <3>3 DEF IsThread
    <3>5. Resolved(th, t, p) = [th EXCEPT ![t] = new]
      BY <1>2, <2>1, <2>3, <3>1, <3>2 DEF Resolved
    <3>6. AreThreads([th EXCEPT ![t] = new], A)
      BY <3>4, OneThread
    <3> QED
      BY <3>5, <3>6
  <2>4. CASE old.pending \in {None, p} /\ old.queue # <<>>
    <3>1. PICK h, q : h = Head(old.queue) /\ q = Tail(old.queue)
      OBVIOUS
    <3>2. h \in A /\ q \in Seq(A)
      <4>1. old.queue \in Seq(A)
        BY <2>1 DEF IsThread
      <4>2. PICK l : l = old.queue
        OBVIOUS
      <4> QED
        BY <2>4, <3>1, <4>1, <4>2
    <3>3. PICK mid : mid = [old EXCEPT !.pending = h]
      OBVIOUS
    <3>4. PICK new : new = [mid EXCEPT !.queue = q]
      OBVIOUS
    <3>5. IsThread(mid, A) /\ mid.queue = old.queue
      BY <2>1, <3>2, <3>3 DEF IsThread
    <3>6. IsThread(new, A)
      BY <3>2, <3>4, <3>5 DEF IsThread
    <3>7. Resolved(th, t, p) = [th EXCEPT ![t].pending = Head(th[t].queue), ![t].queue = Tail(@)]
      BY <1>2, <2>1, <2>4 DEF Resolved
    <3>8. [th EXCEPT ![t].pending = Head(th[t].queue), ![t].queue = Tail(@)] = [th EXCEPT ![t] = new]
      BY <1>2, <2>1, <3>1, <3>3, <3>4, <3>5 DEF AreThreads
    <3>9. AreThreads([th EXCEPT ![t] = new], A)
      BY <3>6, OneThread
    <3> QED
      BY <3>7, <3>8, <3>9
  <2> QED
    BY <2>2, <2>3, <2>4
<1> QED
  BY <1>1, <1>2

-----------------------------------------------------------------------------
\* A process and its client.
IsRecord(c) ==
  c = [scope |-> c.scope, at |-> c.at, turn |-> c.turn, session |-> c.session,
       active |-> c.active, greeted |-> c.greeted, todo |-> c.todo, asked |-> c.asked]

IsProc(c) ==
  /\ IsRecord(c)
  /\ c.scope \in Scopes /\ c.session \in 0..NProc /\ c.active \in 0..Pending

\* What is kept of a process when one field changes.
LEMMA SetScope ==
  ASSUME NEW c, NEW v, NEW d, IsRecord(c), d = [c EXCEPT !.scope = v]
  PROVE  /\ IsRecord(d) /\ d.scope = v
         /\ d.at = c.at /\ d.turn = c.turn /\ d.session = c.session
         /\ d.active = c.active /\ d.greeted = c.greeted /\ d.todo = c.todo /\ d.asked = c.asked
  BY DEF IsRecord

LEMMA SetAt ==
  ASSUME NEW c, NEW v, NEW d, IsRecord(c), d = [c EXCEPT !.at = v]
  PROVE  /\ IsRecord(d) /\ d.at = v
         /\ d.scope = c.scope /\ d.turn = c.turn /\ d.session = c.session
         /\ d.active = c.active /\ d.greeted = c.greeted /\ d.todo = c.todo /\ d.asked = c.asked
  BY DEF IsRecord

LEMMA SetTurn ==
  ASSUME NEW c, NEW v, NEW d, IsRecord(c), d = [c EXCEPT !.turn = v]
  PROVE  /\ IsRecord(d) /\ d.turn = v
         /\ d.scope = c.scope /\ d.at = c.at /\ d.session = c.session
         /\ d.active = c.active /\ d.greeted = c.greeted /\ d.todo = c.todo /\ d.asked = c.asked
  BY DEF IsRecord

LEMMA SetSession ==
  ASSUME NEW c, NEW v, NEW d, IsRecord(c), d = [c EXCEPT !.session = v]
  PROVE  /\ IsRecord(d) /\ d.session = v
         /\ d.scope = c.scope /\ d.at = c.at /\ d.turn = c.turn
         /\ d.active = c.active /\ d.greeted = c.greeted /\ d.todo = c.todo /\ d.asked = c.asked
  BY DEF IsRecord

LEMMA SetActive ==
  ASSUME NEW c, NEW v, NEW d, IsRecord(c), d = [c EXCEPT !.active = v]
  PROVE  /\ IsRecord(d) /\ d.active = v
         /\ d.scope = c.scope /\ d.at = c.at /\ d.turn = c.turn
         /\ d.session = c.session /\ d.greeted = c.greeted /\ d.todo = c.todo /\ d.asked = c.asked
  BY DEF IsRecord

LEMMA SetGreeted ==
  ASSUME NEW c, NEW v, NEW d, IsRecord(c), d = [c EXCEPT !.greeted = v]
  PROVE  /\ IsRecord(d) /\ d.greeted = v
         /\ d.scope = c.scope /\ d.at = c.at /\ d.turn = c.turn
         /\ d.session = c.session /\ d.active = c.active /\ d.todo = c.todo /\ d.asked = c.asked
  BY DEF IsRecord

LEMMA SetTodo ==
  ASSUME NEW c, NEW v, NEW d, IsRecord(c), d = [c EXCEPT !.todo = v]
  PROVE  /\ IsRecord(d) /\ d.todo = v
         /\ d.scope = c.scope /\ d.at = c.at /\ d.turn = c.turn
         /\ d.session = c.session /\ d.active = c.active /\ d.greeted = c.greeted /\ d.asked = c.asked
  BY DEF IsRecord

LEMMA SetAsked ==
  ASSUME NEW c, NEW v, NEW d, IsRecord(c), d = [c EXCEPT !.asked = v]
  PROVE  /\ IsRecord(d) /\ d.asked = v
         /\ d.scope = c.scope /\ d.at = c.at /\ d.turn = c.turn
         /\ d.session = c.session /\ d.active = c.active /\ d.greeted = c.greeted /\ d.todo = c.todo
  BY DEF IsRecord

LEMMA NoProcIsProc ==
  /\ IsProc(NoProc) /\ NoProc.scope = User /\ NoProc.at = "none" /\ NoProc.turn = FALSE
  /\ NoProc.session = None /\ NoProc.active = None /\ NoProc.asked = "no"
<1>1. /\ IsRecord(NoProc) /\ NoProc.scope = User /\ NoProc.at = "none"
      /\ NoProc.turn = FALSE /\ NoProc.session = None /\ NoProc.active = None
      /\ NoProc.asked = "no"
  BY DEF NoProc, IsRecord
<1> QED
  BY <1>1 DEF IsProc

\* A process is started for scope k.
LEMMA ConnectedProc ==
  ASSUME NEW p, NEW k \in Scopes, stored[k] \in 0..NProc
  PROVE  LET d == Connected(p, k)
         IN /\ IsProc(d) /\ d.scope = k /\ d.at = "up" /\ d.session = stored[k]
            /\ d.asked = "no"
<1>1. PICK o, w, s : o = NoProc /\ w = "up" /\ s = stored[k]
  OBVIOUS
<1>2. /\ IsRecord(o) /\ o.asked = "no"
  BY <1>1, NoProcIsProc DEF IsProc
<1>3. PICK a : a = [o EXCEPT !.scope = k]
  OBVIOUS
<1>4. PICK b : b = [a EXCEPT !.at = w]
  OBVIOUS
<1>5. PICK c : c = [b EXCEPT !.session = s]
  OBVIOUS
<1>6. PICK d : d = [c EXCEPT !.active = s]
  OBVIOUS
<1>7. IsRecord(a) /\ a.scope = k /\ a.asked = o.asked
  BY <1>2, <1>3, SetScope
<1>8. IsRecord(b) /\ b.scope = k /\ b.at = w /\ b.asked = o.asked
  BY <1>4, <1>7, SetAt
<1>9. /\ IsRecord(c) /\ c.scope = k /\ c.at = w /\ c.asked = o.asked /\ c.session = s
  BY <1>5, <1>8, SetSession
<1>10. /\ IsRecord(d) /\ d.scope = k /\ d.at = w /\ d.asked = o.asked /\ d.session = s
       /\ d.active = s
  BY <1>6, <1>9, SetActive
<1>11. d = [o EXCEPT !.scope = k, !.at = w, !.session = s, !.active = s]
  BY <1>3, <1>4, <1>5, <1>6
<1>12. Connected(p, k) = d
  BY <1>1, <1>11 DEF Connected
<1>13. IsProc(d)
  BY <1>1, <1>10 DEF IsProc
<1> QED
  BY <1>1, <1>2, <1>10, <1>12, <1>13

\* A message is sent to a process.
LEMMA SentProc ==
  ASSUME NEW c, IsProc(c), NEW t \in 0..NProc
  PROVE  /\ IsProc(Sent(c, t))
         /\ Sent(c, t).scope = c.scope /\ Sent(c, t).at = c.at
         /\ Sent(c, t).session = c.session /\ Sent(c, t).asked = c.asked
<1>1. PICK x, y :
        /\ x = IF t # None THEN t ELSE IF c.session # None THEN c.session ELSE Pending
        /\ y = IF c.at = "up" THEN c.todo + 1 ELSE c.todo
  OBVIOUS
<1>2. x \in 0..Pending
  BY <1>1 DEF IsProc
<1>0. PICK v : v = TRUE
  OBVIOUS
<1>3. PICK a : a = [c EXCEPT !.turn = v]
  OBVIOUS
<1>4. PICK b : b = [a EXCEPT !.active = x]
  OBVIOUS
<1>5. PICK d : d = [b EXCEPT !.todo = y]
  OBVIOUS
<1>6. /\ IsRecord(a) /\ a.scope = c.scope /\ a.at = c.at /\ a.session = c.session
      /\ a.asked = c.asked /\ a.todo = c.todo
  BY <1>3, SetTurn DEF IsProc
<1>7. /\ IsRecord(b) /\ b.scope = c.scope /\ b.at = c.at /\ b.session = c.session
      /\ b.asked = c.asked /\ b.todo = c.todo /\ b.active = x
  BY <1>4, <1>6, SetActive
<1>8. /\ IsRecord(d) /\ d.scope = c.scope /\ d.at = c.at /\ d.session = c.session
      /\ d.asked = c.asked /\ d.active = x
  BY <1>5, <1>7, SetTodo
<1>9. Sent(c, t) = d
  <2>1. Sent(c, t) = [c EXCEPT !.turn = TRUE, !.active = x, !.todo = y]
    BY <1>1 DEF Sent
  <2> QED
    BY <1>0, <1>3, <1>4, <1>5, <2>1
<1>10. IsProc(d)
  BY <1>2, <1>8 DEF IsProc
<1> QED
  BY <1>8, <1>9, <1>10

-----------------------------------------------------------------------------
\* The inductive invariant.

IsCall(o) ==
  /\ o = [at |-> o.at, scope |-> o.scope, proc |-> o.proc, again |-> o.again]
  /\ o.scope \in Scopes

Events == [type : {"ask", "completed", "failed"}, thread : 0..Pending, proc : Procs]

\* Those who may have a request in some thread's state.
Asks(pr) ==
  {r \in Procs : pr[r].at = "gone" \/ (pr[r].at # "none" /\ pr[r].asked # "no")}

\* t is the thread of a process that was started for scope k.
OpenedFor(pr, t, k) == t \in Procs /\ pr[t].at # "none" /\ pr[t].scope = k

Shapes ==
  /\ proc = [p \in Procs |-> proc[p]]
  /\ \A p \in Procs : IsProc(proc[p])
  /\ cur \in [Scopes -> 0..NProc] /\ stored \in [Scopes -> 0..NProc]
  /\ call = [x \in Callers |-> call[x]]
  /\ \A x \in Callers : IsCall(call[x])
  /\ events \in Seq(Events)

\* Up, or closing with a turn that nobody has ended.
Busy(c) == c.at = "up" \/ (c.at = "closing" /\ c.turn)

\* The client of a scope is one of its own and alive, and a process that is up
\* or has a turn is the client of its scope: there are never two.
Clients ==
  /\ \A k \in Scopes : cur[k] # None =>
       cur[k] \in Procs /\ proc[cur[k]].scope = k /\ proc[cur[k]].at \in {"up", "closing"}
  /\ \A p \in Procs : Busy(proc[p]) => cur[proc[p].scope] = p

\* A process has a session of its own scope, and so has the session store.
Sessions ==
  \A p \in Procs : proc[p].session # None => OpenedFor(proc, proc[p].session, proc[p].scope)
Store == \A k \in Scopes : stored[k] # None => OpenedFor(proc, stored[k], k)

\* A dispatch that waits for a session waits for a process of its scope.
Opening ==
  \A x \in Callers : call[x].at = "opening" => OpenedFor(proc, call[x].proc, call[x].scope)

\* A request is registered while it waits, or was forgotten with another process.
Registered ==
  \A r \in Procs : proc[r].at = "up" /\ proc[r].asked = "open" => r \in approvals \/ forgotten

Inv ==
  /\ Shapes /\ Clients /\ Sessions /\ Store /\ Opening /\ Registered
  /\ AreThreads(thread, Asks(proc))
  /\ misled => forgotten

\* No process forgets what it was started for.
Kin ==
  \A p \in Procs : proc[p].at # "none" =>
    proc'[p].at # "none" /\ proc'[p].scope = proc[p].scope

LEMMA StillOpened ==
  ASSUME Kin, NEW t, NEW k, OpenedFor(proc, t, k)
  PROVE  OpenedFor(proc', t, k)
  BY DEF Kin, OpenedFor

\* What a step makes of one process.
LEMMA OneProc ==
  ASSUME Shapes, NEW p \in Procs, NEW d, proc' = [proc EXCEPT ![p] = d], IsProc(d)
  PROVE  /\ proc' = [q \in Procs |-> proc'[q]]
         /\ \A q \in Procs : IsProc(proc'[q])
         /\ proc'[p] = d
         /\ \A q \in Procs \ {p} : proc'[q] = proc[q]
<1>1. proc' = [q \in Procs |-> proc'[q]] /\ proc'[p] = d
      /\ \A q \in Procs \ {p} : proc'[q] = proc[q]
  BY DEF Shapes
<1> QED
  BY <1>1 DEF Shapes

\* A step that may close a process, open its session, end its turn or change
\* what it asks for.
Mild(p, c, d) ==
  /\ IsProc(d)
  /\ d.scope = c.scope
  /\ d.session = c.session \/ (d.session = p /\ c.at # "none")
  /\ d.at = c.at \/ (c.at = "up" /\ d.at = "closing")
  /\ d.turn => c.turn
  /\ c.asked # "no" => d.asked # "no"

MildStep ==
  /\ cur' = cur
  /\ \/ proc' = proc
     \/ \E p \in Procs : \E d : proc' = [proc EXCEPT ![p] = d] /\ Mild(p, proc[p], d)

LEMMA MildProcs ==
  ASSUME Inv, MildStep
  PROVE  /\ proc' = [q \in Procs |-> proc'[q]]
         /\ \A q \in Procs : IsProc(proc'[q])
         /\ Clients' /\ Sessions' /\ Kin /\ Asks(proc) \subseteq Asks(proc')
<1>1. CASE proc' = proc
  <2>1. proc' = [q \in Procs |-> proc'[q]] /\ \A q \in Procs : IsProc(proc'[q])
    BY <1>1 DEF Inv, Shapes
  <2>2. Clients' /\ Sessions' /\ Kin
    BY <1>1 DEF Inv, Clients, Sessions, Kin, OpenedFor, MildStep
  <2>3. Asks(proc) = Asks(proc')
    BY <1>1 DEF Asks
  <2> QED
    BY <2>1, <2>2, <2>3
<1>2. CASE proc' # proc
  <2>0. PICK p \in Procs : \E d : proc' = [proc EXCEPT ![p] = d] /\ Mild(p, proc[p], d)
    BY <1>2 DEF MildStep
  <2>1. PICK d : proc' = [proc EXCEPT ![p] = d] /\ Mild(p, proc[p], d)
    BY <2>0
  <2>2. /\ proc' = [q \in Procs |-> proc'[q]]
        /\ \A q \in Procs : IsProc(proc'[q])
        /\ proc'[p] = d
        /\ \A q \in Procs \ {p} : proc'[q] = proc[q]
    BY <2>1, OneProc DEF Inv, Mild
  <2>3. /\ d.scope = proc[p].scope
        /\ d.at = proc[p].at \/ (proc[p].at = "up" /\ d.at = "closing")
        /\ Busy(d) => Busy(proc[p])
        /\ proc[p].asked # "no" => d.asked # "no"
    BY <2>1 DEF Mild, Busy
  <2>4. Kin
    BY <2>2, <2>3 DEF Kin
  <2>5. Clients'
    <3>1. ASSUME NEW k \in Scopes, cur'[k] # None
          PROVE  cur'[k] \in Procs /\ proc'[cur'[k]].scope = k
                 /\ proc'[cur'[k]].at \in {"up", "closing"}
      <4>1. PICK q \in Procs : q = cur[k]
        BY <3>1 DEF Inv, Clients, MildStep
      <4>2. proc[q].scope = k /\ proc[q].at \in {"up", "closing"}
        BY <3>1, <4>1 DEF Inv, Clients, MildStep
      <4>3. proc'[q].scope = k /\ proc'[q].at \in {"up", "closing"}
        BY <2>2, <2>3, <4>2
      <4> QED
        BY <4>1, <4>3 DEF MildStep
    <3>2. ASSUME NEW q \in Procs, Busy(proc'[q])
          PROVE  cur'[proc'[q].scope] = q
      <4>1. Busy(proc[q]) /\ proc'[q].scope = proc[q].scope
        BY <2>2, <2>3, <3>2
      <4> QED
        BY <4>1 DEF Inv, Clients, MildStep
    <3> QED
      BY <3>1, <3>2 DEF Clients
  <2>6. Sessions'
    <3> SUFFICES ASSUME NEW q \in Procs, proc'[q].session # None
                 PROVE  OpenedFor(proc', proc'[q].session, proc'[q].scope)
      BY DEF Sessions
    <3>1. PICK s, k : s = proc'[q].session /\ k = proc[q].scope
      OBVIOUS
    <3>2. proc'[q].session = s /\ proc'[q].scope = k
      BY <2>2, <2>3, <3>1
    <3>3. OpenedFor(proc, s, k)
      <4>1. CASE s = proc[q].session
        BY <3>1, <3>2, <4>1 DEF Inv, Sessions
      <4>2. CASE s # proc[q].session
        <5>1. q = p /\ s = q /\ proc[q].at # "none"
          BY <2>1, <2>2, <3>1, <4>2 DEF Mild
        <5> QED
          BY <3>1, <5>1 DEF OpenedFor
      <4> QED
        BY <4>1, <4>2
    <3>4. OpenedFor(proc', s, k)
      BY <2>4, <3>3, StillOpened
    <3> QED
      BY <3>2, <3>4
  <2>7. Asks(proc) \subseteq Asks(proc')
    BY <2>2, <2>3 DEF Asks
  <2> QED
    BY <2>2, <2>4, <2>5, <2>6, <2>7
<1> QED
  BY <1>1, <1>2

\* A process is closed, or not: the input of one that is up is ended.
LEMMA ClosedStep ==
  ASSUME Inv, NEW p, proc' = Closed(proc, p), cur' = cur
  PROVE  /\ MildStep
         /\ \A r \in Procs : /\ proc'[r].at = "up" => proc[r].at = "up"
                             /\ proc'[r].asked = proc[r].asked
<1>1. CASE p \in Procs /\ proc[p].at = "up"
  <2>1. PICK c, w : c = proc[p] /\ w = "closing" /\ IsProc(c) /\ c.at = "up"
    BY <1>1 DEF Inv, Shapes
  <2>2. PICK d : d = [c EXCEPT !.at = w]
    OBVIOUS
  <2>3. /\ IsRecord(d) /\ d.at = w /\ d.scope = c.scope /\ d.turn = c.turn
        /\ d.session = c.session /\ d.active = c.active /\ d.asked = c.asked
    BY <2>1, <2>2, SetAt DEF IsProc
  <2>4. proc' = [proc EXCEPT ![p] = d]
    <3>1. p # None
      BY <1>1
    <3> QED
      BY <1>1, <2>1, <2>2, <3>1 DEF Closed
  <2>5. Mild(p, proc[p], d)
    BY <2>1, <2>3 DEF Mild, IsProc
  <2>6. proc'[p] = d /\ \A r \in Procs \ {p} : proc'[r] = proc[r]
    BY <1>1, <2>4, <2>5, OneProc DEF Inv, Mild
  <2> QED
    BY <1>1, <2>1, <2>3, <2>4, <2>5, <2>6 DEF MildStep
<1>2. CASE ~(p \in Procs /\ proc[p].at = "up")
  <2>1. proc' = proc
    BY <1>2 DEF Closed, Inv, Shapes
  <2> QED
    BY <2>1 DEF MildStep
<1> QED
  BY <1>1, <1>2

\* What else a step may do: forget a thread, start or end a call that does not
\* wait for a session, and give the threads other states.
LEMMA RestKept ==
  ASSUME Inv, Kin,
         stored' \in [Scopes -> 0..NProc],
         \A k \in Scopes : stored'[k] # None => OpenedFor(proc', stored'[k], k),
         call' = [x \in Callers |-> call'[x]],
         \A x \in Callers : IsCall(call'[x]),
         \A x \in Callers : call'[x].at # "opening" \/ call'[x] = call[x]
  PROVE  Store' /\ Opening'
<1>1. Store'
  BY DEF Store
<1>2. Opening'
  <2> SUFFICES ASSUME NEW x \in Callers, call'[x].at = "opening"
               PROVE  OpenedFor(proc', call'[x].proc, call'[x].scope)
    BY DEF Opening
  <2>1. PICK o : o = call[x] /\ call'[x] = o /\ o.at = "opening"
    OBVIOUS
  <2>2. PICK t, k : t = o.proc /\ k = o.scope
    OBVIOUS
  <2>3. OpenedFor(proc, t, k)
    BY <2>1, <2>2 DEF Inv, Opening
  <2>4. OpenedFor(proc', t, k)
    BY <2>3, StillOpened
  <2> QED
    BY <2>1, <2>2, <2>4
<1> QED
  BY <1>1, <1>2

-----------------------------------------------------------------------------
\* Calls.

\* What is kept of a call when one field changes.
LEMMA SetCall ==
  ASSUME NEW o, IsCall(o), NEW v
  PROVE  /\ \A d : d = [o EXCEPT !.at = v] => IsCall(d) /\ d.at = v /\ d.scope = o.scope
         /\ \A d : d = [o EXCEPT !.proc = v] =>
              IsCall(d) /\ d.proc = v /\ d.at = o.at /\ d.scope = o.scope
         /\ \A d : d = [o EXCEPT !.again = v] => IsCall(d) /\ d.at = o.at /\ d.scope = o.scope
         /\ v \in Scopes => \A d : d = [o EXCEPT !.scope = v] => IsCall(d) /\ d.at = o.at
<1>1. ASSUME NEW d, d = [o EXCEPT !.at = v]
      PROVE  IsCall(d) /\ d.at = v /\ d.scope = o.scope
  BY <1>1 DEF IsCall
<1>2. ASSUME NEW d, d = [o EXCEPT !.proc = v]
      PROVE  IsCall(d) /\ d.proc = v /\ d.at = o.at /\ d.scope = o.scope
  BY <1>2 DEF IsCall
<1>3. ASSUME NEW d, d = [o EXCEPT !.again = v]
      PROVE  IsCall(d) /\ d.at = o.at /\ d.scope = o.scope
  BY <1>3 DEF IsCall
<1>4. ASSUME v \in Scopes, NEW d, d = [o EXCEPT !.scope = v]
      PROVE  IsCall(d) /\ d.at = o.at
  BY <1>4 DEF IsCall
<1> QED
  BY <1>1, <1>2, <1>3, <1>4

LEMMA IdleCall == IsCall(Idle) /\ Idle.at = "idle"
<1>1. /\ Idle = [at |-> Idle.at, scope |-> Idle.scope, proc |-> Idle.proc, again |-> Idle.again]
      /\ Idle.at = "idle" /\ Idle.scope = User
  BY DEF Idle
<1> QED
  BY <1>1 DEF IsCall

LEMMA TypingCall ==
  ASSUME NEW k \in Scopes, NEW again
  PROVE  LET d == [Idle EXCEPT !.at = "typing", !.scope = k, !.again = again]
         IN IsCall(d) /\ d.at = "typing"
<1>1. PICK o, w : o = Idle /\ w = "typing" /\ IsCall(o)
  BY IdleCall
<1>2. PICK a : a = [o EXCEPT !.at = w]
  OBVIOUS
<1>3. PICK b : b = [a EXCEPT !.scope = k]
  OBVIOUS
<1>4. PICK d : d = [b EXCEPT !.again = again]
  OBVIOUS
<1>5. IsCall(a) /\ a.at = w
  BY <1>1, <1>2, SetCall
<1>6. IsCall(b) /\ b.at = w
  BY <1>3, <1>5, SetCall
<1>7. IsCall(d) /\ d.at = w
  BY <1>4, <1>6, SetCall
<1>8. d = [o EXCEPT !.at = w, !.scope = k, !.again = again]
  BY <1>2, <1>3, <1>4
<1> QED
  BY <1>1, <1>7, <1>8

LEMMA EndedCall ==
  ASSUME NEW k \in Scopes, NEW p
  PROVE  LET d == [Idle EXCEPT !.at = "ended", !.scope = k, !.proc = p]
         IN IsCall(d) /\ d.at = "ended"
<1>1. PICK o, w : o = Idle /\ w = "ended" /\ IsCall(o)
  BY IdleCall
<1>2. PICK a : a = [o EXCEPT !.at = w]
  OBVIOUS
<1>3. PICK b : b = [a EXCEPT !.scope = k]
  OBVIOUS
<1>4. PICK d : d = [b EXCEPT !.proc = p]
  OBVIOUS
<1>5. IsCall(a) /\ a.at = w
  BY <1>1, <1>2, SetCall
<1>6. IsCall(b) /\ b.at = w
  BY <1>3, <1>5, SetCall
<1>7. IsCall(d) /\ d.at = w
  BY <1>4, <1>6, SetCall
<1>8. d = [o EXCEPT !.at = w, !.scope = k, !.proc = p]
  BY <1>2, <1>3, <1>4
<1> QED
  BY <1>1, <1>7, <1>8

\* A call that does not wait for a session after the step.
Puts(x, o) == call' = [call EXCEPT ![x] = o] /\ IsCall(o) /\ o.at # "opening"
CallsMove == call' = call \/ \E x \in Callers : \E o : Puts(x, o)

LEMMA IdlePut ==
  ASSUME NEW x \in Callers, call' = [call EXCEPT ![x] = Idle]
  PROVE  CallsMove
<1>1. PICK o : o = Idle
  OBVIOUS
<1>2. Puts(x, o)
  BY <1>1, IdleCall DEF Puts
<1> QED
  BY <1>2 DEF CallsMove

LEMMA WaitPut ==
  ASSUME Inv, NEW x \in Callers, NEW a, a # "opening", NEW p,
         call' = [call EXCEPT ![x].at = a, ![x].proc = p]
  PROVE  CallsMove
<1>1. PICK c : c = call[x] /\ IsCall(c)
  BY DEF Inv, Shapes
<1>2. PICK b : b = [c EXCEPT !.at = a]
  OBVIOUS
<1>3. PICK o : o = [b EXCEPT !.proc = p]
  OBVIOUS
<1>4. IsCall(b) /\ b.at = a
  BY <1>1, <1>2, SetCall
<1>5. IsCall(o) /\ o.at = a
  BY <1>3, <1>4, SetCall
<1>6. call' = [call EXCEPT ![x] = o]
  BY <1>1, <1>2, <1>3 DEF Inv, Shapes
<1> QED
  BY <1>5, <1>6 DEF Puts, CallsMove

LEMMA MovedCalls ==
  ASSUME Inv, CallsMove
  PROVE  /\ call' = [x \in Callers |-> call'[x]]
         /\ \A x \in Callers : IsCall(call'[x])
         /\ \A x \in Callers : call'[x].at # "opening" \/ call'[x] = call[x]
<1>1. CASE call' = call
  BY <1>1 DEF Inv, Shapes
<1>2. CASE \E x \in Callers : \E o : Puts(x, o)
  <2>0. PICK x \in Callers : \E o : Puts(x, o)
    BY <1>2
  <2>1. PICK o : Puts(x, o)
    BY <2>0
  <2>2. call' = [y \in Callers |-> call'[y]] /\ call'[x] = o
        /\ \A y \in Callers \ {x} : call'[y] = call[y]
    BY <2>1 DEF Puts, Inv, Shapes
  <2> QED
    BY <2>1, <2>2 DEF Puts, Inv, Shapes
<1> QED
  BY <1>1, <1>2 DEF CallsMove

-----------------------------------------------------------------------------
\* Steps that leave the requests and their answers alone: a process may be
\* closed, a thread's turn start or end, a scope's thread be forgotten.
ThreadsMove ==
  \/ thread' = thread
  \/ \E t : thread' = Ended(thread, t)
  \/ \E t : thread' = Started(thread, t)
  \/ \E t, p : thread' = Resolved(thread, t, p)

StoreMoves ==
  /\ stored' \in [Scopes -> 0..NProc]
  /\ \A k \in Scopes : stored'[k] = None \/ stored'[k] = stored[k]

ClosesOne ==
  /\ cur' = cur
  /\ proc' = proc \/ \E p : proc' = Closed(proc, p)

LEMMA MovedThreads ==
  ASSUME Inv, ThreadsMove, Asks(proc) \subseteq Asks(proc')
  PROVE  AreThreads(thread', Asks(proc'))
<1>1. PICK th, A, B, th2 : /\ th = thread /\ A = Asks(proc) /\ B = Asks(proc') /\ th2 = thread'
                           /\ AreThreads(th, A) /\ A \subseteq B
  BY DEF Inv
<1>2. AreThreads(th2, A)
  <2>1. CASE th2 = th
    BY <1>1, <2>1
  <2>2. CASE \E t : th2 = Ended(th, t)
    BY <1>1, <2>2, EndedThreads
  <2>3. CASE \E t : th2 = Started(th, t)
    BY <1>1, <2>3, StartedThreads
  <2>4. CASE \E t, p : th2 = Resolved(th, t, p)
    BY <1>1, <2>4, ResolvedThreads
  <2> QED
    BY <1>1, <2>1, <2>2, <2>3, <2>4 DEF ThreadsMove
<1>3. AreThreads(th2, B)
  BY <1>1, <1>2, MoreAsking
<1> QED
  BY <1>1, <1>3

LEMMA MovedStore ==
  ASSUME Inv, Kin, StoreMoves
  PROVE  \A k \in Scopes : stored'[k] # None => OpenedFor(proc', stored'[k], k)
<1> SUFFICES ASSUME NEW k \in Scopes, stored'[k] # None
             PROVE  OpenedFor(proc', stored'[k], k)
  OBVIOUS
<1>1. PICK t : t = stored[k] /\ stored'[k] = t
  BY DEF StoreMoves
<1>2. OpenedFor(proc, t, k)
  BY <1>1 DEF Inv, Store
<1>3. OpenedFor(proc', t, k)
  BY <1>2, StillOpened
<1> QED
  BY <1>1, <1>3

\* What a step has to keep, in terms of its moves.
LEMMA MovesInv ==
  ASSUME Inv,
         proc' = [q \in Procs |-> proc'[q]], \A q \in Procs : IsProc(proc'[q]),
         cur' \in [Scopes -> 0..NProc], Clients', Sessions', Kin, Registered',
         AreThreads(thread', Asks(proc')), CallsMove, StoreMoves,
         events' \in Seq(Events), misled' => forgotten'
  PROVE  Inv'
<1>1. /\ call' = [x \in Callers |-> call'[x]]
      /\ \A x \in Callers : IsCall(call'[x])
      /\ \A x \in Callers : call'[x].at # "opening" \/ call'[x] = call[x]
  BY MovedCalls
<1>2. \A k \in Scopes : stored'[k] # None => OpenedFor(proc', stored'[k], k)
  BY MovedStore
<1>3. Store' /\ Opening'
  BY <1>1, <1>2, RestKept DEF StoreMoves
<1>4. Shapes'
  BY <1>1 DEF Shapes, StoreMoves
<1>5. AreThreads(thread, Asks(proc))'
  OBVIOUS
<1> QED
  BY <1>3, <1>4, <1>5 DEF Inv

LEMMA MildInv ==
  ASSUME Inv, MildStep, Registered', ThreadsMove \/ AreThreads(thread', Asks(proc')),
         CallsMove, StoreMoves, events' \in Seq(Events), misled' => forgotten'
  PROVE  Inv'
<1>1. /\ proc' = [q \in Procs |-> proc'[q]]
      /\ \A q \in Procs : IsProc(proc'[q])
      /\ Clients' /\ Sessions' /\ Kin /\ Asks(proc) \subseteq Asks(proc')
  BY MildProcs
<1>2. cur' \in [Scopes -> 0..NProc]
  BY DEF MildStep, Inv, Shapes
<1>3. AreThreads(thread', Asks(proc'))
  BY <1>1, MovedThreads
<1> QED
  BY <1>1, <1>2, <1>3, MovesInv

LEMMA Elsewhere ==
  ASSUME Inv, ClosesOne, UNCHANGED <<approvals, forgotten, misled>>,
         ThreadsMove, CallsMove, StoreMoves, events' \in Seq(Events)
  PROVE  Inv'
<1>1. /\ MildStep
      /\ \A r \in Procs : /\ proc'[r].at = "up" => proc[r].at = "up"
                          /\ proc'[r].asked = proc[r].asked
  <2>1. CASE proc' = proc
    BY <2>1 DEF MildStep, ClosesOne
  <2>2. CASE \E p : proc' = Closed(proc, p)
    <3>1. PICK p : proc' = Closed(proc, p)
      BY <2>2
    <3> QED
      BY <3>1, ClosedStep DEF ClosesOne
  <2> QED
    BY <2>1, <2>2 DEF ClosesOne
<1>2. Registered'
  BY <1>1 DEF Inv, Registered
<1>3. misled' => forgotten'
  BY DEF Inv
<1> QED
  BY <1>1, <1>2, <1>3, MildInv

LEMMA BeginPut ==
  ASSUME NEW x \in Callers, NEW k \in Scopes, NEW again, Begin(x, k, again)
  PROVE  CallsMove
<1>1. PICK o : o = [Idle EXCEPT !.at = "typing", !.scope = k, !.again = again]
  OBVIOUS
<1>2. IsCall(o) /\ o.at = "typing"
  BY <1>1, TypingCall
<1>3. call' = [call EXCEPT ![x] = o]
  BY <1>1 DEF Begin
<1>4. Puts(x, o)
  BY <1>2, <1>3 DEF Puts
<1> QED
  BY <1>4 DEF CallsMove

\* A caller waits for the end of a process.
LEMMA IdleWaitPut ==
  ASSUME NEW x \in Callers, NEW a, a # "opening", NEW p,
         call' = [call EXCEPT ![x] = [Idle EXCEPT !.at = a, !.proc = p]]
  PROVE  CallsMove
<1>1. PICK c : c = Idle /\ IsCall(c)
  BY IdleCall
<1>2. PICK b : b = [c EXCEPT !.at = a]
  OBVIOUS
<1>3. PICK o : o = [b EXCEPT !.proc = p]
  OBVIOUS
<1>4. IsCall(b) /\ b.at = a
  BY <1>1, <1>2, SetCall
<1>5. IsCall(o) /\ o.at = a
  BY <1>3, <1>4, SetCall
<1>6. call' = [call EXCEPT ![x] = o]
  BY <1>1, <1>2, <1>3
<1> QED
  BY <1>5, <1>6 DEF Puts, CallsMove

LEMMA SameStore ==
  ASSUME Inv, stored' = stored
  PROVE  StoreMoves
  BY DEF Inv, Shapes, StoreMoves

LEMMA SameEvents ==
  ASSUME Inv, events' = events
  PROVE  events' \in Seq(Events)
  BY DEF Inv, Shapes

LEMMA TakenEvents ==
  ASSUME Inv, events # <<>>, events' = Tail(events)
  PROVE  events' \in Seq(Events) /\ Head(events) \in Events
  BY DEF Inv, Shapes

LEMMA AddedEvents ==
  ASSUME Inv, NEW e \in Events, events' = Append(events, e)
  PROVE  events' \in Seq(Events)
  BY DEF Inv, Shapes

-----------------------------------------------------------------------------
\* The main loop.

LEMMA ReceiveInv ==
  ASSUME Inv, NEW k \in Scopes, Receive(k)
  PROVE  Inv'
<1>1. /\ UNCHANGED <<proc, cur, approvals, stored, events, forgotten, misled>>
      /\ call' = call \/ Begin(Main, k, FALSE)
      /\ thread' = thread \/ \E t : thread' = Ended(thread, t)
  BY DEF Receive, Look, adapter, ghosts
<1>2. CallsMove
  BY <1>1, BeginPut DEF CallsMove
<1>3. ThreadsMove /\ ClosesOne /\ StoreMoves /\ events' \in Seq(Events)
  BY <1>1, SameStore, SameEvents DEF ThreadsMove, ClosesOne
<1> QED
  BY <1>1, <1>2, <1>3, Elsewhere

LEMMA FlushedMoves ==
  ASSUME NEW x \in Callers, NEW k \in Scopes, NEW past, Flushed(x, k, past)
  PROVE  CallsMove /\ ThreadsMove
<1>1. /\ call' = call \/ Begin(x, k, TRUE)
      /\ thread' = thread \/ \E t : thread' = Ended(thread, t)
  BY DEF Flushed, Look
<1> QED
  BY <1>1, BeginPut DEF CallsMove, ThreadsMove

LEMMA FlushInv ==
  ASSUME Inv, NEW k \in Scopes, Flush(k)
  PROVE  Inv'
<1>1. /\ UNCHANGED <<proc, cur, approvals, stored, events, forgotten, misled>>
      /\ Flushed(Main, k, FALSE)
  BY DEF Flush, adapter, ghosts
<1>2. CallsMove /\ ThreadsMove
  BY <1>1, FlushedMoves
<1>3. ClosesOne /\ StoreMoves /\ events' \in Seq(Events)
  BY <1>1, SameStore, SameEvents DEF ClosesOne
<1> QED
  BY <1>1, <1>2, <1>3, Elsewhere

LEMMA StopInv ==
  ASSUME Inv, Stop
  PROVE  Inv'
<1>1. PICK p : p = StopOf(User)
  OBVIOUS
<1>2. /\ proc' = Closed(proc, p)
      /\ call' = [call EXCEPT ![Main] = [Idle EXCEPT !.at = "stopping", !.proc = p]]
      /\ UNCHANGED <<cur, approvals, stored, thread, events, forgotten, misled>>
  BY <1>1 DEF Stop, bridge, ghosts
<1>3. CallsMove
  BY <1>2, IdleWaitPut
<1>4. ThreadsMove /\ ClosesOne /\ StoreMoves /\ events' \in Seq(Events)
  BY <1>2, SameStore, SameEvents DEF ThreadsMove, ClosesOne
<1> QED
  BY <1>2, <1>3, <1>4, Elsewhere

LEMMA NewThreadInv ==
  ASSUME Inv, NewThread
  PROVE  Inv'
<1>1. PICK p : p = cur[User]
  OBVIOUS
<1>2. /\ proc' = Closed(proc, p)
      /\ call' = [call EXCEPT ![Main] = [Idle EXCEPT !.at = "renewing", !.proc = p]]
      /\ UNCHANGED <<cur, approvals, stored, thread, events, forgotten, misled>>
  BY <1>1 DEF NewThread, bridge, ghosts
<1>3. CallsMove
  BY <1>2, IdleWaitPut
<1>4. ThreadsMove /\ ClosesOne /\ StoreMoves /\ events' \in Seq(Events)
  BY <1>2, SameStore, SameEvents DEF ThreadsMove, ClosesOne
<1> QED
  BY <1>2, <1>3, <1>4, Elsewhere

LEMMA CloseOverInv ==
  ASSUME Inv, NEW x \in Callers, CloseOver(x)
  PROVE  Inv'
<1>1. /\ call' = [call EXCEPT ![x] = Idle]
      /\ UNCHANGED <<proc, cur, approvals, thread, events, forgotten, misled>>
      /\ stored' = stored \/ stored' = [stored EXCEPT ![User] = None]
  BY DEF CloseOver, adapter, bridge, ghosts
<1>2. CallsMove
  BY <1>1, IdlePut
<1>3. StoreMoves
  BY <1>1 DEF StoreMoves, Inv, Shapes
<1>4. ThreadsMove /\ ClosesOne /\ events' \in Seq(Events)
  BY <1>1, SameEvents DEF ThreadsMove, ClosesOne
<1> QED
  BY <1>1, <1>2, <1>3, <1>4, Elsewhere

-----------------------------------------------------------------------------
\* A dispatch that fails.

LEMMA OpeningFailsInv ==
  ASSUME Inv, NEW x \in Callers, OpeningFails(x)
  PROVE  Inv'
<1>1. PICK p : p = cur[call[x].scope]
  OBVIOUS
<1>2. /\ proc' = Closed(proc, p)
      /\ call' = [call EXCEPT ![x].at = "failing", ![x].proc = p]
      /\ UNCHANGED <<cur, approvals, stored, thread, events, forgotten, misled>>
  BY <1>1 DEF OpeningFails, bridge, ghosts
<1>3. CallsMove
  BY <1>2, WaitPut
<1>4. ThreadsMove /\ ClosesOne /\ StoreMoves /\ events' \in Seq(Events)
  BY <1>2, SameStore, SameEvents DEF ThreadsMove, ClosesOne
<1> QED
  BY <1>2, <1>3, <1>4, Elsewhere

LEMMA FailedInv ==
  ASSUME Inv, NEW x \in Callers, Failed(x)
  PROVE  Inv'
<1>1. /\ proc' = proc \/ \E p : proc' = Closed(proc, p)
      /\ call' = call \/ call' = [call EXCEPT ![x] = Idle]
      /\ UNCHANGED <<cur, approvals, stored, thread, events, forgotten, misled>>
  BY DEF Failed, Refused, ghosts
<1>2. CallsMove
  BY <1>1, IdlePut DEF CallsMove
<1>3. ThreadsMove /\ ClosesOne /\ StoreMoves /\ events' \in Seq(Events)
  BY <1>1, SameStore, SameEvents DEF ThreadsMove, ClosesOne
<1> QED
  BY <1>1, <1>2, <1>3, Elsewhere

-----------------------------------------------------------------------------
\* The end of a turn on the event chain.

LEMMA HandleEndInv ==
  ASSUME Inv, HandleEnd
  PROVE  Inv'
<1>1. PICK ks, p :
        /\ ks \subseteq Scopes
        /\ call' = IF ks = {} THEN call
                   ELSE [call EXCEPT ![Chain] = [Idle EXCEPT !.at = "ended",
                           !.scope = CHOOSE k \in ks : TRUE, !.proc = p]]
  <2>1. PICK ks, p : ks = ScopesWith(Head(events).thread) /\ p = Head(events).proc
    OBVIOUS
  <2>2. ks \subseteq Scopes
    BY <2>1 DEF ScopesWith
  <2> QED
    BY <2>1, <2>2 DEF HandleEnd
<1>2. /\ UNCHANGED <<proc, cur, approvals, thread, forgotten, misled>>
      /\ events # <<>> /\ events' = Tail(events)
  BY DEF HandleEnd, adapter, ghosts
<1>3. CallsMove
  <2>1. CASE ks = {}
    BY <1>1, <2>1 DEF CallsMove
  <2>2. CASE ks # {}
    <3>1. PICK k \in Scopes : k = CHOOSE j \in ks : TRUE
      BY <1>1, <2>2
    <3>2. PICK o : o = [Idle EXCEPT !.at = "ended", !.scope = k, !.proc = p]
      OBVIOUS
    <3>3. IsCall(o) /\ o.at = "ended"
      BY <3>2, EndedCall
    <3>4. call' = [call EXCEPT ![Chain] = o]
      BY <1>1, <2>2, <3>1, <3>2
    <3>5. Puts(Chain, o)
      BY <3>3, <3>4 DEF Puts
    <3> QED
      BY <3>5 DEF CallsMove
  <2> QED
    BY <2>1, <2>2
<1>4. StoreMoves
  BY DEF HandleEnd, StoreMoves, Inv, Shapes
<1>5. ThreadsMove /\ ClosesOne /\ events' \in Seq(Events)
  BY <1>2, TakenEvents DEF ThreadsMove, ClosesOne
<1> QED
  BY <1>2, <1>3, <1>4, <1>5, Elsewhere

LEMMA AfterEndInv ==
  ASSUME Inv, AfterEnd
  PROVE  Inv'
<1>1. UNCHANGED <<cur, approvals, stored, events, forgotten, misled>>
  BY DEF AfterEnd, ghosts
<1>2. StoreMoves /\ events' \in Seq(Events)
  BY <1>1, SameStore, SameEvents
<1>3. PICK k \in Scopes : k = call[Chain].scope
  BY DEF Inv, Shapes, IsCall
<1>4. \/ Flushed(Chain, k, TRUE) /\ proc' = proc
      \/ /\ thread' = thread
         /\ \E p : /\ proc' = Closed(proc, p)
                   /\ call' = [call EXCEPT ![Chain].at = "idling", ![Chain].proc = p]
      \/ /\ call' = [call EXCEPT ![Chain] = Idle] /\ proc' = proc
         /\ thread' = thread \/ \E t : thread' = Ended(thread, t)
  BY <1>3 DEF AfterEnd, Look
<1>5. CASE Flushed(Chain, k, TRUE) /\ proc' = proc
  <2>1. CallsMove /\ ThreadsMove
    BY <1>5, FlushedMoves
  <2>2. ClosesOne
    BY <1>1, <1>5 DEF ClosesOne
  <2> QED
    BY <1>1, <1>2, <2>1, <2>2, Elsewhere
<1>6. CASE /\ thread' = thread
           /\ \E p : /\ proc' = Closed(proc, p)
                     /\ call' = [call EXCEPT ![Chain].at = "idling", ![Chain].proc = p]
  <2>1. PICK p : /\ proc' = Closed(proc, p)
                 /\ call' = [call EXCEPT ![Chain].at = "idling", ![Chain].proc = p]
    BY <1>6
  <2>2. CallsMove
    BY <2>1, WaitPut
  <2>3. ClosesOne /\ ThreadsMove
    BY <1>1, <1>6, <2>1 DEF ClosesOne, ThreadsMove
  <2> QED
    BY <1>1, <1>2, <2>2, <2>3, Elsewhere
<1>7. CASE /\ call' = [call EXCEPT ![Chain] = Idle] /\ proc' = proc
           /\ thread' = thread \/ \E t : thread' = Ended(thread, t)
  <2>1. CallsMove
    BY <1>7, IdlePut
  <2>2. ClosesOne /\ ThreadsMove
    BY <1>1, <1>7 DEF ClosesOne, ThreadsMove
  <2> QED
    BY <1>1, <1>2, <2>1, <2>2, Elsewhere
<1> QED
  BY <1>4, <1>5, <1>6, <1>7

-----------------------------------------------------------------------------
\* A message goes to a process of the scope, the scope's own or a new one.
Receives(p, c, k) ==
  /\ IsProc(c) /\ c.scope = k /\ c.at \in {"up", "closing"}
  /\ c.session # None => OpenedFor(proc, c.session, k)
  /\ cur[k] \in {None, p}
  /\ proc[p].at # "none" => proc[p].scope = k
  /\ p \in Asks(proc) => c.asked # "no"
  /\ c.at = "up" /\ c.asked = "open" => p \in approvals \/ forgotten

LEMMA OwnReceives ==
  ASSUME Inv, NEW k \in Scopes, cur[k] # None
  PROVE  cur[k] \in Procs /\ Receives(cur[k], proc[cur[k]], k)
<1>1. PICK p \in Procs : p = cur[k] /\ proc[p].scope = k /\ proc[p].at \in {"up", "closing"}
  BY DEF Inv, Clients
<1>2. IsProc(proc[p])
  BY DEF Inv, Shapes
<1>3. proc[p].session # None => OpenedFor(proc, proc[p].session, k)
  BY <1>1 DEF Inv, Sessions
<1>4. p \in Asks(proc) => proc[p].asked # "no"
  BY <1>1 DEF Asks
<1>5. proc[p].at = "up" /\ proc[p].asked = "open" => p \in approvals \/ forgotten
  BY DEF Inv, Registered
<1>6. Receives(p, proc[p], k)
  BY <1>1, <1>2, <1>3, <1>4, <1>5 DEF Receives
<1> QED
  BY <1>1, <1>6

LEMMA FreshReceives ==
  ASSUME Inv, NEW k \in Scopes, cur[k] = None, NEW p \in Fresh
  PROVE  p \in Procs /\ Receives(p, Connected(p, k), k)
<1>1. p \in Procs /\ proc[p].at = "none"
  BY DEF Fresh
<1>2. PICK c : c = Connected(p, k)
  OBVIOUS
<1>3. /\ IsProc(c) /\ c.scope = k /\ c.at = "up" /\ c.session = stored[k]
      /\ c.asked = "no"
  <2>1. stored[k] \in 0..NProc
    BY DEF Inv, Shapes
  <2> QED
    BY <1>2, <2>1, ConnectedProc
<1>4. c.session # None => OpenedFor(proc, c.session, k)
  BY <1>3 DEF Inv, Store
<1>5. p \notin Asks(proc)
  BY <1>1 DEF Asks
<1>6. Receives(p, c, k)
  BY <1>1, <1>3, <1>4, <1>5 DEF Receives
<1> QED
  BY <1>1, <1>2, <1>6

LEMMA ReceivedProcs ==
  ASSUME Inv, NEW k \in Scopes, NEW p \in Procs, NEW c, Receives(p, c, k), NEW d,
         proc' = [proc EXCEPT ![p] = d], cur' = [cur EXCEPT ![k] = p],
         IsProc(d), d.scope = c.scope, d.at = c.at, d.session = c.session,
         d.asked = c.asked, approvals' = approvals, forgotten' = forgotten
  PROVE  /\ proc' = [q \in Procs |-> proc'[q]]
         /\ \A q \in Procs : IsProc(proc'[q])
         /\ cur' \in [Scopes -> 0..NProc]
         /\ Clients' /\ Sessions' /\ Kin /\ Registered'
         /\ Asks(proc) \subseteq Asks(proc')
         /\ OpenedFor(proc', p, k)
<1>1. /\ proc' = [q \in Procs |-> proc'[q]]
      /\ \A q \in Procs : IsProc(proc'[q])
      /\ proc'[p] = d
      /\ \A q \in Procs \ {p} : proc'[q] = proc[q]
  BY OneProc DEF Inv
<1>2. /\ cur' \in [Scopes -> 0..NProc] /\ cur'[k] = p
      /\ \A j \in Scopes \ {k} : cur'[j] = cur[j]
  BY DEF Inv, Shapes
<1>3. d.scope = k /\ d.at \in {"up", "closing"}
  BY DEF Receives
<1>4. Kin
  BY <1>1, <1>3 DEF Kin, Receives
<1>5. Clients'
  <2>1. ASSUME NEW j \in Scopes, cur'[j] # None
        PROVE  cur'[j] \in Procs /\ proc'[cur'[j]].scope = j
               /\ proc'[cur'[j]].at \in {"up", "closing"}
    <3>1. CASE j = k
      BY <1>1, <1>2, <1>3, <3>1
    <3>2. CASE j # k
      <4>1. PICK q \in Procs : /\ q = cur[j] /\ proc[q].scope = j
                               /\ proc[q].at \in {"up", "closing"}
        BY <1>2, <2>1, <3>2 DEF Inv, Clients
      <4>2. q # p
        BY <3>2, <4>1 DEF Receives
      <4>3. proc'[q] = proc[q]
        BY <1>1, <4>2
      <4>4. cur'[j] = q
        BY <1>2, <3>2, <4>1
      <4> QED
        BY <4>1, <4>3, <4>4
    <3> QED
      BY <3>1, <3>2
  <2>2. ASSUME NEW q \in Procs, Busy(proc'[q])
        PROVE  cur'[proc'[q].scope] = q
    <3>1. CASE q = p
      BY <1>1, <1>2, <1>3, <3>1
    <3>2. CASE q # p
      <4>1. proc'[q] = proc[q]
        BY <1>1, <3>2
      <4>2. PICK j : j = proc[q].scope /\ j \in Scopes
        BY DEF Inv, Shapes, IsProc
      <4>3. cur[j] = q
        BY <2>2, <4>1, <4>2 DEF Inv, Clients
      <4>4. j # k
        BY <3>2, <4>3 DEF Receives
      <4> QED
        BY <1>2, <4>1, <4>2, <4>3, <4>4
    <3> QED
      BY <3>1, <3>2
  <2> QED
    BY <2>1, <2>2 DEF Clients
<1>6. Sessions'
  <2> SUFFICES ASSUME NEW q \in Procs, proc'[q].session # None
               PROVE  OpenedFor(proc', proc'[q].session, proc'[q].scope)
    BY DEF Sessions
  <2>1. PICK s, j : s = proc'[q].session /\ j = proc'[q].scope
    OBVIOUS
  <2>2. CASE q = p
    <3>1. OpenedFor(proc, s, j)
      BY <1>1, <1>3, <2>1, <2>2 DEF Receives
    <3>2. OpenedFor(proc', s, j)
      BY <1>4, <3>1, StillOpened
    <3> QED
      BY <2>1, <3>2
  <2>3. CASE q # p
    <3>0. proc'[q] = proc[q]
      BY <1>1, <2>3
    <3>1. OpenedFor(proc, s, j)
      BY <2>1, <3>0 DEF Inv, Sessions
    <3>2. OpenedFor(proc', s, j)
      BY <1>4, <3>1, StillOpened
    <3> QED
      BY <2>1, <3>2
  <2> QED
    BY <2>2, <2>3
<1>7. Registered'
  BY <1>1 DEF Inv, Registered, Receives
<1>8. Asks(proc) \subseteq Asks(proc')
  BY <1>1, <1>3 DEF Asks, Receives
<1>9. OpenedFor(proc', p, k)
  BY <1>1, <1>3 DEF OpenedFor
<1> QED
  BY <1>1, <1>2, <1>4, <1>5, <1>6, <1>7, <1>8, <1>9

\* A dispatch waits for the session of the process that has its message.
LEMMA OpeningPut ==
  ASSUME Inv, NEW x \in Callers, NEW p,
         call' = [call EXCEPT ![x].at = "opening", ![x].proc = p]
  PROVE  /\ call' = [y \in Callers |-> call'[y]]
         /\ \A y \in Callers : IsCall(call'[y])
         /\ call'[x].proc = p /\ call'[x].scope = call[x].scope
         /\ \A y \in Callers \ {x} : call'[y] = call[y]
<1>1. PICK c, w : c = call[x] /\ IsCall(c) /\ w = "opening"
  BY DEF Inv, Shapes
<1>2. PICK b : b = [c EXCEPT !.at = w]
  OBVIOUS
<1>3. PICK o : o = [b EXCEPT !.proc = p]
  OBVIOUS
<1>4. IsCall(b) /\ b.scope = c.scope
  BY <1>1, <1>2, SetCall
<1>5. IsCall(o) /\ o.proc = p /\ o.scope = c.scope
  BY <1>3, <1>4, SetCall
<1>6. call' = [call EXCEPT ![x] = o]
  BY <1>1, <1>2, <1>3 DEF Inv, Shapes
<1>7. call' = [y \in Callers |-> call'[y]] /\ call'[x] = o
      /\ \A y \in Callers \ {x} : call'[y] = call[y]
  BY <1>6 DEF Inv, Shapes
<1> QED
  BY <1>1, <1>5, <1>7 DEF Inv, Shapes

LEMMA DeliverInv ==
  ASSUME Inv, NEW x \in Callers, NEW k \in Scopes, k = call[x].scope, NEW p \in Procs,
         NEW c, Receives(p, c, k), Deliver(x, p, c),
         UNCHANGED <<approvals, events, forgotten, misled>>
  PROVE  Inv'
<1>1. PICK t : t = stored[k] /\ t \in 0..NProc
  BY DEF Inv, Shapes
<1>2. PICK d : d = Sent(c, t)
  OBVIOUS
<1>3. /\ IsProc(d) /\ d.scope = c.scope /\ d.at = c.at
      /\ d.session = c.session /\ d.asked = c.asked
  BY <1>1, <1>2, SentProc DEF Receives
<1>4. /\ proc' = [proc EXCEPT ![p] = d] /\ cur' = [cur EXCEPT ![k] = p]
      /\ \E u : thread' = Started(thread, u)
      /\ \/ stored' = [stored EXCEPT ![k] = t] /\ call' = [call EXCEPT ![x] = Idle]
         \/ /\ stored' = [stored EXCEPT ![k] = None]
            /\ call' = [call EXCEPT ![x].at = "failing", ![x].proc = p]
         \/ stored' = stored /\ call' = [call EXCEPT ![x].at = "opening", ![x].proc = p]
  BY <1>1, <1>2 DEF Deliver, Accepted
<1>5. /\ proc' = [q \in Procs |-> proc'[q]]
      /\ \A q \in Procs : IsProc(proc'[q])
      /\ cur' \in [Scopes -> 0..NProc]
      /\ Clients' /\ Sessions' /\ Kin /\ Registered'
      /\ Asks(proc) \subseteq Asks(proc')
      /\ OpenedFor(proc', p, k)
  BY <1>3, <1>4, ReceivedProcs
<1>6. StoreMoves
  BY <1>1, <1>4 DEF StoreMoves, Inv, Shapes
<1>7. \A j \in Scopes : stored'[j] # None => OpenedFor(proc', stored'[j], j)
  BY <1>5, <1>6, MovedStore
<1>8. /\ call' = [y \in Callers |-> call'[y]]
      /\ \A y \in Callers : IsCall(call'[y])
      /\ Store' /\ Opening'
  <2>1. CASE call' = [call EXCEPT ![x].at = "opening", ![x].proc = p]
    <3>1. /\ call' = [y \in Callers |-> call'[y]]
          /\ \A y \in Callers : IsCall(call'[y])
          /\ call'[x].proc = p /\ call'[x].scope = call[x].scope
          /\ \A y \in Callers \ {x} : call'[y] = call[y]
      BY <2>1, OpeningPut
    <3>2. Store'
      BY <1>7 DEF Store
    <3>3. ASSUME NEW y \in Callers, call'[y].at = "opening"
          PROVE  OpenedFor(proc', call'[y].proc, call'[y].scope)
      <4>1. CASE y = x
        BY <1>5, <3>1, <4>1
      <4>2. CASE y # x
        <5>1. PICK o : o = call[y] /\ call'[y] = o /\ o.at = "opening"
          BY <3>1, <3>3, <4>2
        <5>2. PICK u, j : u = o.proc /\ j = o.scope
          OBVIOUS
        <5>3. OpenedFor(proc, u, j)
          BY <5>1, <5>2 DEF Inv, Opening
        <5>4. OpenedFor(proc', u, j)
          BY <1>5, <5>3, StillOpened
        <5> QED
          BY <5>1, <5>2, <5>4
      <4> QED
        BY <4>1, <4>2
    <3>4. Opening'
      BY <3>3 DEF Opening
    <3> QED
      BY <3>1, <3>2, <3>4
  <2>2. CASE call' # [call EXCEPT ![x].at = "opening", ![x].proc = p]
    <3>1. CallsMove
      BY <1>4, <2>2, IdlePut, WaitPut
    <3>2. /\ call' = [y \in Callers |-> call'[y]]
          /\ \A y \in Callers : IsCall(call'[y])
          /\ \A y \in Callers : call'[y].at # "opening" \/ call'[y] = call[y]
      BY <3>1, MovedCalls
    <3>3. Store' /\ Opening'
      BY <1>5, <1>6, <1>7, <3>2, RestKept DEF StoreMoves
    <3> QED
      BY <3>2, <3>3
  <2> QED
    BY <2>1, <2>2
<1>9. AreThreads(thread, Asks(proc))'
  <2>1. ThreadsMove
    BY <1>4 DEF ThreadsMove
  <2> QED
    BY <1>5, <2>1, MovedThreads
<1>10. Shapes'
  <2>1. events' \in Seq(Events)
    BY SameEvents
  <2> QED
    BY <1>5, <1>6, <1>8, <2>1 DEF Shapes, StoreMoves
<1>11. misled' => forgotten'
  BY DEF Inv
<1> QED
  BY <1>5, <1>8, <1>9, <1>10, <1>11 DEF Inv

LEMMA AttachInv ==
  ASSUME Inv, NEW x \in Callers, Attach(x)
  PROVE  Inv'
<1>1. PICK k \in Scopes : k = call[x].scope
  BY DEF Inv, Shapes, IsCall
<1>2. UNCHANGED <<approvals, events, forgotten, misled>>
  BY DEF Attach, ghosts
<1>3. \/ cur[k] # None /\ Deliver(x, cur[k], proc[cur[k]])
      \/ /\ proc' = Closed(proc, cur[k])
         /\ call' = [call EXCEPT ![x].at = "closing", ![x].proc = cur[k]]
         /\ UNCHANGED <<cur, thread, stored>>
      \/ cur[k] = None /\ \E q \in Fresh : Deliver(x, q, Connected(q, k))
  BY <1>1 DEF Attach
<1>4. CASE cur[k] # None /\ Deliver(x, cur[k], proc[cur[k]])
  <2>1. PICK p : p = cur[k]
    OBVIOUS
  <2>2. PICK c : c = proc[p]
    OBVIOUS
  <2>3. p \in Procs /\ Receives(p, c, k)
    BY <1>4, <2>1, <2>2, OwnReceives
  <2>4. Deliver(x, p, c)
    BY <1>4, <2>1, <2>2
  <2> QED
    BY <1>1, <1>2, <2>3, <2>4, DeliverInv
<1>5. CASE /\ proc' = Closed(proc, cur[k])
           /\ call' = [call EXCEPT ![x].at = "closing", ![x].proc = cur[k]]
           /\ UNCHANGED <<cur, thread, stored>>
  <2>1. CallsMove
    BY <1>5, WaitPut
  <2>2. ThreadsMove /\ ClosesOne /\ StoreMoves /\ events' \in Seq(Events)
    BY <1>2, <1>5, SameStore, SameEvents DEF ThreadsMove, ClosesOne
  <2> QED
    BY <1>2, <2>1, <2>2, Elsewhere
<1>6. CASE cur[k] = None /\ \E q \in Fresh : Deliver(x, q, Connected(q, k))
  <2>1. PICK p \in Fresh : Deliver(x, p, Connected(p, k))
    BY <1>6
  <2>2. PICK c : c = Connected(p, k)
    OBVIOUS
  <2>3. p \in Procs /\ Receives(p, c, k)
    BY <1>6, <2>2, FreshReceives
  <2>4. Deliver(x, p, c)
    BY <2>1, <2>2
  <2> QED
    BY <1>1, <1>2, <2>3, <2>4, DeliverInv
<1> QED
  BY <1>3, <1>4, <1>5, <1>6

\* The session that a dispatch waited for becomes the thread of its scope.
LEMMA OpenedInv ==
  ASSUME Inv, NEW x \in Callers, Opened(x)
  PROVE  Inv'
<1>0. PICK p : p = call[x].proc
  OBVIOUS
<1>1. PICK k \in Scopes : k = call[x].scope
  BY DEF Inv, Shapes, IsCall
<1>2. /\ UNCHANGED <<proc, cur, approvals, thread, events, forgotten, misled>>
      /\ call[x].at = "opening" /\ proc[p].session # None
      /\ stored' = [stored EXCEPT ![k] = proc[p].session]
      /\ call' = [call EXCEPT ![x] = Idle]
  BY <1>0, <1>1 DEF Opened, Accepted, adapter, ghosts
<1>3. OpenedFor(proc, p, k)
  BY <1>0, <1>1, <1>2 DEF Inv, Opening
<1>4. PICK s : s = proc[p].session /\ s \in 0..NProc
  BY <1>3 DEF OpenedFor, Inv, Shapes, IsProc
<1>5. OpenedFor(proc', s, k)
  BY <1>2, <1>3, <1>4 DEF OpenedFor, Inv, Sessions
<1>6. Kin /\ proc' = proc
  BY <1>2 DEF Kin
<1>7. stored' \in [Scopes -> 0..NProc]
  BY <1>2, <1>4 DEF Inv, Shapes
<1>8. ASSUME NEW j \in Scopes, stored'[j] # None
      PROVE  OpenedFor(proc', stored'[j], j)
  <2>1. CASE j = k
    BY <1>2, <1>4, <1>5, <2>1 DEF Inv, Shapes
  <2>2. CASE j # k
    <3>1. stored'[j] = stored[j]
      BY <1>2, <2>2 DEF Inv, Shapes
    <3> QED
      BY <1>6, <1>8, <3>1 DEF Inv, Store
  <2> QED
    BY <2>1, <2>2
<1>9. CallsMove
  BY <1>2, IdlePut
<1>10. /\ call' = [y \in Callers |-> call'[y]]
       /\ \A y \in Callers : IsCall(call'[y])
       /\ \A y \in Callers : call'[y].at # "opening" \/ call'[y] = call[y]
  BY <1>9, MovedCalls
<1>11. Store' /\ Opening'
  BY <1>6, <1>7, <1>8, <1>10, RestKept
<1>12. Shapes'
  BY <1>2, <1>7, <1>10 DEF Inv, Shapes
<1>13. Clients' /\ Sessions' /\ Registered' /\ AreThreads(thread, Asks(proc))'
  BY <1>2 DEF Inv, Clients, Sessions, Registered, OpenedFor, Asks
<1> QED
  BY <1>2, <1>11, <1>12, <1>13 DEF Inv

-----------------------------------------------------------------------------
\* Answers.

\* An answer to r that reaches p: p is the client of r's scope when r is
\* registered, and then r itself if it still waits.
LEMMA AnsweredMoves ==
  ASSUME Inv, NEW r \in Procs, NEW p \in Target(r), Answered(r, p),
         cur' = cur, forgotten' = forgotten
  PROVE  MildStep /\ Registered' /\ (misled' => forgotten')
<1>1. ASSUME proc[r].at = "up", proc[r].asked = "open", p # r
      PROVE  forgotten
  <2>1. PICK k \in Scopes : k = proc[r].scope /\ cur[k] = r
    BY <1>1 DEF Inv, Shapes, IsProc, Clients, Busy
  <2>2. CASE r \in approvals
    BY <1>1, <2>1, <2>2 DEF Target
  <2>3. CASE r \notin approvals
    BY <1>1, <2>3 DEF Inv, Registered
  <2> QED
    BY <2>2, <2>3
<1>2. misled' => forgotten'
  BY <1>1 DEF Answered, Inv
<1>3. CASE p = r /\ proc[p].at = "up"
  <2>1. PICK c, w : c = proc[r] /\ w = "answered" /\ IsProc(c)
    BY DEF Inv, Shapes
  <2>0. IsRecord(c)
    BY <2>1 DEF IsProc
  <2>2. PICK d : d = [c EXCEPT !.asked = w]
    OBVIOUS
  <2>3. /\ IsRecord(d) /\ d.asked = w /\ d.scope = c.scope /\ d.turn = c.turn
        /\ d.session = c.session /\ d.active = c.active /\ d.at = c.at
    BY <2>0, <2>2, SetAsked
  <2>4. proc' = [proc EXCEPT ![r] = d]
    BY <1>3, <2>1, <2>2 DEF Answered
  <2>5. Mild(r, proc[r], d)
    BY <2>1, <2>3 DEF Mild, IsProc
  <2>6. proc'[r] = d /\ \A q \in Procs \ {r} : proc'[q] = proc[q]
    BY <2>4, <2>5, OneProc DEF Inv, Mild
  <2>7. MildStep
    BY <2>4, <2>5 DEF MildStep
  <2>8. approvals' = approvals \ {r}
    BY DEF Answered
  <2>9. Registered'
    BY <2>1, <2>3, <2>6, <2>8 DEF Inv, Registered
  <2> QED
    BY <1>2, <2>7, <2>9
<1>4. CASE ~(p = r /\ proc[p].at = "up")
  <2>1. proc' = proc /\ approvals' = approvals \ {r}
    BY <1>4 DEF Answered
  <2>2. MildStep
    BY <2>1 DEF MildStep
  <2>3. Registered'
    BY <1>1, <1>4, <2>1 DEF Inv, Registered
  <2> QED
    BY <1>2, <2>2, <2>3
<1> QED
  BY <1>3, <1>4

LEMMA ApproveInv ==
  ASSUME Inv, Approve
  PROVE  Inv'
<1>1. PICK t, r : t = stored[User] /\ r = thread[t].pending
  OBVIOUS
<1>2. /\ t # None /\ r # None
      /\ thread' = Resolved(thread, t, r)
      /\ \E p \in Target(r) : Answered(r, p)
      /\ UNCHANGED <<cur, stored, events, call, forgotten>>
  BY <1>1 DEF Approve
<1>3. r \in Procs
  <2>1. t \in Threads
    BY <1>1, <1>2 DEF Inv, Shapes
  <2>2. r \in Asks(proc) \union {None}
    BY <1>1, <2>1 DEF Inv, AreThreads, IsThread
  <2> QED
    BY <1>2, <2>2 DEF Asks
<1>4. MildStep /\ Registered' /\ (misled' => forgotten')
  <2>1. PICK p \in Target(r) : Answered(r, p)
    BY <1>2
  <2> QED
    BY <1>2, <1>3, <2>1, AnsweredMoves
<1>5. ThreadsMove /\ CallsMove /\ StoreMoves /\ events' \in Seq(Events)
  BY <1>2, SameStore, SameEvents DEF ThreadsMove, CallsMove
<1> QED
  BY <1>4, <1>5, MildInv

LEMMA HandleAskInv ==
  ASSUME Inv, HandleAsk
  PROVE  Inv'
<1>1. PICK e : e = Head(events)
  OBVIOUS
<1>2. /\ events # <<>> /\ events' = Tail(events)
      /\ \/ UNCHANGED <<approvals, proc, misled, thread>>
         \/ /\ thread' = Resolved(thread, e.thread, e.proc)
            /\ \/ UNCHANGED <<approvals, proc, misled>>
               \/ \E p \in Target(e.proc) : Answered(e.proc, p)
      /\ UNCHANGED <<cur, stored, call, forgotten>>
  BY <1>1 DEF HandleAsk
<1>3. events' \in Seq(Events) /\ e.proc \in Procs
  BY <1>1, <1>2, TakenEvents DEF Events
<1>4. ThreadsMove /\ CallsMove /\ StoreMoves
  BY <1>2, SameStore DEF ThreadsMove, CallsMove
<1>5. MildStep /\ Registered' /\ (misled' => forgotten')
  <2>1. CASE UNCHANGED <<approvals, proc, misled>>
    BY <1>2, <2>1 DEF MildStep, Inv, Registered
  <2>2. CASE \E p \in Target(e.proc) : Answered(e.proc, p)
    <3>0. PICK r \in Procs : r = e.proc
      BY <1>3
    <3>1. PICK p \in Target(r) : Answered(r, p)
      BY <2>2, <3>0
    <3> QED
      BY <1>2, <3>1, AnsweredMoves
  <2> QED
    BY <1>2, <2>1, <2>2
<1> QED
  BY <1>3, <1>4, <1>5, MildInv

-----------------------------------------------------------------------------
\* What a process prints.

LEMMA EventOf ==
  ASSUME Inv, NEW p \in Procs, NEW type \in {"ask", "completed", "failed"}
  PROVE  Event(type, EventThread(proc[p]), p) \in Events
<1>1. PICK t : t = EventThread(proc[p])
  OBVIOUS
<1>2. t \in 0..Pending
  BY <1>1 DEF EventThread, Inv, Shapes, IsProc
<1> QED
  BY <1>1, <1>2 DEF Event, Events

LEMMA GreetInv ==
  ASSUME Inv, NEW p \in Procs, Greet(p)
  PROVE  Inv'
<1>1. PICK c, v : c = proc[p] /\ v = TRUE /\ IsProc(c)
  BY DEF Inv, Shapes
<1>2. PICK s : s = IF c.session = None THEN p ELSE c.session
  OBVIOUS
<1>3. PICK u : u = IF c.active = Pending THEN s ELSE c.active
  OBVIOUS
<1>4. PICK a : a = [c EXCEPT !.greeted = v]
  OBVIOUS
<1>5. PICK b : b = [a EXCEPT !.session = s]
  OBVIOUS
<1>6. PICK d : d = [b EXCEPT !.active = u]
  OBVIOUS
<1>7. /\ IsRecord(a) /\ a.scope = c.scope /\ a.at = c.at /\ a.turn = c.turn
      /\ a.active = c.active /\ a.asked = c.asked
  BY <1>1, <1>4, SetGreeted DEF IsProc
<1>8. /\ IsRecord(b) /\ b.scope = c.scope /\ b.at = c.at /\ b.turn = c.turn
      /\ b.session = s /\ b.active = c.active /\ b.asked = c.asked
  BY <1>5, <1>7, SetSession
<1>9. /\ IsRecord(d) /\ d.scope = c.scope /\ d.at = c.at /\ d.turn = c.turn
      /\ d.session = s /\ d.active = u /\ d.asked = c.asked
  BY <1>6, <1>8, SetActive
<1>10. s \in 0..NProc /\ u \in 0..Pending
  BY <1>1, <1>2, <1>3 DEF IsProc
<1>11. IsProc(d)
  BY <1>1, <1>9, <1>10 DEF IsProc
<1>12. proc' = [proc EXCEPT ![p] = d]
  BY <1>1, <1>2, <1>3, <1>4, <1>5, <1>6 DEF Greet, Inv, Shapes
<1>13. /\ Working(p)
       /\ thread' = thread \/ \E t : thread' = Started(thread, t)
       /\ UNCHANGED <<cur, approvals, stored, events, call, forgotten, misled>>
  BY DEF Greet, GreetedStore, ghosts
<1>14. c.at # "none"
  BY <1>1, <1>13 DEF Working, Alive
<1>15. Mild(p, proc[p], d)
  BY <1>1, <1>2, <1>9, <1>11, <1>14 DEF Mild
<1>16. MildStep
  BY <1>12, <1>13, <1>15 DEF MildStep
<1>17. proc'[p] = d /\ \A q \in Procs \ {p} : proc'[q] = proc[q]
  BY <1>11, <1>12, OneProc DEF Inv
<1>18. Registered'
  BY <1>1, <1>9, <1>13, <1>17 DEF Inv, Registered
<1>19. ThreadsMove /\ CallsMove /\ StoreMoves /\ events' \in Seq(Events)
  BY <1>13, SameStore, SameEvents DEF ThreadsMove, CallsMove
<1>20. misled' => forgotten'
  BY <1>13 DEF Inv
<1> QED
  BY <1>16, <1>18, <1>19, <1>20, MildInv

LEMMA AskInv ==
  ASSUME Inv, NEW p \in Procs, Ask(p)
  PROVE  Inv'
<1>1. PICK c, w : c = proc[p] /\ w = "open" /\ IsProc(c)
  BY DEF Inv, Shapes
<1>2. PICK d : d = [c EXCEPT !.asked = w]
  OBVIOUS
<1>3. /\ IsRecord(d) /\ d.asked = w /\ d.scope = c.scope /\ d.turn = c.turn
      /\ d.session = c.session /\ d.active = c.active /\ d.at = c.at
  BY <1>1, <1>2, SetAsked DEF IsProc
<1>4. PICK t, e : t = EventThread(proc[p]) /\ e = Event("ask", t, p)
  OBVIOUS
<1>5. /\ Working(p) /\ proc[p].asked = "no"
      /\ proc' = [proc EXCEPT ![p].asked = "open"]
      /\ approvals' = approvals \union {p}
      /\ thread' = Asked(thread, t, p)
      /\ events' = Append(events, e)
      /\ UNCHANGED <<cur, stored, call, forgotten, misled>>
  BY <1>4 DEF Ask, ghosts
<1>6. proc' = [proc EXCEPT ![p] = d]
  BY <1>1, <1>2, <1>5
<1>7. Mild(p, proc[p], d)
  BY <1>1, <1>3 DEF Mild, IsProc
<1>8. MildStep
  BY <1>5, <1>6, <1>7 DEF MildStep
<1>9. proc'[p] = d /\ \A q \in Procs \ {p} : proc'[q] = proc[q]
  BY <1>6, <1>7, OneProc DEF Inv, Mild
<1>10. Registered'
  BY <1>5, <1>9 DEF Inv, Registered
<1>11. AreThreads(thread', Asks(proc'))
  <2>1. PICK A : A = Asks(proc)
    OBVIOUS
  <2>2. c.at \in {"up", "closing"} /\ c.asked = "no"
    BY <1>1, <1>5 DEF Working, Alive
  <2>3. p \notin A /\ A \subseteq Procs
    BY <1>1, <2>1, <2>2 DEF Asks
  <2>4. AreThreads(thread', A \union {p})
    <3>1. AreThreads(thread, A)
      BY <2>1 DEF Inv
    <3> QED
      BY <1>5, <2>3, <3>1, AskedThreads
  <2>5. A \union {p} \subseteq Asks(proc')
    BY <1>1, <1>3, <1>9, <2>1, <2>2 DEF Asks
  <2> QED
    BY <2>4, <2>5, MoreAsking
<1>12. events' \in Seq(Events)
  BY <1>4, <1>5, EventOf, AddedEvents
<1>13. CallsMove /\ StoreMoves
  BY <1>5, SameStore DEF CallsMove
<1>14. misled' => forgotten'
  BY <1>5 DEF Inv
<1> QED
  BY <1>8, <1>10, <1>11, <1>12, <1>13, <1>14, MildInv

LEMMA ResultInv ==
  ASSUME Inv, NEW p \in Procs, Result(p)
  PROVE  Inv'
<1>1. PICK c, v, n : c = proc[p] /\ v = FALSE /\ n = c.todo - 1 /\ IsProc(c)
  BY DEF Inv, Shapes
<1>2. PICK a : a = [c EXCEPT !.turn = v]
  OBVIOUS
<1>3. PICK b : b = [a EXCEPT !.active = None]
  OBVIOUS
<1>4. PICK d : d = [b EXCEPT !.todo = n]
  OBVIOUS
<1>5. /\ IsRecord(a) /\ a.scope = c.scope /\ a.at = c.at /\ a.turn = v
      /\ a.session = c.session /\ a.asked = c.asked
  BY <1>1, <1>2, SetTurn DEF IsProc
<1>6. /\ IsRecord(b) /\ b.scope = c.scope /\ b.at = c.at /\ b.turn = v
      /\ b.session = c.session /\ b.asked = c.asked /\ b.active = None
  BY <1>3, <1>5, SetActive
<1>7. /\ IsRecord(d) /\ d.scope = c.scope /\ d.at = c.at /\ d.turn = v
      /\ d.session = c.session /\ d.asked = c.asked /\ d.active = None
  BY <1>4, <1>6, SetTodo
<1>8. PICK t, e : t = EventThread(proc[p]) /\ e = Event("completed", t, p)
  OBVIOUS
<1>9. /\ proc' = [proc EXCEPT ![p].turn = FALSE, ![p].active = None, ![p].todo = @ - 1]
      /\ thread' = Ended(thread, t)
      /\ events' = Append(events, e)
      /\ UNCHANGED <<cur, approvals, stored, call, forgotten, misled>>
  BY <1>8 DEF Result, ghosts
<1>10. proc' = [proc EXCEPT ![p] = d]
  BY <1>1, <1>2, <1>3, <1>4, <1>9 DEF Inv, Shapes
<1>11. Mild(p, proc[p], d)
  BY <1>1, <1>7 DEF Mild, IsProc
<1>12. MildStep
  BY <1>9, <1>10, <1>11 DEF MildStep
<1>13. proc'[p] = d /\ \A q \in Procs \ {p} : proc'[q] = proc[q]
  BY <1>10, <1>11, OneProc DEF Inv, Mild
<1>14. Registered'
  <2> SUFFICES ASSUME NEW r \in Procs, proc'[r].at = "up", proc'[r].asked = "open"
               PROVE  r \in approvals \/ forgotten
    BY <1>9 DEF Registered
  <2>1. proc[r].at = "up" /\ proc[r].asked = "open"
    <3>1. CASE r = p
      BY <1>1, <1>7, <1>13, <3>1
    <3>2. CASE r # p
      BY <1>13, <3>2
    <3> QED
      BY <3>1, <3>2
  <2> QED
    BY <2>1 DEF Inv, Registered
<1>15. events' \in Seq(Events)
  BY <1>8, <1>9, EventOf, AddedEvents
<1>16. ThreadsMove /\ CallsMove /\ StoreMoves
  BY <1>9, SameStore DEF ThreadsMove, CallsMove
<1>17. misled' => forgotten'
  BY <1>9 DEF Inv
<1> QED
  BY <1>12, <1>14, <1>15, <1>16, <1>17, MildInv

-----------------------------------------------------------------------------
\* The end of a process: its client is forgotten, and with it the requests of
\* its scope; it is closing without a turn, or gone.
EndsProc(p, d, k) ==
  /\ k \in Scopes /\ proc[p].scope = k
  /\ proc' = [proc EXCEPT ![p] = d]
  /\ IsProc(d) /\ d.scope = k /\ d.at # "none" /\ ~Busy(d)
  /\ d.session \in {None, proc[p].session}
  /\ d.at = "gone" \/ d.asked = proc[p].asked
  /\ cur' = [cur EXCEPT ![k] = IF @ = p THEN None ELSE @]
  /\ approvals' = Cleared(k)

LEMMA EndedProcs ==
  ASSUME Inv, NEW p \in Procs, Alive(p), NEW d, NEW k, EndsProc(p, d, k)
  PROVE  /\ proc' = [q \in Procs |-> proc'[q]]
         /\ \A q \in Procs : IsProc(proc'[q])
         /\ cur' \in [Scopes -> 0..NProc]
         /\ Clients' /\ Sessions' /\ Kin
         /\ Asks(proc) \subseteq Asks(proc')
         /\ proc'[p] = d
         /\ \A q \in Procs \ {p} : proc'[q] = proc[q]
<1>1. /\ proc' = [q \in Procs |-> proc'[q]]
      /\ \A q \in Procs : IsProc(proc'[q])
      /\ proc'[p] = d
      /\ \A q \in Procs \ {p} : proc'[q] = proc[q]
  BY OneProc DEF Inv, EndsProc
<1>2. /\ cur' \in [Scopes -> 0..NProc]
      /\ cur'[k] = IF cur[k] = p THEN None ELSE cur[k]
      /\ \A j \in Scopes \ {k} : cur'[j] = cur[j]
  BY DEF Inv, Shapes, EndsProc
<1>3. /\ k \in Scopes /\ proc[p].scope = k /\ d.scope = k
      /\ d.at # "none" /\ ~Busy(d)
  BY DEF EndsProc
<1>4. Kin
  BY <1>1, <1>3 DEF Kin
<1>5. Clients'
  <2>1. ASSUME NEW j \in Scopes, cur'[j] # None
        PROVE  cur'[j] \in Procs /\ proc'[cur'[j]].scope = j
               /\ proc'[cur'[j]].at \in {"up", "closing"}
    <3>1. cur'[j] = cur[j]
      BY <1>2, <2>1
    <3>2. PICK q \in Procs : q = cur[j] /\ proc[q].scope = j /\ proc[q].at \in {"up", "closing"}
      BY <2>1, <3>1 DEF Inv, Clients
    <3>3. q # p
      BY <1>2, <1>3, <2>1, <3>1, <3>2
    <3>4. proc'[q] = proc[q]
      BY <1>1, <3>3
    <3> QED
      BY <3>1, <3>2, <3>4
  <2>2. ASSUME NEW q \in Procs, Busy(proc'[q])
        PROVE  cur'[proc'[q].scope] = q
    <3>1. q # p
      BY <1>1, <1>3, <2>2
    <3>2. proc'[q] = proc[q]
      BY <1>1, <3>1
    <3>3. PICK j : j = proc[q].scope /\ j \in Scopes
      BY DEF Inv, Shapes, IsProc
    <3>4. cur[j] = q
      BY <2>2, <3>2, <3>3 DEF Inv, Clients
    <3> QED
      BY <1>2, <3>1, <3>2, <3>3, <3>4
  <2> QED
    BY <2>1, <2>2 DEF Clients
<1>6. Sessions'
  <2> SUFFICES ASSUME NEW q \in Procs, proc'[q].session # None
               PROVE  OpenedFor(proc', proc'[q].session, proc'[q].scope)
    BY DEF Sessions
  <2>1. PICK s, j : s = proc[q].session /\ j = proc[q].scope
    OBVIOUS
  <2>2. proc'[q].session = s /\ proc'[q].scope = j
    <3>1. CASE q = p
      BY <1>1, <1>3, <2>1, <3>1 DEF EndsProc
    <3>2. CASE q # p
      BY <1>1, <2>1, <3>2
    <3> QED
      BY <3>1, <3>2
  <2>3. OpenedFor(proc, s, j)
    BY <2>1, <2>2 DEF Inv, Sessions
  <2>4. OpenedFor(proc', s, j)
    BY <1>4, <2>3, StillOpened
  <2> QED
    BY <2>2, <2>4
<1>7. Asks(proc) \subseteq Asks(proc')
  BY <1>1, <1>3 DEF Asks, EndsProc, Alive
<1> QED
  BY <1>1, <1>2, <1>4, <1>5, <1>6, <1>7

LEMMA FatalInv ==
  ASSUME Inv, NEW p \in Procs, Fatal(p)
  PROVE  Inv'
<1>1. PICK c, v, w : c = proc[p] /\ v = FALSE /\ w = "closing" /\ IsProc(c)
  BY DEF Inv, Shapes
<1>2. PICK a : a = [c EXCEPT !.turn = v]
  OBVIOUS
<1>3. PICK b : b = [a EXCEPT !.active = None]
  OBVIOUS
<1>4. PICK d : d = [b EXCEPT !.at = w]
  OBVIOUS
<1>5. /\ IsRecord(a) /\ a.scope = c.scope /\ a.turn = v
      /\ a.session = c.session /\ a.asked = c.asked
  BY <1>1, <1>2, SetTurn DEF IsProc
<1>6. /\ IsRecord(b) /\ b.scope = c.scope /\ b.turn = v
      /\ b.session = c.session /\ b.asked = c.asked /\ b.active = None
  BY <1>3, <1>5, SetActive
<1>7. /\ IsRecord(d) /\ d.scope = c.scope /\ d.at = w /\ d.turn = v
      /\ d.session = c.session /\ d.asked = c.asked /\ d.active = None
  BY <1>4, <1>6, SetAt
<1>8. PICK t, e, k : /\ t = EventThread(proc[p]) /\ e = Event("failed", t, p)
                     /\ k = proc[p].scope
  OBVIOUS
<1>9. /\ Working(p) /\ proc[p].turn
      /\ proc' = [proc EXCEPT ![p].turn = FALSE, ![p].active = None, ![p].at = "closing"]
      /\ cur' = [cur EXCEPT ![k] = IF @ = p THEN None ELSE @]
      /\ approvals' = Cleared(k)
      /\ thread' = Ended(thread, t)
      /\ events' = Append(events, e)
      /\ UNCHANGED <<stored, call, forgotten, misled>>
  BY <1>8 DEF Fatal, ghosts
<1>10. proc' = [proc EXCEPT ![p] = d]
  BY <1>1, <1>2, <1>3, <1>4, <1>9 DEF Inv, Shapes
<1>11. IsProc(d) /\ k \in Scopes
  BY <1>1, <1>7, <1>8 DEF IsProc
<1>12. EndsProc(p, d, k)
  BY <1>1, <1>7, <1>8, <1>9, <1>10, <1>11 DEF EndsProc, Busy
<1>13. /\ proc' = [q \in Procs |-> proc'[q]]
       /\ \A q \in Procs : IsProc(proc'[q])
       /\ cur' \in [Scopes -> 0..NProc]
       /\ Clients' /\ Sessions' /\ Kin
       /\ Asks(proc) \subseteq Asks(proc')
       /\ proc'[p] = d
       /\ \A q \in Procs \ {p} : proc'[q] = proc[q]
  BY <1>9, <1>12, EndedProcs DEF Working
<1>14. Registered'
  <2> SUFFICES ASSUME NEW q \in Procs, proc'[q].at = "up", proc'[q].asked = "open"
               PROVE  q \in approvals' \/ forgotten'
    BY DEF Registered
  <2>1. q # p
    BY <1>1, <1>7, <1>13
  <2>2. proc'[q] = proc[q]
    BY <1>13, <2>1
  <2>3. cur[k] = p
    BY <1>8, <1>9 DEF Inv, Clients, Busy, Working, Alive
  <2>4. proc[q].scope # k
    BY <2>1, <2>2, <2>3 DEF Inv, Clients, Busy
  <2>5. q \in approvals \/ forgotten
    BY <2>2 DEF Inv, Registered
  <2> QED
    BY <1>9, <2>4, <2>5 DEF Cleared
<1>15. AreThreads(thread', Asks(proc'))
  <2>1. ThreadsMove
    BY <1>9 DEF ThreadsMove
  <2> QED
    BY <1>13, <2>1, MovedThreads
<1>16. events' \in Seq(Events)
  BY <1>8, <1>9, EventOf, AddedEvents
<1>17. CallsMove /\ StoreMoves
  BY <1>9, SameStore DEF CallsMove
<1>18. misled' => forgotten'
  BY <1>9 DEF Inv
<1> QED
  BY <1>13, <1>14, <1>15, <1>16, <1>17, <1>18, MovesInv

LEMMA GoneInv ==
  ASSUME Inv, NEW p \in Procs, Gone(p)
  PROVE  Inv'
<1>1. PICK k \in Scopes : k = proc[p].scope
  BY DEF Inv, Shapes, IsProc
<1>2. PICK o, w : o = NoProc /\ w = "gone"
  OBVIOUS
<1>3. PICK a : a = [o EXCEPT !.scope = k]
  OBVIOUS
<1>4. PICK d : d = [a EXCEPT !.at = w]
  OBVIOUS
<1>5. /\ IsRecord(o) /\ o.turn = FALSE /\ o.session = None /\ o.active = None
  BY <1>2, NoProcIsProc DEF IsProc
<1>6. /\ IsRecord(a) /\ a.scope = k /\ a.turn = o.turn /\ a.session = None
      /\ a.active = None
  BY <1>3, <1>5, SetScope
<1>7. /\ IsRecord(d) /\ d.scope = k /\ d.at = w /\ d.turn = o.turn /\ d.session = None
      /\ d.active = None
  BY <1>4, <1>6, SetAt
<1>8. IsProc(d)
  BY <1>7 DEF IsProc
<1>9. [NoProc EXCEPT !.scope = k, !.at = "gone"] = d
  BY <1>2, <1>3, <1>4
<1>10. PICK t, e : t = EventThread(proc[p]) /\ e = Event("failed", t, p)
  OBVIOUS
<1>11. /\ Alive(p)
       /\ proc' = [proc EXCEPT ![p] = d]
       /\ cur' = [cur EXCEPT ![k] = IF @ = p THEN None ELSE @]
       /\ approvals' = Cleared(k)
       /\ forgotten' = (forgotten \/ \E r \in approvals : r # p /\ proc[r].scope = k)
       /\ \/ thread' = Ended(thread, t) /\ events' = Append(events, e)
          \/ UNCHANGED <<thread, events>>
       /\ UNCHANGED <<stored, call, misled>>
  BY <1>1, <1>9, <1>10 DEF Gone
<1>12. EndsProc(p, d, k)
  BY <1>1, <1>2, <1>7, <1>8, <1>11 DEF EndsProc, Busy
<1>13. /\ proc' = [q \in Procs |-> proc'[q]]
       /\ \A q \in Procs : IsProc(proc'[q])
       /\ cur' \in [Scopes -> 0..NProc]
       /\ Clients' /\ Sessions' /\ Kin
       /\ Asks(proc) \subseteq Asks(proc')
       /\ proc'[p] = d
       /\ \A q \in Procs \ {p} : proc'[q] = proc[q]
  BY <1>11, <1>12, EndedProcs
<1>14. Registered'
  <2> SUFFICES ASSUME NEW q \in Procs, proc'[q].at = "up", proc'[q].asked = "open"
               PROVE  q \in approvals' \/ forgotten'
    BY DEF Registered
  <2>1. q # p
    BY <1>2, <1>7, <1>13
  <2>2. proc'[q] = proc[q]
    BY <1>13, <2>1
  <2>3. q \in approvals \/ forgotten
    BY <2>2 DEF Inv, Registered
  <2> QED
    BY <1>11, <2>1, <2>3 DEF Cleared
<1>15. AreThreads(thread', Asks(proc'))
  <2>1. ThreadsMove
    BY <1>11 DEF ThreadsMove
  <2> QED
    BY <1>13, <2>1, MovedThreads
<1>16. events' \in Seq(Events)
  BY <1>10, <1>11, EventOf, AddedEvents, SameEvents
<1>17. CallsMove /\ StoreMoves
  BY <1>11, SameStore DEF CallsMove
<1>18. misled' => forgotten'
  BY <1>11 DEF Inv
<1> QED
  BY <1>13, <1>14, <1>15, <1>16, <1>17, <1>18, MovesInv

-----------------------------------------------------------------------------
\* All steps.

LEMMA InitInv == Init => Inv
<1> SUFFICES ASSUME Init
             PROVE  Inv
  OBVIOUS
<1>1. Shapes
  <2>1. \A p \in Procs : IsProc(proc[p])
    BY NoProcIsProc DEF Init
  <2>2. \A x \in Callers : IsCall(call[x])
    BY IdleCall DEF Init
  <2> QED
    BY <2>1, <2>2 DEF Init, Shapes
<1>2. \A p \in Procs : /\ proc[p].at = "none" /\ proc[p].session = None
                       /\ proc[p].asked = "no"
  BY NoProcIsProc DEF Init
<1>3. Clients
  BY <1>2 DEF Init, Clients, Busy
<1>4. Sessions /\ Store /\ Registered
  BY <1>2 DEF Init, Sessions, Store, Registered
<1>5. Opening
  BY IdleCall DEF Init, Opening
<1>6. AreThreads(thread, Asks(proc))
  BY EmptyIsThread DEF Init, AreThreads
<1> QED
  BY <1>1, <1>3, <1>4, <1>5, <1>6 DEF Init, Inv

LEMMA StepInv == Inv /\ [Next]_vars => Inv'
<1> SUFFICES ASSUME Inv, [Next]_vars
             PROVE  Inv'
  OBVIOUS
<1>1. ASSUME NEW k \in Scopes, Receive(k) \/ Flush(k) PROVE Inv'
  BY <1>1, ReceiveInv, FlushInv
<1>2. CASE Stop \/ NewThread \/ Approve
  BY <1>2, StopInv, NewThreadInv, ApproveInv
<1>3. CASE ChainStep
  BY <1>3, HandleEndInv, AfterEndInv, HandleAskInv DEF ChainStep
<1>4. ASSUME NEW x \in Callers, CallStep(x) PROVE Inv'
  BY <1>4, AttachInv, OpenedInv, FailedInv, CloseOverInv, OpeningFailsInv DEF CallStep
<1>5. ASSUME NEW p \in Procs, ProcStep(p) \/ Ask(p) \/ Fatal(p) \/ Gone(p) PROVE Inv'
  BY <1>5, GreetInv, ResultInv, AskInv, FatalInv, GoneInv DEF ProcStep
<1>6. CASE UNCHANGED vars
  BY <1>6 DEF vars, adapter, bridge, ghosts, Inv, Shapes, Clients, Sessions, Store,
     Opening, Registered, OpenedFor, Asks, Busy
<1> QED
  BY <1>1, <1>2, <1>3, <1>4, <1>5, <1>6 DEF Next

\* A conversation keeps its thread and its answers, whatever is closed, resumed,
\* failed or answered late in between: attachClientToThread, respondApproval
\* and the session store (claudecode/index.js).
THEOREM ClaudeConversationKept == Spec => []ConversationKept
<1>1. Inv => ConversationKept
  BY DEF Inv, Store, OpenedFor, ConversationKept
<1> QED
  BY <1>1, InitInv, StepInv, PTL DEF Spec
=============================================================================
