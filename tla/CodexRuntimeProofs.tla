-------------------------- MODULE CodexRuntimeProofs --------------------------
(***************************************************************************)
(* A theorem about CodexRuntime, for every number of threads, turns,       *)
(* requests and faults: that what a thread offers for an answer is a       *)
(* request that its turn still waits for (PendingLive).                    *)
(***************************************************************************)
EXTENDS CodexRuntime, SequenceTheorems, TLAPS

USE CodexAssumption DEF Threads, Requests, None, User, System, Scopes, Main, Chain, Dog, Callers

-----------------------------------------------------------------------------
\* Queues: sequences that have nothing twice.
Once(q) == \A i, j \in DOMAIN q : q[i] = q[j] => i = j

LEMMA AppendQueue ==
  ASSUME NEW q \in Seq(Requests), Once(q), NEW r \in Requests, r \notin ToSet(q)
  PROVE  /\ Append(q, r) \in Seq(Requests) /\ Once(Append(q, r))
         /\ ToSet(Append(q, r)) = ToSet(q) \union {r}
<1> DEFINE s == Append(q, r)
<1>1. /\ s \in Seq(Requests) /\ Len(q) \in Nat /\ Len(s) = Len(q) + 1
      /\ DOMAIN q = 1..Len(q) /\ DOMAIN s = 1..(Len(q) + 1)
      /\ s[Len(q) + 1] = r /\ \A i \in 1..Len(q) : s[i] = q[i]
  OBVIOUS
<1>2. \A i \in 1..Len(q) : q[i] # r
  BY <1>1 DEF ToSet
<1> HIDE DEF s
<1>3. Once(s)
  BY <1>1, <1>2 DEF Once
<1>4. ToSet(s) = ToSet(q) \union {r}
  <2>1. ASSUME NEW i \in DOMAIN s PROVE s[i] \in ToSet(q) \union {r}
    <3>1. CASE i = Len(q) + 1
      BY <1>1, <3>1
    <3>2. CASE i # Len(q) + 1
      <4>1. i \in DOMAIN q /\ s[i] = q[i]
        BY <1>1, <3>2
      <4> QED
        BY <4>1 DEF ToSet
    <3> QED
      BY <3>1, <3>2
  <2>2. ASSUME NEW i \in DOMAIN q PROVE q[i] \in ToSet(s)
    <3>1. i \in DOMAIN s /\ s[i] = q[i]
      BY <1>1
    <3> QED
      BY <3>1 DEF ToSet
  <2>3. r \in ToSet(s)
    <3>1. Len(q) + 1 \in DOMAIN s
      BY <1>1
    <3> QED
      BY <1>1, <3>1 DEF ToSet
  <2> QED
    BY <2>1, <2>2, <2>3 DEF ToSet
<1> QED
  BY <1>1, <1>3, <1>4 DEF s

LEMMA HeadQueue ==
  ASSUME NEW q \in Seq(Requests), Once(q), q # <<>>
  PROVE  /\ Head(q) \in Requests /\ Tail(q) \in Seq(Requests) /\ Once(Tail(q))
         /\ Head(q) \notin ToSet(Tail(q))
         /\ ToSet(q) = ToSet(Tail(q)) \union {Head(q)}
<1>1. /\ Len(q) \in Nat /\ Len(q) > 0 /\ DOMAIN q = 1..Len(q)
      /\ Head(q) = q[1] /\ Tail(q) \in Seq(Requests)
      /\ Len(Tail(q)) = Len(q) - 1
      /\ \A i \in 1..(Len(q) - 1) : Tail(q)[i] = q[i + 1]
  OBVIOUS
<1>2. DOMAIN Tail(q) = 1..(Len(q) - 1)
  BY <1>1
<1>3. Once(Tail(q))
  BY <1>1, <1>2 DEF Once
<1>4. Head(q) \notin ToSet(Tail(q))
  <2> SUFFICES ASSUME NEW i \in DOMAIN Tail(q), Tail(q)[i] = Head(q) PROVE FALSE
    BY DEF ToSet
  <2>1. i \in 1..(Len(q) - 1)
    BY <1>2
  <2>2. q[i + 1] = q[1]
    BY <1>1, <2>1
  <2>3. i + 1 \in DOMAIN q /\ 1 \in DOMAIN q
    BY <1>1, <2>1
  <2>4. i + 1 = 1
    BY <2>2, <2>3 DEF Once
  <2> QED
    BY <2>1, <2>4
<1>5. ToSet(q) = ToSet(Tail(q)) \union {Head(q)}
  <2>1. ASSUME NEW i \in DOMAIN q PROVE q[i] \in ToSet(Tail(q)) \union {Head(q)}
    <3>1. CASE i = 1
      BY <1>1, <3>1
    <3>2. CASE i # 1
      <4>1. i - 1 \in 1..(Len(q) - 1) /\ Tail(q)[i - 1] = q[i]
        BY <1>1, <3>2
      <4> QED
        BY <1>2, <4>1 DEF ToSet
    <3> QED
      BY <3>1, <3>2
  <2>2. ASSUME NEW i \in DOMAIN Tail(q) PROVE Tail(q)[i] \in ToSet(q)
    BY <1>1, <1>2 DEF ToSet
  <2>3. Head(q) \in ToSet(q)
    BY <1>1 DEF ToSet
  <2> QED
    BY <2>1, <2>2, <2>3 DEF ToSet
<1> QED
  BY <1>1, <1>3, <1>4, <1>5

\* What is taken out of a queue is not in it any more.
LEMMA RemovedQueue ==
  ASSUME NEW q \in Seq(Requests), Once(q), NEW r
  PROVE  /\ RemoveFirst(q, r) \in Seq(Requests) /\ Once(RemoveFirst(q, r))
         /\ ToSet(RemoveFirst(q, r)) \subseteq ToSet(q) \ {r}
<1>1. CASE ~\E i \in 1..Len(q) : q[i] = r
  <2>1. RemoveFirst(q, r) = q
    BY <1>1 DEF RemoveFirst
  <2> QED
    BY <1>1, <2>1 DEF ToSet
<1>2. CASE \E i \in 1..Len(q) : q[i] = r
  <2> DEFINE I == {i \in 1..Len(q) : q[i] = r}
  <2>1. PICK n \in 1..Len(q) : q[n] = r
    BY <1>2
  <2>2. I = {n}
    BY <2>1 DEF Once
  <2>3. Min(I) = n
    BY <2>2 DEF Min
  <2>4. SelectInSeq(q, LAMBDA v : v = r) = n
    BY <2>2, <2>3 DEF SelectInSeq
  <2>5. RemoveFirst(q, r) = RemoveAt(q, n)
    BY <1>2, <2>4 DEF RemoveFirst
  <2> DEFINE s == RemoveAt(q, n)
  <2>6. s = SubSeq(q, 1, n - 1) \o SubSeq(q, n + 1, Len(q))
    BY DEF RemoveAt
  <2> DEFINE l == SubSeq(q, 1, n - 1)
             u == SubSeq(q, n + 1, Len(q))
             From(i) == IF i < n THEN i ELSE i + 1
  <2>a. /\ l \in Seq(Requests) /\ Len(l) = n - 1
        /\ \A i \in 1..(n - 1) : l[i] = q[i]
    OBVIOUS
  <2>b. /\ u \in Seq(Requests) /\ Len(u) = Len(q) - n
        /\ \A i \in 1..(Len(q) - n) : u[i] = q[i + n]
    <3>1. /\ Len(q) \in Nat /\ n \in Nat /\ n + 1 \in 1..(Len(q) + 1)
          /\ IF n + 1 <= Len(q) THEN Len(q) - (n + 1) + 1 = Len(q) - n ELSE Len(q) - n = 0
      OBVIOUS
    <3>2. /\ u \in Seq(Requests)
          /\ Len(u) = IF n + 1 <= Len(q) THEN Len(q) - (n + 1) + 1 ELSE 0
          /\ \A i \in 1..(Len(q) - (n + 1) + 1) : u[i] = q[n + 1 + i - 1]
      BY <3>1, SubSeqProperties
    <3>3. Len(u) = Len(q) - n /\ Len(q) - (n + 1) + 1 = Len(q) - n
      BY <3>1, <3>2
    <3>4. ASSUME NEW i \in 1..(Len(q) - n) PROVE n + 1 + i - 1 = i + n
      BY <3>1
    <3> HIDE DEF u
    <3> QED
      BY <3>2, <3>3, <3>4
  <2>0. Len(q) \in Nat /\ DOMAIN q = 1..Len(q) /\ n \in Int
    OBVIOUS
  <2>c. s = l \o u
    BY <2>6
  <2> HIDE DEF l, u, s
  <2>e. Len(l) \in Nat /\ Len(u) \in Nat
    BY <2>0, <2>a, <2>b
  <2>f. /\ l \o u \in Seq(Requests) /\ Len(l \o u) = Len(l) + Len(u)
        /\ \A i \in 1..(Len(l) + Len(u)) :
             (l \o u)[i] = IF i <= Len(l) THEN l[i] ELSE u[i - Len(l)]
    <3>1. l \in Seq(Requests) /\ u \in Seq(Requests)
      BY <2>a, <2>b
    <3> QED
      BY <3>1, ConcatProperties
  <2>g. DOMAIN (l \o u) = 1..(Len(l) + Len(u))
    BY <2>f
  <2>7. /\ s \in Seq(Requests) /\ DOMAIN s = 1..(Len(q) - 1)
        /\ \A i \in 1..(Len(q) - 1) :
             s[i] = IF i <= n - 1 THEN l[i] ELSE u[i - (n - 1)]
    <3>1. Len(l) = n - 1 /\ Len(u) = Len(q) - n
      BY <2>a, <2>b
    <3>2. Len(l) + Len(u) = Len(q) - 1
      BY <2>0, <3>1
    <3> QED
      BY <2>c, <2>f, <2>g, <3>1, <3>2
  <2>d. ASSUME NEW i \in DOMAIN s
        PROVE  s[i] = q[From(i)] /\ From(i) \in DOMAIN q \ {n}
    <3>0. i \in 1..(Len(q) - 1) /\ i \in Int
      BY <2>7
    <3>1. CASE i < n
      <4>1. i <= n - 1 /\ i \in 1..(n - 1)
        BY <2>0, <3>0, <3>1
      <4>2. s[i] = q[i]
        BY <2>a, <2>7, <3>0, <4>1
      <4> QED
        BY <2>0, <3>0, <3>1, <4>2
    <3>2. CASE ~(i < n)
      <4>1. i - (n - 1) \in 1..(Len(q) - n) /\ i - (n - 1) + n = i + 1
        BY <2>0, <3>0, <3>2
      <4>4. ~(i <= n - 1)
        BY <2>0, <3>0, <3>2
      <4>2. s[i] = u[i - (n - 1)]
        BY <2>7, <3>0, <4>4
      <4>3. s[i] = q[i + 1]
        BY <2>b, <4>1, <4>2
      <4> QED
        BY <2>0, <3>0, <3>2, <4>3
    <3> QED
      BY <3>1, <3>2
  <2>8. Once(s)
    <3> SUFFICES ASSUME NEW i \in DOMAIN s, NEW j \in DOMAIN s, s[i] = s[j]
                 PROVE  i = j
      BY DEF Once
    <3>1. From(i) = From(j)
      BY <2>d DEF Once
    <3>2. i \in 1..(Len(q) - 1) /\ j \in 1..(Len(q) - 1)
      BY <2>7
    <3> QED
      BY <2>0, <3>1, <3>2
  <2>9. ToSet(s) \subseteq ToSet(q) \ {r}
    <3> SUFFICES ASSUME NEW i \in DOMAIN s PROVE s[i] \in ToSet(q) /\ s[i] # r
      BY DEF ToSet
    <3>1. s[i] = q[From(i)] /\ From(i) \in DOMAIN q \ {n}
      BY <2>d
    <3> HIDE DEF From
    <3> QED
      BY <2>1, <3>1 DEF Once, ToSet
  <2> QED
    BY <2>5, <2>7, <2>8, <2>9 DEF s
<1> QED
  BY <1>1, <1>2

-----------------------------------------------------------------------------
\* One thread: its state st, its turn tn, and the requests op its turn waits
\* for an answer to.
Statuses == {"idle", "running", "waiting_approval"}
Phases == {"none", "running", "lost"}

\* The requests a thread state offers for an answer.
Offered(st) == (ToSet(st.queue) \union {st.pending}) \ {None}

IsThread(st) ==
  /\ st = [status |-> st.status, pending |-> st.pending, queue |-> st.queue]
  /\ st.status \in Statuses /\ st.pending \in 0..NRequest
  /\ st.queue \in Seq(Requests)

\* A queue holds nothing twice, nor the request that waits before it, and
\* there is none without such a request.  What is offered is open while the
\* turn runs, and nothing is offered without a turn; a thread that has a turn
\* says so, which is what keeps the next turn off it.
Good(st, tn, op) ==
  /\ IsThread(st)
  /\ Once(st.queue) /\ st.pending \notin ToSet(st.queue)
  /\ st.pending = None => st.queue = <<>>
  /\ tn = "running" => Offered(st) \subseteq op
  /\ tn = "none" => Offered(st) = {}
  /\ tn # "none" => (st.status = "running" \/ st.pending # None)

LEMMA EmptyGood ==
  ASSUME NEW op
  PROVE  Good(EmptyThread, "none", op)
<1>1. EmptyThread.status = "idle" /\ EmptyThread.pending = None
      /\ EmptyThread.queue = <<>> /\ IsThread(EmptyThread)
  BY DEF EmptyThread, IsThread, Statuses
<1>2. Once(<<>>) /\ ToSet(<<>>) = {}
  BY DEF Once, ToSet
<1> QED
  BY <1>1, <1>2 DEF Good, Offered

\* A thread that offers nothing is ready for a turn.
LEMMA QuietGood ==
  ASSUME NEW st, NEW op, Good(st, "none", op)
  PROVE  st.pending = None /\ st.queue = <<>> /\ Offered(st) = {}
  BY DEF Good, Offered, IsThread

LEMMA BegunGood ==
  ASSUME NEW st, NEW tn, NEW op, Good(st, tn, op), tn \in {"none", "running"}
  PROVE  Good(Begun(st), "running", op)
<1>1. /\ Begun(st) = [status |-> "running", pending |-> st.pending, queue |-> st.queue]
  BY DEF Good, IsThread, Begun
<1>2. /\ Begun(st).status = "running" /\ Begun(st).pending = st.pending
      /\ Begun(st).queue = st.queue
  BY <1>1
<1>3. IsThread(Begun(st))
  BY <1>1, <1>2 DEF Good, IsThread, Statuses
<1>4. Offered(Begun(st)) = Offered(st)
  BY <1>2 DEF Offered
<1>5. Offered(st) \subseteq op
  BY DEF Good
<1> QED
  BY <1>2, <1>3, <1>4, <1>5 DEF Good

LEMMA AskedGood ==
  ASSUME NEW st, NEW op, Good(st, "running", op), NEW r \in Requests
  PROVE  Good(Asked(st, r), "running", op \union {r})
<1>0. /\ IsThread(st) /\ Once(st.queue) /\ st.pending \notin ToSet(st.queue)
      /\ st.pending = None => st.queue = <<>>
      /\ Offered(st) \subseteq op /\ r # None
  BY DEF Good
<1> DEFINE new == Asked(st, r)
<1>1. CASE st.pending \in {None, r}
  <2>1. new = [status |-> "waiting_approval", pending |-> r, queue |-> st.queue]
    BY <1>0, <1>1 DEF Asked, IsThread
  <2>2. new.status = "waiting_approval" /\ new.pending = r /\ new.queue = st.queue
    BY <2>1
  <2>3. IsThread(new)
    BY <1>0, <2>1, <2>2 DEF IsThread, Statuses
  <2>4. r \notin ToSet(st.queue)
    BY <1>0, <1>1 DEF ToSet
  <2>5. Offered(new) \subseteq op \union {r}
    BY <1>0, <2>2 DEF Offered
  <2> HIDE DEF new
  <2>6. Good(new, "running", op \union {r})
    BY <1>0, <2>2, <2>3, <2>4, <2>5 DEF Good
  <2> QED
    BY <2>6 DEF new
<1>2. CASE st.pending \notin {None, r}
  <2> DEFINE nq == IF r \in ToSet(st.queue) THEN st.queue ELSE Append(st.queue, r)
  <2>1. new = [status |-> "waiting_approval", pending |-> st.pending, queue |-> nq]
    BY <1>0, <1>2 DEF Asked, IsThread
  <2>2. /\ nq \in Seq(Requests) /\ Once(nq)
        /\ ToSet(nq) = ToSet(st.queue) \union {r}
    <3>1. st.queue \in Seq(Requests)
      BY <1>0 DEF IsThread
    <3>2. CASE r \in ToSet(st.queue)
      BY <1>0, <3>1, <3>2
    <3>3. CASE r \notin ToSet(st.queue)
      BY <1>0, <3>1, <3>3, AppendQueue
    <3> QED
      BY <3>2, <3>3
  <2> HIDE DEF nq
  <2>3. new.status = "waiting_approval" /\ new.pending = st.pending /\ new.queue = nq
    BY <2>1
  <2>4. IsThread(new)
    BY <1>0, <2>1, <2>2, <2>3 DEF IsThread, Statuses
  <2>5. Offered(new) \subseteq op \union {r}
    BY <1>0, <2>2, <2>3 DEF Offered
  <2> HIDE DEF new
  <2>6. Good(new, "running", op \union {r})
    BY <1>0, <1>2, <2>2, <2>3, <2>4, <2>5 DEF Good
  <2> QED
    BY <2>6 DEF new
<1> QED
  BY <1>1, <1>2

\* Whatever request an answer is for, it is not offered any more, and nothing
\* new is.
LEMMA ResolvedGood ==
  ASSUME NEW st, NEW tn \in Phases, NEW op, NEW r, Good(st, tn, op),
         NEW op2, op \ {r} \subseteq op2
  PROVE  Good(Resolved(st, r), tn, op2)
<1>0. /\ IsThread(st) /\ Once(st.queue) /\ st.pending \notin ToSet(st.queue)
      /\ st.pending = None => st.queue = <<>>
      /\ tn = "running" => Offered(st) \subseteq op
      /\ tn = "none" => Offered(st) = {}
      /\ tn # "none" => (st.status = "running" \/ st.pending # None)
      /\ st.queue \in Seq(Requests)
  BY DEF Good, IsThread
<1> DEFINE new == Resolved(st, r)
<1>4. SUFFICES /\ IsThread(new) /\ Once(new.queue)
               /\ new.pending \notin ToSet(new.queue)
               /\ new.pending = None => new.queue = <<>>
               /\ Offered(new) \subseteq Offered(st) \ {r}
               /\ (new.status = "running" \/ new.pending # None)
  <2> HIDE DEF new
  <2>1. Good(new, tn, op2)
    BY <1>0, <1>4 DEF Good
  <2> QED
    BY <2>1 DEF new
<1>1. CASE st.pending \notin {None, r}
  <2> DEFINE nq == RemoveFirst(st.queue, r)
  <2>1. new = [status |-> "waiting_approval", pending |-> st.pending, queue |-> nq]
    BY <1>0, <1>1 DEF Resolved, IsThread
  <2>2. nq \in Seq(Requests) /\ Once(nq) /\ ToSet(nq) \subseteq ToSet(st.queue) \ {r}
    BY <1>0, RemovedQueue
  <2> HIDE DEF nq
  <2>3. new.status = "waiting_approval" /\ new.pending = st.pending /\ new.queue = nq
    BY <2>1
  <2>4. IsThread(new)
    BY <1>0, <2>1, <2>2, <2>3 DEF IsThread, Statuses
  <2>5. Offered(new) \subseteq Offered(st) \ {r}
    BY <1>1, <2>2, <2>3 DEF Offered
  <2> QED
    BY <1>0, <1>1, <2>2, <2>3, <2>4, <2>5
<1>2. CASE st.pending \in {None, r} /\ st.queue = <<>>
  <2>1. new = [status |-> "running", pending |-> None, queue |-> <<>>]
    BY <1>2 DEF Resolved
  <2>2. new.status = "running" /\ new.pending = None /\ new.queue = <<>>
    BY <2>1
  <2>3. Once(<<>>) /\ ToSet(<<>>) = {}
    BY DEF Once, ToSet
  <2>4. IsThread(new)
    BY <2>1, <2>2 DEF IsThread, Statuses
  <2>5. Offered(new) = {}
    BY <2>2, <2>3 DEF Offered
  <2> QED
    BY <2>2, <2>3, <2>4, <2>5
<1>3. CASE st.pending \in {None, r} /\ st.queue # <<>>
  <2> DEFINE h == Head(st.queue)
             nq == Tail(st.queue)
  <2>0. st.pending = r /\ r # None
    BY <1>0, <1>3
  <2>1. new = [status |-> "waiting_approval", pending |-> h, queue |-> nq]
    BY <1>3 DEF Resolved
  <2>2. /\ h \in Requests /\ nq \in Seq(Requests) /\ Once(nq) /\ h \notin ToSet(nq)
        /\ ToSet(st.queue) = ToSet(nq) \union {h}
    BY <1>0, <1>3, HeadQueue
  <2> HIDE DEF h, nq
  <2>3. new.status = "waiting_approval" /\ new.pending = h /\ new.queue = nq
    BY <2>1
  <2>4. IsThread(new)
    BY <2>1, <2>2, <2>3 DEF IsThread, Statuses
  <2>5. Offered(new) \subseteq Offered(st) \ {r}
    BY <1>0, <2>0, <2>2, <2>3 DEF Offered
  <2>6. h # None
    BY <2>2
  <2> QED
    BY <2>2, <2>3, <2>4, <2>5, <2>6
<1> QED
  BY <1>1, <1>2, <1>3

-----------------------------------------------------------------------------
\* The inductive invariant.

IsCall(o) ==
  o = [op |-> o.op, thread |-> o.thread, req |-> o.req, always |-> o.always,
       scope |-> o.scope, at |-> o.at]

Shapes ==
  /\ thread = [t \in Threads |-> thread[t]]
  /\ turn \in [Threads -> Phases]
  /\ open = [t \in Threads |-> open[t]]
  /\ owner = [t \in Threads |-> owner[t]]
  /\ link \in [Scopes -> 0..NThread]
  /\ call = [c \in Callers |-> call[c]]
  /\ \A c \in Callers : IsCall(call[c])

ThreadsGood == \A t \in Threads : Good(thread[t], turn[t], open[t])

\* A turn is sent by the main loop alone, on a thread that has none.
Sends ==
  \A c \in Callers : call[c].op = "send" =>
    /\ c = Main /\ call[c].scope \in Scopes
    /\ link[call[c].scope] = None \/ turn[link[call[c].scope]] = "none"

\* A thread that nobody started has no turn.
Owned == \A t \in Threads : owner[t] = "none" => turn[t] = "none"

Inv == Shapes /\ ThreadsGood /\ Sends /\ Owned

LEMMA IdleCall == IsCall(Idle) /\ Idle.op = "none"
  BY DEF Idle, IsCall

\* One field of a call is changed.
LEMMA SetCall ==
  ASSUME NEW o, IsCall(o), NEW v
  PROVE  /\ \A p : p = [o EXCEPT !.op = v] => IsCall(p) /\ p.op = v
         /\ \A p : p = [o EXCEPT !.thread = v] =>
              IsCall(p) /\ p.op = o.op /\ p.thread = v
         /\ \A p : p = [o EXCEPT !.req = v] =>
              IsCall(p) /\ p.op = o.op /\ p.req = v
         /\ \A p : p = [o EXCEPT !.always = v] =>
              IsCall(p) /\ p.op = o.op /\ p.always = v
         /\ \A p : p = [o EXCEPT !.scope = v] =>
              IsCall(p) /\ p.op = o.op /\ p.scope = v
         /\ \A p : p = [o EXCEPT !.at = v] =>
              IsCall(p) /\ p.op = o.op /\ p.at = v
<1>1. ASSUME NEW p, p = [o EXCEPT !.op = v]
      PROVE  IsCall(p) /\ p.op = v
  BY <1>1 DEF IsCall
<1>2. ASSUME NEW p, p = [o EXCEPT !.thread = v]
      PROVE  IsCall(p) /\ p.op = o.op /\ p.thread = v
  BY <1>2 DEF IsCall
<1>3. ASSUME NEW p, p = [o EXCEPT !.req = v]
      PROVE  IsCall(p) /\ p.op = o.op /\ p.req = v
  BY <1>3 DEF IsCall
<1>4. ASSUME NEW p, p = [o EXCEPT !.always = v]
      PROVE  IsCall(p) /\ p.op = o.op /\ p.always = v
  BY <1>4 DEF IsCall
<1>5. ASSUME NEW p, p = [o EXCEPT !.scope = v]
      PROVE  IsCall(p) /\ p.op = o.op /\ p.scope = v
  BY <1>5 DEF IsCall
<1>6. ASSUME NEW p, p = [o EXCEPT !.at = v]
      PROVE  IsCall(p) /\ p.op = o.op /\ p.at = v
  BY <1>6 DEF IsCall
<1> QED
  BY <1>1, <1>2, <1>3, <1>4, <1>5, <1>6

LEMMA MovedCall ==
  ASSUME NEW o, IsCall(o), NEW a
  PROVE  /\ IsCall([o EXCEPT !.at = a])
         /\ [o EXCEPT !.at = a].op = o.op
         /\ [o EXCEPT !.at = a].scope = o.scope
  BY DEF IsCall

LEMMA SendCall ==
  ASSUME NEW s
  PROVE  /\ IsCall([Idle EXCEPT !.op = "send", !.scope = s])
         /\ [Idle EXCEPT !.op = "send", !.scope = s].op = "send"
         /\ [Idle EXCEPT !.op = "send", !.scope = s].scope = s
<1>1. PICK o, w : o = Idle /\ IsCall(o) /\ w = "send"
  BY IdleCall
<1>1a. PICK p : p = [o EXCEPT !.op = w]
  OBVIOUS
<1>1b. IsCall(p) /\ p.op = w
  BY <1>1, <1>1a, SetCall
<1>2a. PICK q : q = [p EXCEPT !.scope = s]
  OBVIOUS
<1>2b. IsCall(q) /\ q.op = w /\ q.scope = s
  BY <1>1b, <1>2a, SetCall
<1>7. q = [o EXCEPT !.op = w, !.scope = s]
  BY <1>1a, <1>2a
<1> QED
  BY <1>1, <1>2b, <1>7

LEMMA AnswerCall ==
  ASSUME NEW t, NEW r, NEW always
  PROVE  IsCall(AnswerOf(t, r, always)) /\ AnswerOf(t, r, always).op = "answer"
<1>1. PICK o, w : o = Idle /\ IsCall(o) /\ w = "answer"
  BY IdleCall
<1>1a. PICK p : p = [o EXCEPT !.op = w]
  OBVIOUS
<1>1b. IsCall(p) /\ p.op = w
  BY <1>1, <1>1a, SetCall
<1>2a. PICK q : q = [p EXCEPT !.thread = t]
  OBVIOUS
<1>2b. IsCall(q) /\ q.op = w
  BY <1>1b, <1>2a, SetCall
<1>3a. PICK u : u = [q EXCEPT !.req = r]
  OBVIOUS
<1>3b. IsCall(u) /\ u.op = w
  BY <1>2b, <1>3a, SetCall
<1>4a. PICK v : v = [u EXCEPT !.always = always]
  OBVIOUS
<1>4b. IsCall(v) /\ v.op = w
  BY <1>3b, <1>4a, SetCall
<1>7. v = [o EXCEPT !.op = w, !.thread = t, !.req = r, !.always = always]
  BY <1>1a, <1>2a, <1>3a, <1>4a
<1>8. v = AnswerOf(t, r, always)
  BY <1>1, <1>7 DEF AnswerOf
<1> QED
  BY <1>1, <1>4b, <1>8

LEMMA CancelCall ==
  ASSUME NEW t
  PROVE  IsCall(CancelOf(t)) /\ CancelOf(t).op = "cancel"
<1>1. PICK o, w, s : o = Idle /\ IsCall(o) /\ w = "cancel" /\ s = owner[t]
  BY IdleCall
<1>1a. PICK p : p = [o EXCEPT !.op = w]
  OBVIOUS
<1>1b. IsCall(p) /\ p.op = w
  BY <1>1, <1>1a, SetCall
<1>2a. PICK q : q = [p EXCEPT !.thread = t]
  OBVIOUS
<1>2b. IsCall(q) /\ q.op = w
  BY <1>1b, <1>2a, SetCall
<1>3a. PICK u : u = [q EXCEPT !.scope = s]
  OBVIOUS
<1>3b. IsCall(u) /\ u.op = w /\ u.scope = s
  BY <1>2b, <1>3a, SetCall
<1>7. u = [o EXCEPT !.op = w, !.thread = t, !.scope = s]
  BY <1>1a, <1>2a, <1>3a
<1>8. u = CancelOf(t)
  BY <1>1, <1>7 DEF CancelOf
<1> QED
  BY <1>1, <1>3b, <1>8

LEMMA PromptCall ==
  ASSUME NEW t, NEW r
  PROVE  LET o == [Idle EXCEPT !.op = "prompt", !.thread = t, !.req = r,
                     !.at = "prompt"]
         IN IsCall(o) /\ o.op = "prompt"
<1>1. PICK o, w : o = Idle /\ IsCall(o) /\ w = "prompt"
  BY IdleCall
<1>1a. PICK p : p = [o EXCEPT !.op = w]
  OBVIOUS
<1>1b. IsCall(p) /\ p.op = w
  BY <1>1, <1>1a, SetCall
<1>2a. PICK q : q = [p EXCEPT !.thread = t]
  OBVIOUS
<1>2b. IsCall(q) /\ q.op = w
  BY <1>1b, <1>2a, SetCall
<1>3a. PICK u : u = [q EXCEPT !.req = r]
  OBVIOUS
<1>3b. IsCall(u) /\ u.op = w
  BY <1>2b, <1>3a, SetCall
<1>4a. PICK v : v = [u EXCEPT !.at = w]
  OBVIOUS
<1>4b. IsCall(v) /\ v.op = w
  BY <1>3b, <1>4a, SetCall
<1>7. v = [o EXCEPT !.op = w, !.thread = t, !.req = r, !.at = w]
  BY <1>1a, <1>2a, <1>3a, <1>4a
<1> QED
  BY <1>1, <1>4b, <1>7

\* How the calls change: in at most one of them.
Puts(c, o) ==
  /\ call' = [call EXCEPT ![c] = o]
  /\ IsCall(o)

LEMMA PutShape ==
  ASSUME Shapes, NEW c \in Callers, NEW o, Puts(c, o)
  PROVE  /\ call' = [d \in Callers |-> call'[d]]
         /\ \A d \in Callers : IsCall(call'[d])
         /\ call'[c] = o
         /\ \A d \in Callers \ {c} : call'[d] = call[d]
  BY DEF Shapes, Puts

\* To start or connect a client on the way does not matter here.
LEMMA EnterPuts ==
  ASSUME NEW c \in Callers, NEW o, IsCall(o), Enter(c, o)
  PROVE  \E p : Puts(c, p) /\ p.op = o.op /\ p.scope = o.scope
<1>1. PICK a : call' = [call EXCEPT ![c] = [o EXCEPT !.at = a]]
  BY DEF Enter
<1> DEFINE p == [o EXCEPT !.at = a]
<1>2. IsCall(p) /\ p.op = o.op /\ p.scope = o.scope
  BY MovedCall
<1> QED
  BY <1>1, <1>2 DEF Puts

LEMMA FailPuts ==
  ASSUME NEW c \in Callers, NEW o, FailCall(c, o)
  PROVE  Puts(c, Idle)
  BY IdleCall DEF FailCall, Puts

\* A call that does not become a send, while links stay and turns do not begin.
LEMMA SendsKept ==
  ASSUME Inv, NEW c \in Callers, NEW o, Puts(c, o),
         o.op = "send" => (call[c].op = "send" /\ o.scope = call[c].scope),
         link' = link,
         \A t \in Threads : turn[t] = "none" => turn'[t] = "none"
  PROVE  Sends'
<1>1. /\ call'[c] = o
      /\ \A d \in Callers \ {c} : call'[d] = call[d]
  BY PutShape DEF Inv
<1> SUFFICES ASSUME NEW d \in Callers, call'[d].op = "send"
             PROVE  /\ d = Main /\ call'[d].scope \in Scopes
                    /\ link[call'[d].scope] = None \/ turn'[link[call'[d].scope]] = "none"
  BY DEF Sends
<1>2. call[d].op = "send" /\ call'[d].scope = call[d].scope
  BY <1>1
<1>3. PICK s \in Scopes : s = call[d].scope
  BY <1>2 DEF Inv, Sends
<1>4. d = Main /\ (link[s] = None \/ turn[link[s]] = "none")
  BY <1>2, <1>3 DEF Inv, Sends
<1>5. link[s] = None \/ link[s] \in Threads
  BY DEF Inv, Shapes
<1> QED
  BY <1>2, <1>3, <1>4, <1>5

LEMMA SendsSame ==
  ASSUME Inv, UNCHANGED <<call, link>>,
         \A t \in Threads : turn[t] = "none" => turn'[t] = "none"
  PROVE  Sends'
<1> SUFFICES ASSUME NEW d \in Callers, call[d].op = "send"
             PROVE  /\ d = Main /\ call[d].scope \in Scopes
                    /\ link[call[d].scope] = None \/ turn'[link[call[d].scope]] = "none"
  BY DEF Sends
<1>3. PICK s \in Scopes : s = call[d].scope
  BY DEF Inv, Sends
<1>4. d = Main /\ (link[s] = None \/ turn[link[s]] = "none")
  BY <1>3 DEF Inv, Sends
<1>5. link[s] = None \/ link[s] \in Threads
  BY DEF Inv, Shapes
<1> QED
  BY <1>3, <1>4, <1>5

\* A step that only moves a call.
LEMMA CallMoves ==
  ASSUME Inv, NEW c \in Callers, NEW o, Puts(c, o),
         o.op = "send" => (call[c].op = "send" /\ o.scope = call[c].scope),
         UNCHANGED <<owner, link, turn, open, thread>>
  PROVE  Inv'
<1>1. Sends'
  BY SendsKept
<1>2. Shapes'
  BY PutShape DEF Inv, Shapes
<1>3. ThreadsGood' /\ Owned'
  BY DEF Inv, ThreadsGood, Owned
<1> QED
  BY <1>1, <1>2, <1>3 DEF Inv

\* A step that touches none of this.
LEMMA NothingMoves ==
  ASSUME Inv, UNCHANGED <<owner, link, turn, open, thread, call>>
  PROVE  Inv'
  BY DEF Inv, Shapes, ThreadsGood, Owned, Sends

\* An answer given or given up: the request leaves the thread state.
LEMMA AnswerEnds ==
  ASSUME Inv, NEW c \in Callers, Puts(c, Idle), NEW t, NEW r,
         thread' = [thread EXCEPT ![t] = Resolved(@, r)],
         open' = open \/ open' = [open EXCEPT ![t] = @ \ {r}],
         UNCHANGED <<owner, link, turn>>
  PROVE  Inv'
<1>1. Sends'
  BY SendsKept, IdleCall DEF Inv, Shapes
<1>2. Shapes'
  <2>1. thread' = [u \in Threads |-> thread'[u]] /\ open' = [u \in Threads |-> open'[u]]
    BY DEF Inv, Shapes
  <2> QED
    BY <2>1, PutShape DEF Inv, Shapes
<1>3. ThreadsGood'
  <2> SUFFICES ASSUME NEW u \in Threads
               PROVE  Good(thread'[u], turn'[u], open'[u])
    BY DEF ThreadsGood
  <2>1. Good(thread[u], turn[u], open[u]) /\ turn[u] \in Phases /\ turn'[u] = turn[u]
    BY DEF Inv, ThreadsGood, Shapes
  <2>2. CASE u = t
    <3>1. thread'[u] = Resolved(thread[u], r) /\ open[u] \ {r} \subseteq open'[u]
      BY <2>2 DEF Inv, Shapes
    <3>2. PICK st, tn, op, op2 : st = thread[u] /\ tn = turn[u] /\ op = open[u] /\ op2 = open'[u]
      OBVIOUS
    <3>3. Good(Resolved(st, r), tn, op2)
      BY <2>1, <3>1, <3>2, ResolvedGood
    <3> QED
      BY <2>1, <3>1, <3>2, <3>3
  <2>3. CASE u # t
    <3>1. thread'[u] = thread[u] /\ open'[u] = open[u]
      BY <2>3 DEF Inv, Shapes
    <3> QED
      BY <2>1, <3>1
  <2> QED
    BY <2>2, <2>3
<1>4. Owned'
  BY DEF Inv, Owned
<1> QED
  BY <1>1, <1>2, <1>3, <1>4 DEF Inv

-----------------------------------------------------------------------------
\* The steps of a call.

LEMMA MovesOn ==
  ASSUME Inv, NEW c \in Callers, NEW a, call' = [call EXCEPT ![c].at = a],
         UNCHANGED <<owner, link, turn, open, thread>>
  PROVE  Inv'
<1> DEFINE o == [call[c] EXCEPT !.at = a]
<1>1. IsCall(o) /\ o.op = call[c].op /\ o.scope = call[c].scope
  BY MovedCall DEF Inv, Shapes
<1>2. call' = [call EXCEPT ![c] = o]
  OBVIOUS
<1> HIDE DEF o
<1>3. Puts(c, o)
  BY <1>1, <1>2 DEF Puts
<1> QED
  BY <1>1, <1>3, CallMoves

LEMMA GreetedInv ==
  ASSUME Inv, NEW c \in Callers, Greeted(c)
  PROVE  Inv'
  BY MovesOn DEF Greeted, runtime, bridge

LEMMA ModelsInv ==
  ASSUME Inv, NEW c \in Callers, Models(c)
  PROVE  Inv'
  BY MovesOn DEF Models, runtime, bridge

LEMMA InterruptInv ==
  ASSUME Inv, NEW c \in Callers, Interrupt(c)
  PROVE  Inv'
  BY MovesOn DEF Interrupt, runtime, bridge

\* A call that fails, for whatever reason.
LEMMA FailsInv ==
  ASSUME Inv, NEW c \in Callers, FailCall(c, call[c]),
         UNCHANGED <<owner, link, turn, open>>
  PROVE  Inv'
<1>1. Puts(c, Idle)
  BY FailPuts
<1>2. \/ \E t, r : thread' = [thread EXCEPT ![t] = Resolved(@, r)]
      \/ thread' = thread
  BY DEF FailCall
<1>3. CASE thread' = thread
  BY <1>1, <1>3, CallMoves, IdleCall
<1>4. CASE \E t, r : thread' = [thread EXCEPT ![t] = Resolved(@, r)]
  <2>1. PICK t, r : thread' = [thread EXCEPT ![t] = Resolved(@, r)]
    BY <1>4
  <2> QED
    BY <1>1, <2>1, AnswerEnds
<1> QED
  BY <1>2, <1>3, <1>4

LEMMA CannotSendInv ==
  ASSUME Inv, NEW c \in Callers, CannotSend(c)
  PROVE  Inv'
  BY FailsInv DEF CannotSend, runtime

LEMMA RequestFailsInv ==
  ASSUME Inv, NEW c \in Callers, RequestFails(c)
  PROVE  Inv'
  BY FailsInv DEF RequestFails, runtime

LEMMA CloseRejectsInv ==
  ASSUME Inv, NEW c \in Callers, CloseRejects(c)
  PROVE  Inv'
  BY FailsInv DEF CloseRejects, runtime

LEMMA AnsweredInv ==
  ASSUME Inv, NEW c \in Callers, Answered(c)
  PROVE  Inv'
<1>1. PICK t, r : t = call[c].thread /\ r = call[c].req
  OBVIOUS
<1>2. /\ thread' = [thread EXCEPT ![t] = Resolved(@, r)]
      /\ open' = Delivered(call[c])
      /\ call' = [call EXCEPT ![c] = Idle]
      /\ UNCHANGED <<owner, link, turn>>
  BY <1>1 DEF Answered
<1>3. open' = open \/ open' = [open EXCEPT ![t] = @ \ {r}]
  BY <1>1, <1>2 DEF Delivered
<1>4. Puts(c, Idle)
  BY <1>2, IdleCall DEF Puts
<1> QED
  BY <1>2, <1>3, <1>4, AnswerEnds

\* The end of a turn takes what was asked for with it.
LEMMA TurnEnds ==
  ASSUME Inv, NEW t, TurnOver(t), UNCHANGED <<owner, link>>
  PROVE  /\ turn' \in [Threads -> Phases]
         /\ thread' = [u \in Threads |-> thread'[u]]
         /\ open' = [u \in Threads |-> open'[u]]
         /\ \A u \in Threads : turn[u] = "none" => turn'[u] = "none"
         /\ ThreadsGood' /\ Owned'
<1>1. /\ turn' = [turn EXCEPT ![t] = "none"]
      /\ open' = [open EXCEPT ![t] = {}]
      /\ thread' = [thread EXCEPT ![t] = EmptyThread]
  BY DEF TurnOver, Ended
<1>2. /\ turn' \in [Threads -> Phases]
      /\ thread' = [u \in Threads |-> thread'[u]]
      /\ open' = [u \in Threads |-> open'[u]]
  BY <1>1 DEF Inv, Shapes, Phases
<1>3. /\ \A u \in Threads : turn[u] = "none" => turn'[u] = "none"
      /\ Owned'
  BY <1>1 DEF Inv, Shapes, Owned
<1>4. ThreadsGood'
  <2> SUFFICES ASSUME NEW u \in Threads
               PROVE  Good(thread'[u], turn'[u], open'[u])
    BY DEF ThreadsGood
  <2>1. CASE u = t
    <3>1. thread'[u] = EmptyThread /\ turn'[u] = "none"
      BY <1>1, <2>1 DEF Inv, Shapes
    <3>2. PICK op : op = open'[u]
      OBVIOUS
    <3>3. Good(EmptyThread, "none", op)
      BY EmptyGood
    <3> QED
      BY <3>1, <3>2, <3>3
  <2>2. CASE u # t
    <3>1. thread'[u] = thread[u] /\ turn'[u] = turn[u] /\ open'[u] = open[u]
      BY <1>1, <2>2 DEF Inv, Shapes
    <3>2. Good(thread[u], turn[u], open[u])
      BY DEF Inv, ThreadsGood
    <3> QED
      BY <3>1, <3>2
  <2> QED
    BY <2>1, <2>2
<1> QED
  BY <1>2, <1>3, <1>4

LEMMA InterruptedInv ==
  ASSUME Inv, NEW c \in Callers, Interrupted(c)
  PROVE  Inv'
<1>1. PICK t : t = call[c].thread
  OBVIOUS
<1>2. /\ call' = [call EXCEPT ![c] = Idle]
      /\ UNCHANGED <<owner, link>>
      /\ TurnOver(t) \/ UNCHANGED <<turn, open, thread>>
  BY <1>1 DEF Interrupted
<1>3. Puts(c, Idle)
  BY <1>2, IdleCall DEF Puts
<1>4. CASE UNCHANGED <<turn, open, thread>>
  BY <1>2, <1>3, <1>4, CallMoves, IdleCall
<1>5. CASE TurnOver(t)
  <2>1. /\ turn' \in [Threads -> Phases]
        /\ thread' = [u \in Threads |-> thread'[u]]
        /\ open' = [u \in Threads |-> open'[u]]
        /\ \A u \in Threads : turn[u] = "none" => turn'[u] = "none"
        /\ ThreadsGood' /\ Owned'
    BY <1>2, <1>5, TurnEnds
  <2>2. Sends'
    BY <1>2, <1>3, <2>1, SendsKept, IdleCall
  <2>3. Shapes'
    BY <1>2, <1>3, <2>1, PutShape DEF Inv, Shapes
  <2> QED
    BY <2>1, <2>2, <2>3 DEF Inv
<1> QED
  BY <1>2, <1>4, <1>5

\* A turn starts on a thread that has none.
LEMMA StartedInv ==
  ASSUME Inv, NEW c \in Callers, Started(c)
  PROVE  Inv'
<1>1. PICK s : s = call[c].scope
  OBVIOUS
<1>2. PICK t \in Threads :
        /\ t = link[s] \/ Fresh(t)
        /\ owner' = [owner EXCEPT ![t] = s]
        /\ link' = [link EXCEPT ![s] = t]
        /\ turn' = [turn EXCEPT ![t] = "running"]
        /\ thread' = [thread EXCEPT ![t] = Begun(@)]
  BY <1>1 DEF Started
<1>3. /\ call[c].op = "send" /\ call' = [call EXCEPT ![c] = Idle]
      /\ open' = open
  BY DEF Started
<1>4. /\ c = Main /\ s \in Scopes
      /\ link[s] = None \/ turn[link[s]] = "none"
      /\ \A d \in Callers : call[d].op = "send" => d = Main
  BY <1>1, <1>3 DEF Inv, Sends
<1>5. turn[t] = "none"
  <2>1. CASE t = link[s]
    BY <1>4, <2>1
  <2>2. CASE Fresh(t)
    BY <2>2 DEF Fresh, Inv, Owned
  <2> QED
    BY <1>2, <2>1, <2>2
<1>6. Puts(c, Idle)
  BY <1>3, IdleCall DEF Puts
<1>7. Sends'
  <2> SUFFICES ASSUME NEW d \in Callers PROVE call'[d].op # "send"
    BY DEF Sends
  <2>1. CASE d = c
    BY <1>6, <2>1, PutShape, IdleCall DEF Inv
  <2>2. CASE d # c
    BY <1>4, <1>6, <2>2, PutShape DEF Inv
  <2> QED
    BY <2>1, <2>2
<1>8. Shapes'
  <2>1. /\ thread' = [u \in Threads |-> thread'[u]]
        /\ owner' = [u \in Threads |-> owner'[u]]
    BY <1>2 DEF Inv, Shapes
  <2>2. turn' \in [Threads -> Phases]
    BY <1>2 DEF Inv, Shapes, Phases
  <2>3. link' \in [Scopes -> 0..NThread]
    <3>1. t \in 0..NThread
      BY <1>2
    <3>2. link \in [Scopes -> 0..NThread]
      BY DEF Inv, Shapes
    <3> HIDE DEF Scopes
    <3> QED
      BY <1>2, <3>1, <3>2
  <2> QED
    BY <1>3, <1>6, <2>1, <2>2, <2>3, PutShape DEF Inv, Shapes
<1>9. Owned'
  <2> SUFFICES ASSUME NEW u \in Threads, owner'[u] = "none" PROVE turn'[u] = "none"
    BY DEF Owned
  <2>1. u # t
    BY <1>2, <1>4 DEF Inv, Shapes
  <2> QED
    BY <1>2, <2>1 DEF Inv, Shapes, Owned
<1>10. ThreadsGood'
  <2> SUFFICES ASSUME NEW u \in Threads
               PROVE  Good(thread'[u], turn'[u], open'[u])
    BY DEF ThreadsGood
  <2>1. Good(thread[u], turn[u], open[u]) /\ open'[u] = open[u]
    BY <1>3 DEF Inv, ThreadsGood
  <2>2. CASE u = t
    <3>1. thread'[u] = Begun(thread[u]) /\ turn'[u] = "running" /\ turn[u] = "none"
      BY <1>2, <1>5, <2>2 DEF Inv, Shapes
    <3>2. PICK st, op : st = thread[u] /\ op = open[u]
      OBVIOUS
    <3>3. Good(Begun(st), "running", op)
      BY <2>1, <3>1, <3>2, BegunGood
    <3> QED
      BY <2>1, <3>1, <3>2, <3>3
  <2>3. CASE u # t
    <3>1. thread'[u] = thread[u] /\ turn'[u] = turn[u]
      BY <1>2, <2>3 DEF Inv, Shapes
    <3> QED
      BY <2>1, <3>1
  <2> QED
    BY <2>2, <2>3
<1> QED
  BY <1>7, <1>8, <1>9, <1>10 DEF Inv

LEMMA CallStepInv ==
  ASSUME Inv, NEW c \in Callers, CallStep(c)
  PROVE  Inv'
  BY GreetedInv, ModelsInv, CloseRejectsInv, CannotSendInv, AnsweredInv,
     InterruptInv, InterruptedInv, StartedInv DEF CallStep

-----------------------------------------------------------------------------
\* The clients.

LEMMA CloseIdleInv ==
  ASSUME Inv, NEW s \in Scopes, CloseIdle(s)
  PROVE  Inv'
  BY NothingMoves DEF CloseIdle, runtime, bridge

\* A turn whose process died keeps what its thread offers, and is lost.
LEMMA ExitInv ==
  ASSUME Inv, NEW s \in Scopes, Exit(s)
  PROVE  Inv'
<1>1. /\ turn' = [t \in Threads |->
            IF owner[t] = s /\ turn[t] = "running" THEN "lost" ELSE turn[t]]
      /\ open' = [t \in Threads |-> IF owner[t] = s THEN {} ELSE open[t]]
      /\ UNCHANGED <<call, owner, link, thread>>
  BY DEF Exit, bridge
<1>2. \A t \in Threads : turn[t] = "none" => turn'[t] = "none"
  BY <1>1
<1>3. Sends'
  BY <1>1, <1>2, SendsSame
<1>4. Shapes'
  <2>1. turn' \in [Threads -> Phases]
    BY <1>1 DEF Inv, Shapes, Phases
  <2>2. open' = [t \in Threads |-> open'[t]]
    BY <1>1
  <2> QED
    BY <1>1, <2>1, <2>2 DEF Inv, Shapes
<1>5. Owned'
  BY <1>1, <1>2 DEF Inv, Owned
<1>6. ThreadsGood'
  <2> SUFFICES ASSUME NEW t \in Threads PROVE Good(thread'[t], turn'[t], open'[t])
    BY DEF ThreadsGood
  <2>1. Good(thread[t], turn[t], open[t]) /\ thread'[t] = thread[t]
    BY <1>1 DEF Inv, ThreadsGood
  <2>2. \/ turn'[t] = turn[t] /\ open'[t] = open[t]
        \/ turn[t] # "none" /\ turn'[t] = "lost"
        \/ turn[t] # "running" /\ turn'[t] = turn[t]
    BY <1>1
  <2>3. PICK st, tn, op, tn2, op2 :
          /\ st = thread[t] /\ tn = turn[t] /\ op = open[t]
          /\ tn2 = turn'[t] /\ op2 = open'[t]
    OBVIOUS
  <2>4. Good(st, tn2, op2)
    <3>1. CASE tn2 = tn /\ op2 = op
      BY <2>1, <2>3, <3>1
    <3>2. CASE tn # "none" /\ tn2 = "lost"
      BY <2>1, <2>3, <3>2 DEF Good
    <3>3. CASE tn # "running" /\ tn2 = tn
      BY <2>1, <2>3, <3>3 DEF Good
    <3> QED
      BY <2>2, <2>3, <3>1, <3>2, <3>3
  <2> QED
    BY <2>1, <2>3, <2>4
<1> QED
  BY <1>3, <1>4, <1>5, <1>6 DEF Inv

-----------------------------------------------------------------------------
\* The main loop and the watchdog.

LEMMA DispatchInv ==
  ASSUME Inv, NEW s \in Scopes, Dispatch(s)
  PROVE  Inv'
<1>1. PICK o : o = [Idle EXCEPT !.op = "send", !.scope = s]
  OBVIOUS
<1>2. IsCall(o) /\ o.op = "send" /\ o.scope = s
  BY <1>1, SendCall
<1>3. /\ call[Main] = Idle /\ Enter(Main, o)
      /\ s = User => ~Blocked(User)
      /\ link' = IF s = System THEN [link EXCEPT ![System] = None] ELSE link
      /\ UNCHANGED <<owner, turn, open, thread>>
  BY <1>1 DEF Dispatch, runtime, bridge
<1>4. PICK p : Puts(Main, p) /\ p.op = "send" /\ p.scope = s
  BY <1>2, <1>3, EnterPuts
<1>5. /\ link' \in [Scopes -> 0..NThread]
      /\ link'[s] = None \/ turn[link'[s]] = "none"
  <2>1. CASE s = System
    BY <1>3, <2>1 DEF Inv, Shapes
  <2>2. CASE s = User
    <3>1. link' = link /\ s # System
      BY <1>3, <2>2
    <3>2. link \in [Scopes -> 0..NThread]
      BY DEF Inv, Shapes
    <3>3. ASSUME link[User] # None PROVE turn[link[User]] = "none"
      <4>1. PICK t \in Threads : t = link[User]
        BY <3>2, <3>3
      <4>2. thread[t].status # "running" /\ thread[t].pending = None
        BY <1>3, <2>2, <3>3, <4>1 DEF Blocked
      <4>3. Good(thread[t], turn[t], open[t])
        BY DEF Inv, ThreadsGood
      <4> QED
        BY <4>1, <4>2, <4>3 DEF Good
    <3> QED
      BY <2>2, <3>1, <3>2, <3>3
  <2> QED
    BY <2>1, <2>2
<1>6. Sends'
  <2> SUFFICES ASSUME NEW d \in Callers, call'[d].op = "send"
               PROVE  /\ d = Main /\ call'[d].scope \in Scopes
                      /\ link'[call'[d].scope] = None \/ turn'[link'[call'[d].scope]] = "none"
    BY DEF Sends
  <2>1. d = Main
    <3>1. CASE d # Main
      <4>1. call'[d] = call[d]
        BY <1>4, <3>1, PutShape DEF Inv
      <4> QED
        BY <3>1, <4>1 DEF Inv, Sends
    <3> QED
      BY <3>1
  <2>2. call'[d].scope = s
    BY <1>4, <2>1, PutShape DEF Inv
  <2> QED
    BY <1>3, <1>5, <2>1, <2>2
<1>7. Shapes'
  BY <1>3, <1>4, <1>5, PutShape DEF Inv, Shapes
<1>8. ThreadsGood' /\ Owned'
  BY <1>3 DEF Inv, ThreadsGood, Owned
<1> QED
  BY <1>6, <1>7, <1>8 DEF Inv

LEMMA UnlinkInv ==
  ASSUME Inv, NEW s \in Scopes, Unlink(s)
  PROVE  Inv'
<1>1. /\ call[Main] = Idle /\ link' = [link EXCEPT ![s] = None]
      /\ UNCHANGED <<call, owner, turn, open, thread>>
  BY DEF Unlink, runtime, bridge
<1>2. Sends'
  BY <1>1, IdleCall DEF Inv, Sends
<1>3. link' \in [Scopes -> 0..NThread]
  <2>1. link \in [Scopes -> 0..NThread] /\ None \in 0..NThread
    BY DEF Inv, Shapes
  <2> HIDE DEF Scopes
  <2> QED
    BY <1>1, <2>1
<1>4. Shapes'
  BY <1>1, <1>3 DEF Inv, Shapes
<1>5. ThreadsGood' /\ Owned'
  BY <1>1 DEF Inv, ThreadsGood, Owned
<1> QED
  BY <1>2, <1>4, <1>5 DEF Inv

\* A call other than a send begins.
LEMMA EnterInv ==
  ASSUME Inv, NEW c \in Callers, NEW o, IsCall(o), o.op \in {"answer", "cancel"},
         Enter(c, o), UNCHANGED <<owner, link, turn, open, thread>>
  PROVE  Inv'
<1>1. PICK p : Puts(c, p) /\ p.op = o.op
  BY EnterPuts
<1>2. p.op # "send"
  BY <1>1
<1> QED
  BY <1>1, <1>2, CallMoves

LEMMA CommandInv ==
  ASSUME Inv, NEW always, Command(always)
  PROVE  Inv'
<1>1. PICK t, r : Enter(Main, AnswerOf(t, r, always))
  BY DEF Command
<1>2. UNCHANGED <<owner, link, turn, open, thread>>
  BY DEF Command, runtime, bridge
<1> QED
  BY <1>1, <1>2, AnswerCall, EnterInv

LEMMA StopInv ==
  ASSUME Inv, Stop
  PROVE  Inv'
<1>1. PICK t : Enter(Main, CancelOf(t))
  BY DEF Stop
<1>2. UNCHANGED <<owner, link, turn, open, thread>>
  BY DEF Stop, runtime, bridge
<1> QED
  BY <1>1, <1>2, CancelCall, EnterInv

LEMMA StalledInv ==
  ASSUME Inv, NEW t \in Threads, Stalled(t)
  PROVE  Inv'
<1>1. Enter(Dog, CancelOf(t)) /\ UNCHANGED <<owner, link, turn, open, thread>>
  BY DEF Stalled, runtime
<1> QED
  BY <1>1, CancelCall, EnterInv

-----------------------------------------------------------------------------
\* The runtime.

\* A step that changes the state of one thread whose turn runs.
LEMMA OneThread ==
  ASSUME Inv, NEW t \in Threads, NEW new, NEW op,
         thread' = [thread EXCEPT ![t] = new], Good(new, "running", op),
         open' = [open EXCEPT ![t] = op], turn[t] = "running",
         UNCHANGED <<owner, link, turn, call>>
  PROVE  Inv'
<1>1. Sends'
  BY SendsSame
<1>2. Shapes'
  BY DEF Inv, Shapes
<1>3. ThreadsGood'
  <2> SUFFICES ASSUME NEW u \in Threads PROVE Good(thread'[u], turn'[u], open'[u])
    BY DEF ThreadsGood
  <2>1. CASE u = t
    <3>1. thread'[u] = new /\ turn'[u] = "running" /\ open'[u] = op
      BY <2>1 DEF Inv, Shapes
    <3> QED
      BY <3>1
  <2>2. CASE u # t
    <3>1. thread'[u] = thread[u] /\ turn'[u] = turn[u] /\ open'[u] = open[u]
      BY <2>2 DEF Inv, Shapes
    <3>2. Good(thread[u], turn[u], open[u])
      BY DEF Inv, ThreadsGood
    <3> QED
      BY <3>1, <3>2
  <2> QED
    BY <2>1, <2>2
<1>4. Owned'
  BY DEF Inv, Owned
<1> QED
  BY <1>1, <1>2, <1>3, <1>4 DEF Inv

LEMMA AskInv ==
  ASSUME Inv, NEW t \in Threads, NEW k, Ask(t, k)
  PROVE  Inv'
<1>1. PICK r \in Requests :
        /\ open' = [open EXCEPT ![t] = @ \union {r}]
        /\ thread' = [thread EXCEPT ![t] = Asked(@, r)]
  BY DEF Ask
<1>2. turn[t] = "running" /\ UNCHANGED <<call, owner, link, turn>>
  BY DEF Ask
<1>3. Good(thread[t], turn[t], open[t])
  BY DEF Inv, ThreadsGood
<1>4. PICK st, op : st = thread[t] /\ op = open[t]
  OBVIOUS
<1>5. Good(Asked(st, r), "running", op \union {r})
  BY <1>2, <1>3, <1>4, AskedGood
<1>6. PICK new : new = Asked(st, r)
  OBVIOUS
<1> QED
  BY <1>1, <1>2, <1>4, <1>5, <1>6, OneThread

LEMMA SpeakInv ==
  ASSUME Inv, NEW t \in Threads, Speak(t)
  PROVE  Inv'
<1>1. /\ thread' = [thread EXCEPT ![t] = Begun(@)]
      /\ turn[t] = "running" /\ UNCHANGED <<call, owner, link, turn, open>>
  BY DEF Speak, runtime
<1>3. Good(thread[t], turn[t], open[t])
  BY DEF Inv, ThreadsGood
<1>4. PICK st, op, new : st = thread[t] /\ op = open[t] /\ new = Begun(st)
  OBVIOUS
<1>5. Good(new, "running", op)
  BY <1>1, <1>3, <1>4, BegunGood
<1>6. open' = [open EXCEPT ![t] = op]
  BY <1>1, <1>4 DEF Inv, Shapes
<1> QED
  BY <1>1, <1>4, <1>5, <1>6, OneThread

LEMMA CompleteInv ==
  ASSUME Inv, NEW t \in Threads, Complete(t)
  PROVE  Inv'
<1>1. TurnOver(t) /\ UNCHANGED <<call, owner, link>>
  BY DEF Complete
<1>2. /\ turn' \in [Threads -> Phases]
      /\ thread' = [u \in Threads |-> thread'[u]]
      /\ open' = [u \in Threads |-> open'[u]]
      /\ \A u \in Threads : turn[u] = "none" => turn'[u] = "none"
      /\ ThreadsGood' /\ Owned'
  BY <1>1, TurnEnds
<1>3. Sends'
  BY <1>1, <1>2, SendsSame
<1>4. Shapes'
  BY <1>1, <1>2 DEF Inv, Shapes
<1> QED
  BY <1>2, <1>3, <1>4 DEF Inv

-----------------------------------------------------------------------------
\* The event chain.

LEMMA PromptInv ==
  ASSUME Inv, Prompt
  PROVE  Inv'
<1>1. UNCHANGED <<owner, link, turn, open, thread>>
  BY DEF Prompt, runtime
<1>2. \/ call' = call
      \/ \E t, r : call' = [call EXCEPT ![Chain] =
           [Idle EXCEPT !.op = "prompt", !.thread = t, !.req = r, !.at = "prompt"]]
  BY DEF Prompt
<1>3. CASE call' = call
  BY <1>1, <1>3, NothingMoves
<1>4. CASE call' # call
  <2>1. PICK t, r : call' = [call EXCEPT ![Chain] =
           [Idle EXCEPT !.op = "prompt", !.thread = t, !.req = r, !.at = "prompt"]]
    BY <1>2, <1>4
  <2>2. PICK o : o = [Idle EXCEPT !.op = "prompt", !.thread = t, !.req = r, !.at = "prompt"]
    OBVIOUS
  <2>3. IsCall(o) /\ o.op = "prompt"
    BY <2>2, PromptCall
  <2>4. Puts(Chain, o) /\ o.op # "send"
    BY <2>1, <2>2, <2>3 DEF Puts
  <2> QED
    BY <1>1, <2>4, CallMoves
<1> QED
  BY <1>3, <1>4

LEMMA ChainStepInv ==
  ASSUME Inv, ChainStep
  PROVE  Inv'
<1>1. CASE HandleEnd
  BY <1>1, NothingMoves DEF HandleEnd, runtime
<1>2. CASE IgnoreRequest
  BY <1>2, NothingMoves DEF IgnoreRequest, runtime
<1>3. CASE AnswerAtOnce
  <2>1. PICK t, r : Enter(Chain, AnswerOf(t, r, FALSE))
    BY <1>3 DEF AnswerAtOnce
  <2>2. UNCHANGED <<owner, link, turn, open, thread>>
    BY <1>3 DEF AnswerAtOnce, runtime
  <2> QED
    BY <2>1, <2>2, AnswerCall, EnterInv
<1>4. CASE Prompt
  BY <1>4, PromptInv
<1>5. CASE Prompted
  <2>1. Puts(Chain, Idle) /\ UNCHANGED <<owner, link, turn, open, thread>>
    BY <1>5, IdleCall DEF Prompted, Puts, runtime
  <2> QED
    BY <2>1, IdleCall, CallMoves
<1> QED
  BY <1>1, <1>2, <1>3, <1>4, <1>5 DEF ChainStep

LEMMA PromptFailsInv ==
  ASSUME Inv, PromptFails
  PROVE  Inv'
<1>1. UNCHANGED <<owner, link, turn, open, thread>>
  BY DEF PromptFails, runtime
<1>2. \/ \E t, r : Enter(Chain, AnswerOf(t, r, FALSE))
      \/ call' = [call EXCEPT ![Chain] = Idle]
  BY DEF PromptFails
<1>3. CASE \E t, r : Enter(Chain, AnswerOf(t, r, FALSE))
  BY <1>1, <1>3, AnswerCall, EnterInv
<1>4. CASE call' = [call EXCEPT ![Chain] = Idle]
  <2>1. Puts(Chain, Idle)
    BY <1>4, IdleCall DEF Puts
  <2> QED
    BY <1>1, <2>1, IdleCall, CallMoves
<1> QED
  BY <1>2, <1>3, <1>4

LEMMA RestartInv ==
  ASSUME Inv, Restart
  PROVE  Inv'
<1>1. /\ call' = [c \in Callers |-> Idle]
      /\ turn' = [t \in Threads |-> "none"] /\ open' = [t \in Threads |-> {}]
      /\ thread' = [t \in Threads |-> EmptyThread]
      /\ UNCHANGED <<owner, link>>
  BY DEF Restart
<1>2. Shapes'
  BY <1>1, IdleCall DEF Inv, Shapes, Phases
<1>3. ThreadsGood'
  BY <1>1, EmptyGood DEF ThreadsGood
<1>4. Sends' /\ Owned'
  BY <1>1, IdleCall DEF Sends, Owned
<1> QED
  BY <1>2, <1>3, <1>4 DEF Inv

-----------------------------------------------------------------------------
LEMMA InitInv == Init => Inv
<1> SUFFICES ASSUME Init PROVE Inv
  OBVIOUS
<1>1. Shapes
  <2>1. link \in [Scopes -> 0..NThread]
    BY DEF Init
  <2> QED
    BY <2>1, IdleCall DEF Init, Shapes, Phases
<1>2. ThreadsGood
  BY EmptyGood DEF Init, ThreadsGood
<1>3. Sends /\ Owned
  BY IdleCall DEF Init, Sends, Owned
<1> QED
  BY <1>1, <1>2, <1>3 DEF Inv

LEMMA NextInv == Inv /\ [Next]_vars => Inv'
<1> SUFFICES ASSUME Inv, [Next]_vars PROVE Inv'
  OBVIOUS
<1>1. CASE Next
  BY <1>1, CallStepInv, RequestFailsInv, DispatchInv, UnlinkInv, ExitInv,
     CloseIdleInv, CommandInv, StopInv, ChainStepInv, PromptFailsInv,
     RestartInv, AskInv, SpeakInv, CompleteInv, StalledInv DEF Next
<1>2. CASE UNCHANGED vars
  BY <1>2, NothingMoves DEF vars, runtime, bridge
<1> QED
  BY <1>1, <1>2

LEMMA InvPendingLive == Inv => PendingLive
<1> SUFFICES ASSUME Inv, NEW t \in Threads, turn[t] # "lost"
             PROVE  Waiting(t) \subseteq open[t]
  BY DEF PendingLive
<1>1. Good(thread[t], turn[t], open[t]) /\ turn[t] \in {"none", "running"}
  BY DEF Inv, ThreadsGood, Shapes, Phases
<1>2. Waiting(t) = Offered(thread[t])
  BY DEF Waiting, Offered
<1> QED
  BY <1>1, <1>2 DEF Good

\* What /yes and /no would answer is a request that its turn still waits for,
\* in whatever order the answers, the end of a turn, the next one and the death
\* of a process come (thread-state-store.js, resolveApproval): proved for every
\* number of threads, turns, requests and faults.
THEOREM CodexPendingLive == Spec => []PendingLive
<1>1. Init => Inv
  BY InitInv
<1>2. Inv /\ [Next]_vars => Inv'
  BY NextInv
<1>3. Inv => PendingLive
  BY InvPendingLive
<1> QED
  BY <1>1, <1>2, <1>3, PTL DEF Spec
=============================================================================
