------------------------ MODULE SessionRefreshProofs ------------------------
(***************************************************************************)
(* Theorems about SessionRefresh, for every number of runs, requests,      *)
(* faults, restarts and commands: its type invariant, that a refresh       *)
(* completes only on a good end of its own successor (CompletedIsSettled), *)
(* that a message is redispatched once (RedispatchedOnce), that only a     *)
(* completed request has grace left (GraceOnlyCompleted), that a run is on *)
(* disk as superseded from the step that supersedes it                     *)
(* (SupersededPersisted), and that no event of a successor is missed until *)
(* the operator's command is used (EventsNeverMissed).                     *)
(*                                                                         *)
(* They come in this order: the store's operators; types; what completes a *)
(* request; the runs with a claim on a message; what a step does to one    *)
(* request; the counts; the file and its holders; and the events.          *)
(***************************************************************************)
EXTENDS SessionRefresh, WellFoundedInduction, TLAPS

USE SessionRefreshAssumption DEF Runs, Threads, Requests, None

Files == [Requests -> RequestRecords]

-----------------------------------------------------------------------------
\* The store's operators.

\* Every nonempty set of natural numbers has a least member.
LEMMA LeastNat ==
  ASSUME NEW T \in SUBSET Nat, T # {}
  PROVE  \E x \in T : \A y \in T : x <= y
<1> DEFINE R == {ss \in Nat \X Nat : ss[1] < ss[2]}
<1>1. IsWellFoundedOn(R, Nat)
  BY NatLessThanWellFounded DEF OpToRel
<1>2. \A x, y \in Nat : y < x => <<y, x>> \in R
  OBVIOUS
<1> HIDE DEF R
<1>3. PICK x \in T : \A y \in T : ~(<<y, x>> \in R)
  BY <1>1, WFMin
<1>4. ASSUME NEW y \in T PROVE x <= y
  <2>1. x \in Nat /\ y \in Nat /\ ~(y < x)
    BY <1>2, <1>3
  <2> QED
    BY <2>1
<1> QED
  BY <1>4

\* Every nonempty bounded set of natural numbers has a greatest member.
LEMMA GreatestNat ==
  ASSUME NEW n \in Nat, NEW T \in SUBSET (1..n), T # {}
  PROVE  \E x \in T : \A y \in T : y <= x
<1> DEFINE D == {n - x : x \in T}
<1>1. D \in SUBSET Nat /\ D # {}
  <2>1. \A x \in T : n - x \in Nat
    OBVIOUS
  <2> QED
    BY <2>1
<1>2. PICK d \in D : \A e \in D : d <= e
  BY <1>1, LeastNat
<1>3. PICK x \in T : d = n - x
  BY <1>2
<1>4. ASSUME NEW y \in T PROVE y <= x
  <2>1. n - x <= n - y
    BY <1>2, <1>3
  <2>2. x \in 1..n /\ y \in 1..n
    BY <1>3
  <2> QED
    BY <2>1, <2>2
<1> QED
  BY <1>3, <1>4

\* Latest picks a member of the set.
LEMMA LatestMember ==
  ASSUME NEW S \in SUBSET Requests
  PROVE  /\ S = {} => Latest(S) = None
         /\ S # {} => Latest(S) \in S
         /\ Latest(S) \in 0..NReq
<1>1. CASE S = {}
  BY <1>1 DEF Latest
<1>2. CASE S # {}
  <2>1. \E q \in S : \A p \in S : p <= q
    BY <1>2, GreatestNat
  <2>2. Latest(S) \in S
    BY <1>2, <2>1, Zenon DEF Latest
  <2>3. \A q \in S : q \in 0..NReq
    OBVIOUS
  <2> QED
    BY <1>2, <2>2, <2>3
<1> QED
  BY <1>1, <1>2

\* So does First.
LEMMA FirstMember ==
  ASSUME NEW S \in SUBSET Requests
  PROVE  /\ S # {} => First(S) \in S
         /\ First(S) \in 0..NReq
<1>1. CASE S = {}
  BY <1>1 DEF First
<1>2. CASE S # {}
  <2>1. S \in SUBSET Nat
    OBVIOUS
  <2>2. \E q \in S : \A p \in S : q <= p
    BY <1>2, <2>1, LeastNat
  <2>3. \E q \in S : \A p \in S : p >= q
    BY <2>1, <2>2
  <2>4. First(S) \in S
    BY <1>2, <2>3, Zenon DEF First
  <2>5. \A q \in S : q \in 0..NReq
    OBVIOUS
  <2> QED
    BY <1>2, <2>4, <2>5
<1> QED
  BY <1>1, <1>2

\* The pending request that is found is one of the file, and pending.
LEMMA PendingForMember ==
  ASSUME NEW reqs \in Files, NEW thread
  PROVE  /\ PendingFor(reqs, thread) \in 0..NReq
         /\ PendingFor(reqs, thread) # None =>
              reqs[PendingFor(reqs, thread)].status = "pending"
<1> DEFINE Covers(q) == thread = None \/ reqs[q].old \in {None, thread}
           S == {q \in Requests : reqs[q].status = "pending" /\ Covers(q)}
<1>1. PendingFor(reqs, thread) = Latest(S)
  BY DEF PendingFor
<1>2. S \in SUBSET Requests
  OBVIOUS
<1>3. /\ Latest(S) \in 0..NReq
      /\ S = {} => Latest(S) = None
      /\ S # {} => Latest(S) \in S
  BY <1>2, LatestMember
<1> HIDE DEF Covers
<1>4. \A q \in S : reqs[q].status = "pending"
  OBVIOUS
<1> QED
  BY <1>1, <1>3, <1>4

\* The open request that is found for run r has r as its successor.
LEMMA SuccessorOfMember ==
  ASSUME NEW reqs \in Files, NEW r
  PROVE  /\ SuccessorOf(reqs, r) \in 0..NReq
         /\ SuccessorOf(reqs, r) # None =>
              reqs[SuccessorOf(reqs, r)].successor = r
<1> DEFINE S == {q \in Requests :
                   /\ reqs[q].status \in {"successor_started",
                                          "first_turn_started"}
                   /\ reqs[q].successor = r}
<1>1. SuccessorOf(reqs, r) = Latest(S)
  BY DEF SuccessorOf
<1>2. S \in SUBSET Requests
  OBVIOUS
<1>3. /\ Latest(S) \in 0..NReq
      /\ S = {} => Latest(S) = None
      /\ S # {} => Latest(S) \in S
  BY <1>2, LatestMember
<1>4. \A q \in S : reqs[q].successor = r
  OBVIOUS
<1> HIDE DEF S
<1> QED
  BY <1>1, <1>3, <1>4

\* A change of the file that links no request to a run and completes none.
Harmless(reqs, new) ==
  \A q \in Requests :
    /\ new[q].successor \in {None, reqs[q].successor}
    /\ new[q].status = "completed" =>
         /\ reqs[q].status = "completed"
         /\ new[q].successor = reqs[q].successor

LEMMA HarmlessTwice ==
  ASSUME NEW a, NEW b, NEW c, Harmless(a, b), Harmless(b, c)
  PROVE  Harmless(a, c)
BY DEF Harmless

LEMMA RequestedHarmless ==
  ASSUME NEW reqs \in Files, NEW q, NEW new \in RequestRecords,
         new.successor = None, new.status # "completed"
  PROVE  /\ Requested(reqs, q, new) \in Files
         /\ Harmless(reqs, Requested(reqs, q, new))
<1>1. \A p \in Requests :
        [reqs[p] EXCEPT !.status = "replaced"] \in RequestRecords
  BY DEF Files, RequestRecords, Statuses
<1>2. Requested(reqs, q, new) \in Files
  BY <1>1 DEF Requested, Files
<1>3. \A p \in Requests :
        /\ reqs[p] \in RequestRecords
        /\ [reqs[p] EXCEPT !.status = "replaced"].successor = reqs[p].successor
        /\ [reqs[p] EXCEPT !.status = "replaced"].status = "replaced"
  BY DEF Files, RequestRecords
<1>4. Harmless(reqs, Requested(reqs, q, new))
  BY <1>3 DEF Requested, Harmless
<1> QED
  BY <1>2, <1>4

LEMMA AppliedToHarmless ==
  ASSUME NEW reqs \in Files, NEW q \in Requests, NEW thread \in 0..NRun,
         NEW cause \in 0..NRun, NEW generation \in Nat
  PROVE  /\ AppliedTo(reqs, q, thread, cause, generation) \in Files
         /\ Harmless(reqs, AppliedTo(reqs, q, thread, cause, generation))
<1> DEFINE new == [reqs[q] EXCEPT !.status = "applied",
                     !.old = IF thread # None THEN thread ELSE reqs[q].old,
                     !.cause = cause, !.generation = generation]
<1>1. AppliedTo(reqs, q, thread, cause, generation)
        = [reqs EXCEPT ![q] = new]
  BY DEF AppliedTo, Files, RequestRecords
<1>2. /\ new \in RequestRecords
      /\ new.successor = reqs[q].successor /\ new.status = "applied"
  BY DEF Files, RequestRecords, Statuses, Live
<1> HIDE DEF new
<1> QED
  BY <1>1, <1>2 DEF Files, Harmless

LEMMA RequeuedHarmless ==
  ASSUME NEW reqs \in Files, NEW q \in Requests
  PROVE  /\ Requeued(reqs, q) \in Files
         /\ Harmless(reqs, Requeued(reqs, q))
<1> DEFINE new == [reqs[q] EXCEPT !.status = "pending", !.successor = None,
                     !.generation = @ + 1, !.grace = 0]
<1>1. Requeued(reqs, q) = [reqs EXCEPT ![q] = new]
  BY DEF Requeued, Files, RequestRecords
<1>2. /\ new \in RequestRecords
      /\ new.successor = None /\ new.status = "pending"
  <2>1. reqs[q] \in RequestRecords /\ 0 \in 0..GraceTurns /\ 0 \in 0..NRun
    BY DEF Files
  <2>2. reqs[q].generation + 1 \in Nat
    BY <2>1 DEF RequestRecords
  <2> QED
    BY <2>1, <2>2 DEF RequestRecords, Statuses
<1> HIDE DEF new
<1> QED
  BY <1>1, <1>2 DEF Files, Harmless

LEMMA ReconciledHarmless ==
  ASSUME NEW reqs \in Files
  PROVE  Reconciled(reqs) \in Files /\ Harmless(reqs, Reconciled(reqs))
<1>1. \A q \in Requests :
        LET new == [reqs[q] EXCEPT !.status = "terminal_failed"]
        IN /\ reqs[q] \in RequestRecords /\ new \in RequestRecords
           /\ new.successor = reqs[q].successor
           /\ new.status = "terminal_failed"
  BY DEF Files, RequestRecords, Statuses
<1> QED
  BY <1>1 DEF Reconciled, Files, Harmless

LEMMA GraceUsedHarmless ==
  ASSUME NEW reqs \in Files, NEW thread
  PROVE  GraceUsed(reqs, thread) \in Files
           /\ Harmless(reqs, GraceUsed(reqs, thread))
<1> DEFINE q == GraceOf(reqs, thread)
           S == {p \in Requests : /\ reqs[p].status = "completed"
                                  /\ run[reqs[p].successor].thread = thread}
<1>1. q = Latest(S) /\ S \in SUBSET Requests
  BY DEF GraceOf
<1>2. q \in 0..NReq
  BY <1>1, LatestMember
<1> HIDE DEF q, S
<1>3. CASE q = None \/ GraceUsed(reqs, thread) = reqs
  BY <1>3 DEF GraceUsed, Harmless, q
<1>4. CASE /\ q # None
           /\ reqs[q].grace # 0
           /\ GraceUsed(reqs, thread) = [reqs EXCEPT ![q].grace = @ - 1]
  <2> DEFINE new == [reqs[q] EXCEPT !.grace = @ - 1]
  <2>1. q \in Requests
    BY <1>2, <1>4
  <2>2. GraceUsed(reqs, thread) = [reqs EXCEPT ![q] = new]
    BY <1>4, <2>1 DEF Files, RequestRecords
  <2>3. reqs[q].grace - 1 \in 0..GraceTurns
    BY <1>4, <2>1 DEF Files, RequestRecords
  <2>4. /\ new \in RequestRecords
        /\ new.successor = reqs[q].successor /\ new.status = reqs[q].status
    BY <2>1, <2>3 DEF Files, RequestRecords
  <2> HIDE DEF new
  <2> QED
    BY <2>1, <2>2, <2>4 DEF Files, Harmless
<1> QED
  BY <1>3, <1>4 DEF GraceUsed, q

\* A request that a recovery, a pre-application or a start marks.
LEMMA SupersededHarmless ==
  ASSUME NEW reqs \in Files, NEW q \in Requests, NEW gone \in SUBSET Threads
  PROVE  /\ [reqs EXCEPT ![q].superseded = gone] \in Files
         /\ Harmless(reqs, [reqs EXCEPT ![q].superseded = gone])
<1> DEFINE new == [reqs[q] EXCEPT !.superseded = gone]
<1>1. /\ new \in RequestRecords
      /\ new.successor = reqs[q].successor /\ new.status = reqs[q].status
  BY DEF Files, RequestRecords
<1>2. [reqs EXCEPT ![q].superseded = gone] = [reqs EXCEPT ![q] = new]
  BY DEF Files, RequestRecords
<1> HIDE DEF new
<1> QED
  BY <1>1, <1>2 DEF Files, Harmless

LEMMA PreAppliedHarmless ==
  ASSUME NEW reqs \in Files, NEW q \in Requests
  PROVE  /\ [reqs EXCEPT ![q].preApplied = TRUE] \in Files
         /\ Harmless(reqs, [reqs EXCEPT ![q].preApplied = TRUE])
<1> DEFINE new == [reqs[q] EXCEPT !.preApplied = TRUE]
<1>1. /\ new \in RequestRecords
      /\ new.successor = reqs[q].successor /\ new.status = reqs[q].status
  BY DEF Files, RequestRecords
<1>2. [reqs EXCEPT ![q].preApplied = TRUE] = [reqs EXCEPT ![q] = new]
  BY DEF Files, RequestRecords
<1> HIDE DEF new
<1> QED
  BY <1>1, <1>2 DEF Files, Harmless

LEMMA StartedHarmless ==
  ASSUME NEW reqs \in Files, NEW q \in Requests
  PROVE  /\ [reqs EXCEPT ![q].status = "first_turn_started"] \in Files
         /\ Harmless(reqs, [reqs EXCEPT ![q].status = "first_turn_started"])
<1> DEFINE new == [reqs[q] EXCEPT !.status = "first_turn_started"]
<1>1. /\ new \in RequestRecords
      /\ new.successor = reqs[q].successor /\ new.status # "completed"
  BY DEF Files, RequestRecords, Statuses, Live
<1>2. [reqs EXCEPT ![q].status = "first_turn_started"] = [reqs EXCEPT ![q] = new]
  BY DEF Files, RequestRecords
<1> HIDE DEF new
<1> QED
  BY <1>1, <1>2 DEF Files, Harmless

\* What a recovery saves.
LEMMA RetryHarmless ==
  ASSUME req \in Files, run \in [Runs -> RunRecords],
         NEW r \in Runs, NEW old \in 0..NRun,
         nreq \in 0..NReq, RetryRequest(r, old) \in Requests
  PROVE  /\ RetryRequests(r, old) \in Files
         /\ Harmless(req, RetryRequests(r, old))
<1> DEFINE q == RetryRequest(r, old)
           e == Existing(r)
           new == [NoRequest EXCEPT !.status = "pending", !.old = old,
                     !.cause = run[r].cause, !.generation = 1]
           found == IF StatusOf(e) \in Live \cup {"completed"}
                      THEN Requeued(req, e)
                    ELSE IF q = nreq + 1 THEN Requested(req, q, new)
                    ELSE req
<1>1. StatusOf(e) \in Live \cup {"completed"} => e = q
  BY DEF RetryRequest
<1>2. new \in RequestRecords
  <2>1. run[r].cause \in 0..NRun /\ 0 \in 0..GraceTurns /\ 0 \in 0..NRun
    BY DEF RunRecords
  <2>2. NoRequest \in RequestRecords
    BY DEF NoRequest, RequestRecords, Statuses
  <2> QED
    BY <2>1, <2>2 DEF RequestRecords, Statuses
<1>3. new.successor = None /\ new.status # "completed"
  BY DEF NoRequest
<1> HIDE DEF new
<1>4. found \in Files /\ Harmless(req, found)
  <2>1. CASE StatusOf(e) \in Live \cup {"completed"}
    BY <1>1, <2>1, RequeuedHarmless
  <2>2. CASE StatusOf(e) \notin Live \cup {"completed"} /\ q = nreq + 1
    <3>1. Requested(req, q, new) \in Files /\ Harmless(req, Requested(req, q, new))
      BY <1>2, <1>3, RequestedHarmless
    <3> QED
      BY <2>2, <3>1
  <2>3. CASE StatusOf(e) \notin Live \cup {"completed"} /\ q # nreq + 1
    BY <2>3 DEF Harmless
  <2> QED
    BY <2>1, <2>2, <2>3
<1> DEFINE gone == (found[q].superseded \cup {old}) \ {None}
<1>5. RetryRequests(r, old) = [found EXCEPT ![q].superseded = gone]
  BY <1>4 DEF RetryRequests, Files, new
<1>6. gone \in SUBSET Threads
  <2>1. found[q].superseded \in SUBSET Threads
    BY <1>4 DEF Files, RequestRecords
  <2> QED
    BY <2>1
<1> HIDE DEF q, found, gone
<1>7. q \in Requests
  BY DEF q
<1>8. /\ RetryRequests(r, old) \in Files
      /\ Harmless(found, RetryRequests(r, old))
  <2>1. found \in Files
    BY <1>4
  <2>2. /\ [found EXCEPT ![q].superseded = gone] \in Files
        /\ Harmless(found, [found EXCEPT ![q].superseded = gone])
    BY <1>6, <1>7, <2>1, SupersededHarmless
  <2> QED
    BY <1>5, <2>2
<1> QED
  BY <1>4, <1>8, HarmlessTwice

-----------------------------------------------------------------------------
\* The type invariant.  TypeOK needs to know which runs have been begun, that
\* those have a message, that a run whose request is out has a thread, that a
\* watchdog is set for accepted runs only, and that a message in the buffer is
\* that of a past dispatch.
RunsBegun ==
  \A r \in Runs :
    /\ r > nrun => run[r].stage = "unused"
    /\ run[r].stage # "unused" => run[r].cause \in Runs
    /\ run[r].stage \in {"sending", "accepted"} => run[r].thread \in Threads
    /\ watch[r] # "off" => run[r].stage = "accepted"
    /\ r \in waiting => run[r].stage # "unused"

TypeInv == TypeOK /\ RunsBegun

\* A run that was accepted is still a past run, of the same request.
RunsKept ==
  \A r \in Runs :
    run[r].stage \in {"accepted", "gone"} =>
      run'[r].stage \in {"accepted", "gone"} /\ run'[r].applied = run[r].applied

LEMMA ExistingType ==
  ASSUME TypeOK, NEW r \in Runs
  PROVE  Existing(r) \in 0..NReq
<1> DEFINE carried == IF run[r].applied # None THEN run[r].applied
                      ELSE run[r].request
           S == {q \in Requests : /\ req[q].status \notin {"none", "replaced"}
                                  /\ \/ q = carried
                                     \/ req[q].cause = run[r].cause}
<1>1. Existing(r) = First(S)
  BY DEF Existing
<1>2. S \in SUBSET Requests
  OBVIOUS
<1> HIDE DEF S
<1> QED
  BY <1>1, <1>2, FirstMember

LEMMA OldThreadType ==
  ASSUME TypeOK, NEW r \in Runs, NEW t \in 0..NRun
  PROVE  OldThread(r, t) \in 0..NRun
<1>1. Existing(r) # None => req[Existing(r)].old \in 0..NRun
  <2>1. Existing(r) \in 0..NReq
    BY ExistingType
  <2>2. \A q \in Requests : req[q].old \in 0..NRun
    BY DEF TypeOK, RequestRecords
  <2> QED
    BY <2>1, <2>2
<1>2. session \in 0..NRun
  BY DEF TypeOK
<1> QED
  BY <1>1, <1>2 DEF OldThread

\* What a recovery does to the file.
LEMMA SaveRetryStep ==
  ASSUME TypeOK, NEW r \in Runs, NEW old \in 0..NRun, SaveRetry(r, old)
  PROVE  /\ req' \in Files /\ Harmless(req, req')
         /\ nreq' \in 0..NReq
         /\ RetryRequest(r, old) \in Requests
<1>1. RetryRequest(r, old) \in Requests
  BY DEF SaveRetry
<1>2. /\ req \in Files /\ run \in [Runs -> RunRecords] /\ nreq \in 0..NReq
  BY DEF TypeOK, Files
<1>3. req' = RetryRequests(r, old)
  BY DEF SaveRetry
<1>4. req' \in Files /\ Harmless(req, req')
  BY <1>1, <1>2, <1>3, RetryHarmless
<1>5. \/ nreq' = nreq
      \/ nreq' = nreq + 1 /\ RetryRequest(r, old) = nreq + 1
  BY DEF SaveRetry
<1>6. nreq' \in 0..NReq
  BY <1>1, <1>2, <1>5
<1> QED
  BY <1>1, <1>4, <1>6

\* A request queued under context pressure.
LEMMA PressureStep ==
  ASSUME NEW reqs \in Files, NEW t, session \in 0..NRun, nreq \in 0..NReq,
         PressureOn(reqs, t)
  PROVE  /\ Requested(reqs, nreq + 1, PressureRequest(t)) \in Files
         /\ Harmless(reqs, Requested(reqs, nreq + 1, PressureRequest(t)))
         /\ nreq + 1 \in 0..NReq
<1>1. t \in 0..NRun /\ nreq < NReq
  BY DEF PressureOn
<1>2. NoRequest \in RequestRecords
  BY DEF NoRequest, RequestRecords, Statuses
<1>3. /\ PressureRequest(t) \in RequestRecords
      /\ PressureRequest(t).successor = None
      /\ PressureRequest(t).status # "completed"
  BY <1>1, <1>2 DEF PressureRequest, NoRequest, RequestRecords, Statuses
<1> QED
  BY <1>1, <1>3, RequestedHarmless

\* Every step but Accept and ChainSettle leaves the file's links and
\* completions alone.
LEMMA FileStep ==
  ASSUME TypeInv, Next, ~ChainSettle, \A r \in Runs : ~Accept(r)
  PROVE  req' \in Files /\ Harmless(req, req') /\ nreq' \in 0..NReq
<1>0. /\ TypeOK /\ req \in Files /\ nreq \in 0..NReq /\ session \in 0..NRun
  BY DEF TypeInv, TypeOK, Files
<1> DEFINE Goal == req' \in Files /\ Harmless(req, req') /\ nreq' \in 0..NReq
<1>1. ASSUME req' = GraceUsed(req, session), nreq' = nreq PROVE Goal
  BY <1>0, <1>1, GraceUsedHarmless
<1>2. ASSUME UNCHANGED <<req, nreq>> PROVE Goal
  BY <1>0, <1>2 DEF Harmless
<1>3. CASE FreshDispatch
  BY <1>1, <1>3 DEF FreshDispatch
<1>4. CASE PrepareBuffered
  BY <1>1, <1>4 DEF PrepareBuffered
<1>5. ASSUME NEW r \in Runs, DispatchStep(r) PROVE Goal
  <2>0. run[r] \in RunRecords
    BY <1>0 DEF TypeOK
  <2>1. CASE FlushAgain(r)
    BY <1>1, <2>1 DEF FlushAgain
  <2>2. CASE Apply(r)
    <3> DEFINE p == PendingFor(req, session)
               generation == IF run[r].fresh THEN req[p].generation
                             ELSE run[r].generation
    <3>1. nreq' = nreq
      BY <2>2 DEF Apply
    <3>2. CASE p = None
      <4>1. req' = req
        BY <2>2, <3>2 DEF Apply
      <4> QED
        BY <1>2, <3>1, <4>1
    <3>3. CASE p # None
      <4>1. p \in Requests
        BY <1>0, <3>3, PendingForMember
      <4>2. generation \in Nat /\ run[r].cause \in 0..NRun
        BY <1>0, <2>0, <4>1 DEF Files, RequestRecords, RunRecords
      <4>3. req' = AppliedTo(req, p, session, run[r].cause, generation)
        BY <2>2, <3>3 DEF Apply
      <4> HIDE DEF p, generation
      <4> QED
        BY <1>0, <3>1, <4>1, <4>2, <4>3, AppliedToHarmless
    <3> QED
      BY <3>2, <3>3
  <2>3. CASE OpenThread(r)
    BY <1>2, <2>3 DEF OpenThread
  <2>4. CASE Refuse(r)
    BY <1>2, <2>4 DEF Refuse
  <2>5. CASE TransportFailNoRetry(r)
    BY <1>2, <2>5 DEF TransportFailNoRetry
  <2>6. CASE TransportFailThrow(r)
    <3>1. SaveRetry(r, None)
      BY <2>6 DEF TransportFailThrow
    <3> QED
      BY <1>0, <3>1, SaveRetryStep
  <2>7. CASE TransportFailRecover(r)
    <3>1. SaveRetry(r, OldThread(r, session))
      BY <2>7 DEF TransportFailRecover
    <3> QED
      BY <1>0, <3>1, OldThreadType, SaveRetryStep
  <2> QED
    BY <1>5, <2>1, <2>2, <2>3, <2>4, <2>5, <2>6, <2>7 DEF DispatchStep
<1>6. ASSUME NEW r \in Runs, WatchStep(r) PROVE Goal
  <2>1. CASE FirstEventTimeout(r)
    BY <1>2, <2>1 DEF FirstEventTimeout, disk
  <2>2. CASE FirstEventNotice(r)
    BY <1>2, <2>2 DEF FirstEventNotice, disk
  <2>3. CASE FirstEventSupersede(r)
    <3>1. SaveRetry(r, run[r].thread)
      BY <2>3 DEF FirstEventSupersede
    <3>2. run[r].thread \in 0..NRun
      BY <1>0 DEF TypeOK, RunRecords
    <3> QED
      BY <1>0, <3>1, <3>2, SaveRetryStep
  <2>4. CASE FirstEventRequeue(r)
    BY <1>1, <1>2, <2>4 DEF FirstEventRequeue
  <2> QED
    BY <1>6, <2>1, <2>2, <2>3, <2>4 DEF WatchStep
<1>7. ASSUME NEW r \in Runs, RuntimeStep(r) PROVE Goal
  <2>1. CASE TurnStarted(r)
    <3> DEFINE q == SuccessorOf(req, r)
    <3>1. nreq' = nreq
      BY <2>1 DEF TurnStarted
    <3>2. \/ req' = req
          \/ /\ q # None
             /\ req' = [req EXCEPT ![q].status = "first_turn_started"]
      BY <2>1 DEF TurnStarted
    <3>3. q \in 0..NReq
      BY <1>0, SuccessorOfMember
    <3> HIDE DEF q
    <3> QED
      BY <1>0, <1>2, <3>1, <3>2, <3>3, StartedHarmless
  <2>2. CASE TurnOutput(r)
    <3> DEFINE t == run[r].thread
    <3>1. \/ UNCHANGED <<nreq, req>>
          \/ /\ PressureOn(req, t)
             /\ nreq' = nreq + 1
             /\ req' = Requested(req, nreq + 1, PressureRequest(t))
      BY <2>2 DEF TurnOutput
    <3> HIDE DEF t
    <3> QED
      BY <1>0, <1>2, <3>1, PressureStep
  <2>3. CASE TurnEnded(r)
    BY <1>2, <2>3 DEF TurnEnded, disk
  <2> QED
    BY <1>7, <2>1, <2>2, <2>3 DEF RuntimeStep
<1>8. CASE ChainDeliver
  BY <1>2, <1>8 DEF ChainDeliver, disk
<1>9. CASE MaintenanceRequest
  <2> DEFINE new == [NoRequest EXCEPT !.status = "pending", !.old = session]
             middle == Reconciled(req)
  <2>1. nreq < NReq /\ nreq' = nreq + 1
        /\ req' = Requested(middle, nreq + 1, new)
    BY <1>9 DEF MaintenanceRequest
  <2>2. middle \in Files /\ Harmless(req, middle)
    BY <1>0, ReconciledHarmless
  <2>3. NoRequest \in RequestRecords
    BY DEF NoRequest, RequestRecords, Statuses
  <2>4. /\ new \in RequestRecords
        /\ new.successor = None /\ new.status # "completed"
    BY <1>0, <2>3 DEF NoRequest, RequestRecords, Statuses
  <2> HIDE DEF new, middle
  <2>5. req' \in Files /\ Harmless(middle, req')
    BY <2>1, <2>2, <2>4, RequestedHarmless
  <2> QED
    BY <1>0, <2>1, <2>2, <2>5, HarmlessTwice
<1>10. CASE NewCommand
  BY <1>2, <1>10 DEF NewCommand
<1>11. CASE Restart
  <2> DEFINE middle == Reconciled(req)
  <2>1. \/ req' = middle /\ nreq' = nreq
        \/ /\ PressureOn(middle, session)
           /\ nreq' = nreq + 1
           /\ req' = Requested(middle, nreq + 1, PressureRequest(session))
    BY <1>11 DEF Restart
  <2>2. middle \in Files /\ Harmless(req, middle)
    BY <1>0, ReconciledHarmless
  <2> HIDE DEF middle
  <2>3. CASE req' = middle /\ nreq' = nreq
    BY <1>0, <2>2, <2>3
  <2>4. CASE /\ PressureOn(middle, session)
             /\ nreq' = nreq + 1
             /\ req' = Requested(middle, nreq + 1, PressureRequest(session))
    <3>1. req' \in Files /\ Harmless(middle, req') /\ nreq' \in 0..NReq
      BY <1>0, <2>2, <2>4, PressureStep
    <3> QED
      BY <2>2, <3>1, HarmlessTwice
  <2> QED
    BY <2>1, <2>3, <2>4
<1> QED
  BY <1>3, <1>4, <1>5, <1>6, <1>7, <1>8, <1>9, <1>10, <1>11 DEF Next

-----------------------------------------------------------------------------
\* The runs.

WatchStates == {"off", "armed", "typing", "cancelling"}

\* What holds of the runs after a step.
RunsGood ==
  /\ run' \in [Runs -> RunRecords] /\ nrun' \in 0..NRun
  /\ watch' \in [Runs -> WatchStates]
  /\ RunsBegun' /\ RunsKept

LEMMA BeginStep ==
  ASSUME TypeInv,
         NEW runs \in [Runs -> RunRecords], NEW new \in RunRecords,
         new.cause \in Runs, Begin(runs, new),
         \A q \in Runs : q \in waiting' =>
           q \in waiting \/ run[q].stage # "unused",
         \A q \in Runs : \/ runs[q] = run[q]
                         \/ /\ runs[q].stage = "lost"
                            /\ run[q].stage \in {"opening", "sending"}
                            /\ runs[q].cause = run[q].cause
                            /\ q <= nrun,
         watch' \in [Runs -> WatchStates],
         \A q \in Runs : watch'[q] # "off" => watch[q] # "off"
  PROVE  RunsGood
<1> DEFINE begun == [new EXCEPT !.stage = "typing"]
<1>1. /\ nrun \in Nat /\ nrun + 1 \in Runs /\ nrun' = nrun + 1
      /\ run' = [runs EXCEPT ![nrun + 1] = begun]
  <2>1. nrun \in 0..NRun
    BY DEF TypeInv, TypeOK
  <2>2. nrun < NRun /\ nrun' = nrun + 1 /\ run' = [runs EXCEPT ![nrun + 1] = begun]
    BY Zenon DEF Begin
  <2>3. nrun \in Nat /\ nrun + 1 \in Runs
    BY <2>1, <2>2
  <2> QED
    BY <2>2, <2>3, Zenon
<1>2. /\ begun \in RunRecords /\ begun.stage = "typing"
      /\ begun.cause \in Runs
  BY DEF RunRecords, RunStages
<1> HIDE DEF begun
<1>3. /\ run' \in [Runs -> RunRecords] /\ run'[nrun + 1] = begun
      /\ \A q \in Runs : q # nrun + 1 => run'[q] = runs[q]
  BY <1>1, <1>2
<1>4. run[nrun + 1].stage = "unused" /\ watch[nrun + 1] = "off"
  BY <1>1 DEF TypeInv, RunsBegun
<1>5. RunsBegun'
  BY <1>1, <1>2, <1>3, <1>4 DEF TypeInv, RunsBegun
<1>6. RunsKept
  BY <1>3, <1>4 DEF RunsKept
<1> QED
  BY <1>1, <1>3, <1>5, <1>6 DEF RunsGood

LEMMA UpdateStep ==
  ASSUME TypeInv,
         NEW r \in Runs,
         run' \in [Runs -> RunRecords], nrun' = nrun,
         \A q \in Runs : q # r => run'[q] = run[q],
         run[r].stage # "unused", run'[r].stage # "unused",
         run'[r].cause = run[r].cause,
         run'[r].stage \in {"sending", "accepted"} => run'[r].thread \in Threads,
         run[r].stage \in {"accepted", "gone"} =>
           run'[r].stage = run[r].stage /\ run'[r].applied = run[r].applied,
         watch' \in [Runs -> WatchStates],
         \A q \in Runs : watch'[q] # "off" =>
           watch[q] # "off" \/ (q = r /\ run'[r].stage = "accepted"),
         \A q \in Runs : q \in waiting' =>
           q \in waiting \/ run[q].stage # "unused"
  PROVE  RunsGood
<1>1. nrun' \in 0..NRun
  BY DEF TypeInv, TypeOK
<1>2. RunsBegun'
  BY DEF TypeInv, RunsBegun
<1>3. RunsKept
  BY DEF RunsKept
<1> QED
  BY <1>1, <1>2, <1>3 DEF RunsGood

\* The update of a run whose dispatch is under way.
LEMMA UpdateQuiet ==
  ASSUME TypeInv,
         NEW r \in Runs, NEW new \in RunRecords,
         run' = [run EXCEPT ![r] = new], nrun' = nrun, watch' = watch,
         waiting' \subseteq waiting \cup {r},
         run[r].stage \in {"typing", "opening", "sending"},
         new.stage \in {"opening", "sending", "refused", "lost"},
         new.cause = run[r].cause,
         new.stage = "sending" => new.thread \in Threads
  PROVE  RunsGood
<1>1. /\ run' \in [Runs -> RunRecords] /\ run'[r] = new
      /\ \A q \in Runs : q # r => run'[q] = run[q]
      /\ watch' \in [Runs -> WatchStates]
  BY DEF TypeInv, TypeOK, WatchStates
<1>2. /\ \A q \in Runs : watch'[q] # "off" => watch[q] # "off"
      /\ \A q \in Runs : q \in waiting' =>
           q \in waiting \/ run[q].stage # "unused"
  OBVIOUS
<1>3. RunsBegun'
  BY <1>1, <1>2 DEF TypeInv, RunsBegun
<1>4. RunsKept
  BY <1>1 DEF RunsKept
<1>5. nrun' \in 0..NRun
  BY DEF TypeInv, TypeOK
<1> QED
  BY <1>1, <1>3, <1>4, <1>5 DEF RunsGood

\* The record of a new dispatch.
LEMMA NewRunType ==
  ASSUME NEW rec \in RunRecords, NEW cause \in 0..NRun,
         NEW fresh \in BOOLEAN, NEW kept \in BOOLEAN
  PROVE  /\ [rec EXCEPT !.cause = cause, !.fresh = fresh, !.kept = kept]
              \in RunRecords
         /\ [rec EXCEPT !.cause = cause, !.fresh = fresh, !.kept = kept].cause
              = cause
BY DEF RunRecords

\* The record of a redispatch.
LEMMA RedispatchType ==
  ASSUME NEW rec \in RunRecords, NEW q \in 0..NReq, NEW kept \in BOOLEAN,
         NEW generation \in Nat
  PROVE  /\ [rec EXCEPT !.request = q, !.kept = kept,
                         !.generation = generation] \in RunRecords
         /\ [rec EXCEPT !.request = q, !.kept = kept,
                         !.generation = generation].cause = rec.cause
BY DEF RunRecords

\* What a message carries when it is dispatched again.
LEMMA AgainType ==
  ASSUME TypeInv, NEW r \in Runs, run[r].stage # "unused"
  PROVE  Again(r) \in RunRecords /\ Again(r).cause \in Runs
<1>1. run[r] \in RunRecords
  BY DEF TypeInv, TypeOK
<1>2. NoRun \in RunRecords
  BY DEF NoRun, RunRecords, RunStages
<1>3. Again(r) \in RunRecords /\ Again(r).cause = run[r].cause
  BY <1>1, <1>2 DEF Again, RunRecords
<1> QED
  BY <1>3 DEF TypeInv, RunsBegun

LEMMA ClearWatchType ==
  ASSUME TypeOK, NEW t
  PROVE  /\ ClearWatch(t) \in [Runs -> WatchStates]
         /\ \A q \in Runs : ClearWatch(t)[q] # "off" => watch[q] # "off"
BY DEF TypeOK, ClearWatch, WatchStates

LEMMA RunStep ==
  ASSUME TypeInv, Next
  PROVE  RunsGood
<1>0. /\ TypeOK /\ RunsBegun
      /\ run \in [Runs -> RunRecords] /\ watch \in [Runs -> WatchStates]
      /\ req \in Files /\ session \in 0..NRun
  BY DEF TypeInv, TypeOK, WatchStates, Files
<1> NoRun \in RunRecords
  BY DEF NoRun, RunRecords, RunStages
<1>1. ASSUME UNCHANGED <<nrun, run, waiting>>,
             watch' \in [Runs -> WatchStates],
             \A q \in Runs : watch'[q] # "off" => watch[q] # "off"
      PROVE  RunsGood
  <2>1. RunsBegun'
    BY <1>0, <1>1 DEF RunsBegun
  <2>2. RunsKept
    BY <1>1 DEF RunsKept
  <2>3. run' \in [Runs -> RunRecords] /\ nrun' \in 0..NRun
    BY <1>0, <1>1 DEF TypeOK
  <2> QED
    BY <1>1, <2>1, <2>2, <2>3 DEF RunsGood
<1>2. CASE FreshDispatch
  <2>1. PICK fresh \in BOOLEAN, kept \in BOOLEAN :
          Begin(run, [NoRun EXCEPT !.cause = nrun + 1, !.fresh = fresh,
                                   !.kept = kept])
    BY <1>2 DEF FreshDispatch
  <2> DEFINE new == [NoRun EXCEPT !.cause = nrun + 1, !.fresh = fresh,
                                  !.kept = kept]
  <2>2. nrun + 1 \in Runs /\ nrun + 1 \in 0..NRun
    BY <1>0, <2>1 DEF Begin, TypeOK
  <2>3. new \in RunRecords /\ new.cause = nrun + 1
    BY <1>0, <2>2, NewRunType
  <2>4. Begin(run, new)
    BY <2>1
  <2> HIDE DEF new
  <2>5. UNCHANGED <<waiting, watch>>
    BY <1>2 DEF FreshDispatch
  <2> QED
    BY <1>0, <2>2, <2>3, <2>4, <2>5, BeginStep
<1>3. CASE PrepareBuffered \/ ChainDeliver \/ ChainSettle
             \/ MaintenanceRequest \/ NewCommand
  <2>1. UNCHANGED <<nrun, run, waiting, watch>>
    BY <1>3 DEF PrepareBuffered, ChainDeliver, ChainSettle,
                MaintenanceRequest, NewCommand, memory
  <2> QED
    BY <1>0, <1>1, <2>1
<1>4. ASSUME NEW r \in Runs, DispatchStep(r) PROVE RunsGood
  <2>0. run[r] \in RunRecords
    BY <1>0
  <2>1. CASE FlushAgain(r)
    <3>1. r \in waiting /\ Begin(run, Again(r)) /\ UNCHANGED watch
          /\ waiting' = waiting \ {r}
      BY <2>1 DEF FlushAgain
    <3>2. Again(r) \in RunRecords /\ Again(r).cause \in Runs
      BY <1>0, <3>1, AgainType DEF RunsBegun
    <3> QED
      BY <1>0, <3>1, <3>2, BeginStep
  <2>2. CASE Apply(r)
    <3> DEFINE p == PendingFor(req, session)
               generation == IF run[r].fresh THEN req[p].generation
                             ELSE run[r].generation
               A == [run[r] EXCEPT !.stage = "opening"]
               B == [run[r] EXCEPT !.stage = "opening", !.applied = p,
                                   !.generation = generation]
    <3>1. /\ run[r].stage = "typing"
          /\ UNCHANGED <<nrun, waiting, watch>>
      BY <2>2 DEF Apply
    <3>2. CASE run' = [run EXCEPT ![r] = A]
      <4>1. A \in RunRecords /\ A.stage = "opening" /\ A.cause = run[r].cause
        BY <2>0 DEF RunRecords, RunStages
      <4> HIDE DEF A
      <4> QED
        BY <1>0, <3>1, <3>2, <4>1, UpdateQuiet
    <3>3. CASE p # None /\ run' = [run EXCEPT ![r] = B]
      <4>1. p \in Requests
        BY <1>0, <3>3, PendingForMember
      <4>2. generation \in Nat
        BY <1>0, <2>0, <4>1 DEF TypeOK, RequestRecords, RunRecords
      <4>3. p \in 0..NReq
        BY <4>1
      <4> HIDE DEF p, generation
      <4>4. B \in RunRecords /\ B.stage = "opening" /\ B.cause = run[r].cause
        BY <2>0, <4>2, <4>3 DEF RunRecords, RunStages
      <4> HIDE DEF B
      <4> QED
        BY <1>0, <3>1, <3>3, <4>4, UpdateQuiet
    <3>4. \/ run' = [run EXCEPT ![r].stage = "opening"]
          \/ /\ p # None
             /\ run' = [run EXCEPT ![r].stage = "opening", ![r].applied = p,
                                   ![r].generation = generation]
      BY <2>2 DEF Apply
    <3>5. \/ run' = [run EXCEPT ![r] = A]
          \/ p # None /\ run' = [run EXCEPT ![r] = B]
      <4> HIDE DEF p, generation
      <4> QED
        BY <1>0, <2>0, <3>4 DEF RunRecords
    <3> QED
      BY <3>2, <3>3, <3>5
  <2>3. CASE OpenThread(r)
    <3>1. /\ run[r].stage = "opening"
          /\ UNCHANGED <<nrun, waiting, watch>>
      BY <2>3 DEF OpenThread
    <3>2. PICK t \in {r} \cup ({session} \ {None}) :
            run' = [run EXCEPT ![r].stage = "sending", ![r].thread = t]
      BY <2>3 DEF OpenThread
    <3> DEFINE new == [run[r] EXCEPT !.stage = "sending", !.thread = t]
    <3>3. t \in Threads /\ t \in 0..NRun
      BY <1>0, <3>2
    <3>4. /\ new \in RunRecords /\ new.stage = "sending"
          /\ new.thread = t /\ new.cause = run[r].cause
      BY <2>0, <3>3 DEF RunRecords, RunStages
    <3>5. run' = [run EXCEPT ![r] = new]
      BY <1>0, <2>0, <3>2 DEF RunRecords
    <3> HIDE DEF new
    <3> QED
      BY <1>0, <3>1, <3>3, <3>4, <3>5, UpdateQuiet
  <2>4. CASE Accept(r)
    <3> DEFINE new == [run[r] EXCEPT !.stage = "accepted"]
    <3>1. /\ run[r].stage = "sending" /\ UNCHANGED <<nrun, waiting>>
          /\ watch' = [ClearWatch(run[r].thread) EXCEPT ![r] = "armed"]
          /\ run' = [run EXCEPT ![r].stage = "accepted"]
      BY <2>4 DEF Accept
    <3>2. /\ new \in RunRecords /\ new.stage = "accepted"
          /\ new.cause = run[r].cause /\ new.thread \in Threads
      BY <1>0, <2>0, <3>1 DEF RunRecords, RunStages, RunsBegun
    <3>3. run' = [run EXCEPT ![r] = new]
      BY <1>0, <2>0, <3>1 DEF RunRecords
    <3>4. /\ watch' \in [Runs -> WatchStates]
          /\ \A q \in Runs : q # r /\ watch'[q] # "off" => watch[q] # "off"
      BY <1>0, <3>1, ClearWatchType DEF WatchStates
    <3> HIDE DEF new
    <3>5. /\ run' \in [Runs -> RunRecords] /\ run'[r] = new
          /\ \A q \in Runs : q # r => run'[q] = run[q]
      BY <1>0, <3>2, <3>3
    <3> QED
      BY <1>0, <3>1, <3>2, <3>4, <3>5, UpdateStep
  <2>5. CASE Refuse(r)
    <3> DEFINE new == [run[r] EXCEPT !.stage = "refused"]
    <3>1. /\ run[r].stage \in {"opening", "sending"}
          /\ UNCHANGED <<nrun, watch>>
          /\ run' = [run EXCEPT ![r].stage = "refused"]
          /\ waiting' \subseteq waiting \cup {r}
      BY <2>5 DEF Refuse
    <3>2. /\ new \in RunRecords /\ new.stage = "refused"
          /\ new.cause = run[r].cause
      BY <2>0 DEF RunRecords, RunStages
    <3>3. run' = [run EXCEPT ![r] = new]
      BY <1>0, <2>0, <3>1 DEF RunRecords
    <3> HIDE DEF new
    <3> QED
      BY <1>0, <3>1, <3>2, <3>3, UpdateQuiet
  <2>6. CASE TransportFailNoRetry(r) \/ TransportFailThrow(r)
    <3> DEFINE new == [run[r] EXCEPT !.stage = "lost"]
    <3>1. /\ run[r].stage \in {"opening", "sending"}
          /\ UNCHANGED <<nrun, watch>>
          /\ run' = [run EXCEPT ![r].stage = "lost"]
          /\ waiting' \subseteq waiting \cup {r}
      BY <2>6 DEF TransportFailNoRetry, TransportFailThrow, Failed
    <3>2. /\ new \in RunRecords /\ new.stage = "lost"
          /\ new.cause = run[r].cause
      BY <2>0 DEF RunRecords, RunStages
    <3>3. run' = [run EXCEPT ![r] = new]
      BY <1>0, <2>0, <3>1 DEF RunRecords
    <3> HIDE DEF new
    <3> QED
      BY <1>0, <3>1, <3>2, <3>3, UpdateQuiet
  <2>7. CASE TransportFailRecover(r)
    <3> DEFINE old == OldThread(r, session)
               q == RetryRequest(r, old)
               runs == [run EXCEPT ![r].stage = "lost"]
               lost == [run[r] EXCEPT !.stage = "lost"]
               New(kept) == [Again(r) EXCEPT !.request = q, !.kept = kept,
                               !.generation = AtLeastOne(req'[q].generation)]
    <3>1. /\ run[r].stage \in {"opening", "sending"}
          /\ SaveRetry(r, old)
          /\ Begin(runs, New(~run[r].kept))
          /\ UNCHANGED watch
          /\ waiting' \subseteq waiting \cup {r}
      BY <2>7 DEF TransportFailRecover
    <3>2. req' \in Files /\ q \in Requests
      BY <1>0, <3>1, OldThreadType, SaveRetryStep
    <3>3. AtLeastOne(req'[q].generation) \in Nat
      <4>1. req'[q].generation \in Nat
        BY <3>2 DEF Files, RequestRecords
      <4> HIDE DEF q
      <4> QED
        BY <4>1 DEF AtLeastOne
    <3>4. Again(r) \in RunRecords /\ Again(r).cause \in Runs
      BY <1>0, <3>1, AgainType
    <3>5. PICK kept \in BOOLEAN : Begin(runs, New(kept))
      <4> HIDE DEF New
      <4> QED
        BY <3>1
    <3> DEFINE new == New(kept)
    <3>10. new \in RunRecords /\ new.cause = Again(r).cause
      <4> DEFINE generation == AtLeastOne(req'[q].generation)
      <4>1. q \in 0..NReq /\ generation \in Nat
        BY <3>2, <3>3
      <4>2. new = [Again(r) EXCEPT !.request = q, !.kept = kept,
                     !.generation = generation]
        OBVIOUS
      <4> HIDE DEF q, generation, new
      <4>3. PICK rec \in RunRecords : rec = Again(r)
        BY <3>4
      <4>4. kept \in BOOLEAN
        BY <3>5
      <4>5. new = [rec EXCEPT !.request = q, !.kept = kept,
                     !.generation = generation]
        BY <4>2, <4>3
      <4>6. new \in RunRecords /\ new.cause = rec.cause
        BY <4>1, <4>4, <4>5 DEF RunRecords
      <4> QED
        BY <4>3, <4>6
    <3>6. lost \in RunRecords /\ lost.stage = "lost" /\ lost.cause = run[r].cause
      BY <2>0 DEF RunRecords, RunStages
    <3>7. runs = [run EXCEPT ![r] = lost]
      BY <1>0, <2>0 DEF RunRecords
    <3>8. r <= nrun
      BY <1>0, <3>1 DEF TypeOK, RunsBegun
    <3> HIDE DEF new, lost, runs, q, old
    <3>11. Begin(runs, new)
      BY <3>5 DEF new
    <3>9. /\ runs \in [Runs -> RunRecords] /\ runs[r] = lost
          /\ \A p \in Runs : p # r => runs[p] = run[p]
      BY <1>0, <3>6, <3>7
    <3> QED
      BY <1>0, <3>1, <3>4, <3>6, <3>8, <3>9, <3>10, <3>11, BeginStep
  <2> QED
    BY <1>4, <2>1, <2>2, <2>3, <2>4, <2>5, <2>6, <2>7 DEF DispatchStep
<1>5. ASSUME NEW r \in Runs, WatchStep(r) PROVE RunsGood
  <2>0. run[r] \in RunRecords
    BY <1>0
  <2>1. CASE FirstEventTimeout(r) \/ FirstEventNotice(r)
    <3>1. /\ UNCHANGED <<nrun, run, waiting>> /\ watch[r] # "off"
          /\ \/ watch' = [watch EXCEPT ![r] = "typing"]
             \/ watch' = [watch EXCEPT ![r] = "off"]
      BY <2>1 DEF FirstEventTimeout, FirstEventNotice
    <3> QED
      BY <1>0, <1>1, <3>1 DEF WatchStates
  <2>2. CASE FirstEventSupersede(r)
    <3> DEFINE t == run[r].thread
               q == RetryRequest(r, t)
               new == [run[r] EXCEPT !.retry = q,
                         !.generation = AtLeastOne(req'[q].generation)]
    <3>1. /\ watch[r] = "typing" /\ SaveRetry(r, t)
          /\ watch' = [watch EXCEPT ![r] = "cancelling"]
          /\ run' = [run EXCEPT ![r].retry = q,
                       ![r].generation = AtLeastOne(req'[q].generation)]
          /\ UNCHANGED <<nrun, waiting>>
      BY <2>2 DEF FirstEventSupersede
    <3>2. t \in 0..NRun
      BY <2>0 DEF RunRecords
    <3>3. req' \in Files /\ q \in Requests /\ q \in 0..NReq
      BY <1>0, <3>1, <3>2, SaveRetryStep
    <3>4. AtLeastOne(req'[q].generation) \in Nat
      <4>1. req'[q].generation \in Nat
        BY <3>3 DEF Files, RequestRecords
      <4> HIDE DEF q
      <4> QED
        BY <4>1 DEF AtLeastOne
    <3> HIDE DEF q
    <3>5. /\ new \in RunRecords /\ new.stage = run[r].stage
          /\ new.cause = run[r].cause /\ new.thread = run[r].thread
          /\ new.applied = run[r].applied
      BY <2>0, <3>3, <3>4 DEF RunRecords
    <3>6. run' = [run EXCEPT ![r] = new]
      BY <1>0, <2>0, <3>1 DEF RunRecords
    <3>7. /\ run[r].stage = "accepted" /\ run[r].thread \in Threads
          /\ watch' \in [Runs -> WatchStates]
          /\ \A p \in Runs : watch'[p] # "off" => watch[p] # "off"
      BY <1>0, <3>1 DEF RunsBegun, WatchStates
    <3> HIDE DEF new
    <3>8. /\ run' \in [Runs -> RunRecords] /\ run'[r] = new
          /\ \A p \in Runs : p # r => run'[p] = run[p]
      BY <1>0, <3>5, <3>6
    <3> QED
      BY <1>0, <3>1, <3>5, <3>7, <3>8, UpdateStep
  <2>3. CASE FirstEventRequeue(r)
    <3>1. /\ watch[r] = "cancelling"
          /\ watch' = [watch EXCEPT ![r] = "off"]
          /\ \/ UNCHANGED <<nrun, run>> /\ waiting' = waiting \cup {r}
             \/ Begin(run, Again(r)) /\ UNCHANGED waiting
      BY <2>3 DEF FirstEventRequeue
    <3>2. /\ run[r].stage = "accepted"
          /\ watch' \in [Runs -> WatchStates]
          /\ \A q \in Runs : watch'[q] # "off" => watch[q] # "off"
      BY <1>0, <3>1 DEF RunsBegun, WatchStates
    <3>3. CASE UNCHANGED <<nrun, run>> /\ waiting' = waiting \cup {r}
      <4>1. RunsBegun'
        BY <1>0, <3>2, <3>3 DEF RunsBegun
      <4>2. RunsKept
        BY <3>3 DEF RunsKept
      <4>3. run' \in [Runs -> RunRecords] /\ nrun' \in 0..NRun
        BY <1>0, <3>3 DEF TypeOK
      <4> QED
        BY <3>2, <4>1, <4>2, <4>3 DEF RunsGood
    <3>4. CASE Begin(run, Again(r)) /\ UNCHANGED waiting
      <4>1. Again(r) \in RunRecords /\ Again(r).cause \in Runs
        BY <3>2, AgainType
      <4> QED
        BY <1>0, <3>2, <3>4, <4>1, BeginStep
    <3> QED
      BY <3>1, <3>3, <3>4
  <2> QED
    BY <1>5, <2>1, <2>2, <2>3 DEF WatchStep
<1>6. ASSUME NEW r \in Runs, RuntimeStep(r) PROVE RunsGood
  <2>1. /\ UNCHANGED <<nrun, run, waiting>>
        /\ watch' = watch \/ watch' = ClearWatch(run[r].thread)
    BY <1>6 DEF RuntimeStep, TurnStarted, TurnOutput, TurnEnded
  <2> QED
    BY <1>0, <1>1, <2>1, ClearWatchType
<1>7. CASE Restart
  <2>1. /\ watch' = [r \in Runs |-> "off"] /\ waiting' = {} /\ nrun' = nrun
        /\ run' = [r \in Runs |->
                     IF InFlight(r) \/ run[r].stage = "accepted"
                       THEN [run[r] EXCEPT !.stage = "gone"] ELSE run[r]]
    BY <1>7 DEF Restart
  <2>2. \A r \in Runs : LET new == [run[r] EXCEPT !.stage = "gone"]
                       IN /\ new \in RunRecords /\ new.stage = "gone"
                          /\ new.cause = run[r].cause
                          /\ new.applied = run[r].applied
    BY <1>0 DEF RunRecords, RunStages
  <2>3. \A r \in Runs :
          \/ run'[r] = run[r] /\ run[r].stage \notin {"sending", "accepted"}
          \/ /\ run[r].stage # "unused"
             /\ run'[r] \in RunRecords /\ run'[r].stage = "gone"
             /\ run'[r].cause = run[r].cause
             /\ run'[r].applied = run[r].applied
    BY <2>1, <2>2 DEF InFlight
  <2>4. run' \in [Runs -> RunRecords]
    BY <1>0, <2>1, <2>2
  <2> QED
    <3>1. RunsBegun'
      <4>1. ASSUME NEW r \in Runs
            PROVE  /\ r > nrun' => run'[r].stage = "unused"
                   /\ run'[r].stage # "unused" => run'[r].cause \in Runs
                   /\ run'[r].stage \notin {"sending", "accepted"}
                   /\ watch'[r] = "off" /\ r \notin waiting'
        <5>1. nrun' = nrun /\ watch'[r] = "off" /\ r \notin waiting'
          BY <2>1
        <5>2. /\ r > nrun => run[r].stage = "unused"
              /\ run[r].stage # "unused" => run[r].cause \in Runs
          BY <1>0 DEF RunsBegun
        <5> QED
          BY <2>3, <5>1, <5>2
      <4> QED
        BY <4>1 DEF RunsBegun
    <3>2. RunsKept
      BY <2>3 DEF RunsKept
    <3>3. nrun' \in 0..NRun /\ watch' \in [Runs -> WatchStates]
      BY <1>0, <2>1 DEF TypeOK, WatchStates
    <3> QED
      BY <2>4, <3>1, <3>2, <3>3 DEF RunsGood
<1> QED
  BY <1>2, <1>3, <1>4, <1>5, <1>6, <1>7 DEF Next

-----------------------------------------------------------------------------
\* The other variables, and the two steps that FileStep leaves out.

\* What TypeOK says of them.
StoreOK ==
  /\ earlyStarts \in SUBSET Runs /\ earlyOutcomes \in SUBSET Runs
  /\ session \in 0..NRun
GateOK ==
  /\ gate \in BOOLEAN /\ gateThread \in SUBSET Threads
  /\ running \in [Threads -> 0..NRun]
  /\ superseded \in SUBSET Threads /\ usedKeys \in SUBSET Runs
QueueOK ==
  /\ waiting \in SUBSET Runs /\ subscribed \in SUBSET Threads
  /\ events \in Seq(Runs) /\ chain \in 0..NRun
HistoryOK ==
  /\ turn \in [Runs -> {"none", "live", "over"}]
  /\ faults \in Nat /\ restarts \in Nat /\ manual \in Nat
  /\ outcome \in [Runs -> {"none", "good", "bad"}]
RestOK == StoreOK /\ GateOK /\ QueueOK /\ HistoryOK

LEMMA DispatchRest ==
  ASSUME TypeInv, NEW r \in Runs, DispatchStep(r)
  PROVE  RestOK'
<1>0. /\ TypeOK /\ RunsBegun /\ RestOK /\ run[r] \in RunRecords
  BY DEF TypeInv, TypeOK, RestOK, StoreOK, GateOK, QueueOK, HistoryOK
<1>1. CASE FlushAgain(r)
  <2>1. StoreOK'
    BY <1>0, <1>1 DEF FlushAgain, Begin, bounds, RestOK, StoreOK
  <2>2. GateOK'
    BY <1>0, <1>1 DEF FlushAgain, Begin, bounds, RestOK, GateOK
  <2>3. QueueOK'
    BY <1>0, <1>1 DEF FlushAgain, Begin, bounds, RestOK, QueueOK
  <2>4. HistoryOK'
    BY <1>0, <1>1 DEF FlushAgain, Begin, bounds, RestOK, HistoryOK
  <2> QED
    BY <2>1, <2>2, <2>3, <2>4 DEF RestOK
<1>2. CASE Apply(r)
  <2>1. StoreOK'
    BY <1>0, <1>2 DEF Apply, bounds, RestOK, StoreOK
  <2>2. GateOK'
    BY <1>0, <1>2 DEF Apply, bounds, RestOK, GateOK
  <2>3. QueueOK'
    BY <1>0, <1>2 DEF Apply, bounds, RestOK, QueueOK
  <2>4. HistoryOK'
    BY <1>0, <1>2 DEF Apply, bounds, RestOK, HistoryOK
  <2> QED
    BY <2>1, <2>2, <2>3, <2>4 DEF RestOK
<1>3. CASE OpenThread(r)
  <2>1. PICK t \in {r} \cup ({session} \ {None}) :
          session' = t /\ subscribed' = subscribed \cup {t}
    BY <1>3 DEF OpenThread
  <2>2. t \in Threads /\ t \in 0..NRun
    BY <1>0 DEF RestOK, StoreOK
  <2>11. StoreOK'
    BY <1>0, <1>3, <2>1, <2>2 DEF OpenThread, bounds, RestOK, StoreOK
  <2>12. GateOK'
    BY <1>0, <1>3, <2>1, <2>2 DEF OpenThread, bounds, RestOK, GateOK
  <2>13. QueueOK'
    BY <1>0, <1>3, <2>1, <2>2 DEF OpenThread, bounds, RestOK, QueueOK
  <2>14. HistoryOK'
    BY <1>0, <1>3, <2>1, <2>2 DEF OpenThread, bounds, RestOK, HistoryOK
  <2> QED
    BY <2>11, <2>12, <2>13, <2>14 DEF RestOK
<1>4. CASE Accept(r)
  <2>1. run[r].thread \in Threads
    BY <1>0, <1>4 DEF Accept, RunsBegun
  <2>2. /\ gateThread' = gateThread \cup {run[r].thread}
        /\ earlyStarts' \subseteq earlyStarts
        /\ earlyOutcomes' \subseteq earlyOutcomes
    BY <1>4 DEF Accept
  <2>11. StoreOK'
    BY <1>0, <1>4, <2>1, <2>2 DEF Accept, bounds, RestOK, StoreOK
  <2>12. GateOK'
    BY <1>0, <1>4, <2>1, <2>2 DEF Accept, bounds, RestOK, GateOK
  <2>13. QueueOK'
    BY <1>0, <1>4, <2>1, <2>2 DEF Accept, bounds, RestOK, QueueOK
  <2>14. HistoryOK'
    BY <1>0, <1>4, <2>1, <2>2 DEF Accept, bounds, RestOK, HistoryOK
  <2> QED
    BY <2>11, <2>12, <2>13, <2>14 DEF RestOK
<1>5. CASE Refuse(r)
  <2>1. StoreOK'
    BY <1>0, <1>5 DEF Refuse, Fault, RestOK, StoreOK
  <2>2. GateOK'
    BY <1>0, <1>5 DEF Refuse, Fault, RestOK, GateOK
  <2>3. QueueOK'
    BY <1>0, <1>5 DEF Refuse, Fault, RestOK, QueueOK
  <2>4. HistoryOK'
    BY <1>0, <1>5 DEF Refuse, Fault, RestOK, HistoryOK
  <2> QED
    BY <2>1, <2>2, <2>3, <2>4 DEF RestOK
<1>6. CASE TransportFailNoRetry(r)
  <2>1. StoreOK'
    BY <1>0, <1>6 DEF TransportFailNoRetry, Failed, Fault, RestOK, StoreOK
  <2>2. GateOK'
    BY <1>0, <1>6 DEF TransportFailNoRetry, Failed, Fault, RestOK, GateOK
  <2>3. QueueOK'
    BY <1>0, <1>6 DEF TransportFailNoRetry, Failed, Fault, RestOK, QueueOK
  <2>4. HistoryOK'
    BY <1>0, <1>6 DEF TransportFailNoRetry, Failed, Fault, RestOK, HistoryOK
  <2> QED
    BY <2>1, <2>2, <2>3, <2>4 DEF RestOK
<1>7. CASE TransportFailThrow(r)
  <2>1. StoreOK'
    BY <1>0, <1>7 DEF TransportFailThrow, Fault, RestOK, StoreOK
  <2>2. GateOK'
    BY <1>0, <1>7 DEF TransportFailThrow, Fault, RestOK, GateOK
  <2>3. QueueOK'
    BY <1>0, <1>7 DEF TransportFailThrow, Fault, RestOK, QueueOK
  <2>4. HistoryOK'
    BY <1>0, <1>7 DEF TransportFailThrow, Fault, RestOK, HistoryOK
  <2> QED
    BY <2>1, <2>2, <2>3, <2>4 DEF RestOK
<1>8. CASE TransportFailRecover(r)
  <2> DEFINE old == OldThread(r, session)
  <2>1. old \in Threads /\ run[r].cause \in Runs
    BY <1>0, <1>8, OldThreadType DEF TransportFailRecover, RestOK, StoreOK,
                                    RunsBegun
  <2>2. /\ superseded' = superseded \cup {old} /\ session' = None
        /\ gateThread' = gateThread \ {session}
        /\ usedKeys' = usedKeys \cup {run[r].cause}
        /\ waiting' \subseteq waiting \cup {r}
        /\ gate' = TRUE /\ faults' = faults + 1
    BY <1>8 DEF TransportFailRecover, Fault, Begin
  <2>3. UNCHANGED <<earlyStarts, earlyOutcomes, running, subscribed, events,
                    chain, turn, restarts, manual, outcome>>
    BY <1>8 DEF TransportFailRecover
  <2> HIDE DEF old
  <2>11. StoreOK'
    BY <1>0, <2>1, <2>2, <2>3 DEF RestOK, StoreOK
  <2>12. GateOK'
    BY <1>0, <2>1, <2>2, <2>3 DEF RestOK, GateOK
  <2>13. QueueOK'
    BY <1>0, <2>1, <2>2, <2>3 DEF RestOK, QueueOK
  <2>14. HistoryOK'
    BY <1>0, <2>1, <2>2, <2>3 DEF RestOK, HistoryOK
  <2> QED
    BY <2>11, <2>12, <2>13, <2>14 DEF RestOK
<1> QED
  BY <1>1, <1>2, <1>3, <1>4, <1>5, <1>6, <1>7, <1>8 DEF DispatchStep

LEMMA WatchRest ==
  ASSUME TypeInv, NEW r \in Runs, WatchStep(r)
  PROVE  RestOK'
<1>0. /\ TypeOK /\ RunsBegun /\ RestOK
  BY DEF TypeInv, TypeOK, RestOK, StoreOK, GateOK, QueueOK, HistoryOK
<1>1. watch[r] # "off" /\ run[r].thread \in Threads /\ run[r].cause \in Runs
  BY <1>0 DEF WatchStep, FirstEventTimeout, FirstEventNotice,
              FirstEventSupersede, FirstEventRequeue, RunsBegun
<1>2. CASE FirstEventTimeout(r)
  <2>1. StoreOK'
    BY <1>0, <1>2 DEF FirstEventTimeout, Fault, disk, RestOK, StoreOK
  <2>2. GateOK'
    BY <1>0, <1>2 DEF FirstEventTimeout, Fault, disk, RestOK, GateOK
  <2>3. QueueOK'
    BY <1>0, <1>2 DEF FirstEventTimeout, Fault, disk, RestOK, QueueOK
  <2>4. HistoryOK'
    BY <1>0, <1>2 DEF FirstEventTimeout, Fault, disk, RestOK, HistoryOK
  <2> QED
    BY <2>1, <2>2, <2>3, <2>4 DEF RestOK
<1>3. CASE FirstEventNotice(r)
  <2>1. StoreOK'
    BY <1>0, <1>3 DEF FirstEventNotice, disk, bounds, RestOK, StoreOK
  <2>2. GateOK'
    BY <1>0, <1>3 DEF FirstEventNotice, disk, bounds, RestOK, GateOK
  <2>3. QueueOK'
    BY <1>0, <1>3 DEF FirstEventNotice, disk, bounds, RestOK, QueueOK
  <2>4. HistoryOK'
    BY <1>0, <1>3 DEF FirstEventNotice, disk, bounds, RestOK, HistoryOK
  <2> QED
    BY <2>1, <2>2, <2>3, <2>4 DEF RestOK
<1>4. CASE FirstEventSupersede(r)
  <2>1. superseded' = superseded \cup {run[r].thread} /\ session' = None
    BY <1>4 DEF FirstEventSupersede
  <2>2. UNCHANGED <<earlyStarts, earlyOutcomes, gate, gateThread, running,
                    usedKeys, waiting, subscribed, events, chain, turn,
                    bounds, outcome>>
    BY <1>4 DEF FirstEventSupersede
  <2>11. StoreOK'
    BY <1>0, <1>1, <2>1, <2>2 DEF bounds, RestOK, StoreOK
  <2>12. GateOK'
    <3>1. GateOK /\ run[r].thread \in Threads
      BY <1>0, <1>1 DEF RestOK
    <3>2. superseded' \in SUBSET Threads
      BY <2>1, <3>1 DEF GateOK
    <3>3. /\ gate' = gate /\ gateThread' = gateThread
          /\ running' = running /\ usedKeys' = usedKeys
      BY <2>2
    <3> QED
      BY <3>1, <3>2, <3>3 DEF GateOK
  <2>13. QueueOK'
    BY <1>0, <1>1, <2>1, <2>2 DEF bounds, RestOK, QueueOK
  <2>14. HistoryOK'
    BY <1>0, <1>1, <2>1, <2>2 DEF bounds, RestOK, HistoryOK
  <2> QED
    BY <2>11, <2>12, <2>13, <2>14 DEF RestOK
<1>5. CASE FirstEventRequeue(r)
  <2>1. /\ gateThread' = gateThread \ {run[r].thread}
        /\ usedKeys' = usedKeys \cup {run[r].cause}
        /\ gate' \in BOOLEAN /\ waiting' \subseteq waiting \cup {r}
    BY <1>5 DEF FirstEventRequeue, Begin
  <2>2. UNCHANGED <<earlyStarts, earlyOutcomes, session, running, superseded,
                    subscribed, events, chain, turn, bounds, outcome>>
    BY <1>5 DEF FirstEventRequeue
  <2>11. StoreOK'
    BY <1>0, <1>1, <2>1, <2>2 DEF bounds, RestOK, StoreOK
  <2>12. GateOK'
    <3>1. GateOK /\ run[r].thread \in Threads /\ run[r].cause \in Runs
      BY <1>0, <1>1 DEF RestOK
    <3>2. gateThread' \in SUBSET Threads /\ usedKeys' \in SUBSET Runs
      BY <2>1, <3>1 DEF GateOK
    <3>3. running' = running /\ superseded' = superseded /\ gate' \in BOOLEAN
      BY <2>1, <2>2
    <3> QED
      BY <3>1, <3>2, <3>3 DEF GateOK
  <2>13. QueueOK'
    BY <1>0, <1>1, <2>1, <2>2 DEF bounds, RestOK, QueueOK
  <2>14. HistoryOK'
    BY <1>0, <1>1, <2>1, <2>2 DEF bounds, RestOK, HistoryOK
  <2> QED
    BY <2>11, <2>12, <2>13, <2>14 DEF RestOK
<1> QED
  BY <1>2, <1>3, <1>4, <1>5 DEF WatchStep

LEMMA RuntimeRest ==
  ASSUME TypeInv, NEW r \in Runs, RuntimeStep(r)
  PROVE  RestOK'
<1>0. TypeOK /\ RestOK
  BY DEF TypeInv, TypeOK, RestOK, StoreOK, GateOK, QueueOK, HistoryOK
<1>1. CASE TurnStarted(r)
  <2>1. /\ turn' = [turn EXCEPT ![r] = "live"]
        /\ running' = running \/ running' = [running EXCEPT ![run[r].thread] = r]
        /\ earlyStarts' \subseteq earlyStarts \cup {r}
    BY <1>1 DEF TurnStarted
  <2>2. UNCHANGED <<earlyOutcomes, session, gate, gateThread, superseded,
                    usedKeys, waiting, subscribed, events, chain, bounds,
                    outcome>>
    BY <1>1 DEF TurnStarted
  <2>11. StoreOK'
    BY <1>0, <2>1, <2>2 DEF bounds, RestOK, StoreOK
  <2>12. GateOK'
    <3>1. GateOK /\ r \in 0..NRun
      BY <1>0 DEF RestOK
    <3>2. running' \in [Threads -> 0..NRun]
      <4>1. running \in [Threads -> 0..NRun]
        BY <3>1 DEF GateOK
      <4> HIDE DEF Threads
      <4> QED
        BY <2>1, <3>1, <4>1
    <3>3. /\ gate' = gate /\ gateThread' = gateThread
          /\ superseded' = superseded /\ usedKeys' = usedKeys
      BY <2>2
    <3> QED
      BY <3>1, <3>2, <3>3 DEF GateOK
  <2>13. QueueOK'
    BY <1>0, <2>1, <2>2 DEF bounds, RestOK, QueueOK
  <2>14. HistoryOK'
    BY <1>0, <2>1, <2>2 DEF bounds, RestOK, HistoryOK
  <2> QED
    BY <2>11, <2>12, <2>13, <2>14 DEF RestOK
<1>2. CASE TurnOutput(r)
  <2>1. StoreOK'
    BY <1>0, <1>2 DEF TurnOutput, bounds, RestOK, StoreOK
  <2>2. GateOK'
    <3>1. /\ running' = [running EXCEPT ![run[r].thread] = r]
          /\ UNCHANGED <<gate, gateThread, superseded, usedKeys>>
      BY <1>2 DEF TurnOutput
    <3>2. running \in [Threads -> 0..NRun] /\ r \in 0..NRun
      BY <1>0 DEF RestOK, GateOK
    <3>3. running' \in [Threads -> 0..NRun]
      BY <3>1, <3>2
    <3> QED
      BY <1>0, <3>1, <3>3 DEF RestOK, GateOK
  <2>3. QueueOK'
    BY <1>0, <1>2 DEF TurnOutput, bounds, RestOK, QueueOK
  <2>4. HistoryOK'
    BY <1>0, <1>2 DEF TurnOutput, bounds, RestOK, HistoryOK
  <2> QED
    BY <2>1, <2>2, <2>3, <2>4 DEF RestOK
<1>3. CASE TurnEnded(r)
  <2>1. StoreOK'
    BY <1>0, <1>3 DEF TurnEnded, disk, bounds, RestOK, StoreOK
  <2>2. GateOK'
    BY <1>0, <1>3 DEF TurnEnded, disk, bounds, RestOK, GateOK
  <2>3. QueueOK'
    <3>1. UNCHANGED <<waiting, subscribed, chain>>
      BY <1>3 DEF TurnEnded
    <3>2. events' = events \/ events' = Append(events, r)
      BY <1>3 DEF TurnEnded
    <3>3. events' \in Seq(Runs)
      BY <1>0, <3>2 DEF RestOK, QueueOK
    <3> QED
      BY <1>0, <3>1, <3>3 DEF RestOK, QueueOK
  <2>4. HistoryOK'
    BY <1>0, <1>3 DEF TurnEnded, disk, bounds, RestOK, HistoryOK
  <2> QED
    BY <2>1, <2>2, <2>3, <2>4 DEF RestOK
<1> QED
  BY <1>1, <1>2, <1>3 DEF RuntimeStep

LEMMA OtherRest ==
  ASSUME TypeInv,
         \/ FreshDispatch \/ PrepareBuffered \/ ChainDeliver
         \/ MaintenanceRequest \/ NewCommand \/ Restart
  PROVE  RestOK'
<1>0. TypeOK /\ RestOK
  BY DEF TypeInv, TypeOK, RestOK, StoreOK, GateOK, QueueOK, HistoryOK
<1>1. CASE FreshDispatch
  <2>1. StoreOK'
    BY <1>0, <1>1 DEF FreshDispatch, Begin, bounds, RestOK, StoreOK
  <2>2. GateOK'
    BY <1>0, <1>1 DEF FreshDispatch, Begin, bounds, RestOK, GateOK
  <2>3. QueueOK'
    BY <1>0, <1>1 DEF FreshDispatch, Begin, bounds, RestOK, QueueOK
  <2>4. HistoryOK'
    BY <1>0, <1>1 DEF FreshDispatch, Begin, bounds, RestOK, HistoryOK
  <2> QED
    BY <2>1, <2>2, <2>3, <2>4 DEF RestOK
<1>2. CASE PrepareBuffered
  <2>1. StoreOK'
    BY <1>0, <1>2 DEF PrepareBuffered, memory, bounds, RestOK, StoreOK
  <2>2. GateOK'
    BY <1>0, <1>2 DEF PrepareBuffered, memory, bounds, RestOK, GateOK
  <2>3. QueueOK'
    BY <1>0, <1>2 DEF PrepareBuffered, memory, bounds, RestOK, QueueOK
  <2>4. HistoryOK'
    BY <1>0, <1>2 DEF PrepareBuffered, memory, bounds, RestOK, HistoryOK
  <2> QED
    BY <2>1, <2>2, <2>3, <2>4 DEF RestOK
<1>3. CASE ChainDeliver
  <2>1. events' \in Seq(Runs) /\ chain' \in 0..NRun
    BY <1>0, <1>3 DEF ChainDeliver, RestOK, QueueOK
  <2>11. StoreOK'
    BY <1>0, <1>3, <2>1 DEF ChainDeliver, disk, bounds, RestOK, StoreOK
  <2>12. GateOK'
    BY <1>0, <1>3, <2>1 DEF ChainDeliver, disk, bounds, RestOK, GateOK
  <2>13. QueueOK'
    BY <1>0, <1>3, <2>1 DEF ChainDeliver, disk, bounds, RestOK, QueueOK
  <2>14. HistoryOK'
    BY <1>0, <1>3, <2>1 DEF ChainDeliver, disk, bounds, RestOK, HistoryOK
  <2> QED
    BY <2>11, <2>12, <2>13, <2>14 DEF RestOK
<1>4. CASE MaintenanceRequest
  <2>1. StoreOK'
    BY <1>0, <1>4 DEF MaintenanceRequest, memory, RestOK, StoreOK
  <2>2. GateOK'
    BY <1>0, <1>4 DEF MaintenanceRequest, memory, RestOK, GateOK
  <2>3. QueueOK'
    BY <1>0, <1>4 DEF MaintenanceRequest, memory, RestOK, QueueOK
  <2>4. HistoryOK'
    BY <1>0, <1>4 DEF MaintenanceRequest, memory, RestOK, HistoryOK
  <2> QED
    BY <2>1, <2>2, <2>3, <2>4 DEF RestOK
<1>5. CASE NewCommand
  <2>1. StoreOK'
    BY <1>0, <1>5 DEF NewCommand, memory, bounds, RestOK, StoreOK
  <2>2. GateOK'
    BY <1>0, <1>5 DEF NewCommand, memory, bounds, RestOK, GateOK
  <2>3. QueueOK'
    BY <1>0, <1>5 DEF NewCommand, memory, bounds, RestOK, QueueOK
  <2>4. HistoryOK'
    BY <1>0, <1>5 DEF NewCommand, memory, bounds, RestOK, HistoryOK
  <2> QED
    BY <2>1, <2>2, <2>3, <2>4 DEF RestOK
<1>6. CASE Restart
  <2>1. superseded' \in SUBSET Threads
    <3>1. \A q \in Requests : req[q].superseded \in SUBSET Threads
      BY <1>0 DEF TypeOK, RequestRecords
    <3>2. OnDisk \in SUBSET Threads
      BY <3>1 DEF OnDisk
    <3> QED
      BY <1>6, <3>2 DEF Restart
  <2>2. /\ gate' = FALSE /\ gateThread' = {}
        /\ running' = [t \in Threads |-> None]
        /\ usedKeys' = {} /\ waiting' = {}
        /\ subscribed' = {session} \ {None} /\ events' = <<>> /\ chain' = None
        /\ restarts' = restarts + 1
    BY <1>6 DEF Restart
  <2>3. UNCHANGED <<earlyStarts, earlyOutcomes, session, turn, faults, manual,
                    outcome>>
    BY <1>6 DEF Restart
  <2>11. StoreOK'
    BY <1>0, <2>1, <2>2, <2>3 DEF RestOK, StoreOK
  <2>12. GateOK'
    <3>1. running' \in [Threads -> 0..NRun]
      BY <2>2
    <3> QED
      BY <2>1, <2>2, <3>1 DEF GateOK
  <2>13. QueueOK'
    <3>1. subscribed' \in SUBSET Threads
      BY <1>0, <2>2 DEF RestOK, StoreOK
    <3>2. events' \in Seq(Runs) /\ chain' \in 0..NRun /\ waiting' \in SUBSET Runs
      BY <2>2
    <3> QED
      BY <3>1, <3>2 DEF QueueOK
  <2>14. HistoryOK'
    BY <1>0, <2>1, <2>2, <2>3 DEF RestOK, HistoryOK
  <2> QED
    BY <2>11, <2>12, <2>13, <2>14 DEF RestOK
<1> QED
  BY <1>1, <1>2, <1>3, <1>4, <1>5, <1>6

\* Accept links the request its dispatch applied to the run, and completes
\* nothing.
LEMMA AcceptStep ==
  ASSUME TypeInv, NEW r \in Runs, Accept(r)
  PROVE  /\ req' \in Files /\ nreq' \in 0..NReq
         /\ \A q \in Requests :
              \/ req'[q] = req[q]
              \/ /\ q = run[r].applied
                 /\ req'[q].successor = r
                 /\ req'[q].status # "completed"
<1>0. /\ req \in Files /\ nreq \in 0..NReq /\ run[r].applied \in 0..NReq
  BY DEF TypeInv, TypeOK, Files, RunRecords
<1> DEFINE q == run[r].applied
<1>1. /\ nreq' = nreq
      /\ \/ req' = req
         \/ q # None /\ req' = Successor(req, q, r)
  BY DEF Accept
<1> HIDE DEF q
<1>2. CASE req' = req
  BY <1>0, <1>1, <1>2
<1>3. CASE q # None /\ req' = Successor(req, q, r)
  <2> DEFINE status == IF r \in earlyOutcomes THEN "terminal_failed"
                       ELSE IF r \in earlyStarts THEN "first_turn_started"
                       ELSE "successor_started"
             new == [req[q] EXCEPT !.successor = r, !.status = status]
  <2>1. q \in Requests
    BY <1>0, <1>3 DEF q
  <2>2. req' = [req EXCEPT ![q] = new]
    BY <1>0, <1>3, <2>1 DEF Successor, Files, RequestRecords
  <2>3. status \in Statuses /\ status # "completed" /\ r \in 0..NRun
    BY DEF Statuses, Live
  <2> HIDE DEF status
  <2>4. /\ new \in RequestRecords /\ new.successor = r
        /\ new.status # "completed"
    BY <1>0, <2>1, <2>3 DEF Files, RequestRecords
  <2> HIDE DEF new
  <2> QED
    BY <1>0, <1>1, <2>1, <2>2, <2>4 DEF Files, q
<1> QED
  BY <1>1, <1>2, <1>3

\* ChainSettle closes at most the request whose successor is the run that
\* ended, and completes it only on a good end.
LEMMA SettleStep ==
  ASSUME TypeInv, ChainSettle
  PROVE  /\ req' \in Files /\ nreq' \in 0..NReq
         /\ chain \in Runs /\ chain' = None
         /\ session' \in 0..NRun
         /\ \E good \in BOOLEAN :
              /\ outcome' = [outcome EXCEPT ![chain] = IF good THEN "good"
                                                      ELSE "bad"]
              /\ \A q \in Requests :
                   /\ req'[q].successor \in {None, req[q].successor}
                   /\ req'[q].status = "completed" =>
                        /\ req'[q].successor = req[q].successor
                        /\ \/ req[q].status = "completed"
                           \/ good /\ req[q].successor = chain
<1>0. /\ req \in Files /\ nreq \in 0..NReq /\ session \in 0..NRun
      /\ chain \in Runs /\ chain' = None
  BY DEF TypeInv, TypeOK, Files, ChainSettle
<1> DEFINE r == chain
           t == run[r].thread
           q == SuccessorOf(req, r)
<1>1. PICK completed \in BOOLEAN, written \in BOOLEAN, pressure \in BOOLEAN :
        LET good == completed /\ written /\ run[r].stage = "accepted"
            ended == IF q = None THEN req ELSE Outcome(req, q, good)
            queued == IF pressure
                        THEN Requested(ended, nreq + 1, PressureRequest(t))
                        ELSE ended
            p == IF completed THEN PreApplied(queued, t) ELSE None
        IN /\ pressure => PressureOn(ended, t)
           /\ nreq' = IF pressure THEN nreq + 1 ELSE nreq
           /\ req' = IF p = None THEN queued
                     ELSE [queued EXCEPT ![p].preApplied = TRUE]
           /\ session' = IF p = None THEN session ELSE None
           /\ earlyOutcomes' = IF q = None /\ SomeApplied(req)
                                 THEN earlyOutcomes \cup {r}
                                 ELSE earlyOutcomes
           /\ outcome' = [outcome EXCEPT ![r] = IF good THEN "good" ELSE "bad"]
           /\ gate' = (gate /\ t \notin gateThread)
           /\ gateThread' = gateThread \ {t}
  BY Zenon DEF ChainSettle
<1> DEFINE good == completed /\ written /\ run[r].stage = "accepted"
           ended == IF q = None THEN req ELSE Outcome(req, q, good)
           queued == IF pressure
                       THEN Requested(ended, nreq + 1, PressureRequest(t))
                       ELSE ended
           p == IF completed THEN PreApplied(queued, t) ELSE None
<1>2. PICK kind \in BOOLEAN : kind = good
  OBVIOUS
<1>3. /\ ended \in Files
      /\ \A x \in Requests :
           /\ ended[x].successor = req[x].successor
           /\ ended[x].status = "completed" =>
                \/ req[x].status = "completed"
                \/ good /\ req[x].successor = r
  <2>1. CASE q = None
    BY <1>0, <2>1
  <2>2. CASE q # None
    <3> DEFINE A == [req[q] EXCEPT !.status = "completed", !.grace = GraceTurns]
               B == [req[q] EXCEPT !.status = "terminal_failed"]
    <3>1. q \in Requests /\ req[q].successor = r
      BY <1>0, <2>2, SuccessorOfMember
    <3>2. \/ ended = [req EXCEPT ![q] = A] /\ good
          \/ ended = [req EXCEPT ![q] = B]
      <4> HIDE DEF q, good
      <4> QED
        BY <1>0, <2>2, <3>1 DEF Outcome, Files, RequestRecords
    <3> HIDE DEF q, good, ended
    <3>3. /\ A \in RequestRecords /\ A.successor = req[q].successor
      <4>1. GraceTurns \in 0..GraceTurns
        OBVIOUS
      <4> QED
        BY <1>0, <3>1, <4>1 DEF Files, RequestRecords, Statuses
    <3>4. /\ B \in RequestRecords /\ B.successor = req[q].successor
          /\ B.status # "completed"
      BY <1>0, <3>1 DEF Files, RequestRecords, Statuses
    <3> HIDE DEF A, B
    <3> QED
      BY <1>0, <3>1, <3>2, <3>3, <3>4 DEF Files
  <2> QED
    BY <2>1, <2>2
<1> HIDE DEF ended
<1>4. queued \in Files /\ Harmless(ended, queued) /\ nreq' \in 0..NReq
  <2>1. CASE pressure
    <3>1. PressureOn(ended, t) /\ nreq' = nreq + 1
      BY <1>1, <2>1 DEF ended
    <3> HIDE DEF t
    <3>2. /\ Requested(ended, nreq + 1, PressureRequest(t)) \in Files
          /\ Harmless(ended, Requested(ended, nreq + 1, PressureRequest(t)))
          /\ nreq + 1 \in 0..NReq
      BY <1>0, <1>3, <3>1, PressureStep
    <3> QED
      BY <2>1, <3>1, <3>2
  <2>2. CASE ~pressure
    BY <1>0, <1>1, <1>3, <2>2 DEF Harmless
  <2> QED
    BY <2>1, <2>2
<1> HIDE DEF queued
<1>5. p \in 0..NReq
  <2>1. PendingFor(queued, t) \in 0..NReq
    BY <1>4, PendingForMember
  <2> QED
    BY <2>1 DEF PreApplied
<1>6. req' \in Files /\ Harmless(queued, req')
  <2>1. req' = IF p = None THEN queued
               ELSE [queued EXCEPT ![p].preApplied = TRUE]
    BY <1>1 DEF queued, ended
  <2> HIDE DEF p
  <2>2. CASE p = None
    BY <1>4, <2>1, <2>2 DEF Harmless
  <2>3. CASE p # None
    <3>1. p \in Requests /\ queued \in Files
      BY <1>4, <1>5, <2>3
    <3>2. /\ [queued EXCEPT ![p].preApplied = TRUE] \in Files
          /\ Harmless(queued, [queued EXCEPT ![p].preApplied = TRUE])
      BY <3>1, PreAppliedHarmless
    <3> QED
      BY <2>1, <2>3, <3>2
  <2> QED
    BY <2>2, <2>3
<1>7. Harmless(ended, req')
  BY <1>4, <1>6, HarmlessTwice
<1>8. session' \in 0..NRun
  BY <1>0, <1>1 DEF queued, ended
<1>9. outcome' = [outcome EXCEPT ![chain] = IF kind THEN "good" ELSE "bad"]
  BY <1>1, <1>2
<1>10. \A x \in Requests :
         /\ req'[x].successor \in {None, req[x].successor}
         /\ req'[x].status = "completed" =>
              /\ req'[x].successor = req[x].successor
              /\ \/ req[x].status = "completed"
                 \/ kind /\ req[x].successor = chain
  <2> HIDE DEF good
  <2> QED
    BY <1>2, <1>3, <1>7 DEF Harmless
<1> QED
  BY <1>0, <1>4, <1>6, <1>8, <1>9, <1>10

LEMMA SettleRest ==
  ASSUME TypeInv, ChainSettle
  PROVE  RestOK'
<1>0. TypeOK /\ RestOK
  BY DEF TypeInv, TypeOK, RestOK, StoreOK, GateOK, QueueOK, HistoryOK
<1>1. /\ chain \in Runs /\ chain' = None /\ session' \in 0..NRun
      /\ outcome' \in [Runs -> {"none", "good", "bad"}]
  BY <1>0, SettleStep DEF RestOK, HistoryOK
<1>2. /\ earlyOutcomes' \subseteq earlyOutcomes \cup {chain}
      /\ gate' \in BOOLEAN
      /\ gateThread' \subseteq gateThread
  BY DEF ChainSettle
<1>3. UNCHANGED <<earlyStarts, running, superseded, usedKeys, waiting,
                  subscribed, events, turn, bounds>>
  BY DEF ChainSettle
<1>4. StoreOK'
  BY <1>0, <1>1, <1>2, <1>3 DEF RestOK, StoreOK
<1>5. GateOK'
  BY <1>0, <1>2, <1>3 DEF RestOK, GateOK
<1>6. QueueOK'
  BY <1>0, <1>1, <1>3 DEF RestOK, QueueOK
<1>7. HistoryOK'
  BY <1>0, <1>1, <1>3 DEF RestOK, HistoryOK, bounds
<1> QED
  BY <1>4, <1>5, <1>6, <1>7 DEF RestOK

-----------------------------------------------------------------------------
\* The type invariant.

LEMMA TypeStep ==
  ASSUME TypeInv, [Next]_vars
  PROVE  TypeInv'
<1>1. CASE Next
  <2>1. RunsGood
    BY <1>1, RunStep
  <2>2. req' \in Files /\ nreq' \in 0..NReq
    <3>1. CASE ChainSettle
      BY <3>1, SettleStep
    <3>2. CASE \E r \in Runs : Accept(r)
      BY <3>2, AcceptStep
    <3> QED
      BY <1>1, <3>1, <3>2, FileStep
  <2>3. RestOK'
    BY <1>1, DispatchRest, WatchRest, RuntimeRest, OtherRest, SettleRest
       DEF Next
  <2> QED
    BY <2>1, <2>2, <2>3 DEF TypeInv, TypeOK, RunsGood, WatchStates, Files,
       RestOK, StoreOK, GateOK, QueueOK, HistoryOK
<1>2. CASE UNCHANGED vars
  <2>1. TypeOK'
    BY <1>2 DEF TypeInv, TypeOK, vars, disk, memory, bounds
  <2>2. RunsBegun'
    BY <1>2 DEF TypeInv, RunsBegun, vars, memory
  <2> QED
    BY <2>1, <2>2 DEF TypeInv
<1> QED
  BY <1>1, <1>2

LEMMA TypeInit ==
  ASSUME Init
  PROVE  TypeInv
<1>1. NoRequest \in RequestRecords /\ NoRun \in RunRecords
  BY DEF NoRequest, RequestRecords, Statuses, NoRun, RunRecords, RunStages
<1>2. NoRun.stage = "unused" /\ NoRun.cause = None
  BY DEF NoRun
<1>3. /\ req \in [Requests -> RequestRecords] /\ run \in [Runs -> RunRecords]
      /\ running \in [Threads -> 0..NRun]
      /\ watch \in [Runs -> {"off", "armed", "typing", "cancelling"}]
      /\ turn \in [Runs -> {"none", "live", "over"}]
      /\ outcome \in [Runs -> {"none", "good", "bad"}]
      /\ events \in Seq(Runs)
  BY <1>1 DEF Init
<1>4. TypeOK
  <2>1. /\ nreq = 0 /\ session = 0 /\ nrun = 0 /\ chain = 0 /\ gate = FALSE
        /\ faults = 0 /\ restarts = 0 /\ manual = 0
    BY DEF Init
  <2>2. /\ earlyStarts = {} /\ earlyOutcomes = {} /\ gateThread = {}
        /\ superseded = {} /\ usedKeys = {} /\ waiting = {} /\ subscribed = {}
    BY DEF Init
  <2>3. StoreOK
    BY <2>1, <2>2 DEF StoreOK
  <2>4. GateOK
    BY <1>3, <2>1, <2>2 DEF GateOK
  <2>5. QueueOK
    BY <1>3, <2>1, <2>2 DEF QueueOK
  <2>6. HistoryOK
    BY <1>3, <2>1 DEF HistoryOK
  <2>7. nreq \in 0..NReq /\ nrun \in 0..NRun
    BY <2>1
  <2> QED
    BY <1>3, <2>3, <2>4, <2>5, <2>6, <2>7
       DEF TypeOK, StoreOK, GateOK, QueueOK, HistoryOK
<1>5. RunsBegun
  BY <1>2 DEF Init, RunsBegun
<1> QED
  BY <1>4, <1>5 DEF TypeInv

\* The store's records, the runs' and the queues keep their types, in every
\* behaviour of the bridge, its runtime, its operator and its restarts.
THEOREM RefreshTypeCorrect == Spec => []TypeOK
<1>1. Init => TypeInv
  BY TypeInit
<1>2. TypeInv /\ [Next]_vars => TypeInv'
  BY TypeStep
<1>3. TypeInv => TypeOK
  BY DEF TypeInv
<1> QED
  BY <1>1, <1>2, <1>3, PTL DEF Spec

-----------------------------------------------------------------------------
\* A refresh completes only on a good end of its own successor.  The invariant
\* says besides that a request's successor is a past run that applied it, and
\* that a turn's end is handled once.
Linked ==
  \A q \in Requests :
    req[q].successor # None =>
      /\ run[req[q].successor].applied = q
      /\ run[req[q].successor].stage \in {"accepted", "gone"}

EndsOnce ==
  /\ \A i \in 1..Len(events) :
       /\ turn[events[i]] = "over" /\ outcome[events[i]] = "none"
       /\ events[i] # chain
  /\ \A i, j \in 1..Len(events) : events[i] = events[j] => i = j
  /\ chain # None => turn[chain] = "over" /\ outcome[chain] = "none"
  /\ \A r \in Runs : outcome[r] # "none" => turn[r] = "over"

RefreshInv == TypeInv /\ Linked /\ EndsOnce /\ CompletedIsSettled

\* The steps that neither link nor complete a request, and make no outcome.
LEMMA QuietStep ==
  ASSUME TypeInv, TypeInv', Linked, CompletedIsSettled, RunsKept,
         Harmless(req, req'), outcome' = outcome,
         \A r \in Runs : turn[r] = "over" => turn'[r] = "over"
  PROVE  Linked' /\ CompletedIsSettled'
<1>1. \A q \in Requests : req[q].successor \in 0..NRun
  BY DEF TypeInv, TypeOK, RequestRecords
<1>2. Linked'
  <2>1. ASSUME NEW q \in Requests, req'[q].successor # None
        PROVE  /\ run'[req'[q].successor].applied = q
               /\ run'[req'[q].successor].stage \in {"accepted", "gone"}
    <3>1. req'[q].successor = req[q].successor
      BY <2>1 DEF Harmless
    <3>2. /\ req[q].successor \in Runs
          /\ run[req[q].successor].applied = q
          /\ run[req[q].successor].stage \in {"accepted", "gone"}
      BY <1>1, <2>1, <3>1 DEF Linked
    <3> QED
      BY <3>1, <3>2 DEF RunsKept
  <2> QED
    BY <2>1 DEF Linked
<1>3. CompletedIsSettled'
  <2>1. ASSUME NEW q \in Requests, req'[q].status = "completed"
        PROVE  LET r == req'[q].successor
               IN /\ r # None /\ run'[r].applied = q
                  /\ turn'[r] = "over" /\ outcome'[r] = "good"
    <3>1. /\ req[q].status = "completed"
          /\ req'[q].successor = req[q].successor
      BY <2>1 DEF Harmless
    <3>2. /\ req[q].successor # None /\ turn[req[q].successor] = "over"
          /\ outcome[req[q].successor] = "good"
      BY <3>1 DEF CompletedIsSettled
    <3>3. req[q].successor \in Runs
      BY <1>1, <3>2
    <3>4. run'[req[q].successor].applied = q
      BY <1>2, <3>1, <3>2 DEF Linked
    <3> QED
      BY <3>1, <3>2, <3>3, <3>4
  <2> QED
    BY <2>1 DEF CompletedIsSettled
<1> QED
  BY <1>2, <1>3

\* The ends of turns are queued once, and each is handled once.
LEMMA EndsStep ==
  ASSUME TypeInv, EndsOnce, Next
  PROVE  /\ EndsOnce'
         /\ \A r \in Runs : turn[r] = "over" => turn'[r] = "over"
         /\ ChainSettle \/ outcome' = outcome
<1>0. /\ events \in Seq(Runs) /\ chain \in 0..NRun
      /\ turn \in [Runs -> {"none", "live", "over"}]
      /\ outcome \in [Runs -> {"none", "good", "bad"}]
  BY DEF TypeInv, TypeOK
<1> DEFINE Goal == /\ EndsOnce'
                   /\ \A r \in Runs : turn[r] = "over" => turn'[r] = "over"
                   /\ ChainSettle \/ outcome' = outcome
<1>1. ASSUME UNCHANGED <<events, chain, turn, outcome>> PROVE Goal
  BY <1>1 DEF EndsOnce
<1>2. CASE FreshDispatch \/ PrepareBuffered \/ MaintenanceRequest \/ NewCommand
  <2>1. UNCHANGED <<events, chain, turn, outcome>>
    BY <1>2 DEF FreshDispatch, PrepareBuffered, MaintenanceRequest, NewCommand,
                memory
  <2> QED
    BY <1>1, <2>1
<1>3. ASSUME NEW r \in Runs, DispatchStep(r) PROVE Goal
  <2>1. UNCHANGED <<events, chain, turn, outcome>>
    BY <1>3 DEF DispatchStep, FlushAgain, Apply, OpenThread, Accept, Refuse,
                TransportFailNoRetry, TransportFailThrow, TransportFailRecover
  <2> QED
    BY <1>1, <2>1
<1>4. ASSUME NEW r \in Runs, WatchStep(r) PROVE Goal
  <2>1. UNCHANGED <<events, chain, turn, outcome>>
    BY <1>4 DEF WatchStep, FirstEventTimeout, FirstEventNotice,
                FirstEventSupersede, FirstEventRequeue
  <2> QED
    BY <1>1, <2>1
<1>5. ASSUME NEW r \in Runs, TurnStarted(r) \/ TurnOutput(r) PROVE Goal
  <2>1. /\ UNCHANGED <<events, chain, outcome>>
        /\ \/ turn' = turn
           \/ turn[r] = "none" /\ turn' = [turn EXCEPT ![r] = "live"]
    BY <1>5 DEF TurnStarted, TurnOutput
  <2>2. \A q \in Runs : turn[q] = "over" => turn'[q] = "over"
    BY <1>0, <2>1
  <2>3. \A i \in 1..Len(events) : events[i] \in Runs
    BY <1>0
  <2> QED
    BY <1>0, <2>1, <2>2, <2>3 DEF EndsOnce
<1>6. ASSUME NEW r \in Runs, TurnEnded(r) PROVE Goal
  <2>1. /\ turn[r] = "live" /\ turn' = [turn EXCEPT ![r] = "over"]
        /\ events' = events \/ events' = Append(events, r)
        /\ UNCHANGED <<chain, outcome>>
    BY <1>6 DEF TurnEnded
  <2>2. \A q \in Runs : turn[q] = "over" => turn'[q] = "over" /\ q # r
    BY <1>0, <2>1
  <2>3. \A i \in 1..Len(events) : events[i] \in Runs
    BY <1>0
  <2>4. turn'[r] = "over" /\ outcome'[r] = "none" /\ r # chain
    BY <1>0, <2>1 DEF EndsOnce
  <2>5. CASE events' = events
    BY <1>0, <2>1, <2>2, <2>3, <2>5 DEF EndsOnce
  <2>6. CASE events' = Append(events, r)
    <3>1. /\ Len(events') = Len(events) + 1 /\ Len(events) \in Nat
          /\ events'[Len(events) + 1] = r
          /\ \A i \in 1..Len(events) : events'[i] = events[i]
      BY <1>0, <2>6
    <3>2. \A i \in 1..Len(events') :
            \/ i = Len(events) + 1 /\ events'[i] = r
            \/ /\ i \in 1..Len(events) /\ events'[i] = events[i]
               /\ events[i] # r
      BY <2>2, <2>3, <3>1 DEF EndsOnce
    <3>3. \A i \in 1..Len(events) : /\ turn'[events[i]] = "over"
                                    /\ outcome'[events[i]] = "none"
                                    /\ events[i] # chain'
      BY <2>1, <2>2, <2>3 DEF EndsOnce
    <3>4. \A i \in 1..Len(events') : /\ turn'[events'[i]] = "over"
                                     /\ outcome'[events'[i]] = "none"
                                     /\ events'[i] # chain'
      BY <2>1, <2>4, <3>2, <3>3
    <3>5. \A i, j \in 1..Len(events') : events'[i] = events'[j] => i = j
      BY <3>2 DEF EndsOnce
    <3>6. /\ chain' # None => turn'[chain'] = "over" /\ outcome'[chain'] = "none"
          /\ \A q \in Runs : outcome'[q] # "none" => turn'[q] = "over"
      BY <1>0, <2>1, <2>2 DEF EndsOnce
    <3> QED
      BY <2>1, <2>2, <3>4, <3>5, <3>6 DEF EndsOnce
  <2> QED
    BY <2>1, <2>5, <2>6
<1>7. CASE ChainDeliver
  <2>1. /\ chain = None /\ events # <<>> /\ events' = Tail(events)
        /\ chain' = None \/ chain' = Head(events)
        /\ UNCHANGED <<turn, outcome>>
    BY <1>7 DEF ChainDeliver
  <2>2. /\ Len(events') = Len(events) - 1 /\ Len(events) \in Nat
        /\ Len(events) >= 1 /\ Head(events) = events[1]
        /\ \A i \in 1..Len(events') : events'[i] = events[i + 1]
    BY <1>0, <2>1
  <2>3. \A i \in 1..Len(events') :
          /\ i + 1 \in 1..Len(events) /\ events'[i] = events[i + 1]
          /\ events[i + 1] # events[1] /\ events[i + 1] # None
    BY <1>0, <2>2 DEF EndsOnce
  <2>4. 1 \in 1..Len(events)
    BY <2>2
  <2> QED
    BY <1>0, <2>1, <2>2, <2>3, <2>4 DEF EndsOnce
<1>8. CASE ChainSettle
  <2>1. chain \in Runs /\ chain' = None /\ UNCHANGED <<events, turn>>
    BY <1>0, <1>8 DEF ChainSettle
  <2>2. \A r \in Runs : r # chain => outcome'[r] = outcome[r]
    BY <1>0, <1>8, SettleStep
  <2>3. \A i \in 1..Len(events) : events[i] \in Runs
    BY <1>0
  <2> QED
    BY <1>8, <2>1, <2>2, <2>3 DEF EndsOnce
<1>9. CASE Restart
  <2>1. events' = <<>> /\ chain' = None /\ UNCHANGED <<turn, outcome>>
    BY <1>9 DEF Restart
  <2> QED
    BY <2>1 DEF EndsOnce
<1> QED
  BY <1>2, <1>3, <1>4, <1>5, <1>6, <1>7, <1>8, <1>9 DEF Next, RuntimeStep

LEMMA RefreshInvStep ==
  ASSUME RefreshInv, [Next]_vars
  PROVE  RefreshInv'
<1>0. /\ TypeInv /\ Linked /\ EndsOnce /\ CompletedIsSettled /\ TypeInv'
  BY TypeStep DEF RefreshInv
<1>1. CASE Next
  <2>0. /\ EndsOnce' /\ RunsKept
        /\ \A r \in Runs : turn[r] = "over" => turn'[r] = "over"
        /\ ChainSettle \/ outcome' = outcome
    BY <1>0, <1>1, EndsStep, RunStep DEF RunsGood
  <2>1. CASE ~ChainSettle /\ \A r \in Runs : ~Accept(r)
    <3>1. Harmless(req, req')
      BY <1>0, <1>1, <2>1, FileStep
    <3> QED
      BY <1>0, <2>0, <2>1, <3>1, QuietStep DEF RefreshInv
  <2>2. ASSUME NEW r \in Runs, Accept(r), ~ChainSettle PROVE RefreshInv'
    <3>1. \A q \in Requests :
            \/ req'[q] = req[q]
            \/ /\ q = run[r].applied
               /\ req'[q].successor = r /\ req'[q].status # "completed"
      BY <1>0, <2>2, AcceptStep
    <3>2. run'[r].applied = run[r].applied /\ run'[r].stage = "accepted"
      BY <1>0, <2>2 DEF Accept, TypeInv, TypeOK, RunRecords
    <3>3. \A q \in Requests : req[q].successor \in 0..NRun
      BY <1>0 DEF TypeInv, TypeOK, RequestRecords
    <3>4. Linked'
      BY <1>0, <2>0, <3>1, <3>2, <3>3 DEF Linked, RunsKept
    <3>5. ASSUME NEW q \in Requests, req'[q].status = "completed"
          PROVE  LET s == req'[q].successor
                 IN /\ s # None /\ run'[s].applied = q
                    /\ turn'[s] = "over" /\ outcome'[s] = "good"
      <4>1. req'[q] = req[q]
        BY <3>1, <3>5
      <4>2. /\ req[q].successor # None /\ turn[req[q].successor] = "over"
            /\ outcome[req[q].successor] = "good"
        BY <1>0, <3>5, <4>1 DEF CompletedIsSettled
      <4>3. run'[req[q].successor].applied = q
        BY <3>4, <4>1, <4>2 DEF Linked
      <4> QED
        BY <2>0, <2>2, <3>3, <4>1, <4>2, <4>3
    <3> QED
      BY <1>0, <2>0, <3>4, <3>5 DEF RefreshInv, CompletedIsSettled
  <2>3. CASE ChainSettle
    <3>1. chain \in Runs /\ turn[chain] = "over" /\ outcome[chain] = "none"
      BY <1>0, <2>3, SettleStep DEF EndsOnce
    <3>2. PICK good \in BOOLEAN :
            /\ outcome' = [outcome EXCEPT ![chain] = IF good THEN "good"
                                                    ELSE "bad"]
            /\ \A q \in Requests :
                 /\ req'[q].successor \in {None, req[q].successor}
                 /\ req'[q].status = "completed" =>
                      /\ req'[q].successor = req[q].successor
                      /\ \/ req[q].status = "completed"
                         \/ good /\ req[q].successor = chain
      BY <1>0, <2>3, SettleStep
    <3>3. run' = run /\ turn' = turn
      BY <2>3 DEF ChainSettle
    <3>4. outcome \in [Runs -> {"none", "good", "bad"}]
      BY <1>0 DEF TypeInv, TypeOK
    <3>5. /\ good => outcome'[chain] = "good"
          /\ \A r \in Runs : r # chain => outcome'[r] = outcome[r]
      BY <3>1, <3>2, <3>4
    <3>6. Linked'
      BY <1>0, <3>2, <3>3 DEF Linked
    <3>7. ASSUME NEW q \in Requests, req'[q].status = "completed"
          PROVE  LET s == req'[q].successor
                 IN /\ s # None /\ run'[s].applied = q
                    /\ turn'[s] = "over" /\ outcome'[s] = "good"
      <4>1. req'[q].successor = req[q].successor /\ req[q].successor \in 0..NRun
        BY <1>0, <3>2, <3>7 DEF TypeInv, TypeOK, RequestRecords
      <4>2. CASE req[q].status = "completed"
        BY <1>0, <3>1, <3>3, <3>5, <4>1, <4>2 DEF CompletedIsSettled
      <4>3. CASE good /\ req[q].successor = chain
        BY <1>0, <3>1, <3>3, <3>5, <4>1, <4>3 DEF Linked
      <4> QED
        BY <3>2, <3>7, <4>2, <4>3
    <3> QED
      BY <1>0, <2>0, <3>6, <3>7 DEF RefreshInv, CompletedIsSettled
  <2> QED
    BY <2>1, <2>2, <2>3
<1>2. CASE UNCHANGED vars
  BY <1>0, <1>2 DEF RefreshInv, Linked, EndsOnce, CompletedIsSettled, vars,
                    disk, memory
<1> QED
  BY <1>1, <1>2

LEMMA RefreshInvInit ==
  ASSUME Init
  PROVE  RefreshInv
<1>1. TypeInv
  BY TypeInit
<1>2. Linked /\ CompletedIsSettled
  BY DEF Init, Linked, CompletedIsSettled, NoRequest
<1>3. EndsOnce
  BY DEF Init, EndsOnce
<1> QED
  BY <1>1, <1>2, <1>3 DEF RefreshInv

\* A request is completed only by the run that applied it, after its turn
\* ended, its answer was not empty, and it was written back.
THEOREM RefreshCompletedIsSettled == Spec => []CompletedIsSettled
<1>1. Init => RefreshInv
  BY RefreshInvInit
<1>2. RefreshInv /\ [Next]_vars => RefreshInv'
  BY RefreshInvStep
<1>3. RefreshInv => CompletedIsSettled
  BY DEF RefreshInv
<1> QED
  BY <1>1, <1>2, <1>3, PTL DEF Spec
-----------------------------------------------------------------------------
\* Who carries a message.  A run holds the request it applied while it waits
\* for its turn to be accepted or for the turn's first event.
Sending(r) == run[r].stage \in {"opening", "sending"}
Watched(r) == watch[r] \in {"armed", "typing"}
Holds(r, q) == run[r].applied = q /\ (Sending(r) \/ Watched(r))

\* A run that still has a claim on its message, and one that may yet recover it.
Going(r) == InFlight(r) \/ watch[r] # "off" \/ r \in waiting
Alive(r) == InFlight(r) \/ Watched(r) \/ r \in waiting

\* One run at a time has a claim on a message, until its key is used; a run
\* that carries a request has used it.
CauseAlone ==
  \A r, s \in Runs :
    Going(r) /\ Going(s) /\ run[r].cause = run[s].cause
      /\ run[r].cause \notin usedKeys => r = s
CarriedUsed ==
  \A r \in Runs :
    Alive(r) /\ (run[r].request # None \/ run[r].retry # None) =>
      run[r].cause \in usedKeys
WaitingIdle == \A r \in waiting : ~InFlight(r) /\ watch[r] = "off"
CausesPast == \A r \in Runs : run[r].cause <= nrun
TypingUnapplied == \A r \in Runs : run[r].stage = "typing" => run[r].applied = None

RunInv == CauseAlone /\ CarriedUsed /\ WaitingIdle /\ CausesPast /\ TypingUnapplied

\* A step that gives run q no new claim, and no new hold of a request.
Quiet(q) ==
  /\ run'[q].cause = run[q].cause
  /\ Going(q)' => Going(q)
  /\ Alive(q)' =>
       \/ /\ Alive(q)
          /\ run'[q].request = run[q].request /\ run'[q].retry = run[q].retry
       \/ run[q].cause \in usedKeys'
  /\ q \in waiting' => ~InFlight(q)' /\ watch'[q] = "off"
  /\ run'[q].stage = "typing" =>
       run[q].stage = "typing" /\ run'[q].applied = run[q].applied
Falls(q) ==
  (Sending(q) \/ Watched(q))' =>
    /\ Sending(q) \/ Watched(q)
    /\ Sending(q)' => Sending(q)
    /\ run'[q].applied = run[q].applied /\ run'[q].cause = run[q].cause

\* The watchdog of a run goes off, fires or stays as it is.
WatchFalls(q) ==
  \/ watch'[q] = watch[q] \/ watch'[q] = "off"
  \/ watch[q] = "armed" /\ watch'[q] = "typing"

\* A run that a step does not touch.
LEMMA UntouchedRun ==
  ASSUME TypeInv, RunInv, NEW q \in Runs,
         run'[q] = run[q], WatchFalls(q), q \in waiting' => q \in waiting
  PROVE  Quiet(q) /\ Falls(q)
<1>1. watch[q] \in WatchStates
  BY DEF TypeInv, TypeOK, WatchStates
<1>2. /\ watch'[q] # "off" => watch[q] # "off"
      /\ Watched(q)' => Watched(q)
  BY <1>1 DEF WatchFalls, Watched, WatchStates
<1>3. /\ InFlight(q)' = InFlight(q) /\ Sending(q)' = Sending(q)
      /\ q \in waiting => ~InFlight(q) /\ watch[q] = "off"
  BY DEF InFlight, Sending, RunInv, WaitingIdle
<1>4. q \in waiting' => ~InFlight(q)' /\ watch'[q] = "off"
  BY <1>2, <1>3
<1>5. Quiet(q)
  BY <1>2, <1>3, <1>4 DEF Quiet, Going, Alive
<1>6. Falls(q)
  BY <1>2, <1>3 DEF Falls
<1> QED
  BY <1>5, <1>6

\* The steps that begin no dispatch.
LEMMA QuietRuns ==
  ASSUME TypeInv, RunInv, nrun' = nrun, usedKeys \subseteq usedKeys',
         waiting' \subseteq Runs,
         \A q \in Runs : Quiet(q)
  PROVE  RunInv'
<1>1. CauseAlone'
  BY DEF Quiet, RunInv, CauseAlone
<1>2. CarriedUsed'
  BY DEF Quiet, RunInv, CarriedUsed
<1>3. WaitingIdle'
  BY DEF Quiet, WaitingIdle
<1>4. CausesPast' /\ TypingUnapplied'
  BY DEF Quiet, RunInv, CausesPast, TypingUnapplied
<1> QED
  BY <1>1, <1>2, <1>3, <1>4 DEF RunInv

\* The steps that begin one: of a new message, of one whose key is used, or of
\* one that another run gives up.
LEMMA BegunRuns ==
  ASSUME TypeInv, TypeInv', RunInv, NEW n \in Runs, n = nrun + 1, nrun' = n,
         usedKeys \subseteq usedKeys',
         waiting' \subseteq waiting \cup {q \in Runs : q # n},
         \A q \in Runs : q # n => Quiet(q),
         run'[n].stage = "typing", run'[n].applied = None,
         run'[n].request # None \/ run'[n].retry # None =>
           run'[n].cause \in usedKeys',
         \/ run'[n].cause = n
         \/ run'[n].cause \in usedKeys'
         \/ \E r \in Runs : /\ run'[n].cause = run[r].cause /\ r # n
                            /\ Going(r) /\ ~Going(r)',
         run'[n].cause <= n
  PROVE  RunInv'
<1>0. /\ nrun \in Nat /\ \A q \in Runs : run[q].cause \in Nat
      /\ n \notin waiting' /\ watch'[n] = "off"
      /\ run'[n].cause \in Nat
  <2>0. /\ nrun \in 0..NRun
        /\ run \in [Runs -> RunRecords] /\ run' \in [Runs -> RunRecords]
    BY DEF TypeInv, TypeOK
  <2>1. /\ nrun \in Nat
        /\ \A q \in Runs : run[q] \in RunRecords /\ run'[q] \in RunRecords
    BY <2>0
  <2>2. \A rec \in RunRecords : rec.cause \in Nat
    BY DEF RunRecords
  <2>3. n > nrun
    BY <2>1
  <2>4. n \notin waiting
    BY <2>3 DEF TypeInv, RunsBegun
  <2>5. watch'[n] = "off"
    BY DEF TypeInv, RunsBegun
  <2> QED
    BY <2>1, <2>2, <2>4, <2>5
<1>1. ASSUME NEW q \in Runs, q # n, Going(q)', run'[q].cause = run'[n].cause
      PROVE  run'[q].cause \in usedKeys'
  <2>1. Going(q) /\ run'[q].cause = run[q].cause
    BY <1>1 DEF Quiet
  <2>2. CASE run'[n].cause = n
    <3>1. run[q].cause <= nrun /\ run[q].cause \in Nat /\ nrun \in Nat
      BY <1>0 DEF RunInv, CausesPast
    <3>2. run[q].cause = nrun + 1
      BY <1>1, <2>1, <2>2
    <3> QED
      BY <3>1, <3>2
  <2>3. CASE run'[n].cause \in usedKeys'
    BY <1>1, <2>3
  <2>4. CASE \E r \in Runs : /\ run'[n].cause = run[r].cause /\ r # n
                             /\ Going(r) /\ ~Going(r)'
    <3>1. PICK r \in Runs : /\ run'[n].cause = run[r].cause /\ r # n
                            /\ Going(r) /\ ~Going(r)'
      BY <2>4
    <3>2. r # q
      BY <1>1, <3>1
    <3>3. run[q].cause = run[r].cause
      BY <1>1, <2>1, <3>1
    <3>4. run[q].cause \in usedKeys
      BY <2>1, <3>1, <3>2, <3>3 DEF RunInv, CauseAlone
    <3> QED
      BY <2>1, <3>4
  <2> QED
    BY <2>2, <2>3, <2>4
<1>2. CauseAlone'
  <2> SUFFICES ASSUME NEW r \in Runs, NEW s \in Runs, Going(r)', Going(s)',
                      run'[r].cause = run'[s].cause,
                      run'[r].cause \notin usedKeys'
               PROVE  r = s
    BY DEF CauseAlone
  <2>1. CASE r = n \/ s = n
    BY <1>1, <2>1
  <2>2. CASE r # n /\ s # n
    BY <2>2 DEF Quiet, RunInv, CauseAlone
  <2> QED
    BY <2>1, <2>2
<1>3. CarriedUsed'
  BY DEF Quiet, RunInv, CarriedUsed
<1>4. WaitingIdle'
  <2>1. \A q \in waiting' : q \in Runs /\ q # n
    BY <1>0 DEF TypeInv, TypeOK
  <2> QED
    BY <2>1 DEF Quiet, WaitingIdle
<1>5. CausesPast'
  <2>1. \A q \in Runs :
          q # n => run'[q].cause = run[q].cause /\ run[q].cause <= nrun
    BY DEF Quiet, RunInv, CausesPast
  <2>2. ASSUME NEW q \in Runs PROVE run'[q].cause <= nrun'
    <3>1. CASE q = n
      BY <3>1
    <3>2. CASE q # n
      <4>1. run[q].cause \in Nat /\ run[q].cause <= nrun /\ nrun \in Nat
        BY <1>0, <2>1, <3>2
      <4>2. run[q].cause <= nrun + 1
        BY <4>1
      <4> QED
        BY <2>1, <3>2, <4>2
    <3> QED
      BY <3>1, <3>2
  <2> QED
    BY <2>2 DEF CausesPast
<1>6. TypingUnapplied'
  BY DEF Quiet, RunInv, TypingUnapplied
<1> QED
  BY <1>2, <1>3, <1>4, <1>5, <1>6 DEF RunInv

\* The record of the run that a step begins.
LEMMA BegunFields ==
  ASSUME TypeInv, NEW runs \in [Runs -> RunRecords], NEW new \in RunRecords,
         Begin(runs, new)
  PROVE  LET n == nrun + 1
         IN /\ n \in Runs /\ nrun' = n /\ run[n].stage = "unused"
            /\ run'[n].stage = "typing" /\ run'[n].cause = new.cause
            /\ run'[n].request = new.request /\ run'[n].retry = new.retry
            /\ run'[n].applied = new.applied
            /\ run'[n].generation = new.generation
            /\ \A q \in Runs : q # n => run'[q] = runs[q]
<1> DEFINE n == nrun + 1
           rec == [new EXCEPT !.stage = "typing"]
<1>1. n \in Runs /\ nrun' = n /\ run' = [runs EXCEPT ![n] = rec]
  BY DEF Begin, TypeInv, TypeOK
<1>2. /\ rec.stage = "typing" /\ rec.cause = new.cause
      /\ rec.request = new.request /\ rec.retry = new.retry
      /\ rec.applied = new.applied /\ rec.generation = new.generation
  BY DEF RunRecords
<1>3. run[n].stage = "unused"
  <2>1. n > nrun
    BY DEF TypeInv, TypeOK
  <2> QED
    BY <1>1, <2>1 DEF TypeInv, RunsBegun
<1> HIDE DEF rec
<1>4. run'[n] = rec /\ \A q \in Runs : q # n => run'[q] = runs[q]
  BY <1>1
<1> QED
  BY <1>1, <1>2, <1>3, <1>4

LEMMA AgainFields ==
  ASSUME TypeInv, NEW r \in Runs, run[r].stage # "unused"
  PROVE  /\ Again(r) \in RunRecords
         /\ Again(r).cause = run[r].cause
         /\ Again(r).generation = run[r].generation
         /\ Again(r).applied = None /\ Again(r).retry = None
         /\ Again(r).request = IF run[r].retry # None THEN run[r].retry
                               ELSE run[r].request
<1>1. Again(r) \in RunRecords
  BY AgainType
<1> QED
  BY <1>1 DEF Again, NoRun

\* The dispatch that a recovery begins at once.
LEMMA RecoverBegins ==
  ASSUME TypeInv, NEW r \in Runs, TransportFailRecover(r)
  PROVE  \E new \in RunRecords :
           /\ Begin([run EXCEPT ![r].stage = "lost"], new)
           /\ new.cause = run[r].cause
           /\ new.applied = None /\ new.retry = None
           /\ new.generation =
                AtLeastOne(req'[RetryRequest(r, OldThread(r, session))].generation)
<1> DEFINE old == OldThread(r, session)
           q == RetryRequest(r, old)
           generation == AtLeastOne(req'[q].generation)
           kept == ~run[r].kept
           new == [Again(r) EXCEPT !.request = q, !.kept = kept,
                     !.generation = generation]
<1>1. /\ run[r].stage \in {"opening", "sending"} /\ SaveRetry(r, old)
      /\ Begin([run EXCEPT ![r].stage = "lost"], new)
  BY DEF TransportFailRecover
<1>2. session \in 0..NRun /\ TypeOK /\ run[r].kept \in BOOLEAN
  BY DEF TypeInv, TypeOK, RunRecords
<1>3. req' \in Files /\ q \in Requests
  BY <1>1, <1>2, OldThreadType, SaveRetryStep
<1>4. generation \in Nat
  <2>1. req'[q].generation \in Nat
    BY <1>3 DEF Files, RequestRecords
  <2> HIDE DEF q
  <2> QED
    BY <2>1 DEF AtLeastOne
<1>5. /\ Again(r) \in RunRecords /\ Again(r).cause = run[r].cause
      /\ Again(r).applied = None /\ Again(r).retry = None
  BY <1>1, AgainFields
<1>6. PICK k \in BOOLEAN : k = kept
  BY <1>2
<1>7. q \in 0..NReq
  BY <1>3
<1> HIDE DEF generation, q, old
<1>8. PICK rec \in RunRecords : rec = Again(r)
  BY <1>5
<1>9. new = [rec EXCEPT !.request = q, !.kept = k, !.generation = generation]
  BY <1>6, <1>8
<1>10. /\ new \in RunRecords /\ new.cause = rec.cause
       /\ new.applied = rec.applied /\ new.retry = rec.retry
       /\ new.generation = generation
  BY <1>4, <1>6, <1>7, <1>9 DEF RunRecords
<1> HIDE DEF new
<1> QED
  BY <1>1, <1>5, <1>8, <1>10 DEF generation, q, old

\* What a step does to the claims and the holds.
RunsMove == RunInv' /\ \A q \in Runs : Falls(q) \/ Apply(q)

\* The steps that only a watchdog may take notice of.
LEMMA IdleMove ==
  ASSUME TypeInv, TypeInv', RunInv, UNCHANGED <<nrun, run, waiting, usedKeys>>,
         \A q \in Runs : WatchFalls(q)
  PROVE  RunsMove
<1>1. \A q \in Runs : Quiet(q) /\ Falls(q)
  BY UntouchedRun
<1>2. waiting' \subseteq Runs
  BY DEF TypeInv, TypeOK
<1> QED
  BY <1>1, <1>2, QuietRuns DEF RunsMove

\* The steps of one run that begin none.
LEMMA OneRunMove ==
  ASSUME TypeInv, TypeInv', RunInv, NEW r \in Runs,
         nrun' = nrun, usedKeys \subseteq usedKeys',
         waiting' \subseteq waiting \cup {r},
         \A q \in Runs : q # r => run'[q] = run[q] /\ WatchFalls(q),
         Quiet(r), Falls(r) \/ Apply(r)
  PROVE  RunsMove
<1>1. \A q \in Runs : q # r => Quiet(q) /\ Falls(q)
  BY UntouchedRun
<1>2. waiting' \subseteq Runs
  BY DEF TypeInv, TypeOK
<1>3. \A q \in Runs : Quiet(q)
  BY <1>1
<1>4. RunInv'
  BY <1>2, <1>3, QuietRuns
<1> QED
  BY <1>1, <1>4 DEF RunsMove

\* A dispatch under way is updated, and goes on or ends.
LEMMA DispatchMove ==
  ASSUME TypeInv, TypeInv', RunInv, NEW r \in Runs, NEW new \in RunRecords,
         run' = [run EXCEPT ![r] = new],
         UNCHANGED <<nrun, watch, usedKeys>>, waiting' \subseteq waiting \cup {r},
         InFlight(r),
         new.cause = run[r].cause, new.request = run[r].request,
         new.retry = run[r].retry,
         new.stage \in {"opening", "sending", "refused", "lost"},
         new.stage \in {"opening", "sending"} => waiting' = waiting,
         \/ Apply(r)
         \/ new.applied = run[r].applied /\ run[r].stage # "typing"
  PROVE  RunsMove
<1>1. /\ run'[r] = new /\ \A q \in Runs : q # r => run'[q] = run[q]
      /\ \A q \in Runs : watch'[q] = watch[q]
  BY DEF TypeInv, TypeOK
<1>2. watch[r] = "off" /\ r \notin waiting
  <2>1. run[r].stage # "accepted"
    BY DEF InFlight
  <2>2. watch[r] = "off"
    BY <2>1 DEF TypeInv, RunsBegun
  <2>3. r \notin waiting
    BY DEF RunInv, WaitingIdle
  <2> QED
    BY <2>2, <2>3
<1>3. /\ Going(r) /\ Alive(r)
      /\ ~Watched(r) /\ ~Watched(r)'
  BY <1>1, <1>2 DEF Going, Alive, Watched
<1>4. r \in waiting' => ~InFlight(r)'
  BY <1>1, <1>2 DEF InFlight
<1>5. Quiet(r)
  BY <1>1, <1>2, <1>3, <1>4 DEF Quiet
<1>6. Falls(r) \/ Apply(r)
  <2>1. CASE new.applied = run[r].applied /\ run[r].stage # "typing"
    <3>1. Sending(r)
      BY <2>1 DEF InFlight, Sending
    <3> QED
      BY <1>1, <2>1, <3>1 DEF Falls
  <2> QED
    BY <2>1
<1> QED
  BY <1>1, <1>5, <1>6, OneRunMove DEF WatchFalls

\* A dispatch is begun: what the other runs do.
LEMMA BeginMove ==
  ASSUME TypeInv, TypeInv', RunInv, NEW new \in RunRecords, NEW r \in Runs,
         NEW runs \in [Runs -> RunRecords], Begin(runs, new),
         usedKeys \subseteq usedKeys',
         \A q \in Runs : q # nrun + 1 => Quiet(q) /\ Falls(q),
         waiting' \subseteq waiting \cup {r}, run[r].stage # "unused",
         new.applied = None,
         new.request # None \/ new.retry # None => new.cause \in usedKeys',
         \/ new.cause = nrun + 1
         \/ new.cause \in usedKeys'
         \/ new.cause = run[r].cause /\ Going(r) /\ ~Going(r)',
         new.cause <= nrun + 1
  PROVE  RunsMove
<1>0. PICK n \in Runs : n = nrun + 1
  BY BegunFields
<1>1. /\ nrun' = n /\ run[n].stage = "unused"
      /\ run'[n].stage = "typing" /\ run'[n].cause = new.cause
      /\ run'[n].request = new.request /\ run'[n].retry = new.retry
      /\ run'[n].applied = new.applied
  BY <1>0, BegunFields
<1>2. r # n
  BY <1>1
<1>3. waiting' \subseteq waiting \cup {q \in Runs : q # n}
  BY <1>2
<1>5. RunInv'
  BY <1>0, <1>1, <1>2, <1>3, BegunRuns
<1>6. Falls(n)
  <2>1. watch'[n] = "off"
    BY <1>1 DEF TypeInv, RunsBegun
  <2>2. ~Watched(n)'
    BY <2>1 DEF Watched
  <2>3. ~Sending(n)'
    BY <1>1 DEF Sending
  <2> QED
    BY <2>2, <2>3 DEF Falls
<1> QED
  BY <1>0, <1>5, <1>6 DEF RunsMove

LEMMA DispatchRuns ==
  ASSUME TypeInv, TypeInv', RunInv, NEW r \in Runs, DispatchStep(r)
  PROVE  RunsMove
<1>0. /\ run \in [Runs -> RunRecords] /\ run[r] \in RunRecords
      /\ session \in 0..NRun /\ nrun \in Nat /\ req \in Files
      /\ waiting \subseteq Runs /\ run[r].cause <= nrun
  <2>1. /\ run \in [Runs -> RunRecords] /\ session \in 0..NRun /\ nrun \in 0..NRun
        /\ req \in Files /\ waiting \in SUBSET Runs
    BY Zenon DEF TypeInv, TypeOK, Files
  <2>2. run[r].cause <= nrun
    BY Zenon DEF RunInv, CausesPast
  <2>3. run[r] \in RunRecords
    BY <2>1
  <2>4. nrun \in Nat /\ waiting \subseteq Runs
    BY <2>1
  <2> QED
    BY <2>1, <2>2, <2>3, <2>4, Zenon
<1>1. CASE FlushAgain(r)
  <2>1. /\ r \in waiting /\ Begin(run, Again(r)) /\ waiting' = waiting \ {r}
        /\ UNCHANGED <<watch, usedKeys>>
    BY <1>1 DEF FlushAgain
  <2>2. /\ run[r].stage # "unused" /\ ~InFlight(r) /\ watch[r] = "off"
        /\ Going(r) /\ Alive(r)
    BY <1>0, <2>1 DEF TypeInv, RunsBegun, RunInv, WaitingIdle, Going, Alive
  <2>3. /\ Again(r) \in RunRecords /\ Again(r).cause = run[r].cause
        /\ Again(r).applied = None /\ Again(r).retry = None
        /\ Again(r).request # None =>
             run[r].request # None \/ run[r].retry # None
    BY <2>2, AgainFields
  <2>4. \A q \in Runs : q # nrun + 1 => run'[q] = run[q]
    BY <1>0, <2>1, <2>3, BegunFields
  <2>5. \A q \in Runs : q # nrun + 1 => Quiet(q) /\ Falls(q)
    BY <2>1, <2>4, UntouchedRun DEF WatchFalls
  <2>6. ~Going(r)'
    <3>1. r # nrun + 1
      BY <1>0, <2>1, <2>2, <2>3, BegunFields
    <3>2. run'[r] = run[r] /\ watch'[r] = "off" /\ r \notin waiting'
      BY <1>0, <2>1, <2>2, <2>4, <3>1
    <3> QED
      BY <2>2, <3>2 DEF Going, InFlight
  <2>7. Again(r).request # None \/ Again(r).retry # None =>
          Again(r).cause \in usedKeys'
    BY <2>1, <2>2, <2>3 DEF RunInv, CarriedUsed
  <2>8. Again(r).cause <= nrun + 1
    <3>1. run[r].cause \in Nat
      BY <1>0 DEF RunRecords
    <3> QED
      BY <1>0, <2>3, <3>1
  <2> QED
    BY <1>0, <2>1, <2>2, <2>3, <2>5, <2>6, <2>7, <2>8, BeginMove
<1>2. CASE Apply(r)
  <2> DEFINE p == PendingFor(req, session)
             generation == IF run[r].fresh THEN req[p].generation
                           ELSE run[r].generation
             A == [run[r] EXCEPT !.stage = "opening"]
             B == [run[r] EXCEPT !.stage = "opening", !.applied = p,
                                 !.generation = generation]
  <2>1. /\ run[r].stage = "typing" /\ InFlight(r)
        /\ UNCHANGED <<nrun, waiting, watch, usedKeys>>
    BY <1>2 DEF Apply, InFlight
  <2>2. p \in 0..NReq
    BY <1>0, PendingForMember
  <2>3. \/ run' = [run EXCEPT ![r].stage = "opening"]
        \/ /\ p # None
           /\ run' = [run EXCEPT ![r].stage = "opening", ![r].applied = p,
                                 ![r].generation = generation]
    BY <1>2 DEF Apply, p
  <2> HIDE DEF p
  <2>4. p # None => generation \in Nat
    <3>1. p # None => req[p] \in RequestRecords
      BY <1>0, <2>2 DEF Files
    <3> QED
      BY <1>0, <3>1 DEF RequestRecords, RunRecords
  <2> HIDE DEF generation
  <2>5. \/ run' = [run EXCEPT ![r] = A]
        \/ p # None /\ run' = [run EXCEPT ![r] = B]
    BY <1>0, <2>3 DEF RunRecords
  <2>6. /\ A \in RunRecords /\ A.stage = "opening" /\ A.cause = run[r].cause
        /\ A.request = run[r].request /\ A.retry = run[r].retry
    BY <1>0 DEF RunRecords, RunStages
  <2>7. p # None =>
          /\ B \in RunRecords /\ B.stage = "opening" /\ B.cause = run[r].cause
          /\ B.request = run[r].request /\ B.retry = run[r].retry
    BY <1>0, <2>2, <2>4 DEF RunRecords, RunStages
  <2> HIDE DEF A, B
  <2>8. PICK new \in RunRecords :
          /\ run' = [run EXCEPT ![r] = new] /\ new.stage = "opening"
          /\ new.cause = run[r].cause /\ new.request = run[r].request
          /\ new.retry = run[r].retry
    BY <2>5, <2>6, <2>7
  <2> QED
    BY <1>2, <2>1, <2>8, DispatchMove
<1>3. CASE OpenThread(r)
  <2>1. /\ run[r].stage = "opening" /\ InFlight(r)
        /\ UNCHANGED <<nrun, waiting, watch, usedKeys>>
    BY <1>3 DEF OpenThread, InFlight
  <2>2. PICK t \in {r} \cup ({session} \ {None}) :
          run' = [run EXCEPT ![r].stage = "sending", ![r].thread = t]
    BY <1>3 DEF OpenThread
  <2> DEFINE new == [run[r] EXCEPT !.stage = "sending", !.thread = t]
  <2>3. t \in 0..NRun
    BY <1>0, <2>2
  <2>4. /\ new \in RunRecords /\ new.stage = "sending"
        /\ new.cause = run[r].cause /\ new.request = run[r].request
        /\ new.retry = run[r].retry /\ new.applied = run[r].applied
    BY <1>0, <2>3 DEF RunRecords, RunStages
  <2>5. run' = [run EXCEPT ![r] = new]
    BY <1>0, <2>2 DEF RunRecords
  <2> HIDE DEF new
  <2> QED
    BY <2>1, <2>4, <2>5, DispatchMove
<1>4. CASE Accept(r)
  <2> DEFINE new == [run[r] EXCEPT !.stage = "accepted"]
  <2>1. /\ run[r].stage = "sending" /\ UNCHANGED <<nrun, waiting, usedKeys>>
        /\ watch' = [ClearWatch(run[r].thread) EXCEPT ![r] = "armed"]
        /\ run' = [run EXCEPT ![r].stage = "accepted"]
    BY <1>4 DEF Accept
  <2>2. /\ new.stage = "accepted" /\ new.cause = run[r].cause
        /\ new.request = run[r].request /\ new.retry = run[r].retry
        /\ new.applied = run[r].applied
    BY <1>0 DEF RunRecords
  <2>3. run' = [run EXCEPT ![r] = new]
    BY <1>0, <2>1 DEF RunRecords
  <2> HIDE DEF new
  <2>4. /\ run'[r] = new /\ \A q \in Runs : q # r => run'[q] = run[q]
    BY <1>0, <2>3
  <2>5. /\ watch'[r] = "armed"
        /\ \A q \in Runs : q # r => WatchFalls(q)
    BY <2>1 DEF WatchFalls, ClearWatch
  <2>6. InFlight(r) /\ Sending(r) /\ ~Sending(r)' /\ ~InFlight(r)'
    BY <2>1, <2>2, <2>4 DEF InFlight, Sending
  <2>7. r \notin waiting /\ r \notin waiting'
    BY <2>1, <2>6 DEF RunInv, WaitingIdle
  <2>8. Quiet(r)
    BY <2>2, <2>4, <2>6, <2>7 DEF Quiet, Going, Alive
  <2>9. Falls(r)
    BY <2>2, <2>4, <2>6 DEF Falls
  <2> QED
    BY <2>1, <2>4, <2>5, <2>8, <2>9, OneRunMove
<1>5. CASE Refuse(r)
  <2> DEFINE new == [run[r] EXCEPT !.stage = "refused"]
  <2>1. /\ run[r].stage \in {"opening", "sending"} /\ InFlight(r)
        /\ UNCHANGED <<nrun, watch, usedKeys>>
        /\ waiting' \subseteq waiting \cup {r}
        /\ run' = [run EXCEPT ![r].stage = "refused"]
    BY <1>5 DEF Refuse, InFlight
  <2>2. /\ new \in RunRecords /\ new.stage = "refused"
        /\ new.cause = run[r].cause /\ new.request = run[r].request
        /\ new.retry = run[r].retry /\ new.applied = run[r].applied
    BY <1>0 DEF RunRecords, RunStages
  <2>3. run' = [run EXCEPT ![r] = new]
    BY <1>0, <2>1 DEF RunRecords
  <2> HIDE DEF new
  <2> QED
    BY <2>1, <2>2, <2>3, DispatchMove
<1>6. CASE TransportFailNoRetry(r) \/ TransportFailThrow(r)
  <2> DEFINE new == [run[r] EXCEPT !.stage = "lost"]
  <2>1. /\ run[r].stage \in {"opening", "sending"} /\ InFlight(r)
        /\ UNCHANGED <<nrun, watch, usedKeys>>
        /\ waiting' \subseteq waiting \cup {r}
        /\ run' = [run EXCEPT ![r].stage = "lost"]
    BY <1>6 DEF TransportFailNoRetry, TransportFailThrow, Failed, InFlight
  <2>2. /\ new \in RunRecords /\ new.stage = "lost"
        /\ new.cause = run[r].cause /\ new.request = run[r].request
        /\ new.retry = run[r].retry /\ new.applied = run[r].applied
    BY <1>0 DEF RunRecords, RunStages
  <2>3. run' = [run EXCEPT ![r] = new]
    BY <1>0, <2>1 DEF RunRecords
  <2> HIDE DEF new
  <2> QED
    BY <2>1, <2>2, <2>3, DispatchMove
<1>7. CASE TransportFailRecover(r)
  <2> DEFINE lost == [run[r] EXCEPT !.stage = "lost"]
             runs == [run EXCEPT ![r].stage = "lost"]
  <2>1. /\ run[r].stage \in {"opening", "sending"} /\ UNCHANGED watch
        /\ usedKeys' = usedKeys \cup {run[r].cause}
        /\ waiting' \subseteq waiting \cup {r}
    BY <1>7 DEF TransportFailRecover
  <2>2. PICK new \in RunRecords :
          /\ Begin(runs, new) /\ new.cause = run[r].cause
          /\ new.applied = None /\ new.retry = None
    BY <1>7, RecoverBegins
  <2>3. /\ lost \in RunRecords /\ lost.stage = "lost"
        /\ lost.cause = run[r].cause /\ lost.request = run[r].request
        /\ lost.retry = run[r].retry /\ lost.applied = run[r].applied
    BY <1>0 DEF RunRecords, RunStages
  <2>4. runs = [run EXCEPT ![r] = lost]
    BY <1>0 DEF RunRecords
  <2> HIDE DEF lost, runs
  <2>5. /\ runs \in [Runs -> RunRecords] /\ runs[r] = lost
        /\ \A q \in Runs : q # r => runs[q] = run[q]
    BY <1>0, <2>3, <2>4
  <2>6. \A q \in Runs : q # nrun + 1 => run'[q] = runs[q]
    BY <2>2, <2>5, BegunFields
  <2>7. run[nrun + 1].stage = "unused"
    BY <2>2, <2>5, BegunFields
  <2>8. r # nrun + 1
    BY <2>1, <2>7
  <2>9. InFlight(r) /\ Sending(r) /\ watch[r] = "off"
    BY <2>1 DEF InFlight, Sending, TypeInv, RunsBegun
  <2>10. /\ run'[r] = lost /\ watch'[r] = "off"
         /\ ~InFlight(r)' /\ ~Sending(r)' /\ ~Watched(r)'
    BY <2>1, <2>3, <2>5, <2>6, <2>8, <2>9 DEF InFlight, Sending, Watched
  <2>11. Quiet(r) /\ Falls(r)
    BY <2>1, <2>3, <2>9, <2>10 DEF Quiet, Falls, Going, Alive
  <2>12. ASSUME NEW q \in Runs, q # nrun + 1 PROVE Quiet(q) /\ Falls(q)
    <3>1. CASE q = r
      BY <2>11, <3>1
    <3>2. CASE q # r
      <4>1. run'[q] = run[q] /\ WatchFalls(q) /\ (q \in waiting' => q \in waiting)
        BY <2>1, <2>5, <2>6, <2>12, <3>2 DEF WatchFalls
      <4> QED
        BY <4>1, UntouchedRun
    <3> QED
      BY <3>1, <3>2
  <2>13. new.cause <= nrun + 1
    <3>1. run[r].cause \in Nat
      BY <1>0 DEF RunRecords
    <3> QED
      BY <1>0, <2>2, <3>1
  <2>14. new.cause \in usedKeys' /\ usedKeys \subseteq usedKeys'
    BY <2>1, <2>2
  <2>15. run[r].stage # "unused"
    BY <2>1
  <2> QED
    BY <2>1, <2>2, <2>5, <2>12, <2>13, <2>14, <2>15, BeginMove
<1> QED
  BY <1>1, <1>2, <1>3, <1>4, <1>5, <1>6, <1>7 DEF DispatchStep

LEMMA WatchRuns ==
  ASSUME TypeInv, TypeInv', RunInv, NEW r \in Runs, WatchStep(r)
  PROVE  RunsMove
<1>0. /\ run \in [Runs -> RunRecords] /\ run[r] \in RunRecords
      /\ watch \in [Runs -> WatchStates]
      /\ nrun \in Nat /\ waiting \subseteq Runs /\ run[r].cause <= nrun
  <2>1. /\ run \in [Runs -> RunRecords] /\ watch \in [Runs -> WatchStates]
        /\ nrun \in 0..NRun /\ waiting \in SUBSET Runs
    BY Zenon DEF TypeInv, TypeOK, WatchStates
  <2>2. run[r].cause <= nrun
    BY Zenon DEF RunInv, CausesPast
  <2>3. run[r] \in RunRecords
    BY <2>1
  <2>4. nrun \in Nat /\ waiting \subseteq Runs
    BY <2>1
  <2> QED
    BY <2>1, <2>2, <2>3, <2>4, Zenon
<1>1. CASE FirstEventTimeout(r) \/ FirstEventNotice(r)
  <2>1. /\ UNCHANGED <<nrun, run, waiting, usedKeys>>
        /\ \/ watch[r] = "armed" /\ watch' = [watch EXCEPT ![r] = "typing"]
           \/ watch' = [watch EXCEPT ![r] = "off"]
    BY <1>1 DEF FirstEventTimeout, FirstEventNotice
  <2>2. \A q \in Runs : WatchFalls(q)
    BY <1>0, <2>1 DEF WatchFalls
  <2> QED
    BY <2>1, <2>2, IdleMove
<1>2. CASE FirstEventSupersede(r)
  <2> DEFINE q == RetryRequest(r, run[r].thread)
             generation == AtLeastOne(req'[q].generation)
             new == [run[r] EXCEPT !.retry = q, !.generation = generation]
  <2>1. /\ watch[r] = "typing" /\ watch' = [watch EXCEPT ![r] = "cancelling"]
        /\ UNCHANGED <<nrun, waiting, usedKeys>>
        /\ run' = [run EXCEPT ![r].retry = q, ![r].generation = generation]
    BY <1>2 DEF FirstEventSupersede
  <2> HIDE DEF q, generation
  <2>2. run' = [run EXCEPT ![r] = new]
    BY <1>0, <2>1 DEF RunRecords
  <2>3. /\ new.stage = run[r].stage /\ new.cause = run[r].cause
        /\ new.applied = run[r].applied
    BY <1>0 DEF RunRecords
  <2> HIDE DEF new
  <2>4. /\ run'[r] = new /\ \A s \in Runs : s # r => run'[s] = run[s]
        /\ watch'[r] = "cancelling"
        /\ \A s \in Runs : s # r => WatchFalls(s)
    BY <1>0, <2>1, <2>2 DEF WatchFalls
  <2>5. run[r].stage = "accepted" /\ r \notin waiting
    BY <2>1 DEF TypeInv, RunsBegun, RunInv, WaitingIdle
  <2>6. Going(r) /\ ~Alive(r)' /\ ~Sending(r)' /\ ~Watched(r)'
    <3>1. Going(r)
      BY <2>1 DEF Going
    <3>2. ~InFlight(r)' /\ ~Sending(r)'
      BY <2>3, <2>4, <2>5 DEF InFlight, Sending
    <3>3. ~Watched(r)' /\ r \notin waiting'
      BY <2>1, <2>4, <2>5 DEF Watched
    <3> QED
      BY <3>1, <3>2, <3>3 DEF Alive
  <2>7. Quiet(r) /\ Falls(r)
    BY <2>1, <2>3, <2>4, <2>5, <2>6 DEF Quiet, Falls
  <2> QED
    BY <2>1, <2>4, <2>7, OneRunMove
<1>3. CASE FirstEventRequeue(r)
  <2>1. /\ watch[r] = "cancelling" /\ watch' = [watch EXCEPT ![r] = "off"]
        /\ usedKeys' = usedKeys \cup {run[r].cause}
        /\ \/ UNCHANGED <<nrun, run>> /\ waiting' = waiting \cup {r}
           \/ Begin(run, Again(r)) /\ UNCHANGED waiting
    BY <1>3 DEF FirstEventRequeue
  <2>2. /\ run[r].stage = "accepted" /\ r \notin waiting
        /\ Going(r) /\ ~InFlight(r) /\ ~Sending(r)
    BY <2>1 DEF TypeInv, RunsBegun, RunInv, WaitingIdle, Going, InFlight, Sending
  <2>3. /\ watch'[r] = "off" /\ ~Watched(r)'
        /\ \A s \in Runs : s # r => watch'[s] = watch[s]
    BY <1>0, <2>1 DEF Watched
  <2>4. ASSUME run'[r] = run[r] PROVE Quiet(r) /\ Falls(r)
    <3>1. ~InFlight(r)' /\ ~Sending(r)' /\ run'[r].cause = run[r].cause
      BY <2>2, <2>4 DEF InFlight, Sending
    <3>2. run[r].cause \in usedKeys'
      BY <2>1
    <3> QED
      BY <2>2, <2>3, <2>4, <3>1, <3>2 DEF Quiet, Falls
  <2>5. CASE UNCHANGED <<nrun, run>> /\ waiting' = waiting \cup {r}
    BY <2>1, <2>3, <2>4, <2>5, OneRunMove DEF WatchFalls
  <2>6. CASE Begin(run, Again(r)) /\ UNCHANGED waiting
    <3>1. /\ Again(r) \in RunRecords /\ Again(r).cause = run[r].cause
          /\ Again(r).applied = None /\ Again(r).retry = None
      BY <2>2, AgainFields
    <3>2. /\ \A s \in Runs : s # nrun + 1 => run'[s] = run[s]
          /\ run[nrun + 1].stage = "unused"
      BY <1>0, <2>6, <3>1, BegunFields
    <3>3. ASSUME NEW s \in Runs, s # nrun + 1 PROVE Quiet(s) /\ Falls(s)
      <4>1. CASE s = r
        BY <2>4, <3>2, <3>3, <4>1
      <4>2. CASE s # r
        <5>1. run'[s] = run[s] /\ WatchFalls(s) /\ (s \in waiting' => s \in waiting)
          BY <2>3, <2>6, <3>2, <3>3, <4>2 DEF WatchFalls
        <5> QED
          BY <5>1, UntouchedRun
      <4> QED
        BY <4>1, <4>2
    <3>4. Again(r).cause <= nrun + 1
      <4>1. run[r].cause \in Nat
        BY <1>0 DEF RunRecords
      <4> QED
        BY <1>0, <3>1, <4>1
    <3>5. Again(r).cause \in usedKeys' /\ usedKeys \subseteq usedKeys'
      BY <2>1, <3>1
    <3>6. run[r].stage # "unused" /\ waiting' \subseteq waiting \cup {r}
      BY <2>2, <2>6
    <3> QED
      BY <1>0, <2>6, <3>1, <3>3, <3>4, <3>5, <3>6, BeginMove
  <2> QED
    BY <2>1, <2>5, <2>6
<1> QED
  BY <1>1, <1>2, <1>3 DEF WatchStep

LEMMA FreshBegins ==
  ASSUME FreshDispatch
  PROVE  \E fresh \in BOOLEAN, kept \in BOOLEAN :
           Begin(run, [NoRun EXCEPT !.cause = nrun + 1, !.fresh = fresh,
                                    !.kept = kept])
<1>1. NoRun \in RunRecords
  BY DEF NoRun, RunRecords, RunStages
<1> QED
  BY <1>1 DEF FreshDispatch, RunRecords

\* The first dispatch of a message has no other run to look at.
LEMMA FreshRuns ==
  ASSUME TypeInv, TypeInv', RunInv, FreshDispatch
  PROVE  RunsMove
<1>1. PICK fresh \in BOOLEAN, kept \in BOOLEAN :
        Begin(run, [NoRun EXCEPT !.cause = nrun + 1, !.fresh = fresh,
                                 !.kept = kept])
  BY FreshBegins
<1> DEFINE new == [NoRun EXCEPT !.cause = nrun + 1, !.fresh = fresh, !.kept = kept]
<1>2. nrun + 1 \in 0..NRun /\ nrun + 1 \in Runs /\ nrun \in Nat
  BY <1>1 DEF Begin, TypeInv, TypeOK
<1>3. NoRun \in RunRecords /\ NoRun.applied = None /\ NoRun.retry = None
      /\ NoRun.request = None
  BY DEF NoRun, RunRecords, RunStages
<1>4. /\ new \in RunRecords /\ new.cause = nrun + 1
      /\ new.applied = None /\ new.retry = None /\ new.request = None
  BY <1>2, <1>3 DEF RunRecords
<1>5. Begin(run, new)
  BY <1>1
<1> HIDE DEF new
<1>6. PICK n \in Runs : n = nrun + 1
  BY <1>2
<1>7. /\ run \in [Runs -> RunRecords] /\ UNCHANGED <<waiting, watch, usedKeys>>
  BY DEF FreshDispatch, TypeInv, TypeOK
<1>8. /\ nrun' = n /\ run[n].stage = "unused"
      /\ run'[n].stage = "typing" /\ run'[n].cause = n
      /\ run'[n].request = None /\ run'[n].retry = None
      /\ run'[n].applied = None
      /\ \A q \in Runs : q # n => run'[q] = run[q]
  BY <1>4, <1>5, <1>6, <1>7, BegunFields
<1>9. \A q \in Runs : q # n => Quiet(q) /\ Falls(q)
  BY <1>7, <1>8, UntouchedRun DEF WatchFalls
<1>10. n \notin waiting /\ waiting \subseteq Runs
  BY <1>8 DEF TypeInv, TypeOK, RunsBegun
<1>11. RunInv'
  BY <1>6, <1>7, <1>8, <1>9, <1>10, BegunRuns
<1>12. Falls(n)
  <2>1. watch'[n] = "off"
    BY <1>8 DEF TypeInv, RunsBegun
  <2>2. ~Watched(n)' /\ ~Sending(n)'
    BY <1>8, <2>1 DEF Watched, Sending
  <2> QED
    BY <2>2 DEF Falls
<1> QED
  BY <1>9, <1>11, <1>12 DEF RunsMove

\* A restart drops every claim.
LEMMA RestartRuns ==
  ASSUME TypeInv, TypeInv', RunInv, Restart
  PROVE  RunsMove
<1>1. /\ watch' = [r \in Runs |-> "off"] /\ waiting' = {} /\ nrun' = nrun
      /\ run' = [r \in Runs |->
                   IF InFlight(r) \/ run[r].stage = "accepted"
                     THEN [run[r] EXCEPT !.stage = "gone"] ELSE run[r]]
  BY DEF Restart
<1>2. \A r \in Runs : LET new == [run[r] EXCEPT !.stage = "gone"]
                     IN new.stage = "gone" /\ new.cause = run[r].cause
  BY DEF TypeInv, TypeOK, RunRecords
<1>3. \A r \in Runs : /\ run'[r].cause = run[r].cause
                      /\ \/ run'[r].stage = "gone"
                         \/ ~InFlight(r) /\ run'[r] = run[r]
                      /\ watch'[r] = "off"
  BY <1>1, <1>2
<1>4. \A r \in Runs : /\ run'[r].stage \notin {"typing", "opening", "sending"}
                      /\ run'[r].cause <= nrun'
  BY <1>1, <1>3 DEF InFlight, RunInv, CausesPast
<1>5. ASSUME NEW r \in Runs
      PROVE  ~InFlight(r)' /\ ~Sending(r)' /\ ~Watched(r)' /\ r \notin waiting'
  BY <1>1, <1>3, <1>4 DEF InFlight, Sending, Watched
<1>6. \A r \in Runs : ~Going(r)' /\ ~Alive(r)' /\ Falls(r)
  BY <1>3, <1>5 DEF Going, Alive, Falls
<1>7. RunInv'
  BY <1>1, <1>4, <1>6 DEF RunInv, CauseAlone, CarriedUsed, WaitingIdle,
                          CausesPast, TypingUnapplied
<1> QED
  BY <1>6, <1>7 DEF RunsMove

\* A claim on a message is one run's, and a request a message carries is used
\* once, in every step.
LEMMA RunMoves ==
  ASSUME TypeInv, TypeInv', RunInv, Next
  PROVE  RunsMove
<1>1. ASSUME UNCHANGED <<nrun, run, waiting, usedKeys>>,
             watch' = watch \/ \E t : watch' = ClearWatch(t)
      PROVE  RunsMove
  <2>1. \A q \in Runs : WatchFalls(q)
    BY <1>1 DEF WatchFalls, ClearWatch
  <2> QED
    BY <1>1, <2>1, IdleMove
<1>2. CASE PrepareBuffered \/ ChainDeliver \/ ChainSettle
             \/ MaintenanceRequest \/ NewCommand
  <2>1. UNCHANGED <<nrun, run, waiting, usedKeys, watch>>
    BY <1>2 DEF PrepareBuffered, ChainDeliver, ChainSettle,
                MaintenanceRequest, NewCommand, memory
  <2> QED
    BY <1>1, <2>1
<1>3. ASSUME NEW r \in Runs, RuntimeStep(r) PROVE RunsMove
  BY <1>1, <1>3 DEF RuntimeStep, TurnStarted, TurnOutput, TurnEnded
<1> QED
  BY <1>2, <1>3, FreshRuns, DispatchRuns, WatchRuns, RestartRuns DEF Next

-----------------------------------------------------------------------------
\* What a step does to one request of the file: from record a to record b.

\* Nothing else than using its grace, marking it as pre-applied, or recording a
\* superseded run with it.
Kept(a, b) ==
  /\ b.status = a.status /\ b.cause = a.cause /\ b.generation = a.generation
  /\ b.successor = a.successor /\ b.grace <= a.grace
  /\ b.superseded \subseteq a.superseded \cup superseded'

\* It fails, or another one takes its place.  An applied request fails only by
\* a reconciliation, which the operator's command or a restart brings.
Closed(a, b) ==
  /\ a.status \in Live \cup {"pending"}
  /\ b.status \in {"terminal_failed", "replaced"}
  /\ b.status = "replaced" => a.status = "pending"
  /\ a.status = "applied" => manual' > 0 \/ Restart
  /\ b.cause = a.cause /\ b.generation = a.generation
  /\ b.successor = a.successor /\ b.grace = a.grace
  /\ b.superseded = a.superseded

\* Its successor has come to a good end.
Completes(a, b) ==
  /\ a.status = "first_turn_started" /\ b.status = "completed"
  /\ b.cause = a.cause /\ b.generation = a.generation
  /\ b.successor = a.successor /\ b.superseded = a.superseded

\* It is the new one at the end of the file.
Made(q, b) ==
  /\ q = nreq + 1 /\ nreq' = nreq + 1
  /\ b.status = "pending" /\ b.grace = 0 /\ b.generation <= 1
  /\ b.successor = None /\ b.superseded \subseteq superseded'

\* The dispatch of run r applies it.
Applies(r, q, a, b) ==
  /\ Apply(r) /\ run'[r].applied = q
  /\ a.status = "pending" /\ b.status = "applied"
  /\ b.cause = run[r].cause /\ b.generation \in {a.generation, run[r].generation}
  /\ b.successor = a.successor /\ b.grace = a.grace
  /\ b.superseded = a.superseded

\* The acceptance of run r's turn makes r its successor.
Links(r, q, a, b) ==
  /\ Accept(r) /\ run[r].applied = q
  /\ b.successor = r
  /\ b.status = IF r \in earlyOutcomes THEN "terminal_failed"
                ELSE IF r \in earlyStarts THEN "first_turn_started"
                ELSE "successor_started"
  /\ b.cause = a.cause /\ b.generation = a.generation
  /\ b.grace = a.grace /\ b.superseded = a.superseded

\* The first turn of its successor has started.
Starts(r, q, a, b) ==
  /\ TurnStarted(r) /\ a.successor = r
  /\ a.status \in {"successor_started", "first_turn_started"}
  /\ b.status = "first_turn_started"
  /\ b.cause = a.cause /\ b.generation = a.generation
  /\ b.successor = a.successor /\ b.grace = a.grace
  /\ b.superseded = a.superseded

\* The recovery of run r opens it again.
Recovering(r) ==
  \/ TransportFailThrow(r) \/ TransportFailRecover(r) \/ FirstEventSupersede(r)
Reopens(r, q, a, b) ==
  /\ Recovering(r) /\ ~RetryUsed(r) /\ q = Existing(r)
  /\ a.status \in Live \cup {"completed"} /\ b.status = "pending"
  /\ a.generation < 1 /\ b.generation = a.generation + 1
  /\ b.cause = a.cause /\ b.successor = None /\ b.grace = 0
  /\ b.superseded \subseteq a.superseded \cup superseded'

Moves(q, a, b) ==
  \/ Kept(a, b) \/ Closed(a, b) \/ Completes(a, b) \/ Made(q, b)
  \/ \E r \in Runs : \/ Applies(r, q, a, b) \/ Links(r, q, a, b)
                     \/ Starts(r, q, a, b) \/ Reopens(r, q, a, b)

\* What the file's operators do to one request.
LEMMA SameKept ==
  ASSUME NEW a \in RequestRecords
  PROVE  Kept(a, a)
BY DEF Kept, RequestRecords

LEMMA GraceUsedKeeps ==
  ASSUME NEW reqs \in Files, NEW thread, NEW p \in Requests
  PROVE  Kept(reqs[p], GraceUsed(reqs, thread)[p])
<1> DEFINE q == GraceOf(reqs, thread)
           S == {x \in Requests : /\ reqs[x].status = "completed"
                                  /\ run[reqs[x].successor].thread = thread}
<1>0. reqs[p] \in RequestRecords
  BY DEF Files
<1>1. q = Latest(S) /\ S \in SUBSET Requests
  BY DEF GraceOf
<1>2. q \in 0..NReq
  BY <1>1, LatestMember
<1> HIDE DEF q, S
<1>3. CASE GraceUsed(reqs, thread) = reqs
  BY <1>0, <1>3, SameKept
<1>4. CASE /\ q # None
           /\ GraceUsed(reqs, thread) = [reqs EXCEPT ![q].grace = @ - 1]
  <2> DEFINE new == [reqs[q] EXCEPT !.grace = @ - 1]
  <2>1. q \in Requests
    BY <1>2, <1>4
  <2>2. reqs[q] \in RequestRecords
    BY <2>1 DEF Files
  <2>3. GraceUsed(reqs, thread) = [reqs EXCEPT ![q] = new]
    BY <1>4, <2>1 DEF Files, RequestRecords
  <2>4. Kept(reqs[q], new)
    BY <2>2 DEF Kept, RequestRecords
  <2> HIDE DEF new
  <2>5. GraceUsed(reqs, thread)[p] = IF p = q THEN new ELSE reqs[p]
    BY <2>1, <2>3 DEF Files
  <2> QED
    BY <1>0, <2>4, <2>5, SameKept
<1> QED
  BY <1>3, <1>4 DEF GraceUsed, q

\* A request takes the place of the pending ones.
LEMMA RequestedMoves ==
  ASSUME NEW reqs \in Files, NEW n, NEW new, NEW p \in Requests
  PROVE  LET b == Requested(reqs, n, new)[p]
         IN \/ p = n /\ b = new
            \/ p # n /\ b = reqs[p]
            \/ p # n /\ reqs[p].status = "pending" /\ Closed(reqs[p], b)
<1> DEFINE b == [reqs[p] EXCEPT !.status = "replaced"]
<1>1. reqs[p] \in RequestRecords
  BY DEF Files
<1>2. /\ b.status = "replaced" /\ b.cause = reqs[p].cause
      /\ b.generation = reqs[p].generation
      /\ b.successor = reqs[p].successor /\ b.grace = reqs[p].grace
      /\ b.superseded = reqs[p].superseded
  BY <1>1 DEF RequestRecords
<1>3. Requested(reqs, n, new)[p] = IF p = n THEN new
                                  ELSE IF reqs[p].status = "pending" THEN b
                                  ELSE reqs[p]
  BY DEF Requested
<1> HIDE DEF b
<1>4. reqs[p].status = "pending" => Closed(reqs[p], b)
  BY <1>2 DEF Closed
<1> QED
  BY <1>3, <1>4

\* Opening the store fails what was open, and what a recovery left.
LEMMA ReconciledMoves ==
  ASSUME NEW reqs \in Files, NEW p \in Requests, manual' > 0 \/ Restart
  PROVE  LET b == Reconciled(reqs)[p]
         IN \/ b = reqs[p]
            \/ b.status = "terminal_failed" /\ Closed(reqs[p], b)
<1> DEFINE b == [reqs[p] EXCEPT !.status = "terminal_failed"]
<1>1. reqs[p] \in RequestRecords
  BY DEF Files
<1>2. /\ b.status = "terminal_failed" /\ b.cause = reqs[p].cause
      /\ b.generation = reqs[p].generation
      /\ b.successor = reqs[p].successor /\ b.grace = reqs[p].grace
      /\ b.superseded = reqs[p].superseded
  BY <1>1 DEF RequestRecords
<1>3. \/ Reconciled(reqs)[p] = reqs[p]
      \/ /\ Reconciled(reqs)[p] = b
         /\ reqs[p].status \in Live \cup {"pending"}
  BY DEF Reconciled
<1> HIDE DEF b
<1> QED
  BY <1>2, <1>3 DEF Closed

\* Both: a request after a reconciliation.
LEMMA ReconciledRequested ==
  ASSUME NEW reqs \in Files, NEW n, NEW new, NEW p \in Requests,
         manual' > 0 \/ Restart
  PROVE  LET b == Requested(Reconciled(reqs), n, new)[p]
         IN \/ p = n /\ b = new
            \/ b = reqs[p]
            \/ Closed(reqs[p], b)
<1>1. PICK middle \in Files : middle = Reconciled(reqs)
  BY ReconciledHarmless
<1>2. \/ middle[p] = reqs[p]
      \/ middle[p].status = "terminal_failed" /\ Closed(reqs[p], middle[p])
  BY <1>1, ReconciledMoves
<1>3. LET b == Requested(middle, n, new)[p]
      IN \/ p = n /\ b = new
         \/ p # n /\ b = middle[p]
         \/ p # n /\ middle[p].status = "pending" /\ Closed(middle[p], b)
  BY RequestedMoves
<1> QED
  BY <1>1, <1>2, <1>3

\* The new requests of the program's own and of a recovery.
LEMMA MadeRequest ==
  ASSUME NEW thread \in 0..NRun, NEW q, q = nreq + 1, nreq' = nreq + 1,
         NEW new, new \in {PressureRequest(thread),
                           [NoRequest EXCEPT !.status = "pending", !.old = thread]}
  PROVE  Made(q, new)
<1>1. /\ new.status = "pending" /\ new.grace = 0 /\ new.generation = 0
      /\ new.successor = None /\ new.superseded = {}
  BY DEF PressureRequest, NoRequest
<1> QED
  BY <1>1 DEF Made

\* The request that a dispatch applies.
LEMMA ApplyMoves ==
  ASSUME TypeInv, RunInv, NEW r \in Runs, Apply(r), NEW p \in Requests
  PROVE  Kept(req[p], req'[p]) \/ Applies(r, p, req[p], req'[p])
<1>0. /\ req \in Files /\ run[r] \in RunRecords /\ session \in 0..NRun
      /\ run \in [Runs -> RunRecords]
  BY DEF TypeInv, TypeOK, Files
<1> DEFINE q == PendingFor(req, session)
           generation == IF run[r].fresh THEN req[q].generation
                         ELSE run[r].generation
           old == IF session # None THEN session ELSE req[q].old
           new == [req[q] EXCEPT !.status = "applied", !.old = old,
                     !.cause = run[r].cause, !.generation = generation]
           B == [run[r] EXCEPT !.stage = "opening", !.applied = q,
                               !.generation = generation]
<1>1. q \in 0..NReq /\ (q # None => req[q].status = "pending")
  BY <1>0, PendingForMember
<1>2. \/ req' = req
      \/ /\ q # None
         /\ req' = AppliedTo(req, q, session, run[r].cause, generation)
         /\ run' = [run EXCEPT ![r].stage = "opening", ![r].applied = q,
                               ![r].generation = generation]
  BY DEF Apply
<1>3. CASE req' = req
  BY <1>0, <1>3, SameKept DEF Files
<1>4. CASE /\ q # None
           /\ req' = AppliedTo(req, q, session, run[r].cause, generation)
           /\ run' = [run EXCEPT ![r].stage = "opening", ![r].applied = q,
                                 ![r].generation = generation]
  <2>1. q \in Requests
    BY <1>1, <1>4
  <2>2. req[q] \in RequestRecords
    BY <1>0, <2>1 DEF Files
  <2>3. generation \in {req[q].generation, run[r].generation}
    OBVIOUS
  <2> HIDE DEF q, generation
  <2>4. req' = [req EXCEPT ![q] = new]
    BY <1>0, <1>4, <2>1 DEF AppliedTo, Files, RequestRecords
  <2>5. run' = [run EXCEPT ![r] = B]
    BY <1>0, <1>4 DEF RunRecords
  <2>6. B.applied = q
    BY <1>0 DEF RunRecords
  <2>7. /\ new.status = "applied" /\ new.cause = run[r].cause
        /\ new.generation = generation
        /\ new.successor = req[q].successor /\ new.grace = req[q].grace
        /\ new.superseded = req[q].superseded
    BY <2>2 DEF RequestRecords
  <2> HIDE DEF new, B
  <2>8. req'[q] = new /\ \A x \in Requests : x # q => req'[x] = req[x]
    BY <1>0, <2>1, <2>4 DEF Files
  <2>9. run'[r].applied = q
    BY <1>0, <2>5, <2>6
  <2>10. Applies(r, q, req[q], new)
    BY <1>1, <1>4, <2>3, <2>7, <2>9 DEF Applies, q
  <2>11. req[p] \in RequestRecords
    BY <1>0 DEF Files
  <2> QED
    BY <2>8, <2>10, <2>11, SameKept
<1> QED
  BY <1>2, <1>3, <1>4

\* The request whose successor's turn is accepted.
LEMMA AcceptMoves ==
  ASSUME TypeInv, NEW r \in Runs, Accept(r), NEW p \in Requests
  PROVE  Kept(req[p], req'[p]) \/ Links(r, p, req[p], req'[p])
<1>0. req \in Files /\ run[r].applied \in 0..NReq /\ req[p] \in RequestRecords
  BY DEF TypeInv, TypeOK, Files, RunRecords
<1> DEFINE q == run[r].applied
           status == IF r \in earlyOutcomes THEN "terminal_failed"
                     ELSE IF r \in earlyStarts THEN "first_turn_started"
                     ELSE "successor_started"
           new == [req[q] EXCEPT !.successor = r, !.status = status]
<1>1. \/ req' = req
      \/ q # None /\ req' = Successor(req, q, r)
  BY DEF Accept
<1> HIDE DEF q
<1>2. CASE req' = req
  BY <1>0, <1>2, SameKept
<1>3. CASE q # None /\ req' = Successor(req, q, r)
  <2>1. q \in Requests /\ req[q] \in RequestRecords
    BY <1>0, <1>3 DEF q, Files
  <2>2. req' = [req EXCEPT ![q] = new]
    BY <1>0, <1>3, <2>1 DEF Successor, Files, RequestRecords
  <2>3. status = IF r \in earlyOutcomes THEN "terminal_failed"
                 ELSE IF r \in earlyStarts THEN "first_turn_started"
                 ELSE "successor_started"
    OBVIOUS
  <2> HIDE DEF status
  <2>4. /\ new.status = status /\ new.successor = r
        /\ new.cause = req[q].cause /\ new.generation = req[q].generation
        /\ new.grace = req[q].grace /\ new.superseded = req[q].superseded
    BY <2>1 DEF RequestRecords
  <2> HIDE DEF new
  <2>5. req'[p] = IF p = q THEN new ELSE req[p]
    BY <1>0, <2>1, <2>2 DEF Files
  <2>6. Links(r, q, req[q], new)
    BY <2>3, <2>4 DEF Links, q
  <2> QED
    BY <1>0, <2>5, <2>6, SameKept
<1> QED
  BY <1>1, <1>2, <1>3

\* The open request that is found for run r is open.
LEMMA SuccessorOfOpen ==
  ASSUME NEW reqs \in Files, NEW r, SuccessorOf(reqs, r) # None
  PROVE  reqs[SuccessorOf(reqs, r)].status \in {"successor_started",
                                              "first_turn_started"}
<1> DEFINE S == {q \in Requests :
                   /\ reqs[q].status \in {"successor_started",
                                          "first_turn_started"}
                   /\ reqs[q].successor = r}
<1>1. SuccessorOf(reqs, r) = Latest(S)
  BY DEF SuccessorOf
<1>2. S \in SUBSET Requests
  OBVIOUS
<1>3. /\ S = {} => Latest(S) = None
      /\ S # {} => Latest(S) \in S
  BY <1>2, LatestMember
<1>4. \A q \in S : reqs[q].status \in {"successor_started", "first_turn_started"}
  OBVIOUS
<1> HIDE DEF S
<1> QED
  BY <1>1, <1>3, <1>4

\* The request of the turn that starts.
LEMMA TurnStartedMoves ==
  ASSUME TypeInv, NEW r \in Runs, TurnStarted(r), NEW p \in Requests
  PROVE  Kept(req[p], req'[p]) \/ Starts(r, p, req[p], req'[p])
<1>0. req \in Files /\ req[p] \in RequestRecords
  BY DEF TypeInv, TypeOK, Files
<1> DEFINE q == SuccessorOf(req, r)
           new == [req[q] EXCEPT !.status = "first_turn_started"]
<1>1. \/ req' = req
      \/ /\ q # None
         /\ req' = [req EXCEPT ![q].status = "first_turn_started"]
  BY DEF TurnStarted
<1>2. q \in 0..NReq /\ (q # None => req[q].successor = r)
  BY <1>0, SuccessorOfMember
<1>3. q # None => req[q].status \in {"successor_started", "first_turn_started"}
  BY <1>0, SuccessorOfOpen
<1> HIDE DEF q
<1>4. CASE req' = req
  BY <1>0, <1>4, SameKept
<1>5. CASE /\ q # None
           /\ req' = [req EXCEPT ![q].status = "first_turn_started"]
  <2>1. q \in Requests /\ req[q] \in RequestRecords
    BY <1>0, <1>2, <1>5 DEF Files
  <2>2. req' = [req EXCEPT ![q] = new]
    BY <1>0, <1>5, <2>1 DEF Files, RequestRecords
  <2>3. /\ new.status = "first_turn_started" /\ new.successor = req[q].successor
        /\ new.cause = req[q].cause /\ new.generation = req[q].generation
        /\ new.grace = req[q].grace /\ new.superseded = req[q].superseded
    BY <2>1 DEF RequestRecords
  <2> HIDE DEF new
  <2>4. req'[p] = IF p = q THEN new ELSE req[p]
    BY <1>0, <2>1, <2>2 DEF Files
  <2>5. Starts(r, q, req[q], new)
    BY <1>2, <1>3, <1>5, <2>3 DEF Starts
  <2> QED
    BY <1>0, <2>4, <2>5, SameKept
<1> QED
  BY <1>1, <1>4, <1>5

\* The fields that a pre-application leaves alone.
LEMMA PreAppliedMoves ==
  ASSUME NEW a, NEW b \in RequestRecords, NEW q, NEW c,
         c = b \/ c = [b EXCEPT !.preApplied = TRUE],
         Kept(a, b) \/ Closed(a, b) \/ Completes(a, b) \/ Made(q, b)
  PROVE  Kept(a, c) \/ Closed(a, c) \/ Completes(a, c) \/ Made(q, c)
<1>1. /\ c.status = b.status /\ c.cause = b.cause
      /\ c.generation = b.generation /\ c.successor = b.successor
      /\ c.grace = b.grace /\ c.superseded = b.superseded
  BY DEF RequestRecords
<1> QED
  BY <1>1 DEF Kept, Closed, Completes, Made

\* The outcome of the request whose successor has ended.
LEMMA OutcomeMoves ==
  ASSUME NEW reqs \in Files, NEW q \in Requests, NEW good,
         reqs[q].status \in {"successor_started", "first_turn_started"},
         NEW p \in Requests
  PROVE  LET b == Outcome(reqs, q, good)[p]
         IN /\ p # q => b = reqs[p]
            /\ p = q => /\ b.status # "pending"
                        /\ Closed(reqs[p], b) \/ Completes(reqs[p], b)
<1> DEFINE A == [reqs[q] EXCEPT !.status = "completed", !.grace = GraceTurns]
           B == [reqs[q] EXCEPT !.status = "terminal_failed"]
<1>0. reqs[q] \in RequestRecords /\ reqs[p] \in RequestRecords
  BY DEF Files
<1>1. \/ /\ Outcome(reqs, q, good) = [reqs EXCEPT ![q] = A]
         /\ reqs[q].status = "first_turn_started"
      \/ Outcome(reqs, q, good) = [reqs EXCEPT ![q] = B]
  BY <1>0 DEF Outcome, Files, RequestRecords
<1>2. /\ A.status = "completed" /\ A.cause = reqs[q].cause
      /\ A.generation = reqs[q].generation
      /\ A.successor = reqs[q].successor /\ A.superseded = reqs[q].superseded
  BY <1>0 DEF RequestRecords
<1>3. /\ B.status = "terminal_failed" /\ B.cause = reqs[q].cause
      /\ B.generation = reqs[q].generation
      /\ B.successor = reqs[q].successor /\ B.superseded = reqs[q].superseded
      /\ B.grace = reqs[q].grace
  BY <1>0 DEF RequestRecords
<1> HIDE DEF A, B
<1>4. reqs[q].status = "first_turn_started" => Completes(reqs[q], A)
  BY <1>2 DEF Completes
<1>5. Closed(reqs[q], B)
  BY <1>3 DEF Closed, Live
<1>6. /\ [reqs EXCEPT ![q] = A][p] = IF p = q THEN A ELSE reqs[p]
      /\ [reqs EXCEPT ![q] = B][p] = IF p = q THEN B ELSE reqs[p]
  BY DEF Files
<1>7. CASE /\ Outcome(reqs, q, good) = [reqs EXCEPT ![q] = A]
           /\ reqs[q].status = "first_turn_started"
  BY <1>2, <1>4, <1>6, <1>7
<1>8. CASE Outcome(reqs, q, good) = [reqs EXCEPT ![q] = B]
  BY <1>3, <1>5, <1>6, <1>8
<1> QED
  BY <1>1, <1>7, <1>8

\* The end of a turn: the request whose successor has ended is open no more.
LEMMA SettleMoves ==
  ASSUME TypeInv, ChainSettle, NEW x \in Requests
  PROVE  /\ Moves(x, req[x], req'[x])
         /\ x = SuccessorOf(req, chain) =>
              req'[x].status \notin {"successor_started", "first_turn_started"}
<1>0. /\ req \in Files /\ nreq \in 0..NReq /\ req[x] \in RequestRecords
      /\ run[chain].thread \in 0..NRun /\ session \in 0..NRun
  <2>1. chain \in Runs
    BY SettleStep
  <2> QED
    BY <2>1 DEF TypeInv, TypeOK, Files, RunRecords
<1> DEFINE r == chain
           t == run[r].thread
           q == SuccessorOf(req, r)
<1>1. PICK completed \in BOOLEAN, written \in BOOLEAN, pressure \in BOOLEAN :
        LET good == completed /\ written /\ run[r].stage = "accepted"
            ended == IF q = None THEN req ELSE Outcome(req, q, good)
            queued == IF pressure
                        THEN Requested(ended, nreq + 1, PressureRequest(t))
                        ELSE ended
            p == IF completed THEN PreApplied(queued, t) ELSE None
        IN /\ pressure => PressureOn(ended, t)
           /\ nreq' = IF pressure THEN nreq + 1 ELSE nreq
           /\ req' = IF p = None THEN queued
                     ELSE [queued EXCEPT ![p].preApplied = TRUE]
           /\ session' = IF p = None THEN session ELSE None
           /\ earlyOutcomes' = IF q = None /\ SomeApplied(req)
                                 THEN earlyOutcomes \cup {r}
                                 ELSE earlyOutcomes
           /\ outcome' = [outcome EXCEPT ![r] = IF good THEN "good" ELSE "bad"]
           /\ gate' = (gate /\ t \notin gateThread)
           /\ gateThread' = gateThread \ {t}
  BY Zenon DEF ChainSettle
<1> DEFINE good == completed /\ written /\ run[r].stage = "accepted"
           ended == IF q = None THEN req ELSE Outcome(req, q, good)
           queued == IF pressure
                       THEN Requested(ended, nreq + 1, PressureRequest(t))
                       ELSE ended
           p == IF completed THEN PreApplied(queued, t) ELSE None
<1>2. /\ q \in 0..NReq
      /\ q # None => req[q].status \in {"successor_started", "first_turn_started"}
  BY <1>0, SuccessorOfMember, SuccessorOfOpen
<1> HIDE DEF q, good, t
<1>3. ended \in Files
  <2>1. CASE q = None
    BY <1>0, <2>1
  <2>2. CASE q # None
    <3> DEFINE A == [req[q] EXCEPT !.status = "completed", !.grace = GraceTurns]
               B == [req[q] EXCEPT !.status = "terminal_failed"]
    <3>1. q \in Requests /\ req[q] \in RequestRecords
      BY <1>0, <1>2, <2>2 DEF Files
    <3>2. ended = [req EXCEPT ![q] = A] \/ ended = [req EXCEPT ![q] = B]
      BY <1>0, <2>2, <3>1 DEF Outcome, Files, RequestRecords
    <3>3. GraceTurns \in 0..GraceTurns
      OBVIOUS
    <3>4. A \in RequestRecords /\ B \in RequestRecords
      BY <3>1, <3>3 DEF RequestRecords, Statuses
    <3> HIDE DEF A, B, ended
    <3> QED
      BY <1>0, <3>2, <3>4 DEF Files
  <2> QED
    BY <2>1, <2>2
<1>4. \/ Kept(req[x], ended[x])
      \/ /\ ended[x].status # "pending"
         /\ Closed(req[x], ended[x]) \/ Completes(req[x], ended[x])
  <2>1. CASE q = None
    BY <1>0, <2>1, SameKept
  <2>2. CASE q # None
    <3>1. q \in Requests
      BY <1>2, <2>2
    <3>2. /\ x # q => ended[x] = req[x]
          /\ x = q => /\ ended[x].status # "pending"
                      /\ Closed(req[x], ended[x]) \/ Completes(req[x], ended[x])
      BY <1>0, <1>2, <2>2, <3>1, OutcomeMoves
    <3> QED
      BY <1>0, <3>2, SameKept
  <2> QED
    BY <2>1, <2>2
<1>5. q = None \/ x # q => ended[x] = req[x]
  <2>1. q # None => q \in Requests
    BY <1>2
  <2> QED
    BY <1>0, <1>2, <2>1, OutcomeMoves
<1>6. x = q =>
         ended[x].status \notin {"successor_started", "first_turn_started"}
  <2>1. SUFFICES ASSUME x = q
                 PROVE  ended[x].status \notin {"successor_started",
                                                "first_turn_started"}
    OBVIOUS
  <2>2. ended = Outcome(req, q, good)
    BY <2>1
  <2>3. Closed(req[x], ended[x]) \/ Completes(req[x], ended[x])
    BY <1>0, <1>2, <2>1, <2>2, OutcomeMoves
  <2> QED
    BY <2>3 DEF Closed, Completes
<1> HIDE DEF ended
<1>7. x = q =>
         queued[x].status \notin {"successor_started", "first_turn_started"}
  <2>1. CASE ~pressure
    BY <1>6, <2>1
  <2>2. CASE pressure
    <3>1. LET b == Requested(ended, nreq + 1, PressureRequest(t))[x]
          IN \/ b = PressureRequest(t) \/ b = ended[x]
             \/ Closed(ended[x], b)
      BY <1>3, RequestedMoves
    <3>2. PressureRequest(t).status = "pending"
      BY DEF PressureRequest, NoRequest
    <3>3. \/ queued[x] = PressureRequest(t) \/ queued[x] = ended[x]
          \/ Closed(ended[x], queued[x])
      BY <2>2, <3>1
    <3> QED
      BY <1>6, <3>2, <3>3 DEF Closed
  <2> QED
    BY <2>1, <2>2
<1>8. /\ queued \in Files
      /\ \/ Kept(req[x], queued[x]) \/ Closed(req[x], queued[x])
         \/ Completes(req[x], queued[x]) \/ Made(x, queued[x])
  <2>1. CASE ~pressure
    BY <1>3, <1>4, <2>1
  <2>2. CASE pressure
    <3>1. PressureOn(ended, t) /\ nreq' = nreq + 1
      BY <1>1, <2>2 DEF ended, good, t, q
    <3>2. queued = Requested(ended, nreq + 1, PressureRequest(t))
      BY <2>2
    <3>3. queued \in Files
      BY <1>0, <1>3, <3>1, <3>2, PressureStep
    <3>4. \/ x = nreq + 1 /\ queued[x] = PressureRequest(t)
          \/ x # nreq + 1 /\ queued[x] = ended[x]
          \/ /\ x # nreq + 1 /\ ended[x].status = "pending"
             /\ Closed(ended[x], queued[x])
      BY <1>3, <3>2, RequestedMoves
    <3>5. CASE x = nreq + 1 /\ queued[x] = PressureRequest(t)
      <4>1. t \in 0..NRun
        BY <1>0 DEF t
      <4>2. Made(x, PressureRequest(t))
        BY <3>1, <3>5, <4>1, MadeRequest
      <4> QED
        BY <3>3, <3>5, <4>2
    <3>6. CASE queued[x] = ended[x]
      BY <1>4, <3>3, <3>6
    <3>7. CASE ended[x].status = "pending" /\ Closed(ended[x], queued[x])
      <4>1. x # q
        BY <1>2, <1>4, <3>7 DEF Kept
      <4>2. ended[x] = req[x]
        BY <1>5, <4>1
      <4> QED
        BY <3>3, <3>7, <4>2
    <3> QED
      BY <3>4, <3>5, <3>6, <3>7
  <2> QED
    BY <2>1, <2>2
<1>9. req' = IF p = None THEN queued ELSE [queued EXCEPT ![p].preApplied = TRUE]
  BY <1>1 DEF queued, ended, good, t, q
<1> HIDE DEF queued, p
<1>10. \/ req'[x] = queued[x]
      \/ req'[x] = [queued[x] EXCEPT !.preApplied = TRUE]
  BY <1>8, <1>9 DEF Files
<1>11. queued[x] \in RequestRecords
  BY <1>8 DEF Files
<1>12. \/ Kept(req[x], req'[x]) \/ Closed(req[x], req'[x])
       \/ Completes(req[x], req'[x]) \/ Made(x, req'[x])
  BY <1>8, <1>10, <1>11, PreAppliedMoves
<1>13. x = q =>
         req'[x].status \notin {"successor_started", "first_turn_started"}
  <2>1. req'[x].status = queued[x].status
    BY <1>10, <1>11 DEF RequestRecords
  <2> QED
    BY <1>7, <2>1
<1> QED
  BY <1>12, <1>13 DEF Moves, q

\* What a recovery saves: the request that carries the message again is
\* pending, and names the run that is superseded.
LEMMA RetryMoves ==
  ASSUME TypeInv, NEW r \in Runs, NEW old \in 0..NRun, SaveRetry(r, old),
         Recovering(r), ~RetryUsed(r), old # None => old \in superseded'
  PROVE  /\ \A x \in Requests : Moves(x, req[x], req'[x])
         /\ RetryRequest(r, old) \in Requests
         /\ req'[RetryRequest(r, old)].status = "pending"
         /\ old # None => old \in req'[RetryRequest(r, old)].superseded
<1> DEFINE q == RetryRequest(r, old)
           e == Existing(r)
           new == [NoRequest EXCEPT !.status = "pending", !.old = old,
                     !.cause = run[r].cause, !.generation = 1]
           found == IF StatusOf(e) \in Live \cup {"completed"}
                      THEN Requeued(req, e)
                    ELSE IF q = nreq + 1 THEN Requested(req, q, new)
                    ELSE req
           again == [req[e] EXCEPT !.status = "pending", !.successor = None,
                       !.generation = @ + 1, !.grace = 0]
           gone == (found[q].superseded \cup {old}) \ {None}
<1>0. /\ req \in Files /\ e \in 0..NReq /\ q \in Requests
      /\ req' = RetryRequests(r, old)
      /\ q = nreq + 1 => nreq' = nreq + 1
      /\ run[r] \in RunRecords
  BY ExistingType DEF SaveRetry, TypeInv, TypeOK, Files
<1>1. /\ StatusOf(e) \in Live \cup {"completed"} => e = q
      /\ \/ StatusOf(e) \in Live \cup {"completed", "pending"} /\ q = e
         \/ q # None /\ q = PendingFor(req, old)
         \/ q = nreq + 1
  BY DEF RetryRequest
<1>2. /\ new.status = "pending" /\ new.generation = 1 /\ new.grace = 0
      /\ new.successor = None /\ new.superseded = {}
  BY DEF NoRequest
<1>3. new \in RequestRecords
  <2>1. NoRequest \in RequestRecords
    BY DEF NoRequest, RequestRecords, Statuses
  <2>2. run[r].cause \in 0..NRun
    BY <1>0 DEF RunRecords
  <2> QED
    BY <2>1, <2>2 DEF RequestRecords, Statuses
<1> HIDE DEF new
<1>4. req' = [found EXCEPT ![q].superseded = gone]
  BY <1>0 DEF RetryRequests, new
<1>5. PendingFor(req, old) # None => req[PendingFor(req, old)].status = "pending"
  BY <1>0, PendingForMember
<1>6. StatusOf(e) \in Live \cup {"completed", "pending"} =>
        e \in Requests /\ StatusOf(e) = req[e].status
  BY <1>0 DEF StatusOf, Live
<1> HIDE DEF q, e
<1>7. ASSUME StatusOf(e) \in Live \cup {"completed"}
      PROVE  /\ found = [req EXCEPT ![q] = again]
             /\ again \in RequestRecords /\ again.status = "pending"
             /\ again.superseded = req[q].superseded
             /\ e = q /\ req[q].status \in Live \cup {"completed"}
             /\ req[q].generation < 1
             /\ again.generation = req[q].generation + 1
             /\ again.cause = req[q].cause
             /\ again.successor = None /\ again.grace = 0
  <2>1. e = q /\ req[q] \in RequestRecords /\ req[q].status \in Live \cup {"completed"}
    BY <1>0, <1>1, <1>6, <1>7 DEF Files
  <2>2. found = [req EXCEPT ![q] = again]
    BY <1>0, <1>7, <2>1 DEF Requeued, Files, RequestRecords
  <2>3. ~(req[e].generation >= 1)
    BY <1>0, <2>1 DEF RetryUsed, e
  <2>4. req[q].generation \in Nat /\ req[q].generation < 1
    BY <2>1, <2>3 DEF RequestRecords
  <2>5. /\ again \in RequestRecords /\ again.status = "pending"
        /\ again.superseded = req[q].superseded
        /\ again.generation = req[q].generation + 1
        /\ again.cause = req[q].cause
        /\ again.successor = None /\ again.grace = 0
    <3>1. 0 \in 0..GraceTurns /\ 0 \in 0..NRun /\ req[q].generation + 1 \in Nat
      BY <2>4
    <3> QED
      BY <2>1, <3>1 DEF RequestRecords, Statuses
  <2> HIDE DEF found, again
  <2> QED
    BY <2>1, <2>2, <2>4, <2>5
<1> HIDE DEF again
<1>8. /\ found \in Files /\ found[q].status = "pending"
      /\ \A x \in Requests :
           \/ Kept(req[x], found[x])
           \/ x # q /\ Closed(req[x], found[x])
           \/ x = q /\ (Reopens(r, x, req[x], found[x]) \/ Made(x, found[x]))
  <2>1. CASE StatusOf(e) \in Live \cup {"completed"}
    <3>1. found \in Files
      BY <1>0, <1>7, <2>1 DEF Files
    <3>2. found[q] = again /\ \A x \in Requests : x # q => found[x] = req[x]
      BY <1>0, <1>7, <2>1 DEF Files
    <3>3. Reopens(r, q, req[q], again)
      BY <1>7, <2>1 DEF Reopens, e
    <3>4. \A x \in Requests : req[x] \in RequestRecords
      BY <1>0 DEF Files
    <3> HIDE DEF found
    <3> QED
      BY <1>7, <2>1, <3>1, <3>2, <3>3, <3>4, SameKept
  <2>2. CASE StatusOf(e) \notin Live \cup {"completed"} /\ q = nreq + 1
    <3>1. found = Requested(req, q, new)
      BY <2>2
    <3>2. found \in Files
      <4>1. new.status # "completed"
        BY <1>2
      <4> QED
        BY <1>0, <1>2, <1>3, <3>1, <4>1, RequestedHarmless
    <3> HIDE DEF found
    <3>3. \A x \in Requests :
            \/ x = q /\ found[x] = new
            \/ x # q /\ found[x] = req[x]
            \/ x # q /\ Closed(req[x], found[x])
      BY <1>0, <3>1, RequestedMoves
    <3>4. Made(q, new)
      BY <1>0, <1>2, <2>2 DEF Made
    <3>5. \A x \in Requests : req[x] \in RequestRecords
      BY <1>0 DEF Files
    <3>6. found[q] = new
      BY <1>0, <3>3
    <3> QED
      BY <1>2, <3>2, <3>3, <3>4, <3>5, <3>6, SameKept
  <2>3. CASE StatusOf(e) \notin Live \cup {"completed"} /\ q # nreq + 1
    <3>1. found = req
      BY <2>3
    <3>2. req[q].status = "pending"
      BY <1>1, <1>5, <1>6, <2>3
    <3>3. \A x \in Requests : req[x] \in RequestRecords
      BY <1>0 DEF Files
    <3> QED
      BY <1>0, <3>1, <3>2, <3>3, SameKept
  <2> QED
    BY <2>1, <2>2, <2>3
<1> DEFINE b == [found[q] EXCEPT !.superseded = gone]
<1>9. gone \subseteq found[q].superseded \cup superseded' /\ (old # None => old \in gone)
  OBVIOUS
<1> HIDE DEF found, gone
<1>10. found[q] \in RequestRecords
  BY <1>0, <1>8 DEF Files
<1>11. /\ b.status = found[q].status /\ b.cause = found[q].cause
       /\ b.generation = found[q].generation
       /\ b.successor = found[q].successor /\ b.grace = found[q].grace
       /\ b.superseded = gone
  BY <1>10 DEF RequestRecords
<1>12. req' = [found EXCEPT ![q] = b]
  BY <1>0, <1>4, <1>8, <1>10 DEF Files, RequestRecords
<1> HIDE DEF b
<1>13. req'[q] = b /\ \A x \in Requests : x # q => req'[x] = found[x]
  BY <1>0, <1>8, <1>12 DEF Files
<1>14. Kept(req[q], b) \/ Reopens(r, q, req[q], b) \/ Made(q, b)
  <2>1. CASE Kept(req[q], found[q])
    BY <1>9, <1>11, <2>1 DEF Kept
  <2>2. CASE Reopens(r, q, req[q], found[q])
    BY <1>9, <1>11, <2>2 DEF Reopens
  <2>3. CASE Made(q, found[q])
    BY <1>9, <1>11, <2>3 DEF Made
  <2> QED
    BY <1>0, <1>8, <2>1, <2>2, <2>3
<1>15. \A x \in Requests : Moves(x, req[x], req'[x])
  BY <1>8, <1>13, <1>14 DEF Moves
<1>16. req'[q].status = "pending" /\ (old # None => old \in req'[q].superseded)
  BY <1>8, <1>9, <1>11, <1>13
<1> QED
  BY <1>0, <1>15, <1>16 DEF q

\* Every step moves every request of the file in one of these ways.
LEMMA FileMoves ==
  ASSUME TypeInv, RunInv, Next
  PROVE  \A x \in Requests : Moves(x, req[x], req'[x])
<1> SUFFICES ASSUME NEW x \in Requests PROVE Moves(x, req[x], req'[x])
  OBVIOUS
<1>0. /\ TypeOK /\ req \in Files /\ req[x] \in RequestRecords
      /\ nreq \in 0..NReq /\ session \in 0..NRun /\ manual \in Nat
      /\ \A r \in Runs : run[r].thread \in 0..NRun
  BY DEF TypeInv, TypeOK, Files, RunRecords
<1> DEFINE Goal == Moves(x, req[x], req'[x])
<1>1. ASSUME req' = req \/ req' = GraceUsed(req, session) PROVE Goal
  <2>1. Kept(req[x], req'[x])
    BY <1>0, <1>1, SameKept, GraceUsedKeeps
  <2> QED
    BY <2>1 DEF Moves
<1>2. CASE FreshDispatch \/ PrepareBuffered \/ ChainDeliver \/ NewCommand
  BY <1>1, <1>2 DEF FreshDispatch, PrepareBuffered, ChainDeliver, NewCommand, disk
<1>3. ASSUME NEW r \in Runs, DispatchStep(r) PROVE Goal
  <2>1. CASE FlushAgain(r)
    BY <1>1, <2>1 DEF FlushAgain
  <2>2. CASE Apply(r)
    BY <2>2, ApplyMoves DEF Moves
  <2>3. CASE OpenThread(r) \/ Refuse(r) \/ TransportFailNoRetry(r)
    BY <1>1, <2>3 DEF OpenThread, Refuse, TransportFailNoRetry
  <2>4. CASE Accept(r)
    BY <2>4, AcceptMoves DEF Moves
  <2>5. CASE TransportFailThrow(r)
    <3>1. SaveRetry(r, None) /\ Recovering(r) /\ ~RetryUsed(r)
      BY <2>5 DEF TransportFailThrow, Recovering, Retryable
    <3> QED
      BY <3>1, RetryMoves
  <2>6. CASE TransportFailRecover(r)
    <3> DEFINE old == OldThread(r, session)
    <3>1. /\ SaveRetry(r, old) /\ Recovering(r) /\ ~RetryUsed(r)
          /\ superseded' = superseded \cup {old}
      BY <2>6 DEF TransportFailRecover, Recovering, Retryable
    <3>2. old \in 0..NRun
      BY <1>0, OldThreadType
    <3> QED
      BY <3>1, <3>2, RetryMoves
  <2> QED
    BY <1>3, <2>1, <2>2, <2>3, <2>4, <2>5, <2>6 DEF DispatchStep
<1>4. ASSUME NEW r \in Runs, WatchStep(r) PROVE Goal
  <2>1. CASE FirstEventTimeout(r) \/ FirstEventNotice(r)
    BY <1>1, <2>1 DEF FirstEventTimeout, FirstEventNotice, disk
  <2>2. CASE FirstEventSupersede(r)
    <3>1. /\ SaveRetry(r, run[r].thread) /\ Recovering(r) /\ ~RetryUsed(r)
          /\ superseded' = superseded \cup {run[r].thread}
      BY <2>2 DEF FirstEventSupersede, Recovering, Retryable
    <3> QED
      BY <1>0, <3>1, RetryMoves
  <2>3. CASE FirstEventRequeue(r)
    BY <1>1, <2>3 DEF FirstEventRequeue
  <2> QED
    BY <1>4, <2>1, <2>2, <2>3 DEF WatchStep
<1>5. ASSUME NEW r \in Runs, RuntimeStep(r) PROVE Goal
  <2>1. CASE TurnStarted(r)
    BY <2>1, TurnStartedMoves DEF Moves
  <2>2. CASE TurnOutput(r)
    <3> DEFINE t == run[r].thread
    <3>1. \/ req' = req
          \/ /\ nreq' = nreq + 1
             /\ req' = Requested(req, nreq + 1, PressureRequest(t))
      BY <2>2 DEF TurnOutput
    <3>2. t \in 0..NRun
      BY <1>0
    <3> HIDE DEF t
    <3>3. CASE req' = req
      BY <1>1, <3>3
    <3>4. CASE /\ nreq' = nreq + 1
               /\ req' = Requested(req, nreq + 1, PressureRequest(t))
      <4>1. nreq' = nreq + 1
        BY <3>4
      <4>2. Made(nreq + 1, PressureRequest(t))
        BY <3>2, <4>1, MadeRequest
      <4>3. \/ x = nreq + 1 /\ req'[x] = PressureRequest(t)
            \/ req'[x] = req[x]
            \/ Closed(req[x], req'[x])
        BY <1>0, <3>4, RequestedMoves
      <4> QED
        BY <1>0, <4>2, <4>3, SameKept DEF Moves
    <3> QED
      BY <3>1, <3>3, <3>4
  <2>3. CASE TurnEnded(r)
    BY <1>1, <2>3 DEF TurnEnded, disk
  <2> QED
    BY <1>5, <2>1, <2>2, <2>3 DEF RuntimeStep
<1>6. CASE MaintenanceRequest
  <2> DEFINE new == [NoRequest EXCEPT !.status = "pending", !.old = session]
  <2>1. /\ manual' > 0 /\ nreq' = nreq + 1
        /\ req' = Requested(Reconciled(req), nreq + 1, new)
    BY <1>0, <1>6 DEF MaintenanceRequest
  <2>2. Made(nreq + 1, new)
    BY <1>0, <2>1, MadeRequest
  <2> HIDE DEF new
  <2>3. \/ x = nreq + 1 /\ req'[x] = new
        \/ req'[x] = req[x]
        \/ Closed(req[x], req'[x])
    BY <1>0, <2>1, ReconciledRequested
  <2> QED
    BY <1>0, <2>2, <2>3, SameKept DEF Moves
<1>7. CASE Restart
  <2> DEFINE new == PressureRequest(session)
  <2>1. \/ req' = Reconciled(req)
        \/ /\ nreq' = nreq + 1
           /\ req' = Requested(Reconciled(req), nreq + 1, new)
    BY <1>7 DEF Restart
  <2>2. CASE req' = Reconciled(req)
    <3>1. \/ req'[x] = req[x]
          \/ Closed(req[x], req'[x])
      BY <1>0, <1>7, <2>2, ReconciledMoves
    <3> QED
      BY <1>0, <3>1, SameKept DEF Moves
  <2>3. CASE /\ nreq' = nreq + 1
             /\ req' = Requested(Reconciled(req), nreq + 1, new)
    <3>1. Made(nreq + 1, new)
      BY <1>0, <2>3, MadeRequest
    <3> HIDE DEF new
    <3>2. \/ x = nreq + 1 /\ req'[x] = new
          \/ req'[x] = req[x]
          \/ Closed(req[x], req'[x])
      BY <1>0, <1>7, <2>3, ReconciledRequested
    <3> QED
      BY <1>0, <3>1, <3>2, SameKept DEF Moves
  <2> QED
    BY <2>1, <2>2, <2>3
<1>8. CASE ChainSettle
  BY <1>8, SettleMoves
<1> QED
  BY <1>2, <1>3, <1>4, <1>5, <1>6, <1>7, <1>8 DEF Next

-----------------------------------------------------------------------------
\* A message is redispatched once.  The count is a request's and its runs'.
RequestsOnce == \A q \in Requests : req[q].generation <= 1
RunsOnce == \A r \in Runs : run[r].generation <= 1

LEMMA RequestsOnceStep ==
  ASSUME TypeInv, RunInv, RequestsOnce, RunsOnce, Next
  PROVE  RequestsOnce'
<1>1. \A q \in Requests : req[q].generation \in Nat
  BY DEF TypeInv, TypeOK, RequestRecords
<1>2. ASSUME NEW q \in Requests PROVE req'[q].generation <= 1
  <2>1. Moves(q, req[q], req'[q])
    BY FileMoves
  <2>2. CASE \E r \in Runs : Reopens(r, q, req[q], req'[q])
    BY <1>1, <2>2 DEF Reopens
  <2>3. CASE ~\E r \in Runs : Reopens(r, q, req[q], req'[q])
    BY <2>1, <2>3 DEF Moves, Kept, Closed, Completes, Made, Applies, Links,
                      Starts, RequestsOnce, RunsOnce
  <2> QED
    BY <2>2, <2>3
<1> QED
  BY <1>2 DEF RequestsOnce

LEMMA AtLeastOneSmall ==
  ASSUME NEW n \in Nat, n <= 1
  PROVE  AtLeastOne(n) = 1
BY DEF AtLeastOne

LEMMA RunsOnceStep ==
  ASSUME TypeInv, TypeInv', RunInv, RequestsOnce, RequestsOnce', RunsOnce, Next
  PROVE  RunsOnce'
<1>0. /\ run \in [Runs -> RunRecords] /\ req \in Files /\ session \in 0..NRun
      /\ TypeOK /\ nrun \in Nat
      /\ \A q \in Requests : /\ req[q].generation \in Nat
                             /\ req'[q].generation \in Nat
  <2>1. req \in Files /\ req' \in Files
    BY DEF TypeInv, TypeOK, Files
  <2>2. \A q \in Requests : /\ req[q].generation \in Nat
                            /\ req'[q].generation \in Nat
    BY <2>1 DEF Files, RequestRecords
  <2>3. /\ TypeOK /\ run \in [Runs -> RunRecords] /\ session \in 0..NRun
        /\ nrun \in 0..NRun
    BY DEF TypeInv, TypeOK
  <2>4. nrun \in Nat
    BY <2>3
  <2> QED
    BY <2>1, <2>2, <2>3, <2>4
<1>1. ASSUME \A r \in Runs : \/ run'[r].generation = run[r].generation
                             \/ run'[r].generation <= 1
      PROVE  RunsOnce'
  BY <1>1 DEF RunsOnce
<1>2. ASSUME run' = run PROVE RunsOnce'
  BY <1>1, <1>2
<1>3. ASSUME NEW new \in RunRecords, new.generation <= 1,
             NEW runs \in [Runs -> RunRecords], Begin(runs, new),
             \A r \in Runs : runs[r].generation = run[r].generation
      PROVE  RunsOnce'
  <2>1. PICK n \in Runs : n = nrun + 1
    BY <1>3, BegunFields
  <2>2. /\ run'[n].generation = new.generation
        /\ \A q \in Runs : q # n => run'[q] = runs[q]
    BY <1>3, <2>1, BegunFields
  <2>3. ASSUME NEW r \in Runs
        PROVE  run'[r].generation = run[r].generation \/ run'[r].generation <= 1
    BY <1>3, <2>2
  <2> QED
    BY <1>1, <2>3
<1>4. ASSUME NEW r \in Runs, NEW new \in RunRecords,
             new.generation = run[r].generation \/ new.generation <= 1,
             run' = [run EXCEPT ![r] = new]
      PROVE  RunsOnce'
  <2>1. \A s \in Runs : run'[s] = IF s = r THEN new ELSE run[s]
    BY <1>0, <1>4
  <2> QED
    BY <1>1, <1>4, <2>1
<1>5. CASE FreshDispatch
  <2>1. PICK fresh \in BOOLEAN, kept \in BOOLEAN :
          Begin(run, [NoRun EXCEPT !.cause = nrun + 1, !.fresh = fresh,
                                   !.kept = kept])
    BY <1>5, FreshBegins
  <2> DEFINE new == [NoRun EXCEPT !.cause = nrun + 1, !.fresh = fresh, !.kept = kept]
  <2>2. nrun + 1 \in 0..NRun
    BY <1>0, <2>1 DEF Begin
  <2>3. NoRun \in RunRecords /\ NoRun.generation = 0
    BY DEF NoRun, RunRecords, RunStages
  <2>4. new \in RunRecords /\ new.generation = 0
    BY <2>2, <2>3 DEF RunRecords
  <2>5. Begin(run, new)
    BY <2>1
  <2> HIDE DEF new
  <2> QED
    BY <1>0, <1>3, <2>4, <2>5
<1>6. ASSUME NEW r \in Runs, FlushAgain(r) \/ FirstEventRequeue(r) PROVE RunsOnce'
  <2>1. Begin(run, Again(r)) \/ run' = run
    BY <1>6 DEF FlushAgain, FirstEventRequeue
  <2>2. run[r].stage # "unused"
    BY <1>6 DEF FlushAgain, FirstEventRequeue, TypeInv, RunsBegun
  <2>3. Again(r) \in RunRecords /\ Again(r).generation = run[r].generation
    BY <2>2, AgainFields
  <2>4. Again(r).generation <= 1
    BY <2>3 DEF RunsOnce
  <2> QED
    BY <1>0, <1>2, <1>3, <2>1, <2>3, <2>4
<1>7. ASSUME NEW r \in Runs, Apply(r) PROVE RunsOnce'
  <2> DEFINE p == PendingFor(req, session)
             generation == IF run[r].fresh THEN req[p].generation
                           ELSE run[r].generation
             A == [run[r] EXCEPT !.stage = "opening"]
             B == [run[r] EXCEPT !.stage = "opening", !.applied = p,
                                 !.generation = generation]
  <2>0. run[r] \in RunRecords
    BY <1>0
  <2>1. p \in 0..NReq
    BY <1>0, PendingForMember
  <2>2. \/ run' = [run EXCEPT ![r].stage = "opening"]
        \/ /\ p # None
           /\ run' = [run EXCEPT ![r].stage = "opening", ![r].applied = p,
                                 ![r].generation = generation]
    BY <1>7 DEF Apply
  <2> HIDE DEF p
  <2>3. p # None => generation \in Nat /\ generation <= 1
    <3>1. p # None => req[p].generation \in Nat /\ req[p].generation <= 1
      BY <1>0, <2>1 DEF RequestsOnce
    <3>2. run[r].generation \in Nat /\ run[r].generation <= 1
      BY <1>0, <2>0 DEF RunRecords, RunsOnce
    <3> QED
      BY <3>1, <3>2
  <2> HIDE DEF generation
  <2>4. \/ run' = [run EXCEPT ![r] = A]
        \/ p # None /\ run' = [run EXCEPT ![r] = B]
    BY <1>0, <2>2 DEF RunRecords
  <2>5. A \in RunRecords /\ A.generation = run[r].generation
    BY <2>0 DEF RunRecords, RunStages
  <2>6. p # None => B \in RunRecords /\ B.generation = generation
    BY <2>0, <2>1, <2>3 DEF RunRecords, RunStages
  <2> HIDE DEF A, B
  <2>7. CASE run' = [run EXCEPT ![r] = A]
    BY <1>4, <2>5, <2>7
  <2>8. CASE p # None /\ run' = [run EXCEPT ![r] = B]
    BY <1>4, <2>3, <2>6, <2>8
  <2> QED
    BY <2>4, <2>7, <2>8
<1>8. ASSUME NEW r \in Runs, OpenThread(r) PROVE RunsOnce'
  <2>1. PICK t \in {r} \cup ({session} \ {None}) :
          run' = [run EXCEPT ![r].stage = "sending", ![r].thread = t]
    BY <1>8 DEF OpenThread
  <2> DEFINE new == [run[r] EXCEPT !.stage = "sending", !.thread = t]
  <2>2. t \in 0..NRun /\ run[r] \in RunRecords
    BY <1>0, <2>1
  <2>3. new \in RunRecords /\ new.generation = run[r].generation
    BY <2>2 DEF RunRecords, RunStages
  <2>4. run' = [run EXCEPT ![r] = new]
    BY <1>0, <2>1, <2>2 DEF RunRecords
  <2> HIDE DEF new
  <2> QED
    BY <1>4, <2>3, <2>4
<1>9. ASSUME NEW r \in Runs,
             \/ Accept(r) \/ Refuse(r) \/ TransportFailNoRetry(r)
             \/ TransportFailThrow(r)
      PROVE  RunsOnce'
  <2>1. PICK stage \in {"accepted", "refused", "lost"} :
          run' = [run EXCEPT ![r].stage = stage]
    BY <1>9 DEF Accept, Refuse, TransportFailNoRetry, TransportFailThrow, Failed
  <2> DEFINE new == [run[r] EXCEPT !.stage = stage]
  <2>2. run[r] \in RunRecords
    BY <1>0
  <2>3. new \in RunRecords /\ new.generation = run[r].generation
    BY <2>2 DEF RunRecords, RunStages
  <2>4. run' = [run EXCEPT ![r] = new]
    BY <1>0, <2>1, <2>2 DEF RunRecords
  <2> HIDE DEF new
  <2> QED
    BY <1>4, <2>3, <2>4
<1>10. ASSUME NEW r \in Runs, TransportFailRecover(r) PROVE RunsOnce'
  <2> DEFINE lost == [run[r] EXCEPT !.stage = "lost"]
             runs == [run EXCEPT ![r].stage = "lost"]
             q == RetryRequest(r, OldThread(r, session))
  <2>1. PICK new \in RunRecords :
          /\ Begin(runs, new)
          /\ new.generation = AtLeastOne(req'[q].generation)
    BY <1>10, RecoverBegins
  <2>2. q \in Requests
    BY <1>10 DEF TransportFailRecover, SaveRetry
  <2> HIDE DEF q
  <2>3. new.generation = 1
    BY <1>0, <2>1, <2>2, AtLeastOneSmall DEF RequestsOnce
  <2>4. run[r] \in RunRecords
    BY <1>0
  <2>5. lost \in RunRecords /\ lost.generation = run[r].generation
    BY <2>4 DEF RunRecords, RunStages
  <2>6. runs = [run EXCEPT ![r] = lost]
    BY <1>0, <2>4 DEF RunRecords
  <2> HIDE DEF lost, runs
  <2>7. /\ runs \in [Runs -> RunRecords]
        /\ \A s \in Runs : runs[s].generation = run[s].generation
    BY <1>0, <2>5, <2>6
  <2> QED
    BY <1>3, <2>1, <2>3, <2>7
<1>11. ASSUME NEW r \in Runs, FirstEventSupersede(r) PROVE RunsOnce'
  <2> DEFINE q == RetryRequest(r, run[r].thread)
             generation == AtLeastOne(req'[q].generation)
             new == [run[r] EXCEPT !.retry = q, !.generation = generation]
  <2>1. /\ q \in Requests
        /\ run' = [run EXCEPT ![r].retry = q, ![r].generation = generation]
    BY <1>11 DEF FirstEventSupersede, SaveRetry
  <2> HIDE DEF q
  <2>2. generation = 1
    BY <1>0, <2>1, AtLeastOneSmall DEF RequestsOnce
  <2> HIDE DEF generation
  <2>3. run[r] \in RunRecords /\ q \in 0..NReq
    BY <1>0, <2>1
  <2>4. run' = [run EXCEPT ![r] = new]
    BY <1>0, <2>1, <2>3 DEF RunRecords
  <2>5. new \in RunRecords /\ new.generation = 1
    BY <2>2, <2>3 DEF RunRecords
  <2> HIDE DEF new
  <2>6. new.generation <= 1
    BY <2>5
  <2> QED
    BY <1>4, <2>4, <2>5, <2>6
<1>12. CASE Restart
  <2>1. ASSUME NEW r \in Runs PROVE run'[r].generation = run[r].generation
    <3> DEFINE gone == [run[r] EXCEPT !.stage = "gone"]
    <3>1. run[r] \in RunRecords
      BY <1>0
    <3>2. gone.generation = run[r].generation
      BY <3>1 DEF RunRecords
    <3> HIDE DEF gone
    <3>3. run'[r] = run[r] \/ run'[r] = gone
      BY <1>12 DEF Restart, gone
    <3> QED
      BY <3>2, <3>3
  <2> QED
    BY <1>1, <2>1
<1>13. ASSUME NEW r \in Runs, FirstEventTimeout(r) \/ FirstEventNotice(r)
       PROVE  RunsOnce'
  BY <1>2, <1>13 DEF FirstEventTimeout, FirstEventNotice
<1>14. ASSUME NEW r \in Runs, RuntimeStep(r) PROVE RunsOnce'
  BY <1>2, <1>14 DEF RuntimeStep, TurnStarted, TurnOutput, TurnEnded
<1>15. CASE PrepareBuffered \/ ChainDeliver \/ ChainSettle
              \/ MaintenanceRequest \/ NewCommand
  BY <1>2, <1>15 DEF PrepareBuffered, ChainDeliver, ChainSettle,
                     MaintenanceRequest, NewCommand, memory
<1> QED
  BY <1>5, <1>6, <1>7, <1>8, <1>9, <1>10, <1>11, <1>12, <1>13, <1>14, <1>15
     DEF Next, DispatchStep, WatchStep

\* What holds of the runs and the counts in every state.
OnceInv == TypeInv /\ RunInv /\ RequestsOnce /\ RunsOnce

LEMMA OnceInvInit ==
  ASSUME Init
  PROVE  OnceInv
<1>1. TypeInv
  BY TypeInit
<1>2. /\ \A r \in Runs : run[r] = NoRun /\ watch[r] = "off"
      /\ \A q \in Requests : req[q] = NoRequest
      /\ waiting = {} /\ nrun = 0
  BY DEF Init
<1>3. /\ NoRun.stage = "unused" /\ NoRun.cause = 0 /\ NoRun.generation = 0
      /\ NoRequest.generation = 0
  BY DEF NoRun, NoRequest
<1>4. \A r \in Runs : ~Going(r) /\ ~Alive(r)
  BY <1>2, <1>3 DEF Going, Alive, InFlight, Watched
<1>5. RunInv
  BY <1>2, <1>3, <1>4 DEF RunInv, CauseAlone, CarriedUsed, WaitingIdle,
                          CausesPast, TypingUnapplied
<1> QED
  BY <1>1, <1>2, <1>3, <1>5 DEF OnceInv, RequestsOnce, RunsOnce

LEMMA OnceInvStep ==
  ASSUME OnceInv, [Next]_vars
  PROVE  OnceInv'
<1>0. TypeInv /\ RunInv /\ RequestsOnce /\ RunsOnce /\ TypeInv'
  BY TypeStep DEF OnceInv
<1>1. CASE Next
  <2>1. RunInv'
    BY <1>0, <1>1, RunMoves DEF RunsMove
  <2>2. RequestsOnce'
    BY <1>0, <1>1, RequestsOnceStep
  <2>3. RunsOnce'
    BY <1>0, <1>1, <2>2, RunsOnceStep
  <2> QED
    BY <1>0, <2>1, <2>2, <2>3 DEF OnceInv
<1>2. CASE UNCHANGED vars
  <2>1. UNCHANGED <<run, watch, waiting, usedKeys, nrun, req>>
    BY <1>2 DEF vars, memory, disk
  <2>2. RunInv'
    BY <1>0, <2>1 DEF RunInv, CauseAlone, CarriedUsed, WaitingIdle, CausesPast,
                      TypingUnapplied, Going, Alive, InFlight, Watched
  <2> QED
    BY <1>0, <2>1, <2>2 DEF OnceInv, RequestsOnce, RunsOnce
<1> QED
  BY <1>1, <1>2

\* A recovery redispatches a message once, whatever fails, comes late or is
\* restarted: no request of the file has counted a second one.
THEOREM RefreshRedispatchedOnce == Spec => []RedispatchedOnce
<1>1. Init => OnceInv
  BY OnceInvInit
<1>2. OnceInv /\ [Next]_vars => OnceInv'
  BY OnceInvStep
<1>3. OnceInv => RedispatchedOnce
  BY DEF OnceInv, RequestsOnce, RedispatchedOnce
<1> QED
  BY <1>1, <1>2, <1>3, PTL DEF Spec

-----------------------------------------------------------------------------
\* What the file and its holders keep true.  A request that a dispatch applied
\* is that run's until its turn shows a sign of life: it is not pending, it names the
\* message of the run, and while the turn is not accepted it is applied, or has
\* been failed by the operator's command.
HeldOpen ==
  \A r \in Runs, q \in Requests :
    Holds(r, q) =>
      /\ req[q].cause = run[r].cause
      /\ req[q].status \notin {"none", "pending", "replaced"}
      /\ Sending(r) => req[q].status \in {"applied", "terminal_failed"}
      /\ Sending(r) /\ manual = 0 => req[q].status = "applied"
HeldOnce ==
  \A r, s \in Runs, q \in Requests : Holds(r, q) /\ Holds(s, q) => r = s
FileEnds == \A q \in Requests : q > nreq => req[q].status = "none"
DiskKnown ==
  \A q \in Requests :
    req[q].status \notin {"none", "replaced"} => req[q].superseded \subseteq superseded

HeldInv == HeldOpen /\ HeldOnce /\ FileEnds
FileInv == HeldInv /\ GraceOnlyCompleted /\ DiskKnown

\* The request a recovery finds is one its message carries or has caused.
LEMMA ExistingMember ==
  ASSUME TypeOK, NEW r \in Runs, NEW q \in Requests, q = Existing(r)
  PROVE  \/ q = IF run[r].applied # None THEN run[r].applied
                ELSE run[r].request
         \/ req[q].cause = run[r].cause
<1> DEFINE carried == IF run[r].applied # None THEN run[r].applied
                      ELSE run[r].request
           Found(x) == x = carried \/ req[x].cause = run[r].cause
           S == {x \in Requests : req[x].status \notin {"none", "replaced"} /\ Found(x)}
<1>1. Existing(r) = First(S)
  BY DEF Existing
<1> HIDE DEF Found
<1>2. S \in SUBSET Requests /\ \A x \in S : Found(x)
  OBVIOUS
<1>3. S = {} => First(S) = None
  BY DEF First
<1> HIDE DEF S
<1>4. q \in S
  BY <1>1, <1>2, <1>3, FirstMember
<1>5. Found(q)
  BY <1>2, <1>4
<1> QED
  BY <1>5 DEF Found

\* A run that recovers lets go of its request.
LEMMA RecoveringRun ==
  ASSUME TypeInv, RunInv, NEW r \in Runs, Recovering(r)
  PROVE  /\ Sending(r) \/ Watched(r)
         /\ Going(r) /\ Alive(r)
         /\ ~(Sending(r)' \/ Watched(r)')
<1>0. run \in [Runs -> RunRecords] /\ run[r] \in RunRecords
      /\ watch \in [Runs -> WatchStates]
  BY DEF TypeInv, TypeOK, WatchStates
<1>1. CASE TransportFailThrow(r)
  <2> DEFINE lost == [run[r] EXCEPT !.stage = "lost"]
  <2>1. /\ run[r].stage \in {"opening", "sending"}
        /\ run' = [run EXCEPT ![r].stage = "lost"] /\ watch' = watch
    BY <1>1 DEF TransportFailThrow
  <2>2. lost.stage = "lost" /\ run' = [run EXCEPT ![r] = lost]
    BY <1>0, <2>1 DEF RunRecords
  <2> HIDE DEF lost
  <2>3. run'[r].stage = "lost" /\ watch'[r] = "off"
    BY <1>0, <2>1, <2>2 DEF TypeInv, RunsBegun
  <2> QED
    BY <2>1, <2>3 DEF Sending, Watched, Going, Alive, InFlight
<1>2. CASE TransportFailRecover(r)
  <2> DEFINE lost == [run[r] EXCEPT !.stage = "lost"]
             runs == [run EXCEPT ![r].stage = "lost"]
  <2>1. run[r].stage \in {"opening", "sending"} /\ watch' = watch
    BY <1>2 DEF TransportFailRecover
  <2>2. PICK new \in RunRecords : Begin(runs, new)
    BY <1>2, RecoverBegins
  <2>3. /\ lost \in RunRecords /\ lost.stage = "lost"
        /\ runs = [run EXCEPT ![r] = lost]
    BY <1>0 DEF RunRecords, RunStages
  <2> HIDE DEF lost, runs
  <2>4. runs \in [Runs -> RunRecords] /\ runs[r] = lost
    BY <1>0, <2>3
  <2>5. /\ run[nrun + 1].stage = "unused"
        /\ \A q \in Runs : q # nrun + 1 => run'[q] = runs[q]
    BY <2>2, <2>4, BegunFields
  <2>6. run'[r].stage = "lost" /\ watch'[r] = "off"
    BY <2>1, <2>3, <2>4, <2>5 DEF TypeInv, RunsBegun
  <2> QED
    BY <2>1, <2>6 DEF Sending, Watched, Going, Alive, InFlight
<1>3. CASE FirstEventSupersede(r)
  <2> DEFINE q == RetryRequest(r, run[r].thread)
             generation == AtLeastOne(req'[q].generation)
             new == [run[r] EXCEPT !.retry = q, !.generation = generation]
  <2>1. /\ watch[r] = "typing" /\ watch' = [watch EXCEPT ![r] = "cancelling"]
        /\ run' = [run EXCEPT ![r].retry = q, ![r].generation = generation]
    BY <1>3 DEF FirstEventSupersede
  <2> HIDE DEF q, generation
  <2>2. new.stage = run[r].stage /\ run' = [run EXCEPT ![r] = new]
    BY <1>0, <2>1 DEF RunRecords
  <2> HIDE DEF new
  <2>3. run'[r].stage = run[r].stage /\ run[r].stage = "accepted"
        /\ watch'[r] = "cancelling"
    BY <1>0, <2>1, <2>2 DEF TypeInv, RunsBegun
  <2>4. ~Sending(r)'
    BY <2>3 DEF Sending
  <2>5. ~Watched(r)'
    BY <2>3 DEF Watched
  <2> QED
    BY <2>1, <2>4, <2>5 DEF Sending, Watched, Going, Alive, InFlight
<1> QED
  BY <1>1, <1>2, <1>3 DEF Recovering

\* Nobody else's recovery reopens a request that a run holds.
LEMMA ReopenedByHolder ==
  ASSUME TypeInv, RunInv, HeldInv, NEW r \in Runs, NEW s \in Runs,
         NEW q \in Requests, Holds(r, q), Recovering(s), ~RetryUsed(s),
         q = Existing(s)
  PROVE  r = s
<1>0. TypeOK
  BY DEF TypeInv
<1>1. /\ Sending(s) \/ Watched(s)
      /\ Going(s) /\ Alive(s)
  BY RecoveringRun
<1>2. run[s].cause \notin usedKeys
  BY DEF RetryUsed
<1>3. run[s].request = None
  BY <1>1, <1>2 DEF RunInv, CarriedUsed
<1>4. Going(r)
  BY DEF Holds, Sending, Watched, Going, InFlight
<1>5. CASE q = run[s].applied
  <2>1. Holds(s, q)
    BY <1>1, <1>5 DEF Holds
  <2> QED
    BY <2>1 DEF HeldInv, HeldOnce
<1>6. CASE req[q].cause = run[s].cause
  <2>1. run[r].cause = run[s].cause
    BY <1>6 DEF HeldInv, HeldOpen
  <2> QED
    BY <1>1, <1>2, <1>4, <2>1 DEF RunInv, CauseAlone
<1>7. q = run[s].applied \/ req[q].cause = run[s].cause
  BY <1>0, <1>3, ExistingMember
<1> QED
  BY <1>5, <1>6, <1>7

\* What a step does to the counts of the file and of the operator's command,
\* and to the superseded runs.
LEMMA StepCounts ==
  ASSUME TypeInv, Next
  PROVE  /\ nreq' \in {nreq, nreq + 1} /\ manual' \in {manual, manual + 1}
         /\ superseded \subseteq superseded' \/ Restart
<1>1. CASE FreshDispatch \/ PrepareBuffered \/ ChainDeliver \/ NewCommand
  BY <1>1 DEF FreshDispatch, PrepareBuffered, ChainDeliver, NewCommand, disk,
              memory, bounds
<1>2. ASSUME NEW r \in Runs, DispatchStep(r)
      PROVE  /\ nreq' \in {nreq, nreq + 1} /\ manual' = manual
             /\ superseded \subseteq superseded'
  BY <1>2 DEF DispatchStep, FlushAgain, Apply, OpenThread, Accept, Refuse,
              TransportFailNoRetry, TransportFailThrow, TransportFailRecover,
              SaveRetry, bounds
<1>3. ASSUME NEW r \in Runs, WatchStep(r)
      PROVE  /\ nreq' \in {nreq, nreq + 1} /\ manual' = manual
             /\ superseded \subseteq superseded'
  BY <1>3 DEF WatchStep, FirstEventTimeout, FirstEventNotice,
              FirstEventSupersede, FirstEventRequeue, SaveRetry, disk, bounds
<1>4. ASSUME NEW r \in Runs, RuntimeStep(r)
      PROVE  /\ nreq' \in {nreq, nreq + 1} /\ manual' = manual
             /\ superseded \subseteq superseded'
  BY <1>4 DEF RuntimeStep, TurnStarted, TurnOutput, TurnEnded, disk, bounds
<1>5. CASE ChainSettle
  BY <1>5 DEF ChainSettle, bounds
<1>6. CASE MaintenanceRequest
  BY <1>6 DEF MaintenanceRequest, memory
<1>7. CASE Restart
  BY <1>7 DEF Restart
<1> QED
  BY <1>1, <1>2, <1>3, <1>4, <1>5, <1>6, <1>7 DEF Next

\* A restart ends every hold.
LEMMA RestartLetsGo ==
  ASSUME TypeInv, Restart, NEW r \in Runs
  PROVE  ~(Sending(r)' \/ Watched(r)')
<1>1. /\ watch'[r] = "off"
      /\ run'[r] = IF InFlight(r) \/ run[r].stage = "accepted"
                     THEN [run[r] EXCEPT !.stage = "gone"] ELSE run[r]
  BY DEF Restart
<1>2. run[r] \in RunRecords
  BY DEF TypeInv, TypeOK
<1>3. [run[r] EXCEPT !.stage = "gone"].stage = "gone"
  BY <1>2 DEF RunRecords
<1>4. ~Sending(r)'
  BY <1>1, <1>3 DEF Sending, InFlight
<1> QED
  BY <1>1, <1>4 DEF Watched

\* A dispatch that applies a request finds it pending, and holds it then.
LEMMA ApplyHolds ==
  ASSUME TypeInv, RunInv, NEW r \in Runs, NEW q \in Requests, Apply(r),
         Holds(r, q)'
  PROVE  /\ req[q].status = "pending" /\ req'[q].status = "applied"
         /\ req'[q].cause = run'[r].cause
<1> DEFINE p == PendingFor(req, session)
           generation == IF run[r].fresh THEN req[p].generation
                         ELSE run[r].generation
           old == IF session # None THEN session ELSE req[p].old
           opened == [run[r] EXCEPT !.stage = "opening"]
           applied == [run[r] EXCEPT !.stage = "opening", !.applied = p,
                                     !.generation = generation]
           new == [req[p] EXCEPT !.status = "applied", !.old = old,
                     !.cause = run[r].cause, !.generation = generation]
<1>0. /\ req \in Files /\ run \in [Runs -> RunRecords] /\ session \in 0..NRun
      /\ run[r] \in RunRecords
  BY DEF TypeInv, TypeOK, Files
<1>1. /\ run[r].stage = "typing" /\ run[r].applied = None
      /\ run'[r].applied = q
  BY DEF Apply, RunInv, TypingUnapplied, Holds
<1>2. p # None => p \in Requests /\ req[p].status = "pending"
  BY <1>0, PendingForMember
<1>3. \/ p = None /\ run' = [run EXCEPT ![r].stage = "opening"]
      \/ /\ p # None
         /\ run' = [run EXCEPT ![r].stage = "opening", ![r].applied = p,
                               ![r].generation = generation]
         /\ req' = AppliedTo(req, p, session, run[r].cause, generation)
  BY DEF Apply
<1> HIDE DEF p, generation
<1>4. CASE p = None
  <2>1. run' = [run EXCEPT ![r] = opened] /\ opened.applied = None
    BY <1>0, <1>1, <1>3, <1>4 DEF RunRecords
  <2> HIDE DEF opened
  <2>2. run'[r].applied = None
    BY <1>0, <2>1
  <2> QED
    BY <1>1, <2>2
<1>5. CASE p # None
  <2>1. /\ run' = [run EXCEPT ![r] = applied]
        /\ applied.applied = p /\ applied.cause = run[r].cause
    BY <1>0, <1>3, <1>5 DEF RunRecords
  <2>2. /\ p \in Requests /\ req[p] \in RequestRecords
        /\ req' = AppliedTo(req, p, session, run[r].cause, generation)
    BY <1>0, <1>2, <1>3, <1>5 DEF Files
  <2>3. new.status = "applied" /\ new.cause = run[r].cause
    BY <2>2 DEF RequestRecords
  <2>4. req' = [req EXCEPT ![p] = new]
    BY <1>0, <2>2 DEF AppliedTo, Files, RequestRecords
  <2> HIDE DEF applied, new
  <2>5. run'[r] = applied /\ req'[p] = new
    BY <1>0, <2>1, <2>2, <2>4 DEF Files
  <2>6. p = q
    BY <1>1, <2>1, <2>5
  <2> QED
    BY <1>2, <1>5, <2>1, <2>3, <2>5, <2>6
<1> QED
  BY <1>4, <1>5

\* One dispatch applies at a time.
LEMMA ApplyAlone ==
  ASSUME TypeInv, NEW r \in Runs, NEW s \in Runs, Apply(r), Apply(s)
  PROVE  r = s
<1>1. run \in [Runs -> RunRecords] /\ run[r].stage = "typing"
  BY DEF TypeInv, TypeOK, Apply
<1>2. r # s => run'[r] = run[r]
  BY <1>1 DEF Apply
<1>3. run'[r].stage = "opening"
  <2> DEFINE f == [run[r] EXCEPT !.stage = "opening"]
             p == PendingFor(req, session)
             g == IF run[r].fresh THEN req[p].generation
                  ELSE run[r].generation
             h == [run[r] EXCEPT !.stage = "opening", !.applied = p,
                                 !.generation = g]
  <2>1. \/ run' = [run EXCEPT ![r].stage = "opening"]
        \/ run' = [run EXCEPT ![r].stage = "opening", ![r].applied = p,
                              ![r].generation = g]
    BY DEF Apply
  <2> HIDE DEF p, g
  <2>2. /\ run[r] \in RunRecords
        /\ run' = [run EXCEPT ![r] = f] \/ run' = [run EXCEPT ![r] = h]
    BY <1>1, <2>1 DEF RunRecords
  <2>3. f.stage = "opening" /\ h.stage = "opening"
    BY <2>2 DEF RunRecords
  <2> HIDE DEF f, h
  <2> QED
    BY <1>1, <2>2, <2>3
<1> QED
  BY <1>1, <1>2, <1>3

\* The holds that a step leaves were there before it, except for a request
\* that the dispatch has just applied.
LEMMA HoldsFall ==
  ASSUME TypeInv, TypeInv', RunInv, Next, NEW r \in Runs, NEW q \in Requests,
         Holds(r, q)'
  PROVE  \/ /\ Holds(r, q) /\ (Sending(r)' => Sending(r))
            /\ run'[r].cause = run[r].cause
         \/ /\ Apply(r) /\ req[q].status = "pending"
            /\ req'[q].status = "applied" /\ req'[q].cause = run'[r].cause
<1>1. run'[r].applied = q /\ (Sending(r) \/ Watched(r))'
  BY DEF Holds
<1>2. Falls(r) \/ Apply(r)
  BY RunMoves DEF RunsMove
<1>3. CASE Falls(r)
  BY <1>1, <1>3 DEF Falls, Holds
<1>4. CASE Apply(r)
  BY <1>4, ApplyHolds
<1> QED
  BY <1>2, <1>3, <1>4

\* A held request moves with its holder.
LEMMA HeldMoves ==
  ASSUME TypeInv, TypeInv', RunInv, HeldInv, Next,
         NEW r \in Runs, NEW q \in Requests, Holds(r, q), Holds(r, q)',
         Sending(r)' => Sending(r)
  PROVE  /\ req'[q].cause = req[q].cause
         /\ req'[q].status \notin {"none", "pending", "replaced"}
         /\ Sending(r)' => req'[q].status \in {"applied", "terminal_failed"}
         /\ Sending(r)' /\ manual' = 0 => req'[q].status = "applied"
<1>0. /\ TypeOK /\ manual \in Nat /\ nreq \in 0..NReq
      /\ run \in [Runs -> RunRecords]
  BY DEF TypeInv, TypeOK
<1>1. /\ req[q].status \notin {"none", "pending", "replaced"}
      /\ Sending(r) => req[q].status \in {"applied", "terminal_failed"}
      /\ Sending(r) /\ manual = 0 => req[q].status = "applied"
  BY DEF HeldInv, HeldOpen
<1>2. (Sending(r) \/ Watched(r))' /\ manual' \in {manual, manual + 1}
  BY StepCounts DEF Holds
<1>3. ~Restart
  BY <1>2, RestartLetsGo
<1>4. manual' = 0 => manual = 0
  BY <1>0, <1>2
<1>5. q <= nreq
  BY <1>0, <1>1 DEF HeldInv, FileEnds
<1>6. CASE Kept(req[q], req'[q])
  BY <1>1, <1>4, <1>6 DEF Kept
<1>7. CASE Closed(req[q], req'[q])
  BY <1>1, <1>3, <1>4, <1>7 DEF Closed
<1>8. CASE Completes(req[q], req'[q])
  BY <1>1, <1>8 DEF Completes
<1>9. ~Made(q, req'[q])
  BY <1>0, <1>5 DEF Made
<1>10. ASSUME NEW s \in Runs PROVE ~Applies(s, q, req[q], req'[q])
  BY <1>1 DEF Applies
<1>11. ASSUME NEW s \in Runs, Links(s, q, req[q], req'[q])
       PROVE  /\ req'[q].cause = req[q].cause /\ ~Sending(r)'
              /\ req'[q].status \notin {"none", "pending", "replaced"}
  <2> DEFINE taken == [run[s] EXCEPT !.stage = "accepted"]
  <2>1. /\ Accept(s) /\ run[s].applied = q /\ run[s].stage = "sending"
        /\ run' = [run EXCEPT ![s].stage = "accepted"]
    BY <1>11 DEF Links, Accept
  <2>2. s = r
    BY <2>1 DEF HeldInv, HeldOnce, Holds, Sending
  <2>3. taken.stage = "accepted" /\ run' = [run EXCEPT ![s] = taken]
    BY <1>0, <2>1 DEF RunRecords
  <2> HIDE DEF taken
  <2>4. run'[r].stage = "accepted"
    BY <1>0, <2>2, <2>3
  <2> QED
    BY <1>11, <2>4 DEF Links, Sending
<1>12. ASSUME NEW s \in Runs, Starts(s, q, req[q], req'[q])
       PROVE  /\ req'[q].cause = req[q].cause /\ ~Sending(r)
              /\ req'[q].status = "first_turn_started"
  BY <1>1, <1>12 DEF Starts
<1>13. ASSUME NEW s \in Runs PROVE ~Reopens(s, q, req[q], req'[q])
  <2>1. SUFFICES ASSUME Reopens(s, q, req[q], req'[q]) PROVE FALSE
    OBVIOUS
  <2>2. Recovering(s) /\ ~RetryUsed(s) /\ q = Existing(s)
    BY <2>1 DEF Reopens
  <2>3. r = s
    BY <2>2, ReopenedByHolder
  <2> QED
    BY <1>2, <2>2, <2>3, RecoveringRun
<1>14. Moves(q, req[q], req'[q])
  BY FileMoves
<1> QED
  BY <1>6, <1>7, <1>8, <1>9, <1>10, <1>11, <1>12, <1>13, <1>14 DEF Moves

LEMMA HeldInvStep ==
  ASSUME TypeInv, TypeInv', RunInv, HeldInv, Next
  PROVE  HeldInv'
<1>0. nreq \in 0..NReq /\ nreq' \in {nreq, nreq + 1}
  BY StepCounts DEF TypeInv, TypeOK
<1>1. ASSUME NEW r \in Runs, NEW q \in Requests, Holds(r, q)'
      PROVE  /\ req'[q].cause = run'[r].cause
             /\ req'[q].status \notin {"none", "pending", "replaced"}
             /\ Sending(r)' => req'[q].status \in {"applied", "terminal_failed"}
             /\ Sending(r)' /\ manual' = 0 => req'[q].status = "applied"
  <2>1. CASE /\ Holds(r, q) /\ (Sending(r)' => Sending(r))
             /\ run'[r].cause = run[r].cause
    BY <1>1, <2>1, HeldMoves DEF HeldInv, HeldOpen
  <2>2. CASE req'[q].status = "applied" /\ req'[q].cause = run'[r].cause
    BY <2>2
  <2> QED
    BY <1>1, <2>1, <2>2, HoldsFall
<1>2. HeldOpen'
  BY <1>1 DEF HeldOpen
<1>3. ASSUME NEW r \in Runs, NEW s \in Runs, NEW q \in Requests,
             Holds(r, q)', Holds(s, q)'
      PROVE  r = s
  <2>1. CASE Holds(r, q) /\ Holds(s, q)
    BY <2>1 DEF HeldInv, HeldOnce
  <2>2. CASE Apply(r) /\ Apply(s)
    BY <2>2, ApplyAlone
  <2>3. Holds(r, q) \/ (Apply(r) /\ req[q].status = "pending")
    BY <1>3, HoldsFall
  <2>4. Holds(s, q) \/ (Apply(s) /\ req[q].status = "pending")
    BY <1>3, HoldsFall
  <2>5. Holds(r, q) \/ Holds(s, q) => req[q].status # "pending"
    BY DEF HeldInv, HeldOpen
  <2> QED
    BY <2>1, <2>2, <2>3, <2>4, <2>5
<1>4. HeldOnce'
  BY <1>3 DEF HeldOnce
<1>5. ASSUME NEW q \in Requests, q > nreq' PROVE req'[q].status = "none"
  <2>1. q > nreq /\ req[q].status = "none"
    BY <1>0, <1>5 DEF HeldInv, FileEnds
  <2>2. Moves(q, req[q], req'[q])
    BY FileMoves
  <2>3. CASE Kept(req[q], req'[q])
    BY <2>1, <2>3 DEF Kept
  <2>4. ~Closed(req[q], req'[q]) /\ ~Completes(req[q], req'[q])
    BY <2>1 DEF Closed, Completes, Live
  <2>5. ~Made(q, req'[q])
    BY <1>0, <1>5 DEF Made
  <2>6. ASSUME NEW s \in Runs
        PROVE  /\ ~Applies(s, q, req[q], req'[q])
               /\ ~Starts(s, q, req[q], req'[q])
               /\ ~Reopens(s, q, req[q], req'[q])
    BY <2>1 DEF Applies, Starts, Reopens, Live
  <2>7. ASSUME NEW s \in Runs PROVE ~Links(s, q, req[q], req'[q])
    BY <2>1 DEF Links, Accept, HeldInv, HeldOpen, Holds, Sending
  <2> QED
    BY <2>2, <2>3, <2>4, <2>5, <2>6, <2>7 DEF Moves
<1>6. FileEnds'
  BY <1>5 DEF FileEnds
<1> QED
  BY <1>2, <1>4, <1>6 DEF HeldInv

\* What the file's requests carry: the grace of a completed refresh alone, and
\* only superseded runs that the bridge knows of.
LEMMA GraceStep ==
  ASSUME TypeInv, RunInv, HeldInv, GraceOnlyCompleted, Next
  PROVE  GraceOnlyCompleted'
<1>1. SUFFICES ASSUME NEW q \in Requests, req'[q].grace > 0
               PROVE  req'[q].status = "completed"
  BY DEF GraceOnlyCompleted
<1>2. /\ Moves(q, req[q], req'[q]) /\ req[q].grace \in Nat
      /\ req[q].grace > 0 => req[q].status = "completed"
  <2>1. req[q] \in RequestRecords
    BY DEF TypeInv, TypeOK
  <2>2. req[q].grace \in Nat
    BY <2>1 DEF RequestRecords
  <2> QED
    BY <2>2, FileMoves DEF GraceOnlyCompleted
<1>3. CASE Kept(req[q], req'[q])
  <2>1. req'[q].grace <= req[q].grace /\ req'[q].status = req[q].status
    BY <1>3 DEF Kept
  <2>2. CASE req[q].grace = 0
    <3>1. TypeInv'
      BY TypeStep
    <3>2. req'[q].grace \in Nat
      <4>1. req'[q] \in RequestRecords
        BY <3>1 DEF TypeInv, TypeOK
      <4> QED
        BY <4>1 DEF RequestRecords
    <3> QED
      BY <1>1, <2>1, <2>2, <3>2
  <2> QED
    BY <1>2, <2>1, <2>2
<1>4. ~Closed(req[q], req'[q])
  <2>1. req[q].status \in Live \cup {"pending"} => ~(req[q].grace > 0)
    BY <1>2 DEF Live
  <2> QED
    BY <1>1, <2>1 DEF Closed
<1>5. CASE Completes(req[q], req'[q])
  BY <1>5 DEF Completes
<1>6. ~Made(q, req'[q])
  BY <1>1 DEF Made
<1>7. ASSUME NEW s \in Runs
      PROVE  /\ ~Applies(s, q, req[q], req'[q]) /\ ~Starts(s, q, req[q], req'[q])
             /\ ~Reopens(s, q, req[q], req'[q])
  BY <1>1, <1>2 DEF Applies, Starts, Reopens
<1>8. ASSUME NEW s \in Runs PROVE ~Links(s, q, req[q], req'[q])
  <2>1. SUFFICES ASSUME Links(s, q, req[q], req'[q]) PROVE FALSE
    OBVIOUS
  <2>2. Holds(s, q) /\ Sending(s) /\ req'[q].grace = req[q].grace
    BY <2>1 DEF Links, Accept, Holds, Sending
  <2>3. req[q].status \in {"applied", "terminal_failed"}
    BY <2>2 DEF HeldInv, HeldOpen
  <2> QED
    BY <1>1, <1>2, <2>2, <2>3
<1> QED
  BY <1>2, <1>3, <1>4, <1>5, <1>6, <1>7, <1>8 DEF Moves

LEMMA DiskStep ==
  ASSUME TypeInv, RunInv, HeldInv, DiskKnown, Next
  PROVE  DiskKnown'
<1>1. SUFFICES ASSUME NEW q \in Requests, req'[q].status \notin {"none", "replaced"}
               PROVE  req'[q].superseded \subseteq superseded'
  BY DEF DiskKnown
<1>2. ASSUME req[q].status \notin {"none", "replaced"}
      PROVE  req[q].superseded \subseteq superseded'
  <2>1. CASE superseded \subseteq superseded'
    BY <1>2, <2>1 DEF DiskKnown
  <2>2. CASE Restart
    BY <1>2, <2>2 DEF Restart, OnDisk
  <2> QED
    BY <2>1, <2>2, StepCounts
<1>3. Moves(q, req[q], req'[q])
  BY FileMoves
<1>4. CASE Kept(req[q], req'[q])
  BY <1>1, <1>2, <1>4 DEF Kept
<1>5. CASE Closed(req[q], req'[q])
  BY <1>2, <1>5 DEF Closed, Live
<1>6. CASE Completes(req[q], req'[q])
  BY <1>2, <1>6 DEF Completes
<1>7. CASE Made(q, req'[q])
  BY <1>7 DEF Made
<1>8. ASSUME NEW s \in Runs,
             \/ Applies(s, q, req[q], req'[q]) \/ Starts(s, q, req[q], req'[q])
             \/ Reopens(s, q, req[q], req'[q])
      PROVE  req'[q].superseded \subseteq superseded'
  BY <1>2, <1>8 DEF Applies, Starts, Reopens, Live
<1>9. ASSUME NEW s \in Runs, Links(s, q, req[q], req'[q])
      PROVE  req'[q].superseded \subseteq superseded'
  <2>1. Holds(s, q) /\ req'[q].superseded = req[q].superseded
    BY <1>9 DEF Links, Accept, Holds, Sending
  <2>2. req[q].status \notin {"none", "pending", "replaced"}
    BY <2>1 DEF HeldInv, HeldOpen
  <2> QED
    BY <1>2, <2>1, <2>2
<1> QED
  BY <1>3, <1>4, <1>5, <1>6, <1>7, <1>8, <1>9 DEF Moves

\* All of it is an invariant.
RefreshFileInv == TypeInv /\ RunInv /\ FileInv

LEMMA FileInvInit ==
  ASSUME Init
  PROVE  RefreshFileInv
<1>1. TypeInv /\ RunInv
  BY OnceInvInit DEF OnceInv
<1>2. /\ \A r \in Runs : run[r] = NoRun /\ watch[r] = "off"
      /\ \A q \in Requests : req[q] = NoRequest
  BY DEF Init
<1>3. /\ NoRun.stage = "unused" /\ NoRequest.status = "none"
      /\ NoRequest.grace = 0
  BY DEF NoRun, NoRequest
<1>4. \A r \in Runs, q \in Requests : ~Holds(r, q)
  BY <1>2, <1>3 DEF Holds, Sending, Watched
<1>5. HeldInv
  BY <1>2, <1>3, <1>4 DEF HeldInv, HeldOpen, HeldOnce, FileEnds
<1>6. GraceOnlyCompleted /\ DiskKnown
  BY <1>2, <1>3 DEF GraceOnlyCompleted, DiskKnown
<1> QED
  BY <1>1, <1>5, <1>6 DEF RefreshFileInv, FileInv

LEMMA FileInvStep ==
  ASSUME RefreshFileInv, [Next]_vars
  PROVE  RefreshFileInv'
<1>0. /\ TypeInv /\ RunInv /\ HeldInv /\ GraceOnlyCompleted /\ DiskKnown
      /\ TypeInv'
  BY TypeStep DEF RefreshFileInv, FileInv
<1>1. CASE Next
  <2>1. RunInv'
    BY <1>0, <1>1, RunMoves DEF RunsMove
  <2>2. HeldInv' /\ GraceOnlyCompleted' /\ DiskKnown'
    BY <1>0, <1>1, HeldInvStep, GraceStep, DiskStep
  <2> QED
    BY <1>0, <2>1, <2>2 DEF RefreshFileInv, FileInv
<1>2. CASE UNCHANGED vars
  <2>1. UNCHANGED <<run, watch, waiting, usedKeys, nrun, req, nreq, manual,
                    superseded>>
    BY <1>2 DEF vars, memory, disk, bounds
  <2>2. RunInv'
    BY <1>0, <2>1 DEF RunInv, CauseAlone, CarriedUsed, WaitingIdle, CausesPast,
                      TypingUnapplied, Going, Alive, InFlight, Watched
  <2>3. HeldInv'
    BY <1>0, <2>1 DEF HeldInv, HeldOpen, HeldOnce, FileEnds, Holds, Sending,
                      Watched
  <2>4. GraceOnlyCompleted' /\ DiskKnown'
    BY <1>0, <2>1 DEF GraceOnlyCompleted, DiskKnown
  <2> QED
    BY <1>0, <2>2, <2>3, <2>4 DEF RefreshFileInv, FileInv
<1> QED
  BY <1>1, <1>2

\* The messages of grace after a refresh are left only with a request that has
\* completed: a request that fails, is replaced or is opened again has none.
THEOREM RefreshGraceOnlyCompleted == Spec => []GraceOnlyCompleted
<1>1. Init => RefreshFileInv
  BY FileInvInit
<1>2. RefreshFileInv /\ [Next]_vars => RefreshFileInv'
  BY FileInvStep
<1>3. RefreshFileInv => GraceOnlyCompleted
  BY DEF RefreshFileInv, FileInv
<1> QED
  BY <1>1, <1>2, <1>3, PTL DEF Spec

\* The step that supersedes a run leaves a request in the file that names it.
LEMMA PersistedStep ==
  ASSUME RefreshFileInv, [Next]_vars
  PROVE  [superseded' \ superseded \subseteq OnDisk']_vars
<1>0. TypeInv /\ RunInv /\ DiskKnown /\ session \in 0..NRun
  BY DEF RefreshFileInv, FileInv, TypeInv, TypeOK
<1> DEFINE Goal == superseded' \ superseded \subseteq OnDisk'
<1>1. ASSUME superseded' = superseded PROVE Goal
  BY <1>1
<1>2. CASE FreshDispatch \/ PrepareBuffered \/ ChainDeliver \/ NewCommand
  BY <1>1, <1>2 DEF FreshDispatch, PrepareBuffered, ChainDeliver, NewCommand,
                    memory
<1>3. ASSUME NEW r \in Runs, NEW old \in 0..NRun, old # None,
             SaveRetry(r, old), Recovering(r), ~RetryUsed(r),
             superseded' = superseded \cup {old}
      PROVE  Goal
  <2>1. PICK q \in Requests : q = RetryRequest(r, old)
    BY <1>0, <1>3, RetryMoves
  <2>2. req'[q].status = "pending" /\ old \in req'[q].superseded
    BY <1>0, <1>3, <2>1, RetryMoves
  <2>3. old \in OnDisk'
    BY <2>2 DEF OnDisk
  <2> QED
    BY <1>3, <2>3
<1>4. ASSUME NEW r \in Runs, DispatchStep(r) PROVE Goal
  <2>1. CASE TransportFailRecover(r)
    <3>1. PICK old \in 0..NRun : old = OldThread(r, session)
      BY <1>0, OldThreadType DEF TypeInv
    <3>2. /\ old # None /\ SaveRetry(r, old) /\ Recovering(r) /\ ~RetryUsed(r)
          /\ superseded' = superseded \cup {old}
      BY <2>1, <3>1 DEF TransportFailRecover, Recovering, Retryable
    <3> QED
      BY <1>3, <3>2
  <2>2. CASE ~TransportFailRecover(r)
    BY <1>1, <1>4, <2>2 DEF DispatchStep, FlushAgain, Apply, OpenThread, Accept,
                            Refuse, TransportFailNoRetry, TransportFailThrow
  <2> QED
    BY <2>1, <2>2
<1>5. ASSUME NEW r \in Runs, WatchStep(r) PROVE Goal
  <2>1. CASE FirstEventSupersede(r)
    <3>1. PICK t \in 0..NRun : t = run[r].thread
      BY <1>0 DEF TypeInv, TypeOK, RunRecords
    <3>2. /\ SaveRetry(r, t) /\ Recovering(r) /\ ~RetryUsed(r)
          /\ superseded' = superseded \cup {t}
      BY <2>1, <3>1 DEF FirstEventSupersede, Recovering, Retryable
    <3>3. t # None
      <4>1. superseded' \subseteq Threads
        BY <1>0, TypeStep DEF TypeInv, TypeOK
      <4> QED
        BY <3>2, <4>1
    <3> QED
      BY <1>3, <3>2, <3>3
  <2>2. CASE ~FirstEventSupersede(r)
    BY <1>1, <1>5, <2>2 DEF WatchStep, FirstEventTimeout, FirstEventNotice,
                            FirstEventRequeue
  <2> QED
    BY <2>1, <2>2
<1>6. ASSUME NEW r \in Runs, RuntimeStep(r) PROVE Goal
  BY <1>1, <1>6 DEF RuntimeStep, TurnStarted, TurnOutput, TurnEnded
<1>7. CASE ChainSettle
  BY <1>1, <1>7 DEF ChainSettle
<1>8. CASE MaintenanceRequest
  BY <1>1, <1>8 DEF MaintenanceRequest, memory
<1>9. CASE Restart
  <2>1. superseded' = OnDisk
    BY <1>9 DEF Restart
  <2>2. OnDisk \subseteq superseded
    BY <1>0 DEF DiskKnown, OnDisk
  <2> QED
    BY <2>1, <2>2
<1> QED
  BY <1>2, <1>4, <1>5, <1>6, <1>7, <1>8, <1>9 DEF Next

\* A run that is superseded is so on disk from the same step, where a restart
\* reads it back; and a restart supersedes none that was not.
THEOREM RefreshSupersededPersisted == Spec => SupersededPersisted
<1>1. RefreshFileInv /\ [Next]_vars =>
        [superseded' \ superseded \subseteq OnDisk']_vars
  BY PersistedStep
<1>2. Init => RefreshFileInv
  BY FileInvInit
<1>3. RefreshFileInv /\ [Next]_vars => RefreshFileInv'
  BY FileInvStep
<1> QED
  BY <1>1, <1>2, <1>3, PTL DEF Spec, SupersededPersisted

-----------------------------------------------------------------------------
\* The events of a successor are kept.  How a run moves through its stages:
\* its request to the runtime is out only after its thread is subscribed to,
\* and stays with that thread until it is accepted or given up.
Before == {"unused", "typing", "opening"}

Staged(r) ==
  /\ run'[r].stage \in Before => run[r].stage \in Before
  /\ run'[r].stage = "sending" =>
       \/ /\ run[r].stage = "sending"
          /\ run'[r].thread = run[r].thread /\ run'[r].applied = run[r].applied
       \/ run[r].stage = "opening" /\ run'[r].thread \in subscribed'
  /\ run'[r].stage = "accepted" =>
       /\ run'[r].thread = run[r].thread
       /\ run[r].stage = "accepted" \/ (run[r].stage = "sending" /\ Accept(r))
  /\ run[r].stage = "accepted" => run'[r].stage = "accepted" \/ Restart

LEMMA OneStaged ==
  ASSUME run \in [Runs -> RunRecords], NEW r \in Runs, NEW new,
         run' = [run EXCEPT ![r] = new],
         \/ /\ new.stage = run[r].stage /\ new.thread = run[r].thread
            /\ new.applied = run[r].applied
         \/ new.stage = "opening" /\ run[r].stage = "typing"
         \/ /\ new.stage = "sending" /\ run[r].stage = "opening"
            /\ new.thread \in subscribed'
         \/ /\ new.stage = "accepted" /\ run[r].stage = "sending"
            /\ new.thread = run[r].thread /\ Accept(r)
         \/ /\ new.stage \in {"lost", "refused"}
            /\ run[r].stage \in {"opening", "sending"}
  PROVE  \A q \in Runs : Staged(q)
<1>1. \A q \in Runs : run'[q] = IF q = r THEN new ELSE run[q]
  OBVIOUS
<1>2. ASSUME NEW q \in Runs, q # r PROVE Staged(q)
  BY <1>1, <1>2 DEF Staged
<1>3. Staged(r)
  <2>1. run'[r] = new
    BY <1>1
  <2> QED
    BY <2>1 DEF Staged, Before
<1> QED
  BY <1>2, <1>3

LEMMA BegunStaged ==
  ASSUME TypeInv, NEW runs \in [Runs -> RunRecords], NEW new \in RunRecords,
         Begin(runs, new),
         \A q \in Runs : \/ runs[q] = run[q]
                         \/ /\ runs[q].stage = "lost"
                            /\ run[q].stage \in {"opening", "sending"}
  PROVE  \A q \in Runs : Staged(q)
<1>1. PICK n \in Runs : n = nrun + 1
  BY BegunFields
<1>2. /\ run[n].stage = "unused" /\ run'[n].stage = "typing"
      /\ \A q \in Runs : q # n => run'[q] = runs[q]
  BY <1>1, BegunFields
<1>3. Staged(n)
  BY <1>2 DEF Staged, Before
<1>4. ASSUME NEW q \in Runs, q # n PROVE Staged(q)
  BY <1>2, <1>4 DEF Staged, Before
<1> QED
  BY <1>3, <1>4

LEMMA DispatchStaged ==
  ASSUME TypeInv, NEW r \in Runs, DispatchStep(r)
  PROVE  \A q \in Runs : Staged(q)
<1> DEFINE Goal == \A q \in Runs : Staged(q)
<1>0. run \in [Runs -> RunRecords] /\ run[r] \in RunRecords
  BY DEF TypeInv, TypeOK
<1>1. CASE FlushAgain(r)
  <2>1. Begin(run, Again(r)) /\ run[r].stage # "unused"
    BY <1>1 DEF FlushAgain, TypeInv, RunsBegun
  <2>2. Again(r) \in RunRecords
    BY <2>1, AgainFields
  <2> QED
    BY <1>0, <2>1, <2>2, BegunStaged
<1>2. CASE Apply(r)
  <2> DEFINE p == PendingFor(req, session)
             g == IF run[r].fresh THEN req[p].generation
                  ELSE run[r].generation
             f == [run[r] EXCEPT !.stage = "opening"]
             h == [run[r] EXCEPT !.stage = "opening", !.applied = p,
                                 !.generation = g]
  <2>1. /\ run[r].stage = "typing"
        /\ \/ run' = [run EXCEPT ![r].stage = "opening"]
           \/ run' = [run EXCEPT ![r].stage = "opening", ![r].applied = p,
                                 ![r].generation = g]
    BY <1>2 DEF Apply
  <2> HIDE DEF p, g
  <2>2. run' = [run EXCEPT ![r] = f] \/ run' = [run EXCEPT ![r] = h]
    BY <1>0, <2>1 DEF RunRecords
  <2>3. f.stage = "opening" /\ h.stage = "opening"
    BY <1>0 DEF RunRecords
  <2> HIDE DEF f, h
  <2> QED
    BY <1>0, <2>1, <2>2, <2>3, OneStaged
<1>3. CASE OpenThread(r)
  <2>1. PICK t \in {r} \cup ({session} \ {None}) :
          /\ subscribed' = subscribed \cup {t}
          /\ run' = [run EXCEPT ![r].stage = "sending", ![r].thread = t]
    BY <1>3 DEF OpenThread
  <2> DEFINE new == [run[r] EXCEPT !.stage = "sending", !.thread = t]
  <2>2. /\ run' = [run EXCEPT ![r] = new] /\ run[r].stage = "opening"
        /\ new.stage = "sending" /\ new.thread = t
    BY <1>0, <1>3, <2>1 DEF RunRecords, OpenThread
  <2> HIDE DEF new
  <2>3. new.thread \in subscribed'
    BY <2>1, <2>2
  <2> QED
    BY <1>0, <2>2, <2>3, OneStaged
<1>4. CASE Accept(r)
  <2> DEFINE new == [run[r] EXCEPT !.stage = "accepted"]
  <2>1. run' = [run EXCEPT ![r].stage = "accepted"] /\ run[r].stage = "sending"
    BY <1>4 DEF Accept
  <2>2. /\ run' = [run EXCEPT ![r] = new]
        /\ new.stage = "accepted" /\ new.thread = run[r].thread
    BY <1>0, <2>1 DEF RunRecords
  <2> HIDE DEF new
  <2> QED
    BY <1>0, <1>4, <2>1, <2>2, OneStaged
<1>5. ASSUME NEW stage \in {"lost", "refused"},
             run[r].stage \in {"opening", "sending"},
             run' = [run EXCEPT ![r].stage = stage]
      PROVE  Goal
  <2> DEFINE new == [run[r] EXCEPT !.stage = stage]
  <2>1. run' = [run EXCEPT ![r] = new] /\ new.stage = stage
    BY <1>0, <1>5 DEF RunRecords
  <2> HIDE DEF new
  <2> QED
    BY <1>0, <1>5, <2>1, OneStaged
<1>6. CASE Refuse(r) \/ TransportFailNoRetry(r) \/ TransportFailThrow(r)
  BY <1>5, <1>6 DEF Refuse, TransportFailNoRetry, TransportFailThrow, Failed
<1>7. CASE TransportFailRecover(r)
  <2> DEFINE lost == [run[r] EXCEPT !.stage = "lost"]
             runs == [run EXCEPT ![r].stage = "lost"]
  <2>1. run[r].stage \in {"opening", "sending"}
    BY <1>7 DEF TransportFailRecover
  <2>2. PICK new \in RunRecords : Begin(runs, new)
    BY <1>7, RecoverBegins
  <2>3. /\ lost \in RunRecords /\ lost.stage = "lost"
        /\ runs = [run EXCEPT ![r] = lost]
    BY <1>0 DEF RunRecords, RunStages
  <2> HIDE DEF lost, runs
  <2>4. /\ runs \in [Runs -> RunRecords] /\ runs[r] = lost
        /\ \A q \in Runs : q # r => runs[q] = run[q]
    BY <1>0, <2>3
  <2>5. \A q \in Runs : \/ runs[q] = run[q]
                        \/ /\ runs[q].stage = "lost"
                           /\ run[q].stage \in {"opening", "sending"}
    BY <2>1, <2>3, <2>4
  <2> QED
    BY <2>2, <2>4, <2>5, BegunStaged
<1> QED
  BY <1>1, <1>2, <1>3, <1>4, <1>6, <1>7 DEF DispatchStep

LEMMA StageMoves ==
  ASSUME TypeInv, Next
  PROVE  \A q \in Runs : Staged(q)
<1> DEFINE Goal == \A q \in Runs : Staged(q)
<1>0. run \in [Runs -> RunRecords]
  BY DEF TypeInv, TypeOK
<1>1. ASSUME run' = run PROVE Goal
  BY <1>1 DEF Staged
<1>2. CASE FreshDispatch
  <2>1. PICK fresh \in BOOLEAN, kept \in BOOLEAN :
          Begin(run, [NoRun EXCEPT !.cause = nrun + 1, !.fresh = fresh,
                                   !.kept = kept])
    BY <1>2, FreshBegins
  <2> DEFINE new == [NoRun EXCEPT !.cause = nrun + 1, !.fresh = fresh,
                                  !.kept = kept]
  <2>2. nrun + 1 \in 0..NRun
    BY <2>1 DEF Begin, TypeInv, TypeOK
  <2>3. NoRun \in RunRecords
    BY DEF NoRun, RunRecords, RunStages
  <2>4. new \in RunRecords
    BY <2>2, <2>3 DEF RunRecords
  <2>5. Begin(run, new)
    BY <2>1
  <2> HIDE DEF new
  <2> QED
    BY <1>0, <2>4, <2>5, BegunStaged
<1>3. CASE PrepareBuffered \/ ChainDeliver \/ NewCommand \/ MaintenanceRequest
  BY <1>1, <1>3 DEF PrepareBuffered, ChainDeliver, NewCommand,
                    MaintenanceRequest, memory
<1>4. ASSUME NEW r \in Runs, WatchStep(r) PROVE Goal
  <2>1. CASE FirstEventTimeout(r) \/ FirstEventNotice(r)
    BY <1>1, <2>1 DEF FirstEventTimeout, FirstEventNotice
  <2>2. CASE FirstEventSupersede(r)
    <3> DEFINE q == RetryRequest(r, run[r].thread)
               generation == AtLeastOne(req'[q].generation)
               new == [run[r] EXCEPT !.retry = q, !.generation = generation]
    <3>1. run' = [run EXCEPT ![r].retry = q, ![r].generation = generation]
      BY <2>2 DEF FirstEventSupersede
    <3> HIDE DEF q, generation
    <3>2. /\ run' = [run EXCEPT ![r] = new] /\ new.stage = run[r].stage
          /\ new.thread = run[r].thread /\ new.applied = run[r].applied
      BY <1>0, <3>1 DEF RunRecords
    <3> HIDE DEF new
    <3> QED
      BY <1>0, <3>2, OneStaged
  <2>3. CASE FirstEventRequeue(r)
    <3>1. run' = run \/ Begin(run, Again(r))
      BY <2>3 DEF FirstEventRequeue
    <3>2. run[r].stage # "unused"
      BY <2>3 DEF FirstEventRequeue, TypeInv, RunsBegun
    <3>3. Again(r) \in RunRecords
      BY <3>2, AgainFields
    <3> QED
      BY <1>0, <1>1, <3>1, <3>3, BegunStaged
  <2> QED
    BY <1>4, <2>1, <2>2, <2>3 DEF WatchStep
<1>5. ASSUME NEW r \in Runs, RuntimeStep(r) PROVE Goal
  BY <1>1, <1>5 DEF RuntimeStep, TurnStarted, TurnOutput, TurnEnded
<1>6. CASE ChainSettle
  BY <1>1, <1>6 DEF ChainSettle
<1>7. CASE Restart
  <2>1. ASSUME NEW q \in Runs PROVE Staged(q)
    <3> DEFINE gone == [run[q] EXCEPT !.stage = "gone"]
    <3>1. /\ run'[q] = IF InFlight(q) \/ run[q].stage = "accepted" THEN gone
                       ELSE run[q]
          /\ gone.stage = "gone"
      BY <1>0, <1>7 DEF Restart, RunRecords
    <3> HIDE DEF gone
    <3> QED
      BY <1>7, <3>1 DEF Staged, Before, InFlight
  <2> QED
    BY <2>1
<1> QED
  BY <1>2, <1>3, <1>4, <1>5, <1>6, <1>7, DispatchStaged DEF Next

\* What a step does to the runtime's view of a run, and to what waits for it.
Queued(r) == chain = r \/ \E i \in 1..Len(events) : events[i] = r

Eventful(r) ==
  /\ \/ turn'[r] = turn[r]
     \/ TurnStarted(r) /\ turn[r] = "none" /\ turn'[r] = "live"
     \/ TurnEnded(r) /\ turn[r] = "live" /\ turn'[r] = "over"
  /\ r \in earlyStarts => r \in earlyStarts' \/ Accept(r)
  /\ r \in earlyOutcomes => r \in earlyOutcomes' \/ Accept(r)
  /\ subscribed \subseteq subscribed' \/ Restart
  /\ Queued(r) => \/ Queued(r)' \/ Suppressed(run[r].thread) \/ Restart
                  \/ ChainSettle /\ chain = r

LEMMA EventMoves ==
  ASSUME TypeInv, Next
  PROVE  \A r \in Runs : Eventful(r)
<1> SUFFICES ASSUME NEW r \in Runs PROVE Eventful(r)
  OBVIOUS
<1>0. /\ events \in Seq(Runs) /\ chain \in 0..NRun
      /\ turn \in [Runs -> {"none", "live", "over"}]
      /\ \A i \in 1..Len(events) : events[i] \in Runs
  BY DEF TypeInv, TypeOK
<1>1. ASSUME UNCHANGED <<turn, earlyStarts, earlyOutcomes, events, chain>>,
             subscribed \subseteq subscribed'
      PROVE  Eventful(r)
  BY <1>1 DEF Eventful, Queued
<1>2. CASE FreshDispatch \/ PrepareBuffered \/ NewCommand \/ MaintenanceRequest
  BY <1>1, <1>2 DEF FreshDispatch, PrepareBuffered, NewCommand,
                    MaintenanceRequest, memory
<1>3. ASSUME NEW s \in Runs, DispatchStep(s) PROVE Eventful(r)
  <2>1. CASE Accept(s)
    <3>1. /\ UNCHANGED <<turn, events, chain, subscribed>>
          /\ \/ UNCHANGED <<earlyStarts, earlyOutcomes>>
             \/ /\ earlyStarts' = earlyStarts \ {s}
                /\ earlyOutcomes' = earlyOutcomes \ {s}
      BY <2>1 DEF Accept
    <3> QED
      BY <2>1, <3>1 DEF Eventful, Queued
  <2>2. CASE ~Accept(s)
    BY <1>1, <1>3, <2>2 DEF DispatchStep, FlushAgain, Apply, OpenThread, Refuse,
                            TransportFailNoRetry, TransportFailThrow,
                            TransportFailRecover
  <2> QED
    BY <2>1, <2>2
<1>4. ASSUME NEW s \in Runs, WatchStep(s) PROVE Eventful(r)
  BY <1>1, <1>4 DEF WatchStep, FirstEventTimeout, FirstEventNotice,
                    FirstEventSupersede, FirstEventRequeue, disk
<1>5. ASSUME NEW s \in Runs, TurnStarted(s) PROVE Eventful(r)
  <2>1. /\ turn[s] = "none" /\ turn' = [turn EXCEPT ![s] = "live"]
        /\ earlyStarts \subseteq earlyStarts'
        /\ UNCHANGED <<earlyOutcomes, events, chain, subscribed>>
    BY <1>5 DEF TurnStarted
  <2>2. turn'[r] = IF r = s THEN "live" ELSE turn[r]
    BY <1>0, <2>1
  <2> QED
    BY <1>5, <2>1, <2>2 DEF Eventful, Queued
<1>6. ASSUME NEW s \in Runs, TurnOutput(s) PROVE Eventful(r)
  BY <1>1, <1>6 DEF TurnOutput
<1>7. ASSUME NEW s \in Runs, TurnEnded(s) PROVE Eventful(r)
  <2>1. /\ turn[s] = "live" /\ turn' = [turn EXCEPT ![s] = "over"]
        /\ events' = events \/ events' = Append(events, s)
        /\ UNCHANGED <<earlyStarts, earlyOutcomes, chain, subscribed>>
    BY <1>7 DEF TurnEnded, disk
  <2>2. turn'[r] = IF r = s THEN "over" ELSE turn[r]
    BY <1>0, <2>1
  <2>3. \A i \in 1..Len(events) :
          i \in 1..Len(events') /\ events'[i] = events[i]
    <3>1. CASE events' = events
      BY <3>1
    <3>2. CASE events' = Append(events, s)
      <4>1. /\ Len(events') = Len(events) + 1 /\ Len(events) \in Nat
            /\ \A i \in 1..Len(events) : events'[i] = events[i]
        <5>1. PICK e \in Seq(Runs) : e = events
          BY <1>0
        <5> HIDE DEF Runs
        <5>2. /\ Len(Append(e, s)) = Len(e) + 1 /\ Len(e) \in Nat
              /\ \A i \in 1..Len(e) : Append(e, s)[i] = e[i]
          OBVIOUS
        <5> QED
          BY <3>2, <5>1, <5>2
      <4> QED
        BY <4>1
    <3> QED
      BY <2>1, <3>1, <3>2
  <2> QED
    BY <1>7, <2>1, <2>2, <2>3 DEF Eventful, Queued
<1>8. CASE ChainDeliver
  <2>1. /\ chain = None /\ events # <<>> /\ events' = Tail(events)
        /\ chain' = IF Suppressed(run[Head(events)].thread) THEN None
                    ELSE Head(events)
        /\ UNCHANGED <<turn, earlyStarts, earlyOutcomes, subscribed>>
    BY <1>8 DEF ChainDeliver, disk
  <2>2. Queued(r) => Queued(r)' \/ Suppressed(run[r].thread)
    <3> SUFFICES ASSUME Queued(r), ~Suppressed(run[r].thread) PROVE Queued(r)'
      OBVIOUS
    <3>1. PICK i \in 1..Len(events) : events[i] = r
      BY <2>1 DEF Queued
    <3>2. CASE i = 1
      <4>1. Head(events) = r
        BY <1>0, <2>1, <3>1, <3>2
      <4> QED
        BY <2>1, <4>1 DEF Queued
    <3>3. CASE i # 1
      <4>1. i - 1 \in 1..Len(events') /\ events'[i - 1] = r
        BY <1>0, <2>1, <3>1, <3>3
      <4> QED
        BY <4>1 DEF Queued
    <3> QED
      BY <3>2, <3>3
  <2> QED
    BY <2>1, <2>2 DEF Eventful
<1>9. CASE ChainSettle
  <2>a. UNCHANGED <<turn, earlyStarts, events, subscribed>>
    BY <1>9 DEF ChainSettle
  <2>b. earlyOutcomes' = earlyOutcomes \/ earlyOutcomes' = earlyOutcomes \cup {chain}
    BY <1>9 DEF ChainSettle
  <2>1. /\ earlyOutcomes \subseteq earlyOutcomes'
        /\ UNCHANGED <<turn, earlyStarts, events, subscribed>>
    BY <2>a, <2>b
  <2>2. Queued(r) => Queued(r)' \/ chain = r
    BY <2>1 DEF Queued
  <2> QED
    BY <1>9, <2>1, <2>2 DEF Eventful
<1>10. CASE Restart
  <2>1. UNCHANGED <<turn, earlyStarts, earlyOutcomes>>
    BY <1>10 DEF Restart
  <2> QED
    BY <1>10, <2>1 DEF Eventful
<1> QED
  BY <1>2, <1>3, <1>4, <1>5, <1>6, <1>7, <1>8, <1>9, <1>10
  DEF Next, RuntimeStep

\* A run whose turn was accepted is the successor of at most one request.
LEMMA NoSuccessor ==
  ASSUME TypeInv, Linked, NEW r \in Runs, run[r].stage = "sending"
  PROVE  SuccessorOf(req, r) = None
<1> DEFINE S == {q \in Requests :
                   /\ req[q].status \in {"successor_started",
                                         "first_turn_started"}
                   /\ req[q].successor = r}
<1>1. S = {}
  BY DEF Linked
<1> QED
  BY <1>1 DEF SuccessorOf, Latest

LEMMA OnlySuccessor ==
  ASSUME TypeInv, Linked, NEW r \in Runs, NEW q \in Requests,
         req[q].status \in {"successor_started", "first_turn_started"},
         req[q].successor = r
  PROVE  SuccessorOf(req, r) = q
<1> DEFINE S == {p \in Requests :
                   /\ req[p].status \in {"successor_started",
                                         "first_turn_started"}
                   /\ req[p].successor = r}
<1>1. SuccessorOf(req, r) = Latest(S)
  BY DEF SuccessorOf
<1>2. \A p \in S : p = q
  BY DEF Linked
<1>3. q \in S /\ S \in SUBSET Requests
  OBVIOUS
<1> HIDE DEF S
<1>4. Latest(S) \in S
  BY <1>3, LatestMember
<1> QED
  BY <1>1, <1>2, <1>4

\* The invariant.  No turn starts before its request is out; a run whose request
\* is out, or answered, has its thread subscribed to; the successor of an open
\* request is a run of this process; and until the operator's command is used
\* the start and the end of a turn that come before the answer are remembered.
Started == {"successor_started", "first_turn_started"}

EarlyTurn == \A r \in Runs : run[r].stage \in Before => turn[r] = "none"
Subscribed ==
  \A r \in Runs :
    run[r].stage \in {"sending", "accepted"} => run[r].thread \in subscribed
SuccessorAccepted ==
  \A q \in Requests :
    req[q].status \in Started =>
      req[q].successor # None /\ run[req[q].successor].stage = "accepted"
EarlyKept ==
  \A r \in Runs :
    /\ run[r].stage = "sending" /\ run[r].applied # None
    /\ ~Suppressed(run[r].thread)
    => /\ turn[r] # "none" => r \in earlyStarts
       /\ turn[r] = "over" => r \in earlyOutcomes \/ Queued(r)

EventInv ==
  /\ EarlyTurn /\ Subscribed /\ SuccessorAccepted
  /\ manual = 0 => EarlyKept /\ EventsNeverMissed

LEMMA RestartStops ==
  ASSUME TypeInv, Restart, NEW r \in Runs
  PROVE  run'[r].stage \notin {"sending", "accepted"}
<1> DEFINE gone == [run[r] EXCEPT !.stage = "gone"]
<1>1. run'[r] = IF InFlight(r) \/ run[r].stage = "accepted" THEN gone ELSE run[r]
  BY DEF Restart
<1>2. gone.stage = "gone"
  BY DEF TypeInv, TypeOK, RunRecords
<1> HIDE DEF gone
<1> QED
  BY <1>1, <1>2 DEF InFlight

\* A restart leaves no request open.
LEMMA RestartCloses ==
  ASSUME TypeInv, Restart, NEW q \in Requests
  PROVE  req'[q].status \notin Started
<1>0. /\ req \in Files /\ nreq + 1 \in Int
      /\ manual' > 0 \/ Restart
  BY DEF TypeInv, TypeOK, Files
<1> DEFINE failed == [req[q] EXCEPT !.status = "terminal_failed"]
<1>1. PICK middle \in Files : middle = Reconciled(req)
  BY <1>0, ReconciledHarmless
<1>2. middle[q].status \notin Started
  <2>1. middle[q] = IF \/ req[q].status \in Live
                       \/ req[q].status = "pending" /\ req[q].generation > 0
                      THEN failed ELSE req[q]
    BY <1>1 DEF Reconciled
  <2>2. req[q] \in RequestRecords
    BY <1>0 DEF Files
  <2>3. failed.status = "terminal_failed"
    BY <2>2 DEF RequestRecords
  <2> HIDE DEF failed
  <2> QED
    BY <2>1, <2>3 DEF Live, Started
<1>3. CASE req' = middle
  BY <1>2, <1>3
<1>4. CASE req' = Requested(middle, nreq + 1, PressureRequest(session))
  <2> DEFINE replaced == [middle[q] EXCEPT !.status = "replaced"]
             new == PressureRequest(session)
  <2>1. req'[q] = IF q = nreq + 1 THEN new
                  ELSE IF middle[q].status = "pending" THEN replaced
                  ELSE middle[q]
    BY <1>4 DEF Requested
  <2>2. middle[q] \in RequestRecords
    BY DEF Files
  <2>3. replaced.status = "replaced"
    BY <2>2 DEF RequestRecords
  <2>4. new.status = "pending"
    BY DEF PressureRequest, NoRequest
  <2> HIDE DEF replaced, new
  <2> QED
    BY <1>2, <2>1, <2>3, <2>4 DEF Started
<1> QED
  BY <1>1, <1>3, <1>4 DEF Restart

LEMMA EarlyTurnStep ==
  ASSUME TypeInv, EarlyTurn, Next
  PROVE  EarlyTurn'
<1>1. SUFFICES ASSUME NEW r \in Runs, run'[r].stage \in Before
               PROVE  turn'[r] = "none"
  BY DEF EarlyTurn
<1>2. run[r].stage \in Before /\ turn[r] = "none"
  BY <1>1, StageMoves DEF Staged, EarlyTurn
<1>3. ~TurnStarted(r)
  BY <1>2 DEF TurnStarted, Before
<1>4. Eventful(r)
  BY EventMoves
<1> QED
  BY <1>2, <1>3, <1>4 DEF Eventful

LEMMA SubscribedStep ==
  ASSUME TypeInv, Subscribed, Next
  PROVE  Subscribed'
<1>1. SUFFICES ASSUME NEW r \in Runs, run'[r].stage \in {"sending", "accepted"}
               PROVE  run'[r].thread \in subscribed'
  BY DEF Subscribed
<1>2. Staged(r) /\ ~Restart /\ Eventful(r)
  BY <1>1, StageMoves, RestartStops, EventMoves
<1>3. subscribed \subseteq subscribed'
  BY <1>2 DEF Eventful
<1>4. \/ run'[r].thread \in subscribed'
      \/ /\ run[r].stage \in {"sending", "accepted"}
         /\ run'[r].thread = run[r].thread
  BY <1>1, <1>2 DEF Staged
<1> QED
  BY <1>3, <1>4 DEF Subscribed

\* How a request comes to be open, or stays so.
LEMMA OpenMoves ==
  ASSUME TypeInv, RunInv, SuccessorAccepted, Next,
         NEW q \in Requests, req'[q].status \in Started
  PROVE  \/ /\ req[q].status \in Started /\ req'[q].successor = req[q].successor
            /\ req'[q].status = "successor_started" =>
                 req[q].status = "successor_started"
            /\ run'[req[q].successor].stage = "accepted"
            /\ run'[req[q].successor].thread = run[req[q].successor].thread
         \/ \E r \in Runs : Links(r, q, req[q], req'[q])
<1>1. Moves(q, req[q], req'[q]) /\ ~Restart
  BY FileMoves, RestartCloses
<1>2. CASE /\ req[q].status \in Started /\ req'[q].successor = req[q].successor
           /\ req'[q].status = "successor_started" =>
                req[q].status = "successor_started"
  <2>1. /\ req[q].successor # None
        /\ run[req[q].successor].stage = "accepted"
    BY <1>2 DEF SuccessorAccepted
  <2>2. PICK r \in Runs : r = req[q].successor
    <3>1. req[q] \in RequestRecords
      BY DEF TypeInv, TypeOK
    <3>2. req[q].successor \in 0..NRun
      BY <3>1 DEF RequestRecords
    <3> QED
      BY <2>1, <3>2
  <2>3. Staged(r)
    BY StageMoves
  <2> QED
    BY <1>1, <1>2, <2>1, <2>2, <2>3 DEF Staged
<1>3. CASE Kept(req[q], req'[q])
  BY <1>2, <1>3 DEF Kept
<1>4. /\ ~Closed(req[q], req'[q]) /\ ~Completes(req[q], req'[q])
      /\ ~Made(q, req'[q])
  BY DEF Closed, Completes, Made, Started
<1>5. ASSUME NEW r \in Runs
      PROVE  ~Applies(r, q, req[q], req'[q]) /\ ~Reopens(r, q, req[q], req'[q])
  BY DEF Applies, Reopens, Started
<1>6. CASE \E r \in Runs : Starts(r, q, req[q], req'[q])
  BY <1>2, <1>6 DEF Starts, Started
<1> QED
  BY <1>1, <1>3, <1>4, <1>5, <1>6 DEF Moves

LEMMA SuccessorAcceptedStep ==
  ASSUME TypeInv, RunInv, SuccessorAccepted, Next
  PROVE  SuccessorAccepted'
<1>1. SUFFICES ASSUME NEW q \in Requests, req'[q].status \in Started
               PROVE  /\ req'[q].successor # None
                      /\ run'[req'[q].successor].stage = "accepted"
  BY DEF SuccessorAccepted
<1>2. CASE /\ req[q].status \in Started /\ req'[q].successor = req[q].successor
           /\ run'[req[q].successor].stage = "accepted"
  BY <1>2 DEF SuccessorAccepted
<1>3. ASSUME NEW r \in Runs, Links(r, q, req[q], req'[q])
      PROVE  req'[q].successor = r /\ run'[r].stage = "accepted"
  <2> DEFINE new == [run[r] EXCEPT !.stage = "accepted"]
  <2>1. run \in [Runs -> RunRecords]
    BY DEF TypeInv, TypeOK
  <2>2. /\ run' = [run EXCEPT ![r].stage = "accepted"]
        /\ req'[q].successor = r
    BY <1>3 DEF Links, Accept
  <2>3. run' = [run EXCEPT ![r] = new] /\ new.stage = "accepted"
    BY <2>1, <2>2 DEF RunRecords
  <2> HIDE DEF new
  <2> QED
    BY <2>1, <2>2, <2>3
<1> QED
  BY <1>1, <1>2, <1>3, OpenMoves

\* What comes of the start and the end of a turn whose answer is still out.
LEMMA EarlyKeptStep ==
  ASSUME TypeInv, TypeInv', RunInv, HeldInv, Linked, EventInv, Next, manual' = 0
  PROVE  EarlyKept'
<1>0. /\ manual = 0 /\ EarlyKept /\ EarlyTurn /\ Subscribed /\ TypeOK
  <2>1. manual = 0
    <3>1. manual' \in {manual, manual + 1}
      BY StepCounts
    <3>2. manual \in Nat
      BY DEF TypeInv, TypeOK
    <3> QED
      BY <3>1, <3>2
  <2> QED
    BY <2>1 DEF EventInv, TypeInv
<1>1. SUFFICES ASSUME NEW r \in Runs, run'[r].stage = "sending",
                      run'[r].applied # None, ~Suppressed(run[r].thread)'
               PROVE  /\ turn'[r] # "none" => r \in earlyStarts'
                      /\ turn'[r] = "over" => r \in earlyOutcomes' \/ Queued(r)'
  BY DEF EarlyKept
<1>2. Staged(r) /\ Eventful(r) /\ ~Restart
  BY <1>1, StageMoves, EventMoves, RestartStops
<1>3. superseded \subseteq superseded'
  BY <1>2, StepCounts
<1>4. CASE run[r].stage = "opening"
  <2>1. turn[r] = "none"
    BY <1>0, <1>4 DEF EarlyTurn, Before
  <2>2. ~TurnStarted(r)
    BY <1>4 DEF TurnStarted
  <2>3. turn'[r] = "none"
    BY <1>2, <2>1, <2>2 DEF Eventful
  <2> QED
    BY <2>3
<1>5. CASE /\ run[r].stage = "sending" /\ run'[r].thread = run[r].thread
           /\ run'[r].applied = run[r].applied
  <2>1. /\ ~Suppressed(run[r].thread) /\ run[r].thread \in subscribed
        /\ run[r].applied # None
    BY <1>0, <1>1, <1>3, <1>5 DEF Suppressed, Subscribed
  <2>2. ~Accept(r)
    <3> DEFINE new == [run[r] EXCEPT !.stage = "accepted"]
    <3>1. SUFFICES ASSUME Accept(r) PROVE FALSE
      OBVIOUS
    <3>2. run' = [run EXCEPT ![r] = new] /\ new.stage = "accepted"
      BY <1>0, <3>1 DEF Accept, TypeOK, RunRecords
    <3> HIDE DEF new
    <3>3. run'[r].stage = "accepted"
      BY <1>0, <3>2 DEF TypeOK
    <3> QED
      BY <1>1, <3>3
  <2>3. SuccessorOf(req, r) = None
    BY <1>5, NoSuccessor
  <2>4. SomeApplied(req)
    <3>1. run[r].applied \in Requests /\ Holds(r, run[r].applied)
      BY <1>0, <1>5, <2>1 DEF TypeOK, RunRecords, Holds, Sending
    <3>2. req[run[r].applied].status = "applied"
      BY <1>0, <1>5, <3>1 DEF HeldInv, HeldOpen, Sending
    <3> QED
      BY <3>1, <3>2 DEF SomeApplied
  <2>5. Seen(run[r].thread)
    BY <2>1 DEF Seen
  <2>6. TurnStarted(r) => r \in earlyStarts'
    BY <2>3, <2>4, <2>5 DEF TurnStarted
  <2>7. TurnEnded(r) => Queued(r)'
    <3>1. SUFFICES ASSUME TurnEnded(r) PROVE Queued(r)'
      OBVIOUS
    <3>2. events' = Append(events, r) /\ events \in Seq(Runs)
      BY <1>0, <2>5, <3>1 DEF TurnEnded, TypeOK
    <3>3. Len(events) + 1 \in 1..Len(events') /\ events'[Len(events) + 1] = r
      BY <3>2
    <3> QED
      BY <3>3 DEF Queued
  <2>8. ChainSettle /\ chain = r => r \in earlyOutcomes'
    BY <2>3, <2>4 DEF ChainSettle
  <2>9. /\ turn[r] # "none" => r \in earlyStarts
        /\ turn[r] = "over" => r \in earlyOutcomes \/ Queued(r)
    BY <1>0, <1>5, <2>1 DEF EarlyKept
  <2>10. turn'[r] # "none" => r \in earlyStarts'
    BY <1>2, <2>2, <2>6, <2>9 DEF Eventful
  <2>11. turn'[r] = "over" => r \in earlyOutcomes' \/ Queued(r)'
    BY <1>2, <2>1, <2>2, <2>7, <2>8, <2>9 DEF Eventful
  <2> QED
    BY <2>10, <2>11
<1> QED
  BY <1>1, <1>2, <1>4, <1>5 DEF Staged

\* No step misses an event of an open request's successor.
LEMMA EventsStep ==
  ASSUME TypeInv, TypeInv', RunInv, HeldInv, Linked, EventInv, Next, manual' = 0
  PROVE  EventsNeverMissed'
<1>0. /\ manual = 0 /\ EarlyKept /\ EventsNeverMissed /\ Subscribed
      /\ SuccessorAccepted /\ TypeOK
  <2>1. manual = 0
    <3>1. manual' \in {manual, manual + 1}
      BY StepCounts
    <3>2. manual \in Nat
      BY DEF TypeInv, TypeOK
    <3> QED
      BY <3>1, <3>2
  <2> QED
    BY <2>1 DEF EventInv, TypeInv
<1>1. SUFFICES ASSUME NEW q \in Requests, NEW s, s = req'[q].successor,
                      req'[q].status \in Started, Seen(run[s].thread)'
               PROVE  /\ req'[q].status = "successor_started" =>
                           turn'[s] = "none"
                      /\ turn'[s] = "over" => Queued(s)'
  BY DEF EventsNeverMissed, Queued, Started
<1>2. ~Restart /\ superseded \subseteq superseded'
  BY <1>1, RestartCloses, StepCounts
<1>3. CASE /\ req[q].status \in Started /\ req'[q].successor = req[q].successor
           /\ req'[q].status = "successor_started" =>
                req[q].status = "successor_started"
           /\ run'[req[q].successor].thread = run[req[q].successor].thread
  <2>1. PICK r \in Runs : r = req[q].successor /\ r = s
    <3>1. req[q] \in RequestRecords
      BY <1>0 DEF TypeOK
    <3>2. req[q].successor \in 0..NRun /\ req[q].successor # None
      BY <1>0, <1>3, <3>1 DEF RequestRecords, SuccessorAccepted
    <3> QED
      BY <1>1, <1>3, <3>2
  <2>2. /\ run[r].stage = "accepted" /\ run[r].thread \in subscribed
        /\ run[r].thread \notin superseded'
    BY <1>0, <1>1, <1>3, <2>1 DEF SuccessorAccepted, Subscribed, Seen, Suppressed
  <2>3. Seen(run[r].thread) /\ ~Suppressed(run[r].thread)
    BY <1>2, <2>2 DEF Seen, Suppressed
  <2>4. /\ req[q].status = "successor_started" => turn[r] = "none"
        /\ turn[r] = "over" => Queued(r)
    BY <1>0, <1>3, <2>1, <2>3 DEF EventsNeverMissed, Queued, Started
  <2>5. SuccessorOf(req, r) = q
    BY <1>3, <2>1, OnlySuccessor DEF Started
  <2>6. Eventful(r)
    BY EventMoves
  <2>7. TurnStarted(r) => req'[q].status = "first_turn_started"
    <3> DEFINE new == [req[q] EXCEPT !.status = "first_turn_started"]
    <3>1. SUFFICES ASSUME TurnStarted(r)
                   PROVE  req'[q].status = "first_turn_started"
      OBVIOUS
    <3>2. req' = [req EXCEPT ![q].status = "first_turn_started"]
      BY <2>3, <2>5, <3>1 DEF TurnStarted
    <3>3. req' = [req EXCEPT ![q] = new] /\ new.status = "first_turn_started"
      BY <1>0, <3>2 DEF TypeOK, RequestRecords
    <3> HIDE DEF new
    <3> QED
      BY <1>0, <3>3 DEF TypeOK
  <2>8. TurnEnded(r) => Queued(r)'
    <3>1. SUFFICES ASSUME TurnEnded(r) PROVE Queued(r)'
      OBVIOUS
    <3>2. events' = Append(events, r) /\ events \in Seq(Runs)
      BY <1>0, <2>3, <3>1 DEF TurnEnded, TypeOK
    <3>3. Len(events) + 1 \in 1..Len(events') /\ events'[Len(events) + 1] = r
      BY <3>2
    <3> QED
      BY <3>3 DEF Queued
  <2>9. ~(ChainSettle /\ chain = r)
    BY <1>1, <2>5, SettleMoves DEF Started
  <2>10. req'[q].status = "successor_started" => turn'[r] = "none"
    BY <1>3, <2>4, <2>6, <2>7 DEF Eventful
  <2>11. turn'[r] = "over" => Queued(r)'
    BY <1>2, <2>3, <2>4, <2>6, <2>8, <2>9 DEF Eventful
  <2> QED
    BY <2>1, <2>10, <2>11
<1>4. ASSUME NEW r \in Runs, Links(r, q, req[q], req'[q])
      PROVE  /\ req'[q].status = "successor_started" => turn'[s] = "none"
             /\ turn'[s] = "over" => Queued(s)'
  <2> DEFINE new == [run[r] EXCEPT !.stage = "accepted"]
  <2>1. /\ Accept(r) /\ run[r].applied = q /\ s = r
        /\ req'[q].status = IF r \in earlyOutcomes THEN "terminal_failed"
                            ELSE IF r \in earlyStarts THEN "first_turn_started"
                            ELSE "successor_started"
    BY <1>1, <1>4 DEF Links
  <2>2. /\ run[r].stage = "sending" /\ UNCHANGED <<turn, chain, events, superseded>>
        /\ run' = [run EXCEPT ![r].stage = "accepted"]
    BY <2>1 DEF Accept
  <2>3. /\ run' = [run EXCEPT ![r] = new] /\ new.thread = run[r].thread
    BY <1>0, <2>2 DEF TypeOK, RunRecords
  <2> HIDE DEF new
  <2>4. run'[r].thread = run[r].thread
    BY <1>0, <2>3 DEF TypeOK
  <2>5. ~Suppressed(run[r].thread)
    BY <1>1, <2>1, <2>2, <2>4 DEF Seen, Suppressed
  <2>6. /\ turn[r] # "none" => r \in earlyStarts
        /\ turn[r] = "over" => r \in earlyOutcomes \/ Queued(r)
    BY <1>0, <2>1, <2>2, <2>5 DEF EarlyKept
  <2>7. r \notin earlyOutcomes
    BY <1>1, <2>1 DEF Started
  <2>8. Queued(r)' = Queued(r) /\ turn'[r] = turn[r]
    BY <2>2 DEF Queued
  <2> QED
    BY <2>1, <2>6, <2>7, <2>8
<1> QED
  BY <1>0, <1>1, <1>3, <1>4, OpenMoves

\* All of it is an invariant.
RefreshEventInv == RefreshInv /\ RunInv /\ HeldInv /\ EventInv

LEMMA EventInvInit ==
  ASSUME Init
  PROVE  RefreshEventInv
<1>1. RefreshInv /\ RunInv /\ HeldInv
  BY RefreshInvInit, FileInvInit DEF RefreshFileInv, FileInv
<1>2. /\ \A r \in Runs : run[r] = NoRun /\ turn[r] = "none"
      /\ \A q \in Requests : req[q] = NoRequest
  BY DEF Init
<1>3. NoRun.stage = "unused" /\ NoRequest.status = "none"
  BY DEF NoRun, NoRequest
<1>4. EarlyTurn /\ Subscribed /\ SuccessorAccepted
  BY <1>2, <1>3 DEF EarlyTurn, Subscribed, SuccessorAccepted, Started
<1>5. EarlyKept /\ EventsNeverMissed
  BY <1>2, <1>3 DEF EarlyKept, EventsNeverMissed
<1> QED
  BY <1>1, <1>4, <1>5 DEF RefreshEventInv, EventInv

LEMMA EventInvStep ==
  ASSUME RefreshEventInv, [Next]_vars
  PROVE  RefreshEventInv'
<1>0. /\ RefreshInv /\ TypeInv /\ Linked /\ RunInv /\ HeldInv /\ EventInv
      /\ EarlyTurn /\ Subscribed /\ SuccessorAccepted
      /\ TypeInv' /\ RefreshInv'
  BY TypeStep, RefreshInvStep DEF RefreshEventInv, RefreshInv, EventInv
<1>1. CASE Next
  <2>1. RunInv' /\ HeldInv'
    BY <1>0, <1>1, RunMoves, HeldInvStep DEF RunsMove
  <2>2. EarlyTurn' /\ Subscribed' /\ SuccessorAccepted'
    BY <1>0, <1>1, EarlyTurnStep, SubscribedStep, SuccessorAcceptedStep
  <2>3. manual' = 0 => EarlyKept' /\ EventsNeverMissed'
    BY <1>0, <1>1, EarlyKeptStep, EventsStep
  <2> QED
    BY <1>0, <2>1, <2>2, <2>3 DEF RefreshEventInv, EventInv
<1>2. CASE UNCHANGED vars
  <2>1. UNCHANGED <<run, watch, waiting, usedKeys, nrun, req, nreq, manual,
                    superseded, turn, subscribed, earlyStarts, earlyOutcomes,
                    chain, events>>
    BY <1>2 DEF vars, memory, disk, bounds
  <2>2. RunInv'
    BY <1>0, <2>1 DEF RunInv, CauseAlone, CarriedUsed, WaitingIdle, CausesPast,
                      TypingUnapplied, Going, Alive, InFlight, Watched
  <2>3. HeldInv'
    BY <1>0, <2>1 DEF HeldInv, HeldOpen, HeldOnce, FileEnds, Holds, Sending,
                      Watched
  <2>4. EarlyTurn' /\ Subscribed' /\ SuccessorAccepted'
    BY <1>0, <2>1 DEF EarlyTurn, Subscribed, SuccessorAccepted
  <2>5. EarlyKept' = EarlyKept
    BY <2>1 DEF EarlyKept, Queued, Suppressed
  <2>6. EventsNeverMissed' = EventsNeverMissed
    BY <2>1 DEF EventsNeverMissed, Seen, Suppressed
  <2>7. EventInv'
    BY <1>0, <2>1, <2>4, <2>5, <2>6 DEF EventInv
  <2> QED
    BY <1>0, <2>2, <2>3, <2>7 DEF RefreshEventInv
<1> QED
  BY <1>1, <1>2

\* As long as the operator's command has not been used, no event of a
\* successor is missed, though it may come before the answer to the request that
\* started its turn: a request does not wait for a start that was received, nor
\* for an end that nothing will handle.
THEOREM RefreshEventsKept == Spec => [](manual = 0 => EventsNeverMissed)
<1>1. Init => RefreshEventInv
  BY EventInvInit
<1>2. RefreshEventInv /\ [Next]_vars => RefreshEventInv'
  BY EventInvStep
<1>3. RefreshEventInv => (manual = 0 => EventsNeverMissed)
  BY DEF RefreshEventInv, EventInv
<1> QED
  BY <1>1, <1>2, <1>3, PTL DEF Spec
=============================================================================
