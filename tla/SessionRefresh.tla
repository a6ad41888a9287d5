--------------------------- MODULE SessionRefresh ---------------------------
(***************************************************************************)
(* A session refresh replaces the runtime thread of a conversation when    *)
(* its context is nearly full, when an operator asks for it, or when a     *)
(* turn never came to life.  A request for one is a record in a file: it   *)
(* waits for the next user message, is applied by clearing the session's   *)
(* thread, and is closed by what becomes of the turn that message starts.  *)
(*                                                                         *)
(* The module models the request store, the part of the dispatch, of the   *)
(* runtime events and of the pre-start recovery that act on it, restarts   *)
(* of the bridge and the operator's command, for one conversation on the   *)
(* Codex runtime.  Buffered messages and delivery are TurnDispatch's.      *)
(***************************************************************************)
EXTENDS Integers, Sequences, FiniteSets

CONSTANTS
  NRun,        \* bound on dispatches (runs); a run's turn has its number
  NReq,        \* bound on requests (the file keeps the last 100)
  MaxFaults,   \* bound on failures and timeouts
  MaxRestart,  \* bound on restarts of the bridge
  MaxManual,   \* bound on uses of the operator's command
  GraceTurns   \* DEFAULT_POST_REFRESH_GRACE_TURNS

ASSUME SessionRefreshAssumption ==
  /\ NRun \in Nat /\ NReq \in Nat /\ MaxFaults \in Nat /\ MaxRestart \in Nat
  /\ MaxManual \in Nat /\ GraceTurns \in Nat

Runs == 1..NRun
Threads == Runs              \* thread t is the one that run t started
Requests == 1..NReq          \* in the order of the file
None == 0

Live == {"applied", "successor_started", "first_turn_started"}
Statuses == Live \cup {"none", "pending", "completed", "terminal_failed",
                       "replaced"}   \* replaced: no longer in the file

RequestRecords ==
  [status : Statuses, old : 0..NRun, successor : 0..NRun, cause : 0..NRun,
   generation : Nat, superseded : SUBSET Threads, auto : BOOLEAN,
   preApplied : BOOLEAN, grace : 0..GraceTurns]

RunStages == {"unused", "typing", "opening", "sending", "accepted", "refused",
              "lost", "gone"}
\* cause: the run that first carried the message; request: the one the message
\* carries from a recovery; applied: the one this dispatch applied; retry: the
\* one its recovery found or made; fresh: routed at once, not from the buffer;
\* kept: the message goes back to the buffer when the dispatch fails.
RunRecords ==
  [stage : RunStages, thread : 0..NRun, cause : 0..NRun, generation : Nat,
   request : 0..NReq, applied : 0..NReq, retry : 0..NReq,
   fresh : BOOLEAN, kept : BOOLEAN]

VARIABLES
  nreq, req,      \* the requests in the file
  earlyStarts,    \* earlyRuntimeStarts, by run
  earlyOutcomes,  \* earlyRuntimeOutcomes, by run
  session,        \* the session store's thread of the conversation
  gate, gateThread, running, superseded, usedKeys,  \* as in TurnDispatch
  nrun, run,      \* the dispatches
  waiting,        \* runs whose message is in the inbound buffer
  watch,          \* the first-event watchdog of each run
  subscribed,     \* threads whose events reach the bridge
  events, chain,  \* turn ends queued on the event chain, and the one handled
  turn,           \* the runtime's view of each run
  faults, restarts, manual,
  outcome         \* history: what the chain made of each run's end

disk == <<nreq, req, earlyStarts, earlyOutcomes, session>>
memory == <<gate, gateThread, running, superseded, usedKeys, nrun, run, waiting,
            watch, subscribed, events, chain>>
bounds == <<faults, restarts, manual>>
vars == <<disk, memory, turn, bounds, outcome>>

NoRequest == [status |-> "none", old |-> None, successor |-> None,
              cause |-> None, generation |-> 0, superseded |-> {},
              auto |-> FALSE, preApplied |-> FALSE, grace |-> 0]

NoRun == [stage |-> "unused", thread |-> None, cause |-> None,
          generation |-> 0, request |-> None, applied |-> None,
          retry |-> None, fresh |-> FALSE, kept |-> FALSE]

Init ==
  /\ nreq = 0 /\ req = [q \in Requests |-> NoRequest]
  /\ earlyStarts = {} /\ earlyOutcomes = {} /\ session = None
  /\ gate = FALSE /\ gateThread = {} /\ running = [t \in Threads |-> None]
  /\ superseded = {} /\ usedKeys = {}
  /\ nrun = 0 /\ run = [r \in Runs |-> NoRun] /\ waiting = {}
  /\ watch = [r \in Runs |-> "off"] /\ subscribed = {}
  /\ events = <<>> /\ chain = None
  /\ turn = [r \in Runs |-> "none"]
  /\ faults = 0 /\ restarts = 0 /\ manual = 0
  /\ outcome = [r \in Runs |-> "none"]

-----------------------------------------------------------------------------
\* The request store, as functions of what the file holds.

Latest(S) == IF S = {} THEN None ELSE CHOOSE q \in S : \A p \in S : p <= q
First(S) == IF S = {} THEN None ELSE CHOOSE q \in S : \A p \in S : p >= q

\* getPendingRequest for the conversation's current thread, if it has one.
PendingFor(reqs, thread) ==
  Latest({q \in Requests :
            /\ reqs[q].status = "pending"
            /\ thread = None \/ reqs[q].old \in {None, thread}})

\* requestRefresh: a new request takes the place of every pending one.
Requested(reqs, q, new) ==
  [p \in Requests |->
     IF p = q THEN new
     ELSE IF reqs[p].status = "pending"
       THEN [reqs[p] EXCEPT !.status = "replaced"] ELSE reqs[p]]

\* markApplied
AppliedTo(reqs, q, thread, cause, generation) ==
  [reqs EXCEPT ![q].status = "applied",
               ![q].old = IF thread # None THEN thread ELSE reqs[q].old,
               ![q].cause = cause, ![q].generation = generation]

\* findLiveSuccessorIndex: the request whose successor is run r.
SuccessorOf(reqs, r) ==
  Latest({q \in Requests :
            /\ reqs[q].status \in {"successor_started", "first_turn_started"}
            /\ reqs[q].successor = r})

SomeApplied(reqs) == \E q \in Requests : reqs[q].status = "applied"

\* A mistake: a start is enough.
OutcomeOfStart(reqs, q, good) ==
  IF reqs[q].status = "first_turn_started"
    THEN [reqs EXCEPT ![q].status = "completed", ![q].grace = GraceTurns]
    ELSE [reqs EXCEPT ![q].status = "terminal_failed"]

\* completeFromRuntimeOutcome for a request whose successor ended: it has
\* completed if the turn's start was seen and everything about its end is good.
Outcome(reqs, q, good) ==
  IF good /\ reqs[q].status = "first_turn_started"
    THEN [reqs EXCEPT ![q].status = "completed", ![q].grace = GraceTurns]
    ELSE [reqs EXCEPT ![q].status = "terminal_failed"]

\* A mistake: the early start is not looked for.
SuccessorForgetful(reqs, q, r) ==
  [reqs EXCEPT ![q].successor = r, ![q].status = "successor_started"]

\* markSuccessorStarted, with the start and the end that came before it.
\* An end that came before it found no turn to write back.
Successor(reqs, q, r) ==
  [reqs EXCEPT ![q].successor = r,
               ![q].status = IF r \in earlyOutcomes THEN "terminal_failed"
                             ELSE IF r \in earlyStarts THEN "first_turn_started"
                             ELSE "successor_started"]

\* A mistake: the successor of the failed attempt is kept.
RequeuedKeeping(reqs, q) ==
  [reqs EXCEPT ![q].status = "pending", ![q].generation = @ + 1]

\* requeueAfterPreStartFailure
Requeued(reqs, q) ==
  [reqs EXCEPT ![q].status = "pending", ![q].successor = None,
               ![q].generation = @ + 1, ![q].grace = 0]

\* reconcileStartup: what a restart interrupted fails, and so does a retry
\* whose message was only in memory.
Reconciled(reqs) ==
  [q \in Requests |->
     IF \/ reqs[q].status \in Live
        \/ reqs[q].status = "pending" /\ reqs[q].generation > 0
       THEN [reqs[q] EXCEPT !.status = "terminal_failed"] ELSE reqs[q]]

\* The completed request whose grace covers the thread.
GraceOf(reqs, thread) ==
  Latest({q \in Requests : /\ reqs[q].status = "completed"
                           /\ run[reqs[q].successor].thread = thread})

\* A mistake: the grace is taken without a look at what is left.
GraceOverspent(reqs, thread) ==
  LET q == GraceOf(reqs, thread)
  IN IF q = None THEN reqs ELSE [reqs EXCEPT ![q].grace = @ - 1]

\* consumePostRefreshGrace, when a message is prepared for a thread that has no
\* pending refresh.
GraceUsed(reqs, thread) ==
  LET q == GraceOf(reqs, thread)
  IN IF \/ thread = None \/ PendingFor(reqs, thread) # None
        \/ q = None \/ reqs[q].grace = 0
       THEN reqs ELSE [reqs EXCEPT ![q].grace = @ - 1]

\* A request queued under context pressure, at most one for a thread.
PressureOn(reqs, thread) ==
  thread = session /\ thread # None /\ nreq < NReq
    /\ PendingFor(reqs, thread) = None

PressureRequest(thread) ==
  [NoRequest EXCEPT !.status = "pending", !.old = thread, !.auto = TRUE]

-----------------------------------------------------------------------------
\* The dispatch.

Suppressed(t) == t \in superseded
Running(t) == t # None /\ running[t] # None
Blocked == gate \/ Running(session)
InFlight(r) == run[r].stage \in {"typing", "opening", "sending"}

Fault == faults < MaxFaults /\ faults' = faults + 1

Begin(runs, new) ==
  /\ nrun < NRun
  /\ nrun' = nrun + 1
  /\ gate' = TRUE
  /\ run' = [runs EXCEPT ![nrun + 1] = [new EXCEPT !.stage = "typing"]]

\* A message is prepared and dispatched, at once or from the buffer.
FreshDispatch ==
  /\ ~Blocked
  /\ req' = GraceUsed(req, session)
  /\ \E fresh \in BOOLEAN :
       Begin(run, [NoRun EXCEPT !.cause = nrun + 1, !.fresh = fresh,
                                !.kept = ~fresh])
  /\ UNCHANGED <<nreq, earlyStarts, earlyOutcomes, session, gateThread, running,
                 superseded, usedKeys, waiting, watch, subscribed, events,
                 chain, turn, bounds, outcome>>

\* A message that cannot be dispatched yet is prepared all the same.
PrepareBuffered ==
  /\ Blocked
  /\ req' = GraceUsed(req, session) /\ req' # req
  /\ UNCHANGED <<nreq, earlyStarts, earlyOutcomes, session, memory, turn,
                 bounds, outcome>>

\* What a message carries when it is dispatched again.
Again(r) ==
  [NoRun EXCEPT !.cause = run[r].cause, !.generation = run[r].generation,
                !.request = IF run[r].retry # None THEN run[r].retry
                            ELSE run[r].request,
                !.kept = TRUE]

\* flushPendingInboundMessages for a message that is back in the buffer.
FlushAgain(r) ==
  /\ r \in waiting /\ ~Blocked
  /\ waiting' = waiting \ {r}
  /\ req' = GraceUsed(req, session)
  /\ Begin(run, Again(r))
  /\ UNCHANGED <<nreq, earlyStarts, earlyOutcomes, session, gateThread, running,
                 superseded, usedKeys, watch, subscribed, events, chain, turn,
                 bounds, outcome>>

\* maybeApplySessionRefreshRequest, after the await of the typing status.  A
\* message from the buffer has a generation of its own.
Apply(r) ==
  LET p == PendingFor(req, session)
      generation == IF run[r].fresh THEN req[p].generation
                    ELSE run[r].generation
  IN /\ run[r].stage = "typing"
     /\ IF p = None
          THEN /\ run' = [run EXCEPT ![r].stage = "opening"]
               /\ UNCHANGED <<req, session>>
          ELSE /\ run' = [run EXCEPT ![r].stage = "opening", ![r].applied = p,
                                     ![r].generation = generation]
               /\ req' = AppliedTo(req, p, session, run[r].cause, generation)
               /\ session' = None
     /\ UNCHANGED <<nreq, earlyStarts, earlyOutcomes, gate, gateThread, running,
                    superseded, usedKeys, nrun, waiting, watch, subscribed,
                    events, chain, turn, bounds, outcome>>

\* sendTurn up to turn/start: resume the session's thread or start one.
OpenThread(r) ==
  /\ run[r].stage = "opening"
  /\ \E t \in {r} \cup ({session} \ {None}) :
       /\ session' = t
       /\ subscribed' = subscribed \cup {t}
       /\ run' = [run EXCEPT ![r].stage = "sending", ![r].thread = t]
  /\ UNCHANGED <<nreq, req, earlyStarts, earlyOutcomes, gate, gateThread,
                 running, superseded, usedKeys, nrun, waiting, watch, events,
                 chain, turn, bounds, outcome>>

ClearWatch(t) ==
  [r \in Runs |-> IF watch[r] = "armed" /\ run[r].thread = t
                    THEN "off" ELSE watch[r]]

\* turn/start is answered.
Accept(r) ==
  LET q == run[r].applied
  IN /\ run[r].stage = "sending"
     /\ run' = [run EXCEPT ![r].stage = "accepted"]
     /\ gateThread' = gateThread \cup {run[r].thread}
     /\ watch' = [ClearWatch(run[r].thread) EXCEPT ![r] = "armed"]
     /\ IF q = None
          THEN UNCHANGED <<req, earlyStarts, earlyOutcomes>>
          ELSE /\ req' = Successor(req, q, r)
               /\ earlyStarts' = earlyStarts \ {r}
               /\ earlyOutcomes' = earlyOutcomes \ {r}
     /\ UNCHANGED <<nreq, session, gate, running, superseded, usedKeys, nrun,
                    waiting, subscribed, events, chain, turn, bounds, outcome>>

\* A dispatch that returns false: the flush that made it keeps the message.
Failed(r) ==
  /\ run' = [run EXCEPT ![r].stage = "lost"]
  /\ waiting' = IF run[r].kept THEN waiting \cup {r} ELSE waiting

\* An error that is not a transport failure.
Refuse(r) ==
  /\ run[r].stage \in {"opening", "sending"} /\ turn[r] = "none"
  /\ Fault
  /\ gate' = FALSE
  /\ waiting' = IF run[r].kept THEN waiting \cup {r} ELSE waiting
  /\ run' = [run EXCEPT ![r].stage = "refused"]
  /\ UNCHANGED <<nreq, req, earlyStarts, earlyOutcomes, session, gateThread,
                 running, superseded, usedKeys, nrun, watch, subscribed,
                 events, chain, turn, restarts, manual, outcome>>

-----------------------------------------------------------------------------
\* recoverCodexPreStartFailure for run r, whose thread is taken to be t.

\* The first request of the file that the message carries or has caused.
Existing(r) ==
  LET carried == IF run[r].applied # None THEN run[r].applied
                 ELSE run[r].request
  IN First({q \in Requests :
              /\ req[q].status \notin {"none", "replaced"}
              /\ q = carried \/ req[q].cause = run[r].cause})

StatusOf(q) == IF q = None THEN "none" ELSE req[q].status

FoundStarted(r, t) ==
  Running(t) \/ StatusOf(Existing(r)) = "first_turn_started"

\* A mistake: the generation is not looked at.
RetryKeyUsed(r) == run[r].cause \in usedKeys

RetryUsed(r) ==
  \/ run[r].cause \in usedKeys
  \/ Existing(r) # None /\ req[Existing(r)].generation >= 1

Retryable(r, t) == ~FoundStarted(r, t) /\ ~RetryUsed(r)

OldThread(r, t) ==
  IF t # None THEN t
  ELSE IF session # None THEN session
  ELSE IF Existing(r) # None THEN req[Existing(r)].old ELSE None

\* The request that will carry the redispatch: the message's own, requeued;
\* another that is pending; or a new one.
RetryRequest(r, old) ==
  LET e == Existing(r)
  IN IF StatusOf(e) \in Live \cup {"completed", "pending"} THEN e
     ELSE IF PendingFor(req, old) # None THEN PendingFor(req, old)
     ELSE nreq + 1

\* A mistake: the superseded run is not recorded with the request.
RetryForgets(r, old) ==
  LET q == RetryRequest(r, old)
      e == Existing(r)
  IN IF StatusOf(e) \in Live \cup {"completed"} THEN Requeued(req, e)
     ELSE IF q = nreq + 1
       THEN Requested(req, q, [NoRequest EXCEPT !.status = "pending",
              !.old = old, !.cause = run[r].cause, !.generation = 1])
     ELSE req

RetryRequests(r, old) ==
  LET q == RetryRequest(r, old)
      e == Existing(r)
      found == IF StatusOf(e) \in Live \cup {"completed"} THEN Requeued(req, e)
               ELSE IF q = nreq + 1
                 THEN Requested(req, q, [NoRequest EXCEPT !.status = "pending",
                        !.old = old, !.cause = run[r].cause, !.generation = 1])
               ELSE req
  IN [found EXCEPT ![q].superseded = (@ \cup {old}) \ {None}]

\* The store's part of a recovery.
SaveRetry(r, old) ==
  /\ RetryRequest(r, old) \in Requests
  /\ req' = RetryRequests(r, old)
  /\ nreq' = IF RetryRequest(r, old) = nreq + 1 THEN nreq + 1 ELSE nreq

AtLeastOne(n) == IF n = 0 THEN 1 ELSE n

\* A transport failure or an RPC timeout with nothing to redispatch: the turn
\* runs, and the dispatch returns false, or the redispatch has been used, and
\* it returns true.
TransportFailNoRetry(r) ==
  /\ run[r].stage \in {"opening", "sending"}
  /\ ~Retryable(r, session)
  /\ Fault
  /\ gate' = FALSE
  /\ IF FoundStarted(r, session) THEN Failed(r)
     ELSE run' = [run EXCEPT ![r].stage = "lost"] /\ UNCHANGED waiting
  /\ UNCHANGED <<nreq, req, earlyStarts, earlyOutcomes, session, gateThread,
                 running, superseded, usedKeys, nrun, watch, subscribed,
                 events, chain, turn, restarts, manual, outcome>>

\* No thread to supersede: the request is saved and the recovery throws.
TransportFailThrow(r) ==
  /\ run[r].stage \in {"opening", "sending"}
  /\ Retryable(r, session) /\ OldThread(r, session) = None
  /\ Fault
  /\ SaveRetry(r, None)
  /\ gate' = FALSE
  /\ run' = [run EXCEPT ![r].stage = "lost"]
  /\ UNCHANGED <<earlyStarts, earlyOutcomes, session, gateThread, running,
                 superseded, usedKeys, nrun, waiting, watch, subscribed,
                 events, chain, turn, restarts, manual, outcome>>

\* Otherwise the old thread is superseded and the message dispatched again at
\* once, by a flush inside the dispatch that failed; what that one keeps takes
\* the place of what the inner one would.
TransportFailRecover(r) ==
  LET old == OldThread(r, session)
      q == RetryRequest(r, old)
  IN /\ run[r].stage \in {"opening", "sending"}
     /\ Retryable(r, session) /\ old # None
     /\ Fault
     /\ SaveRetry(r, old)
     /\ superseded' = superseded \cup {old}
     /\ session' = None
     /\ gateThread' = gateThread \ {session}
     /\ usedKeys' = usedKeys \cup {run[r].cause}
     /\ waiting' = IF run[r].kept THEN waiting \cup {r} ELSE waiting
     /\ Begin([run EXCEPT ![r].stage = "lost"],
              [Again(r) EXCEPT !.request = q, !.kept = ~run[r].kept,
                !.generation = AtLeastOne(req'[q].generation)])
     /\ UNCHANGED <<earlyStarts, earlyOutcomes, running, watch, subscribed,
                    events, chain, turn, restarts, manual, outcome>>

\* The first-event watchdog: its timer fires and sendTyping is awaited.
FirstEventTimeout(r) ==
  /\ watch[r] = "armed"
  /\ Fault
  /\ watch' = [watch EXCEPT ![r] = "typing"]
  /\ UNCHANGED <<disk, gate, gateThread, running, superseded, usedKeys, nrun,
                 run, waiting, subscribed, events, chain, turn, restarts,
                 manual, outcome>>

FirstEventNotice(r) ==
  /\ watch[r] = "typing"
  /\ ~Retryable(r, run[r].thread)
  /\ watch' = [watch EXCEPT ![r] = "off"]
  /\ UNCHANGED <<disk, gate, gateThread, running, superseded, usedKeys, nrun,
                 run, waiting, subscribed, events, chain, turn, bounds,
                 outcome>>

\* The recovery up to its await of cancelTurn.
FirstEventSupersede(r) ==
  LET t == run[r].thread
      q == RetryRequest(r, t)
  IN /\ watch[r] = "typing"
     /\ Retryable(r, t)
     /\ SaveRetry(r, t)
     /\ watch' = [watch EXCEPT ![r] = "cancelling"]
     /\ run' = [run EXCEPT ![r].retry = q,
                           ![r].generation = AtLeastOne(req'[q].generation)]
     /\ superseded' = superseded \cup {t}
     /\ session' = None
     /\ UNCHANGED <<earlyStarts, earlyOutcomes, gate, gateThread, running,
                    usedKeys, nrun, waiting, subscribed, events, chain, turn,
                    bounds, outcome>>

\* After the await: release the gate, buffer the message, flush.
FirstEventRequeue(r) ==
  /\ watch[r] = "cancelling"
  /\ watch' = [watch EXCEPT ![r] = "off"]
  /\ gateThread' = gateThread \ {run[r].thread}
  /\ usedKeys' = usedKeys \cup {run[r].cause}
  /\ IF Running(session)
       THEN /\ gate' = FALSE /\ waiting' = waiting \cup {r}
            /\ UNCHANGED <<req, nrun, run>>
       ELSE /\ Begin(run, Again(r)) /\ UNCHANGED waiting
            /\ req' = GraceUsed(req, session)
  /\ UNCHANGED <<nreq, earlyStarts, earlyOutcomes, session, running, superseded,
                 subscribed, events, chain, turn, bounds, outcome>>

-----------------------------------------------------------------------------
\* The runtime's events, as the listener sees them when it is subscribed to
\* the thread and the run has not been superseded.

Seen(t) == t \in subscribed /\ ~Suppressed(t)

\* turn/started, and markFirstTurnStarted.
TurnStarted(r) ==
  LET t == run[r].thread
      q == SuccessorOf(req, r)
  IN /\ run[r].stage \in {"sending", "accepted", "lost", "gone"} /\ t # None
     /\ turn[r] = "none"
     /\ \A p \in Runs : run[p].thread = t => turn[p] # "live"
     /\ turn' = [turn EXCEPT ![r] = "live"]
     /\ running' = IF Seen(t) THEN [running EXCEPT ![t] = r] ELSE running
     /\ req' = IF Seen(t) /\ q # None
                 THEN [req EXCEPT ![q].status = "first_turn_started"] ELSE req
     /\ earlyStarts' = IF Seen(t) /\ q = None /\ SomeApplied(req)
                         THEN earlyStarts \cup {r} ELSE earlyStarts
     /\ UNCHANGED <<nreq, earlyOutcomes, session, gate, gateThread, superseded,
                    usedKeys, nrun, run, waiting, watch, subscribed, events,
                    chain, bounds, outcome>>

\* Output, and maybe a context update that queues a refresh.
TurnOutput(r) ==
  LET t == run[r].thread
  IN /\ turn[r] = "live" /\ Seen(t)
     /\ running' = [running EXCEPT ![t] = r]
     /\ watch' = ClearWatch(t)
     /\ \/ UNCHANGED <<nreq, req>>
        \/ /\ PressureOn(req, t)
           /\ nreq' = nreq + 1
           /\ req' = Requested(req, nreq + 1, PressureRequest(t))
     /\ UNCHANGED <<earlyStarts, earlyOutcomes, session, gate, gateThread,
                    superseded, usedKeys, nrun, run, waiting, subscribed,
                    events, chain, turn, bounds, outcome>>

\* turn/completed or turn/failed; it may come before turn/start is answered.
TurnEnded(r) ==
  LET t == run[r].thread
  IN /\ turn[r] = "live"
     /\ turn' = [turn EXCEPT ![r] = "over"]
     /\ IF Seen(t)
          THEN /\ running' = [running EXCEPT ![t] = None]
               /\ watch' = ClearWatch(t)
               /\ events' = Append(events, r)
          ELSE UNCHANGED <<running, watch, events>>
     /\ UNCHANGED <<disk, gate, gateThread, superseded, usedKeys, nrun, run,
                    waiting, subscribed, chain, bounds, outcome>>

\* handleRuntimeEvent: the end of a superseded run is dropped; the reply of
\* another is delivered, and awaited.
ChainDeliver ==
  /\ chain = None /\ events # <<>>
  /\ events' = Tail(events)
  /\ chain' = IF Suppressed(run[Head(events)].thread) THEN None
              ELSE Head(events)
  /\ UNCHANGED <<disk, gate, gateThread, running, superseded, usedKeys, nrun,
                 run, waiting, watch, subscribed, turn, bounds, outcome>>

\* maybePreApplyAutoSessionRefreshAfterTurn picks a pending automatic request.
PreApplied(reqs, t) ==
  LET p == PendingFor(reqs, t)
  IN IF session = t /\ p # None /\ reqs[p].auto /\ ~reqs[p].preApplied
       THEN p ELSE None

\* After delivery: writeback, the outcome of the refresh, the pressure the turn
\* left, the release of the gate and the pre-application.  The turn is written
\* back if this process dispatched it and had its answer.
ChainSettle ==
  /\ chain # None
  /\ chain' = None
  /\ LET r == chain
         t == run[r].thread
         q == SuccessorOf(req, r)
     IN \E completed, written, pressure \in BOOLEAN :
          LET good == completed /\ written /\ run[r].stage = "accepted"
              ended == IF q = None THEN req ELSE Outcome(req, q, good)
              queued == IF pressure
                          THEN Requested(ended, nreq + 1, PressureRequest(t))
                          ELSE ended
              p == IF completed THEN PreApplied(queued, t) ELSE None
          IN /\ pressure => PressureOn(ended, t)
             /\ nreq' = IF pressure THEN nreq + 1 ELSE nreq
             /\ req' = IF p = None THEN queued
                       ELSE [queued EXCEPT ![p].preApplied = TRUE]
             /\ session' = IF p = None THEN session ELSE None
             /\ earlyOutcomes' = IF q = None /\ SomeApplied(req)
                                   THEN earlyOutcomes \cup {r}
                                   ELSE earlyOutcomes
             /\ outcome' = [outcome EXCEPT ![r] = IF good THEN "good"
                                                  ELSE "bad"]
             /\ gate' = (gate /\ t \notin gateThread)
             /\ gateThread' = gateThread \ {t}
  /\ UNCHANGED <<earlyStarts, running, superseded, usedKeys, nrun, run, waiting,
                 watch, subscribed, events, turn, bounds>>

-----------------------------------------------------------------------------
\* The operator, the user's command, and restarts.

\* scripts/shared-refresh-session.js, another process: it opens the store, and
\* so reconciles it, before it asks for a refresh.
MaintenanceRequest ==
  /\ manual < MaxManual /\ nreq < NReq
  /\ manual' = manual + 1
  /\ nreq' = nreq + 1
  /\ req' = Requested(Reconciled(req), nreq + 1,
              [NoRequest EXCEPT !.status = "pending", !.old = session])
  /\ UNCHANGED <<earlyStarts, earlyOutcomes, session, memory, turn, faults,
                 restarts, outcome>>

\* handleNewCommand, from the poll loop.
NewCommand ==
  /\ session # None
  /\ \A r \in Runs : InFlight(r) => ~run[r].fresh
  /\ session' = None
  /\ UNCHANGED <<nreq, req, earlyStarts, earlyOutcomes, memory, turn, bounds,
                 outcome>>

\* listSupersededRuns, which start() reads back.
OnDisk == UNION {req[q].superseded : q \in {p \in Requests :
                   req[p].status \notin {"none", "replaced"}}}

\* The bridge stops and starts again: its memory is gone, the files and the
\* runtime process stay.  The session's thread is resumed, and may be found
\* under pressure.
Restart ==
  /\ restarts < MaxRestart
  /\ restarts' = restarts + 1
  /\ gate' = FALSE /\ gateThread' = {} /\ running' = [t \in Threads |-> None]
  /\ superseded' = OnDisk /\ usedKeys' = {} /\ waiting' = {}
  /\ run' = [r \in Runs |->
               IF InFlight(r) \/ run[r].stage = "accepted"
                 THEN [run[r] EXCEPT !.stage = "gone"] ELSE run[r]]
  /\ watch' = [r \in Runs |-> "off"]
  /\ subscribed' = {session} \ {None}
  /\ events' = <<>> /\ chain' = None
  /\ \/ req' = Reconciled(req) /\ UNCHANGED nreq
     \/ /\ PressureOn(Reconciled(req), session)
        /\ nreq' = nreq + 1
        /\ req' = Requested(Reconciled(req), nreq + 1, PressureRequest(session))
  /\ UNCHANGED <<earlyStarts, earlyOutcomes, session, nrun, turn, faults,
                 manual, outcome>>

-----------------------------------------------------------------------------
DispatchStep(r) ==
  \/ FlushAgain(r) \/ Apply(r) \/ OpenThread(r) \/ Accept(r) \/ Refuse(r)
  \/ TransportFailNoRetry(r) \/ TransportFailThrow(r) \/ TransportFailRecover(r)

WatchStep(r) ==
  \/ FirstEventTimeout(r) \/ FirstEventNotice(r) \/ FirstEventSupersede(r)
  \/ FirstEventRequeue(r)

RuntimeStep(r) == TurnStarted(r) \/ TurnOutput(r) \/ TurnEnded(r)

Next ==
  \/ FreshDispatch \/ PrepareBuffered
  \/ \E r \in Runs : DispatchStep(r) \/ WatchStep(r) \/ RuntimeStep(r)
  \/ ChainDeliver \/ ChainSettle
  \/ MaintenanceRequest \/ NewCommand \/ Restart

Spec == Init /\ [][Next]_vars

\* The event loop runs what is ready, and the runtime ends the turns it starts.
Fairness ==
  /\ WF_vars(ChainDeliver) /\ WF_vars(ChainSettle)
  /\ \A r \in Runs :
       /\ WF_vars(Apply(r)) /\ WF_vars(OpenThread(r)) /\ WF_vars(Accept(r))
       /\ WF_vars(FirstEventNotice(r) \/ FirstEventSupersede(r)
                    \/ FirstEventRequeue(r))
       /\ WF_vars(TurnStarted(r)) /\ WF_vars(TurnEnded(r))

FairSpec == Spec /\ Fairness

-----------------------------------------------------------------------------
\* Properties.

\* The variables hold values of the program's types.
TypeOK ==
  /\ nreq \in 0..NReq /\ req \in [Requests -> RequestRecords]
  /\ earlyStarts \in SUBSET Runs /\ earlyOutcomes \in SUBSET Runs
  /\ session \in 0..NRun
  /\ gate \in BOOLEAN /\ gateThread \in SUBSET Threads
  /\ running \in [Threads -> 0..NRun]
  /\ superseded \in SUBSET Threads /\ usedKeys \in SUBSET Runs
  /\ nrun \in 0..NRun /\ run \in [Runs -> RunRecords]
  /\ waiting \in SUBSET Runs
  /\ watch \in [Runs -> {"off", "armed", "typing", "cancelling"}]
  /\ subscribed \in SUBSET Threads
  /\ events \in Seq(Runs) /\ chain \in 0..NRun
  /\ turn \in [Runs -> {"none", "live", "over"}]
  /\ faults \in Nat /\ restarts \in Nat /\ manual \in Nat
  /\ outcome \in [Runs -> {"none", "good", "bad"}]

\* README.md: "the request closes only after the exact successor turn starts,
\* returns a non-empty assistant outcome, reaches a terminal runtime outcome,
\* and its local writeback settles".
CompletedIsSettled ==
  \A q \in Requests :
    req[q].status = "completed" =>
      LET r == req[q].successor
      IN r # None /\ run[r].applied = q /\ turn[r] = "over"
           /\ outcome[r] = "good"

\* No event of a successor is missed, though its start and its end may come before
\* the answer to its turn/start: a request is not left waiting for a start that was
\* received, and while it is open the end is still to be handled.
EventsNeverMissed ==
  \A q \in Requests :
    LET r == req[q].successor
    IN /\ req[q].status = "successor_started" =>
            turn[r] = "none" \/ ~Seen(run[r].thread)
       /\ req[q].status \in {"successor_started", "first_turn_started"}
            /\ turn[r] = "over" =>
            \/ chain = r \/ (\E i \in 1..Len(events) : events[i] = r) \/ ~Seen(run[r].thread)

\* A run is on disk as superseded from the step that supersedes it, so that a
\* restart knows of it.  (A later request may replace the one that says so.)
SupersededPersisted == [][superseded' \ superseded \subseteq OnDisk']_vars

\* A message is redispatched once by a recovery, restarts or not.
RedispatchedOnce ==
  \A q \in Requests : req[q].generation <= 1

\* The grace is given by a completed refresh and by nothing else.
GraceOnlyCompleted ==
  \A q \in Requests : req[q].grace > 0 => req[q].status = "completed"

\* A refresh whose successor was accepted is closed, or reopened.
SuccessorSettles ==
  \A q \in Requests :
    req[q].status \in {"successor_started", "first_turn_started"} ~>
      req[q].status \notin {"successor_started", "first_turn_started"}
=============================================================================
