---------------------------- MODULE TurnDispatch ----------------------------
(***************************************************************************)
(* How the bridge hands the inbound messages of one conversation (one      *)
(* binding and workspace, the "scope") to the Codex runtime, one turn at a *)
(* time: the turn gate, the buffer of messages that arrive while a turn is *)
(* running, the dispatch of a turn, the handling of the runtime's events   *)
(* and the two watchdogs.                                                  *)
(*                                                                         *)
(* The program is single-threaded: an action is what runs between two      *)
(* awaits that leave the process (an RPC, an HTTP call, a timer).  The     *)
(* actors that interleave at those awaits are the poll loop, the chain     *)
(* that handles runtime events one after the other, the timers, and the    *)
(* runtime process.                                                        *)
(***************************************************************************)
EXTENDS Integers, Sequences, FiniteSets

CONSTANTS
  NMsg,       \* inbound messages the user sends, in this order
  NRun,       \* bound on dispatches (runs)
  MaxFaults,  \* bound on failures and timeouts
  MaxReset,   \* bound on uses of the command that starts a fresh thread
  Faults      \* the failures that may happen: see FaultKinds

\* reject: turn/start is refused; transport: an RPC times out or its transport
\* closes; firstEvent, stall: a watchdog fires; lateEvent: the runtime's events
\* for a thread may arrive while its first-event recovery awaits the channel.
FaultKinds == {"reject", "transport", "firstEvent", "stall", "lateEvent"}

ASSUME TurnDispatchAssumption ==
  /\ NMsg \in Nat /\ NRun \in Nat /\ MaxFaults \in Nat /\ MaxReset \in Nat
  /\ Faults \subseteq FaultKinds

Messages == 1..NMsg
Runs == 1..NRun
Threads == Runs              \* thread t is the one that run t started
None == 0

\* A prepared message: one inbound message, or the merge of several.
Prepared == [key : Messages, body : SUBSET Messages, gen : {0, 1}]

Callers == {"route", "poll", "chain", "timer", "recovery"}
RunStages == {"unused", "opening", "sending", "recovering", "accepted",
              "rejected", "lost"}
RunRecords == [stage : RunStages, key : 0..NMsg, body : SUBSET Messages,
               gen : {0, 1}, thread : 0..NRun, caller : Callers,
               parent : 0..NRun, draft : SUBSET Prepared]

VARIABLES
  arrived,    \* messages received so far
  main,       \* the run the poll loop awaits, None when it is at getUpdates
  pending,    \* pendingInboundByScope: the buffered draft, {} when absent
  gate,       \* turnGateStore.pendingScopeKeys has the scope
  gateThread, \* turnGateStore.scopeByThreadId: the threads mapped to the scope
  boundary,   \* turnBoundaryScopeKeys has the scope
  session,    \* the session store's thread of the scope
  running,    \* threadStateStore: the running turn of a thread, or None
  nrun, run,  \* the dispatches begun, and each one's continuation
  superseded, \* streamDelivery.supersededRunByThreadId
  usedKeys,   \* preStartRedispatchMessageIds and requests of generation >= 1
  firstEvent, \* pendingRuntimeEventWatchdogs
  stall,      \* runningTurnWatchdogs
  events,     \* turn ends waiting on runtimeEventChain
  chain,      \* the turn end the chain is handling
  turn,       \* the runtime's own view of each run
  faults, resets

VARIABLES     \* history
  answers,    \* how many finished turns with this message reached delivery
  told,       \* messages whose sender got a failure notice
  recovered   \* how often a message was armed for redispatch

appVars == <<arrived, main, pending, gate, gateThread, boundary, session,
             running, nrun, run, superseded, usedKeys, firstEvent, stall,
             events, chain>>
history == <<answers, told, recovered>>
vars == <<appVars, turn, faults, resets, history>>

IdleRun == [stage |-> "unused", key |-> 0, body |-> {}, gen |-> 0,
            thread |-> None, caller |-> "route", parent |-> None,
            draft |-> {}]

Init ==
  /\ arrived = 0 /\ main = None /\ pending = {}
  /\ gate = FALSE /\ gateThread = {} /\ boundary = FALSE
  /\ session = None /\ running = [t \in Threads |-> None]
  /\ nrun = 0 /\ run = [r \in Runs |-> IdleRun]
  /\ superseded = {} /\ usedKeys = {}
  /\ firstEvent = [r \in Runs |-> "off"] /\ stall = [r \in Runs |-> "off"]
  /\ events = <<>> /\ chain = [stage |-> "idle", run |-> None]
  /\ turn = [r \in Runs |-> "none"]
  /\ faults = 0 /\ resets = 0
  /\ answers = [m \in Messages |-> 0] /\ told = {}
  /\ recovered = [m \in Messages |-> 0]

-----------------------------------------------------------------------------
\* The guards and helpers of app.js.

ThreadRunning(t) == t # None /\ running[t] # None

\* Definitions marked "mistake" are plausible bugs in the one that follows: a
\* property of a run fails when the one replaces the other.

\* A mistake: no event is recognized as a superseded run's.
SuppressedNever(t) == FALSE

\* markRunSuperseded and resolveSupersededRun, by thread.
Suppressed(t) == t \in superseded

\* A mistake: the use of a message's one redispatch is forgotten.
RedispatchForgotten(key) == FALSE

\* preStartRedispatchMessageIds, or a request of generation 1 or more.
RedispatchUsed(key) == key \in usedKeys

\* A mistake: only a turn that has started blocks the scope.
BlockedByTurn(ignoreBoundary) ==
  \/ boundary /\ ~ignoreBoundary
  \/ ThreadRunning(session)

\* isTurnDispatchBlocked.  The Codex adapter has no hasActiveTurn, so a
\* pending gate is never found stale.
Blocked(ignoreBoundary) ==
  \/ boundary /\ ~ignoreBoundary
  \/ gate
  \/ ThreadRunning(session)

\* A mistake: the latest message stands for the batch.
MergeLatest(draft) == CHOOSE p \in draft : \A q \in draft : p.key >= q.key

\* mergePendingInboundDraft: one ordered batch, named after the message being
\* recovered if there is one, after the latest otherwise.
Merge(draft) ==
  LET retried == {p \in draft : p.gen = 1}
      First(S) == CHOOSE p \in S : \A q \in S : p.key <= q.key
      Last(S) == CHOOSE p \in S : \A q \in S : p.key >= q.key
  IN [key |-> IF retried # {} THEN First(retried).key ELSE Last(draft).key,
      body |-> UNION {p.body : p \in draft},
      gen |-> IF retried # {} THEN 1 ELSE 0]

PreparedOf(r) == [key |-> run[r].key, body |-> run[r].body, gen |-> run[r].gen]

\* dispatchPreparedTurn up to its first await: begin takes the gate.  "draft"
\* is what the calling flush puts back when the dispatch returns false.
Dispatch(runs, prepared, caller, parent, draft) ==
  /\ nrun < NRun
  /\ nrun' = nrun + 1
  /\ gate' = TRUE
  /\ run' = [runs EXCEPT ![nrun + 1] =
               [stage |-> "opening", key |-> prepared.key,
                body |-> prepared.body, gen |-> prepared.gen,
                thread |-> None, caller |-> caller, parent |-> parent,
                draft |-> draft]]

\* A mistake: the draft is put back whether or not the dispatch succeeded.
RestoredAlways(r, ok, draft) ==
  IF run[r].caller = "route" THEN draft ELSE run[r].draft

\* What a flush leaves in pendingInboundByScope when its dispatch returns.
Restored(r, ok, draft) ==
  IF ok \/ run[r].caller = "route" THEN draft ELSE run[r].draft

\* What the callers of run r do when its dispatch returns: the flush that
\* launched it restores its draft on false, and the poll loop or the event
\* chain goes on.  A dispatch made by the recovery of run p returns to p,
\* whose own dispatch then returns false.
Return(r, ok, stage, draft) ==
  LET p == run[r].parent
      top == IF p = None THEN r ELSE p
      inner == Restored(r, ok, draft)
  IN /\ pending' = IF p = None THEN inner ELSE Restored(p, FALSE, inner)
     /\ run' = [q \in Runs |->
                  IF q = r THEN [run[q] EXCEPT !.stage = stage]
                  ELSE IF q = p THEN [run[q] EXCEPT !.stage = "lost"]
                  ELSE run[q]]
     /\ main' = IF run[top].caller \in {"route", "poll"} THEN None ELSE main
     /\ chain' = IF run[top].caller = "chain"
                   THEN [chain EXCEPT !.stage = "close"] ELSE chain

\* A mistake: the end of a turn leaves the gate pending.
GateKept(t) == gate

\* turnGateStore.releaseThread: the scope's gate goes if the thread is mapped.
GateAfterRelease(t) == gate /\ t \notin gateThread

\* The first-event watchdogs of a thread, cleared.
ClearFirstEvent(t) ==
  [r \in Runs |-> IF firstEvent[r] = "armed" /\ run[r].thread = t
                    THEN "off" ELSE firstEvent[r]]

Fault(kind) ==
  /\ kind \in Faults
  /\ faults < MaxFaults
  /\ faults' = faults + 1

-----------------------------------------------------------------------------
\* Inbound messages.

\* A mistake: the message is taken for the one before.
ArrivedStale == [key |-> arrived, body |-> {arrived}, gen |-> 0]

Arrived == [key |-> arrived + 1, body |-> {arrived + 1}, gen |-> 0]

\* A mistake: the buffer holds one message.
BufferedAlone(prepared) == {prepared}

\* bufferPendingInboundMessage
Buffered(prepared) == pending \cup {prepared}

\* routePreparedInbound while the scope is blocked: bufferPendingInboundMessage.
BufferInbound ==
  /\ main = None /\ arrived < NMsg
  /\ Blocked(FALSE)
  /\ arrived' = arrived + 1
  /\ pending' = Buffered(Arrived)
  /\ UNCHANGED <<main, gate, gateThread, boundary, session, running, nrun, run,
                 superseded, usedKeys, firstEvent, stall, events, chain, turn,
                 faults, resets, history>>

\* routePreparedInbound otherwise; the poll loop awaits the dispatch.
RouteInbound ==
  /\ main = None /\ arrived < NMsg
  /\ ~Blocked(FALSE)
  /\ arrived' = arrived + 1
  /\ Dispatch(run, Arrived, "route", None, {})
  /\ main' = nrun + 1
  /\ UNCHANGED <<pending, gateThread, boundary, session, running, superseded,
                 usedKeys, firstEvent, stall, events, chain, turn, faults,
                 resets, history>>

\* flushOutboundQueues -> flushPendingInboundMessages, from the poll loop.
PollFlush ==
  /\ main = None
  /\ pending # {} /\ ~Blocked(FALSE)
  /\ pending' = {}
  /\ Dispatch(run, Merge(pending), "poll", None, pending)
  /\ main' = nrun + 1
  /\ UNCHANGED <<arrived, gateThread, boundary, session, running, superseded,
                 usedKeys, firstEvent, stall, events, chain, turn, faults,
                 resets, history>>

\* handleNewCommand: the next dispatch starts a fresh thread.
FreshThread ==
  /\ main = None /\ resets < MaxReset
  /\ session' = None
  /\ resets' = resets + 1
  /\ UNCHANGED <<arrived, main, pending, gate, gateThread, boundary, running,
                 nrun, run, superseded, usedKeys, firstEvent, stall, events,
                 chain, turn, faults, history>>

-----------------------------------------------------------------------------
\* A dispatch after its first await.

\* sendTurn up to turn/start: resume the scope's thread, or start one when
\* there is none or it cannot be resumed.
OpenThread(r) ==
  /\ run[r].stage = "opening"
  /\ \E t \in {r} \cup ({session} \ {None}) :
       /\ session' = t
       /\ run' = [run EXCEPT ![r].stage = "sending", ![r].thread = t]
  /\ UNCHANGED <<arrived, main, pending, gate, gateThread, boundary, running,
                 nrun, superseded, usedKeys, firstEvent, stall, events, chain,
                 turn, faults, resets, history>>

\* A mistake: the thread is not mapped to the scope.
AttachedNever(t) == gateThread

\* turnGateStore.attachThread
Attached(t) == gateThread \cup {t}

\* turn/start is answered: attach the thread, arm both watchdogs, return true.
Accept(r) ==
  LET t == run[r].thread
  IN /\ run[r].stage = "sending"
     /\ gateThread' = Attached(t)
     /\ firstEvent' = [ClearFirstEvent(t) EXCEPT ![r] = "armed"]
     /\ stall' = [stall EXCEPT ![r] = "armed"]
     /\ Return(r, TRUE, "accepted", pending)
     /\ UNCHANGED <<arrived, gate, boundary, session, running, nrun,
                    superseded, usedKeys, events, turn, faults, resets,
                    history>>

InFlight(r) == run[r].stage \in {"opening", "sending"}

\* An error that is not a transport failure, before the turn began: notice,
\* release the gate, return false.
Reject(r) ==
  /\ InFlight(r) /\ turn[r] = "none"
  /\ Fault("reject")
  /\ gate' = FALSE
  /\ told' = told \cup run[r].body
  /\ Return(r, FALSE, "rejected", pending)
  /\ UNCHANGED <<arrived, gateThread, boundary, session, running, nrun,
                 superseded, usedKeys, firstEvent, stall, events, turn, resets,
                 answers, recovered>>

\* A transport failure or an RPC timeout, where recoverCodexPreStartFailure
\* finds nothing to redispatch: the thread is running (notice, false), or the
\* message's redispatch has been used (notice, true).
TransportFailNoRetry(r) ==
  /\ InFlight(r)
  /\ ThreadRunning(session) \/ RedispatchUsed(run[r].key)
  /\ Fault("transport")
  /\ gate' = FALSE
  /\ told' = told \cup run[r].body
  /\ Return(r, ~ThreadRunning(session), "lost", pending)
  /\ UNCHANGED <<arrived, gateThread, boundary, session, running, nrun,
                 superseded, usedKeys, firstEvent, stall, events, turn, resets,
                 answers, recovered>>

\* The same with no thread to supersede: the request is saved and the recovery
\* throws, through the dispatch and the flush, to the poll loop or the chain.
TransportFailThrow(r) ==
  /\ InFlight(r)
  /\ session = None /\ ~RedispatchUsed(run[r].key)
  /\ Fault("transport")
  /\ gate' = FALSE
  /\ usedKeys' = usedKeys \cup {run[r].key}
  /\ run' = [run EXCEPT ![r].stage = "rejected"]
  /\ main' = IF run[r].caller \in {"route", "poll"} THEN None ELSE main
  /\ chain' = IF run[r].caller = "chain"
                THEN [chain EXCEPT !.stage = "close"] ELSE chain
  /\ UNCHANGED <<arrived, pending, gateThread, boundary, session, running,
                 nrun, superseded, firstEvent, stall, events, turn, resets,
                 history>>

\* The same with a thread that is not running: supersede it and redispatch
\* the message, in front of the dispatch that failed, with what is buffered.
TransportFailRecover(r) ==
  LET retry == [PreparedOf(r) EXCEPT !.gen = 1]
      draft == Buffered(retry)
  IN /\ InFlight(r)
     /\ session # None /\ ~ThreadRunning(session)
     /\ ~RedispatchUsed(run[r].key)
     /\ Fault("transport")
     /\ superseded' = superseded \cup {session}
     /\ usedKeys' = usedKeys \cup {run[r].key}
     /\ recovered' = [recovered EXCEPT ![run[r].key] = @ + 1]
     /\ session' = None
     /\ gateThread' = gateThread \ {session}
     /\ pending' = {}
     /\ Dispatch([run EXCEPT ![r].stage = "recovering"], Merge(draft),
                 "recovery", r, draft)
     /\ UNCHANGED <<arrived, main, boundary, running, firstEvent, stall,
                    events, chain, turn, resets, answers, told>>

-----------------------------------------------------------------------------
\* The first-event watchdog (scheduleRuntimeEventWatchdog).

\* The failure timer fires: the entry goes, and sendTyping is awaited.
FirstEventTimeout(r) ==
  /\ firstEvent[r] = "armed"
  /\ Fault("firstEvent")
  /\ firstEvent' = [firstEvent EXCEPT ![r] = "typing"]
  /\ UNCHANGED <<arrived, main, pending, gate, gateThread, boundary, session,
                 running, nrun, run, superseded, usedKeys, stall, events,
                 chain, turn, resets, history>>

\* recoverCodexPreStartFailure finds the thread running, or the redispatch
\* used: only a notice goes out.
FirstEventNotice(r) ==
  /\ firstEvent[r] = "typing"
  /\ ThreadRunning(run[r].thread) \/ RedispatchUsed(run[r].key)
  /\ firstEvent' = [firstEvent EXCEPT ![r] = "off"]
  /\ told' = told \cup run[r].body
  /\ UNCHANGED <<arrived, main, pending, gate, gateThread, boundary, session,
                 running, nrun, run, superseded, usedKeys, stall, events,
                 chain, turn, faults, resets, answers, recovered>>

\* Otherwise it supersedes the run's thread, up to the await of cancelTurn.
FirstEventSupersede(r) ==
  LET t == run[r].thread
  IN /\ firstEvent[r] = "typing"
     /\ ~ThreadRunning(t) /\ ~RedispatchUsed(run[r].key)
     /\ firstEvent' = [firstEvent EXCEPT ![r] = "cancelling"]
     /\ superseded' = superseded \cup {t}
     /\ usedKeys' = usedKeys \cup {run[r].key}
     /\ recovered' = [recovered EXCEPT ![run[r].key] = @ + 1]
     /\ session' = None
     /\ UNCHANGED <<arrived, main, pending, gate, gateThread, boundary,
                    running, nrun, run, stall, events, chain, turn, faults,
                    resets, answers, told>>

\* After the await: release the gate, buffer the message, flush the scope.
FirstEventRequeue(r) ==
  LET retry == [PreparedOf(r) EXCEPT !.gen = 1]
      draft == Buffered(retry)
  IN /\ firstEvent[r] = "cancelling"
     /\ firstEvent' = [firstEvent EXCEPT ![r] = "off"]
     /\ gateThread' = gateThread \ {run[r].thread}
     /\ IF ThreadRunning(session)
          THEN /\ gate' = FALSE /\ pending' = draft
               /\ UNCHANGED <<nrun, run>>
          ELSE /\ pending' = {}
               /\ Dispatch(run, Merge(draft), "timer", None, draft)
     /\ UNCHANGED <<arrived, main, boundary, session, running, superseded,
                    usedKeys, stall, events, chain, turn, faults, resets,
                    history>>

-----------------------------------------------------------------------------
\* The running-turn watchdog (scheduleRunningTurnWatchdog).  Its 240 s are
\* counted from the last event, so the 45 s of the other one are over.

\* The recovery timer finds the same turn running: it sends the notice and
\* awaits cancelTurn.
StallTimeout(r) ==
  /\ stall[r] = "armed" /\ firstEvent[r] # "armed"
  /\ running[run[r].thread] = r
  /\ Fault("stall")
  /\ stall' = [stall EXCEPT ![r] = "cancelling"]
  /\ told' = told \cup run[r].body
  /\ UNCHANGED <<arrived, main, pending, gate, gateThread, boundary, session,
                 running, nrun, run, superseded, usedKeys, firstEvent, events,
                 chain, turn, resets, answers, recovered>>

\* After the await: releaseThread, and the flush of the scope unless it is
\* still blocked.
StallRelease(r) ==
  /\ stall[r] = "cancelling"
  /\ stall' = [stall EXCEPT ![r] = "off"]
  /\ gateThread' = gateThread \ {run[r].thread}
  /\ IF pending = {} \/ GateAfterRelease(run[r].thread) \/ ThreadRunning(session)
       THEN /\ gate' = GateAfterRelease(run[r].thread)
            /\ UNCHANGED <<pending, nrun, run>>
       ELSE /\ pending' = {}
            /\ Dispatch(run, Merge(pending), "timer", None, pending)
  /\ UNCHANGED <<arrived, main, boundary, session, running, superseded,
                 usedKeys, firstEvent, events, chain, turn, faults, resets,
                 history>>

-----------------------------------------------------------------------------
\* The runtime process, and the synchronous half of the event listener.

\* Unless lateEvent is among the faults, a thread whose first-event timer has
\* fired stays silent while the bridge awaits sendTyping.
Timely(t) ==
  "lateEvent" \in Faults
    \/ \A q \in Runs : run[q].thread = t => firstEvent[q] # "typing"

\* turn/started.  A thread runs one turn at a time.  A request that timed out
\* may still have reached the runtime.
TurnStarted(r) ==
  LET t == run[r].thread
  IN /\ run[r].stage \in {"sending", "accepted", "lost"} /\ t # None
     /\ turn[r] = "none" /\ Timely(t)
     /\ \A q \in Runs : run[q].thread = t => turn[q] # "live"
     /\ turn' = [turn EXCEPT ![r] = "live"]
     /\ running' = IF Suppressed(t) THEN running
                   ELSE [running EXCEPT ![t] = r]
     /\ UNCHANGED <<arrived, main, pending, gate, gateThread, boundary,
                    session, nrun, run, superseded, usedKeys, firstEvent,
                    stall, events, chain, faults, resets, history>>

\* A delta, an item or a context update: evidence for the first-event watchdog,
\* which turn/started alone is not.
TurnOutput(r) ==
  LET t == run[r].thread
  IN /\ turn[r] = "live" /\ ~Suppressed(t) /\ Timely(t)
     /\ ClearFirstEvent(t) # firstEvent
     /\ firstEvent' = ClearFirstEvent(t)
     /\ UNCHANGED <<arrived, main, pending, gate, gateThread, boundary,
                    session, running, nrun, run, superseded, usedKeys, stall,
                    events, chain, turn, faults, resets, history>>

\* turn/completed or turn/failed, after the answer to turn/start.  An event of
\* a superseded thread changes nothing.
TurnEnded(r) ==
  LET t == run[r].thread
  IN /\ turn[r] = "live" /\ run[r].stage # "sending" /\ Timely(t)
     /\ turn' = [turn EXCEPT ![r] = "over"]
     /\ IF Suppressed(t)
          THEN UNCHANGED <<running, firstEvent, stall, events>>
          ELSE /\ running' = [running EXCEPT ![t] = None]
               /\ firstEvent' = ClearFirstEvent(t)
               /\ stall' = IF stall[r] = "armed"
                             THEN [stall EXCEPT ![r] = "off"] ELSE stall
               /\ events' = Append(events, r)
     /\ UNCHANGED <<arrived, main, pending, gate, gateThread, boundary,
                    session, nrun, run, superseded, usedKeys, chain, faults,
                    resets, history>>

-----------------------------------------------------------------------------
\* handleRuntimeEvent for the end of a turn, on the event chain.

\* The superseded check is made again when the chain reaches the event.
ChainDeliver ==
  LET r == Head(events)
  IN /\ chain.stage = "idle" /\ events # <<>>
     /\ events' = Tail(events)
     /\ IF Suppressed(run[r].thread)
          THEN UNCHANGED <<chain, answers>>
          ELSE /\ chain' = [stage |-> "deliver", run |-> r]
               /\ answers' = [m \in Messages |->
                                IF m \in run[r].body THEN answers[m] + 1
                                ELSE answers[m]]
     /\ UNCHANGED <<arrived, main, pending, gate, gateThread, boundary,
                    session, running, nrun, run, superseded, usedKeys,
                    firstEvent, stall, turn, faults, resets, told, recovered>>

\* After delivery and writeback: put up the boundary of the linked scope,
\* release the thread's gate.  A failure notice or a refresh may be awaited.
ChainRelease ==
  LET t == run[chain.run].thread
  IN /\ chain.stage = "deliver"
     /\ boundary' = (session = t)
     /\ gateThread' = gateThread \ {t}
     /\ gate' = GateAfterRelease(t)
     /\ chain' = [chain EXCEPT !.stage = "flush"]
     /\ UNCHANGED <<arrived, main, pending, session, running, nrun, run,
                    superseded, usedKeys, firstEvent, stall, events, turn,
                    faults, resets, history>>

\* flushPendingInboundMessages; the chain awaits the dispatch it makes.
ChainFlush ==
  /\ chain.stage = "flush"
  /\ IF pending = {} \/ Blocked(TRUE)
       THEN /\ chain' = [chain EXCEPT !.stage = "close"]
            /\ UNCHANGED <<pending, gate, nrun, run>>
       ELSE /\ pending' = {}
            /\ chain' = [chain EXCEPT !.stage = "await"]
            /\ Dispatch(run, Merge(pending), "chain", None, pending)
  /\ UNCHANGED <<arrived, main, gateThread, boundary, session, running,
                 superseded, usedKeys, firstEvent, stall, events, turn,
                 faults, resets, history>>

\* The rest of the handler, and its finally.
ChainClose ==
  /\ chain.stage = "close"
  /\ boundary' = FALSE
  /\ chain' = [stage |-> "idle", run |-> None]
  /\ UNCHANGED <<arrived, main, pending, gate, gateThread, session, running,
                 nrun, run, superseded, usedKeys, firstEvent, stall, events,
                 turn, faults, resets, history>>

-----------------------------------------------------------------------------
DispatchStep(r) ==
  \/ OpenThread(r) \/ Accept(r) \/ Reject(r) \/ TransportFailNoRetry(r)
  \/ TransportFailThrow(r) \/ TransportFailRecover(r)

TimerStep(r) ==
  \/ FirstEventTimeout(r) \/ FirstEventNotice(r) \/ FirstEventSupersede(r)
  \/ FirstEventRequeue(r) \/ StallTimeout(r) \/ StallRelease(r)

RuntimeStep(r) == TurnStarted(r) \/ TurnOutput(r) \/ TurnEnded(r)

ChainStep == ChainDeliver \/ ChainRelease \/ ChainFlush \/ ChainClose

Next ==
  \/ BufferInbound \/ RouteInbound \/ PollFlush \/ FreshThread
  \/ ChainStep
  \/ \E r \in Runs : DispatchStep(r) \/ TimerStep(r) \/ RuntimeStep(r)

\* The event loop runs what is ready; every RPC is answered or times out.
BridgeFairness ==
  /\ WF_vars(PollFlush)
  /\ WF_vars(ChainStep)
  /\ \A r \in Runs :
       /\ WF_vars(OpenThread(r)) /\ WF_vars(Accept(r))
       /\ WF_vars(FirstEventNotice(r) \/ FirstEventSupersede(r)
                    \/ FirstEventRequeue(r) \/ StallRelease(r))

\* A runtime that starts the turns it was given and ends those it started.
RuntimeFairness ==
  \A r \in Runs : WF_vars(TurnStarted(r)) /\ WF_vars(TurnEnded(r))

Spec == Init /\ [][Next]_vars
\* The bridge beside a runtime that may stop for good.
BridgeSpec == Spec /\ BridgeFairness
FairSpec == BridgeSpec /\ RuntimeFairness

-----------------------------------------------------------------------------
\* Properties.

\* The variables hold values of the program's types.
TypeOK ==
  /\ arrived \in 0..NMsg /\ main \in 0..NRun
  /\ pending \in SUBSET Prepared
  /\ gate \in BOOLEAN /\ gateThread \in SUBSET Threads /\ boundary \in BOOLEAN
  /\ session \in 0..NRun /\ running \in [Threads -> 0..NRun]
  /\ nrun \in 0..NRun
  /\ run \in [Runs -> RunRecords]
  /\ superseded \in SUBSET Threads /\ usedKeys \in SUBSET Messages
  /\ firstEvent \in [Runs -> {"off", "armed", "typing", "cancelling"}]
  /\ stall \in [Runs -> {"off", "armed", "cancelling"}]
  /\ events \in Seq(Runs)
  /\ chain \in [stage : {"idle", "deliver", "flush", "await", "close"},
                run : 0..NRun]
  /\ turn \in [Runs -> {"none", "live", "over"}]
  /\ faults \in Nat /\ resets \in Nat
  /\ answers \in [Messages -> Nat] /\ told \in SUBSET Messages
  /\ recovered \in [Messages -> Nat]

\* A run that has the conversation: it is being dispatched, or its turn, not
\* superseded, has been accepted and is not over.
Owns(r) ==
  \/ InFlight(r)
  \/ /\ run[r].stage = "accepted" /\ turn[r] # "over"
     /\ ~Suppressed(run[r].thread)

\* While a run has the conversation the gate or the state of its thread keeps
\* every other dispatch out: no release meant for another turn opens it early.
\* test/turn-gate-store.test.js: "turn gate tracks pending scopes until the
\* turn is released".
GateTracksTurn ==
  \A r \in Runs : Owns(r) => gate \/ ThreadRunning(run[r].thread)

\* The dispatches, timers and event handlers together keep the promise of
\* ConversationTurns: one batch at a time, taken whole, nothing dropped.
Waiting ==
  (UNION {p.body : p \in pending})
    \cup (UNION {run[r].body : r \in {q \in Runs : firstEvent[q] = "cancelling"}})
Active == UNION {run[r].body : r \in {q \in Runs : Owns(q)}}
Promise == INSTANCE ConversationTurns
             WITH sent <- arrived, waiting <- Waiting, active <- Active
KeepsPromise == Promise!Spec

Held(m) ==
  \/ \E p \in pending : m \in p.body
  \/ \E r \in Runs :
       /\ m \in run[r].body
       /\ run[r].stage \in {"opening", "sending", "recovering", "accepted"}

\* A message that arrived is buffered, or in a dispatch, or its sender has
\* been told that it failed.
NoSilentLoss == \A m \in 1..arrived : Held(m) \/ m \in told

\* No message is answered twice.
AnswerOnce == \A m \in Messages : answers[m] <= 1

\* Whichever of the dispatch and the watchdog finds a turn dead, and however
\* often, the message is armed for redispatch once.
RecoverOnce == \A m \in Messages : recovered[m] <= 1

\* A pending gate has a run that will release it: a dispatch under way, or an
\* accepted turn whose thread is mapped to the scope.
GateOwned ==
  gate => \E r \in Runs :
            \/ InFlight(r)
            \/ run[r].stage = "accepted" /\ run[r].thread \in gateThread

\* The reply of a superseded thread is not delivered, even when its end was
\* queued on the chain before it was superseded.
SupersededSilent ==
  [][\A r \in Runs :
       (chain.stage = "idle" /\ chain'.stage = "deliver" /\ chain'.run = r)
         => run[r].thread \notin superseded]_vars

\* Every message is answered in the end, or its sender is told that it failed.
AnsweredOrTold ==
  \A m \in Messages : arrived >= m ~> answers[m] >= 1 \/ m \in told

-----------------------------------------------------------------------------
\* What the repository says of the program and some behaviour contradicts.

\* README.md: "A pre-start recovery may redispatch the same inbound once": a
\* message is in at most two dispatches when nothing else repeats one.
DispatchedAtMostTwice ==
  \A m \in Messages : Cardinality({r \in Runs : m \in run[r].body}) <= 2
=============================================================================
