---------------------------- MODULE SystemTurns ----------------------------
(***************************************************************************)
(* System messages: reminders and random check-ins, from the file a tool   *)
(* or the poller writes to the end of the system turn they start           *)
(* (reminder-queue-store.js, system-message-queue-store.js,                *)
(* system-message-dispatcher.js, system-checkin-poller.js and the flushes, *)
(* dispatch, watchdogs and background circuit of app.js, Codex runtime).   *)
(*                                                                         *)
(* Two flushes drain the same queue file: the one of the main loop and the *)
(* one at the end of the handling of a runtime event.  Every system turn   *)
(* runs on a fresh thread of one scope, so an item names its thread, and   *)
(* the scope has one turn gate and one thread in the session store.        *)
(* Foreground turns are the user's; of them only what blocks a system turn *)
(* is kept.                                                                *)
(***************************************************************************)
EXTENDS Naturals, Sequences, FiniteSets, FiniteSetsExt, SequencesExt

CONSTANTS
  NReminder,  \* bound on reminders
  NCheckin,   \* bound on check-ins
  Threshold,  \* backgroundRuntimeCircuitFailureThreshold
  MaxUser,    \* bound on foreground turns
  MaxFaults   \* bound on crashes, refused dispatches and failed writes

ASSUME SystemAssumption ==
  /\ NReminder \in Nat /\ NCheckin \in Nat /\ Threshold \in Nat \ {0}
  /\ MaxUser \in Nat /\ MaxFaults \in Nat

None == 0
Reminders == 1..NReminder
Checkins == NReminder + 1 .. NReminder + NCheckin
Items == Reminders \union Checkins

Main == "main"    \* flushOutboundQueues, of the main loop
Chain == "chain"  \* the flush at the end of a turn's handling
Flushes == {Main, Chain}

\* The run of an item: accepted and without an event, with a first event, ended
\* and not handled yet; a reminder's turn given up because no event came; and
\* over: handled, recovered, dropped, cancelled, or lost in a crash.
Live == {"waiting", "running", "ending"}
Runs == {"none", "silent", "over"} \union Live

VARIABLES
  stored,   \* state.reminders: the reminders in their file
  due,      \* those whose dueAtMs has passed
  created,  \* the items in the order of their message's createdAt
  queue,    \* state.messages: the items in the system message file
  hold,     \* what a flush has drained and not dispatched yet
  step,     \* the item a flush dispatches, and the await it has reached
  gate,     \* pendingScopeKeys has the system scope
  attached, \* scopeByThreadId: items whose thread releases that scope
  link,     \* the item whose thread the session store has for the scope
  run,
  user,     \* the foreground turn of the same user
  nuser,
  boundary, \* turnBoundaryScopeKeys
  events,   \* runtimeEventChain: ends of turns that are not handled yet
  chain,    \* the end that is being handled
  circuit,  \* backgroundRuntimeCircuit
  faults

file == <<stored, due, created, queue>>
flush == <<hold, step>>
turns == <<gate, attached, link, run>>
fore == <<user, nuser>>
vars == <<file, flush, turns, fore, boundary, events, chain, circuit, faults>>

User == NReminder + NCheckin + 1  \* the foreground turn, in the events

Idle == [item |-> None, at |-> "idle"]
NoEvent == [item |-> None, ok |-> FALSE, scope |-> "none", at |-> "idle"]

\* count: consecutiveFirstEventFailures; recent: lastFailureAtMs is within the
\* cooldown; open: openUntilMs is ahead.
Closed == [count |-> 0, recent |-> FALSE, open |-> FALSE]

Init ==
  /\ stored = {} /\ due = {} /\ created = <<>> /\ queue = {}
  /\ hold = [k \in Flushes |-> {}] /\ step = [k \in Flushes |-> Idle]
  /\ gate = FALSE /\ attached = {} /\ link = None
  /\ run = [i \in Items |-> "none"]
  /\ user = "idle" /\ nuser = 0
  /\ boundary = {} /\ events = <<>> /\ chain = NoEvent
  /\ circuit = Closed /\ faults = 0

Fault == faults < MaxFaults /\ faults' = faults + 1

Held(i) == \E k \in Flushes : i \in hold[k] \/ step[k].item = i
Unused(i) == i \notin stored \union ToSet(created) /\ run[i] = "none"

-----------------------------------------------------------------------------
\* Reminders and check-ins come to be.

\* ReminderService.create.  The first unused one: the ids are random.
CreateReminder ==
  \E i \in Reminders :
    /\ Unused(i) /\ \A j \in Reminders : j < i => ~Unused(j)
    /\ stored' = stored \union {i}
    /\ UNCHANGED <<due, created, queue, flush, turns, fore, boundary, events,
                   chain, circuit, faults>>

\* ReminderService.cancel finds only what is still in the reminder file.
CancelReminder(i) ==
  /\ i \in stored
  /\ stored' = stored \ {i} /\ due' = due \ {i}
  /\ run' = [run EXCEPT ![i] = "over"]
  /\ UNCHANGED <<created, queue, flush, gate, attached, link, fore, boundary,
                 events, chain, circuit, faults>>

ComesDue(i) ==
  /\ i \in stored \ due
  /\ due' = due \union {i}
  /\ UNCHANGED <<stored, created, queue, flush, turns, fore, boundary, events,
                 chain, circuit, faults>>

\* A wake of the poller that finds the system queue empty; its other conditions
\* (quiet hours, budget, activity, token age) may each skip a wake and are the
\* subject of CheckinPolicy.
QueueCheckin ==
  \E i \in Checkins :
    /\ Unused(i) /\ \A j \in Checkins : j < i => ~Unused(j)
    /\ queue = {}
    /\ queue' = {i} /\ created' = Append(created, i)
    /\ UNCHANGED <<stored, due, flush, turns, fore, boundary, events, chain,
                   circuit, faults>>

\* load drops a check-in that is older than its time to live.
Expire(i) ==
  /\ i \in queue \intersect Checkins
  /\ queue' = queue \ {i}
  /\ run' = [run EXCEPT ![i] = "over"]
  /\ UNCHANGED <<stored, due, created, flush, gate, attached, link, fore,
                 boundary, events, chain, circuit, faults>>

-----------------------------------------------------------------------------
\* The flushes.

\* Mutant: a reminder that could not be queued is not put back.
KeptNone(failed) == stored \ due
\* flushDueReminders takes all that are due out of the file; one whose message
\* cannot be written goes back, due in five seconds.
Kept(failed) == (stored \ due) \union failed

\* Mutant: the messages stay in the file.
DrainedNot == queue
\* What drainForAccount leaves in the file: nothing of this account.
Drained == {}

\* flushOutboundQueues: the reminders that are due become messages and the
\* queue is drained before anything is awaited.  They come in the order of their
\* dueAtMs, which may be any.
FlushMain ==
  /\ step[Main] = Idle /\ hold[Main] = {}
  /\ due \union queue # {}
  /\ \E failed \in SUBSET due :
       LET moved == due \ failed
       IN /\ IF failed = {} THEN UNCHANGED faults ELSE Fault
          /\ stored' = Kept(failed)
          /\ due' = {}
          /\ \E s \in SetToSeqs(moved) : created' = created \o s
          /\ hold' = [hold EXCEPT ![Main] = queue \union moved]
          /\ queue' = Drained
  /\ UNCHANGED <<step, turns, fore, boundary, events, chain, circuit>>

\* flushPendingSystemMessages at the end of a turn's handling.
FlushChain ==
  /\ chain.at = "flush"
  /\ chain' = [chain EXCEPT !.at = "flushing"]
  /\ hold' = [hold EXCEPT ![Chain] = queue]
  /\ queue' = Drained
  /\ UNCHANGED <<stored, due, created, step, turns, fore, boundary, events,
                 circuit, faults>>

\* compareSystemMessages.
NextOf(k) ==
  CHOOSE i \in hold[k] : \A j \in hold[k] \ {i} :
    \E m, n \in DOMAIN created : m < n /\ created[m] = i /\ created[n] = j

\* isTurnDispatchBlocked for the user's scope.
UserBlocked == "user" \in boundary \/ user # "idle"

\* isTurnDispatchBlocked for the system scope: its thread was just cleared, so
\* only the boundary and the gate count, and the Codex runtime does not say
\* whether a turn is really active.
SystemBlocked == "system" \in boundary \/ gate

Requeued(i) == queue \union {i}

Ready(k, i) == step[k] = Idle /\ hold[k] # {} /\ i = NextOf(k)

\* dispatchSystemMessage may drop a check-in: the circuit is open, the runtime
\* cools down, the daily budget is spent, or the foreground is busy.
DropCheckin(k, i) ==
  /\ Ready(k, i) /\ i \in Checkins
  /\ hold' = [hold EXCEPT ![k] = @ \ {i}]
  /\ run' = [run EXCEPT ![i] = "over"]
  /\ UNCHANGED <<file, step, gate, attached, link, fore, boundary, events,
                 chain, circuit, faults>>

\* A reminder waits for the foreground turn to end.
WaitForUser(k, i) ==
  /\ Ready(k, i) /\ i \in Reminders
  /\ UserBlocked
  /\ hold' = [hold EXCEPT ![k] = @ \ {i}]
  /\ queue' = Requeued(i)
  /\ UNCHANGED <<stored, due, created, step, turns, fore, boundary, events,
                 chain, circuit, faults>>

Passes(i) == ~UserBlocked /\ (i \in Checkins => ~circuit.open)

\* prepareSystemRuntimeBinding clears the scope's thread before the gate of the
\* scope is looked at: a message that has to wait still unlinks the turn that
\* runs.
WaitForSystem(k, i) ==
  /\ Ready(k, i) /\ Passes(i)
  /\ SystemBlocked
  /\ link' = None
  /\ hold' = [hold EXCEPT ![k] = @ \ {i}]
  /\ queue' = Requeued(i)
  /\ UNCHANGED <<stored, due, created, step, gate, attached, run, fore,
                 boundary, events, chain, circuit, faults>>

\* It goes on to await the memory context.
BeginDispatch(k, i) ==
  /\ Ready(k, i) /\ Passes(i)
  /\ ~SystemBlocked
  /\ link' = None
  /\ hold' = [hold EXCEPT ![k] = @ \ {i}]
  /\ step' = [step EXCEPT ![k] = [item |-> i, at |-> "memory"]]
  /\ UNCHANGED <<file, gate, attached, run, fore, boundary, events, chain,
                 circuit, faults>>

\* dispatchPreparedTurn takes the gate without looking at it again.
TakeGate(k) ==
  /\ step[k].at = "memory"
  /\ gate' = TRUE
  /\ step' = [step EXCEPT ![k].at = "opening"]
  /\ UNCHANGED <<file, hold, attached, link, run, fore, boundary, events,
                 chain, circuit, faults>>

\* sendTextTurn starts the fresh thread and the session store gets it.
OpenThread(k) ==
  /\ step[k].at = "opening"
  /\ link' = step[k].item
  /\ step' = [step EXCEPT ![k].at = "sending"]
  /\ UNCHANGED <<file, hold, gate, attached, run, fore, boundary, events,
                 chain, circuit, faults>>

\* The runtime accepts the turn: its thread is attached to the gate and its
\* watchdogs start.  Another dispatch may have freed the gate meanwhile.
Accept(k) ==
  /\ step[k].at = "sending"
  /\ run' = [run EXCEPT ![step[k].item] = "waiting"]
  /\ attached' = attached \union {step[k].item}
  /\ step' = [step EXCEPT ![k] = Idle]
  /\ UNCHANGED <<file, hold, gate, link, fore, boundary, events, chain, circuit,
                 faults>>

\* Mutant: the gate is kept when the runtime refuses the turn.
GateAfterRefusalKept == gate
\* releaseScope.
GateAfterRefusal == FALSE

\* The dispatch fails before the runtime took the turn; the message is queued
\* again.
Refuse(k) ==
  /\ step[k].at \in {"opening", "sending"}
  /\ Fault
  /\ gate' = GateAfterRefusal
  /\ queue' = Requeued(step[k].item)
  /\ step' = [step EXCEPT ![k] = Idle]
  /\ UNCHANGED <<stored, due, created, hold, attached, link, run, fore, boundary,
                 events, chain, circuit>>

-----------------------------------------------------------------------------
\* The runtime, the watchdogs and the user's own turns.

\* The first event of a system turn clears its watchdog.
FirstEvent(i) ==
  /\ run[i] = "waiting"
  /\ run' = [run EXCEPT ![i] = "running"]
  /\ UNCHANGED <<file, flush, gate, attached, link, fore, boundary, events,
                 chain, circuit, faults>>

\* The end reaches the thread state at once and is handled in turn.
TurnEnds(i, ok) ==
  /\ run[i] = "running"
  /\ run' = [run EXCEPT ![i] = "ending"]
  /\ events' = Append(events, [NoEvent EXCEPT !.item = i, !.ok = ok])
  /\ UNCHANGED <<file, flush, gate, attached, link, fore, boundary, chain,
                 circuit, faults>>

Min2(m, n) == IF m < n THEN m ELSE n

\* recordBackgroundRuntimeFirstEventFailure; the count matters up to the
\* threshold.
Failed(c) ==
  LET n == (IF c.recent THEN c.count ELSE 0) + 1
  IN [count |-> Min2(n, Threshold), recent |-> TRUE,
      open |-> c.open \/ n >= Threshold]

\* releaseThread.
Released(i) == IF i \in attached THEN FALSE ELSE gate

\* A background turn without a first event is recovered silently: the scope's
\* thread is cleared, whichever it is, the turn cancelled, the gate released.
SilentRecovery(i) ==
  /\ run[i] = "waiting" /\ i \in Checkins
  /\ run' = [run EXCEPT ![i] = "over"]
  /\ circuit' = Failed(circuit)
  /\ link' = None
  /\ gate' = Released(i) /\ attached' = attached \ {i}
  /\ UNCHANGED <<file, flush, fore, boundary, events, chain, faults>>

\* A turn the user can see gets a notice and nothing else: it is not replayed,
\* because it is a system turn, and its gate stays.
VisibleTimeout(i) ==
  /\ run[i] = "waiting" /\ i \in Reminders
  /\ run' = [run EXCEPT ![i] = "silent"]
  /\ UNCHANGED <<file, flush, gate, attached, link, fore, boundary, events,
                 chain, circuit, faults>>

\* A running turn that stays silent is cancelled and its gate released; its
\* thread goes on running until the runtime says otherwise.
Stall(i) ==
  /\ run[i] = "running" /\ i \in attached
  /\ gate' = Released(i) /\ attached' = attached \ {i}
  /\ UNCHANGED <<file, flush, link, run, fore, boundary, events, chain, circuit,
                 faults>>

\* openUntilMs passes, or the last failure gets older than the cooldown.
CircuitAges ==
  /\ \/ circuit.open /\ circuit' = [circuit EXCEPT !.open = FALSE]
     \/ circuit.recent /\ ~circuit.open
        /\ circuit' = [circuit EXCEPT !.recent = FALSE]
  /\ UNCHANGED <<file, flush, turns, fore, boundary, events, chain, faults>>

\* While the boundary of the user's scope is up, only its own flush starts a
\* turn there.
UserBegins ==
  /\ user = "idle" /\ nuser < MaxUser
  /\ "user" \in boundary => chain.at = "flush"
  /\ user' = "busy" /\ nuser' = nuser + 1
  /\ UNCHANGED <<file, flush, turns, boundary, events, chain, circuit, faults>>

UserEnds(ok) ==
  /\ user = "busy"
  /\ user' = "ending"
  /\ events' = Append(events, [NoEvent EXCEPT !.item = User, !.ok = ok])
  /\ UNCHANGED <<file, flush, turns, nuser, boundary, chain, circuit, faults>>

-----------------------------------------------------------------------------
\* handleRuntimeEvent for the end of a turn.

\* The binding is looked up before the writeback is awaited.
HandleEnd ==
  /\ chain.at = "idle" /\ events # <<>>
  /\ LET e == Head(events)
     IN chain' = [e EXCEPT
          !.scope = IF e.item = User THEN "user"
                    ELSE IF link = e.item THEN "system" ELSE "none",
          !.at = "settling"]
  /\ events' = Tail(events)
  /\ UNCHANGED <<file, flush, turns, fore, boundary, circuit, faults>>

\* The boundary goes up, the gate is released and the foreground goes first.
ReleaseEnded ==
  /\ chain.at = "settling"
  /\ chain' = [chain EXCEPT !.at = "flush"]
  /\ boundary' = boundary \union ({chain.scope} \ {"none"})
  /\ IF chain.item = User
     THEN user' = "idle" /\ UNCHANGED <<gate, attached, run>>
     ELSE /\ gate' = Released(chain.item)
          /\ attached' = attached \ {chain.item}
          /\ run' = [run EXCEPT ![chain.item] = "over"]
          /\ UNCHANGED user
  /\ UNCHANGED <<file, flush, link, nuser, events, circuit, faults>>

\* recordBackgroundRuntimeSuccess comes last, after the flush.
CloseHandling ==
  /\ chain.at = "flushing" /\ hold[Chain] = {} /\ step[Chain] = Idle
  /\ circuit' = IF chain.ok THEN [circuit EXCEPT !.count = 0, !.open = FALSE]
                ELSE circuit
  /\ boundary' = boundary \ {chain.scope}
  /\ chain' = NoEvent
  /\ UNCHANGED <<file, flush, turns, fore, events, faults>>

\* The bridge is killed and started again: the files remain, what a flush had
\* drained is gone and the turns that ran are not taken up.
Crash ==
  /\ Fault
  /\ run' = [i \in Items |->
       IF Held(i) \/ run[i] \in Live THEN "over" ELSE run[i]]
  /\ hold' = [k \in Flushes |-> {}] /\ step' = [k \in Flushes |-> Idle]
  /\ gate' = FALSE /\ attached' = {} /\ boundary' = {} /\ user' = "idle"
  /\ events' = <<>> /\ chain' = NoEvent
  /\ UNCHANGED <<file, link, nuser, circuit>>

-----------------------------------------------------------------------------
FlushStep(k) ==
  \/ \E i \in Items : \/ DropCheckin(k, i) \/ WaitForUser(k, i)
                      \/ WaitForSystem(k, i) \/ BeginDispatch(k, i)
  \/ TakeGate(k) \/ OpenThread(k) \/ Accept(k)

ChainStep == HandleEnd \/ ReleaseEnded \/ FlushChain \/ CloseHandling

Next ==
  \/ CreateReminder \/ QueueCheckin \/ FlushMain \/ ChainStep
  \/ UserBegins \/ CircuitAges \/ Crash
  \/ \E i \in Items : CancelReminder(i) \/ ComesDue(i) \/ Expire(i)
  \/ \E k \in Flushes : FlushStep(k) \/ Refuse(k)
  \/ \E i \in Items : \/ FirstEvent(i) \/ SilentRecovery(i)
                      \/ VisibleTimeout(i) \/ Stall(i)
  \/ \E i \in Items, ok \in BOOLEAN : TurnEnds(i, ok)
  \/ \E ok \in BOOLEAN : UserEnds(ok)

\* Time passes, the main loop polls again and again, the event chain runs what is ready, a
\* request to the runtime is answered, the watchdogs fire, and the user's own
\* turns end (their watchdogs see to it).
BridgeFairness ==
  /\ WF_vars(FlushMain) /\ WF_vars(ChainStep)
  /\ \A k \in Flushes : WF_vars(FlushStep(k))
  /\ \A i \in Items : WF_vars(SilentRecovery(i)) /\ WF_vars(VisibleTimeout(i))
                      /\ WF_vars(Stall(i)) /\ WF_vars(ComesDue(i))
  /\ WF_vars(\E ok \in BOOLEAN : UserEnds(ok))

Spec == Init /\ [][Next]_vars
FairSpec == Spec /\ BridgeFairness

-----------------------------------------------------------------------------
\* Properties.

\* The places an item can be found in.
Places(i) ==
  {p \in {"stored", "queue", "run", "main", "chain", "main step", "chain step"} :
     \/ p = "stored" /\ i \in stored
     \/ p = "queue" /\ i \in queue
     \/ p = "run" /\ run[i] # "none"
     \/ p = "main" /\ i \in hold[Main]
     \/ p = "chain" /\ i \in hold[Chain]
     \/ p = "main step" /\ step[Main].item = i
     \/ p = "chain step" /\ step[Chain].item = i}

\* Across the two files, the two flushes that drain them and the turn, a
\* message is in exactly one place: none is dispatched twice and none is lost
\* but in a crash, which ends its run.
MessageOnce == \A i \in ToSet(created) : Cardinality(Places(i)) = 1

\* The gate of the system scope is held for a dispatch under way or for a turn
\* whose end will release it (or for a reminder turn that never began, see
\* VisibleTimeout), and a boundary for the end that is being handled: neither
\* outlives its reason, whatever two flushes and the watchdogs do.
ScopeAccounted ==
  /\ gate =>
       \/ \E k \in Flushes : step[k].at \in {"opening", "sending"}
       \/ \E i \in attached : run[i] \in Live \union {"silent"}
  /\ boundary # {} => chain.at \in {"flush", "flushing"}

\* The scope is held by a reminder turn that got no first event.
ScopeStuck == \E i \in attached : run[i] = "silent"

\* A reminder that was set reaches the runtime, is cancelled, or is lost in a
\* crash, however the flushes, the foreground turns and the other system turns
\* interleave, unless a reminder turn that never began holds the scope.
ReminderServed ==
  \A i \in Reminders : i \in stored ~> (run[i] # "none" \/ ScopeStuck)
=============================================================================
