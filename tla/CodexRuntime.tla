---------------------------- MODULE CodexRuntime ----------------------------
(***************************************************************************)
(* The Codex runtime seen from the bridge: the adapter and its RPC clients,*)
(* one for each tool profile (codex/index.js, codex/rpc-client.js), the    *)
(* approvals a turn asks for (codex/events.js, thread-state-store.js and   *)
(* the approval handler, the approval commands and the stalled-turn        *)
(* watchdog of app.js), and what the session store keeps of threads and    *)
(* prompts (codex/session-store.js).                                       *)
(*                                                                         *)
(* The foreground client serves the user's thread, the checkin_lite client *)
(* the system threads.  Three callers use the adapter at once: the main    *)
(* loop, the event chain and a watchdog.  How a turn is dispatched and     *)
(* recovered is the subject of TurnDispatch; here it is started or not.    *)
(***************************************************************************)
EXTENDS Naturals, Sequences, FiniteSets, SequencesExt

CONSTANTS
  NThread,  \* bound on threads
  NTurn,    \* bound on turns
  NRequest, \* bound on approval requests
  Kinds,    \* what requests are about: a subset of AllKinds
  TextIds,  \* the runtime's request ids are strings, not numbers
  MaxFaults \* bound on dead processes, timeouts, failed sends and restarts

\* What asks for an approval: a command that is approved at once, a read that
\* is always denied, a command to ask the user about, a tool call, and an
\* elicitation that cannot be answered from the chat.
AllKinds == {"auto", "forbidden", "ask", "tool", "elicit"}

ASSUME CodexAssumption ==
  /\ NThread \in Nat /\ NTurn \in Nat /\ NRequest \in Nat /\ MaxFaults \in Nat
  /\ Kinds \subseteq AllKinds /\ TextIds \in BOOLEAN

None == 0
Threads == 1..NThread
Requests == 1..NRequest

\* A scope, and the client of its tool profile.
User == "user"
System == "system"
Scopes == {User, System}

Main == "main"
Chain == "chain"
Dog == "watchdog"
Callers == {Main, Chain, Dog}

VARIABLES
  client,   \* clientsByProfile, readyStateByProfile
  call,     \* what each caller awaits
  owner,    \* the scope a thread was started for
  link,     \* the thread the session store has for a scope
  turn,     \* the turn of a thread, at the runtime
  open,     \* the requests of a turn that the runtime has no answer to
  kind,     \* what a request is about
  thread,   \* stateByThreadId
  prompt,   \* approvalPromptStateByThreadId
  allow,    \* the command is on the allowlist of the workspace
  events,   \* runtimeEventChain
  dog,      \* runningTurnWatchdogs
  nturn,
  faults

runtime == <<turn, open, kind>>
bridge == <<thread, prompt, allow, events, dog>>
vars == <<client, call, owner, link, runtime, bridge, nturn, faults>>

Idle == [op |-> "none", thread |-> None, req |-> None, always |-> FALSE,
         scope |-> User, at |-> "idle"]

\* live: the process runs; closing: the close of an earlier one is to come;
\* ready: isReady; known: readyStateByProfile; greeted: the process has been
\* initialized.
NoClient == [live |-> FALSE, closing |-> FALSE, ready |-> FALSE,
             known |-> FALSE, greeted |-> FALSE]

\* start initializes the foreground client before anything else.
Clients ==
  [s \in Scopes |->
     IF s = User THEN [NoClient EXCEPT !.live = TRUE, !.ready = TRUE,
                         !.known = TRUE, !.greeted = TRUE]
     ELSE NoClient]

\* createEmptyThreadState.
EmptyThread == [status |-> "idle", pending |-> None, queue |-> <<>>]

Init ==
  /\ client = Clients
  /\ call = [c \in Callers |-> Idle]
  /\ owner = [t \in Threads |-> "none"] /\ link = [s \in Scopes |-> None]
  /\ turn = [t \in Threads |-> "none"] /\ open = [t \in Threads |-> {}]
  /\ kind = [r \in Requests |-> "none"]
  /\ thread = [t \in Threads |-> EmptyThread]
  /\ prompt = [t \in Threads |-> "none"] /\ allow = FALSE
  /\ events = <<>> /\ dog = [t \in Threads |-> "none"]
  /\ nturn = 0 /\ faults = 0

Fault == faults < MaxFaults /\ faults' = faults + 1

-----------------------------------------------------------------------------
\* The thread state store.

\* applyRuntimeEvent for a request: the first one waits for its answer, the
\* others queue behind it.
Asked(st, r) ==
  IF st.pending \in {None, r}
  THEN [st EXCEPT !.status = "waiting_approval", !.pending = r]
  ELSE [st EXCEPT !.status = "waiting_approval",
          !.queue = IF r \in ToSet(st.queue) THEN @ ELSE Append(@, r)]

Begun(st) == [st EXCEPT !.status = "running"]

\* applyRuntimeEvent for the end of a turn.
Ended(st) == EmptyThread

\* Mutant: an answer always shifts the queue.
ResolvedAny(st, r) ==
  [status |-> IF st.queue = <<>> THEN "running" ELSE "waiting_approval",
   pending |-> IF st.queue = <<>> THEN None ELSE Head(st.queue),
   queue |-> IF st.queue = <<>> THEN <<>> ELSE Tail(st.queue)]
\* resolveApproval: an answer to another request than the one that waits takes
\* that one out of the queue, which has it at most once; whatever the status
\* was, it is running next.
Resolved(st, r) ==
  IF st.pending \notin {None, r}
  THEN [st EXCEPT !.status = "waiting_approval", !.queue = RemoveFirst(@, r)]
  ELSE [status |-> IF st.queue = <<>> THEN "running" ELSE "waiting_approval",
        pending |-> IF st.queue = <<>> THEN None ELSE Head(st.queue),
        queue |-> IF st.queue = <<>> THEN <<>> ELSE Tail(st.queue)]

\* Mutant: a turn that waits for an approval does not count as running.
ActiveRunning(st) == st.status = "running"
\* isSameRunningTurn.
Active(st) == st.status \in {"running", "waiting_approval"}

\* isTurnDispatchBlocked, the thread's part of it.
Blocked(s) ==
  /\ link[s] # None
  /\ thread[link[s]].status = "running" \/ thread[link[s]].pending # None

-----------------------------------------------------------------------------
\* The clients.

\* initialize finds its client connected and ready.
IsReady(c) == client[c].known /\ client[c].ready /\ client[c].live

\* A call enters initialize: a process is started when none is alive.  isReady
\* may still be that of an earlier process whose close has not come; then the
\* new one is not initialized.
Enter(c, o) ==
  LET s == o.scope
  IN IF IsReady(s)
     THEN call' = [call EXCEPT ![c] = [o EXCEPT !.at = "act"]] /\ UNCHANGED client
     ELSE /\ call' = [call EXCEPT ![c] = [o EXCEPT !.at =
                         IF client[s].ready THEN "models" ELSE "hello"]]
          /\ client' = [client EXCEPT ![s].live = TRUE]

\* The initialize request is answered; what a process answers to a second one
\* is its own affair.
Greeted(c) ==
  LET s == call[c].scope
  IN /\ call[c].at = "hello" /\ client[s].live
     /\ client' = [client EXCEPT ![s].greeted = TRUE, ![s].ready = TRUE]
     /\ call' = [call EXCEPT ![c].at = "models"]
     /\ UNCHANGED <<owner, link, runtime, bridge, nturn, faults>>

\* model/list is answered or fails: the adapter is ready either way.
Models(c) ==
  /\ call[c].at = "models"
  /\ client' = [client EXCEPT ![call[c].scope].known = TRUE]
  /\ call' = [call EXCEPT ![c].at = "act"]
  /\ UNCHANGED <<owner, link, runtime, bridge, nturn, faults>>

\* The callers that await an answer of a client when its pending requests are
\* rejected: all but the model list take the error to their caller.
Rejected(s) == {c \in Callers :
  call[c].scope = s /\ call[c].at \in {"hello", "interrupt"}}

\* The process of a client dies, and with it the turns it ran: no event tells
\* the bridge.
Exit(s) ==
  /\ client[s].live /\ ~client[s].closing
  /\ Fault
  /\ client' = [client EXCEPT ![s].live = FALSE, ![s].closing = TRUE,
                  ![s].greeted = FALSE]
  /\ turn' = [t \in Threads |->
       IF owner[t] = s /\ turn[t] = "running" THEN "lost" ELSE turn[t]]
  /\ open' = [t \in Threads |-> IF owner[t] = s THEN {} ELSE open[t]]
  /\ UNCHANGED <<call, owner, link, kind, bridge, nturn>>

-----------------------------------------------------------------------------
\* The end of a call.

\* An answer reaches the process of the foreground client, whichever thread
\* asked for it.
Delivered(o) ==
  IF owner[o.thread] = User /\ client[User].live
  THEN [open EXCEPT ![o.thread] = @ \ {o.req}] ELSE open

\* The call fails.  The event chain ignores it and resolves the approval all
\* the same; an approval command leaves everything as it was.
FailCall(c, o) ==
  /\ call' = [call EXCEPT ![c] = Idle]
  /\ CASE o.op = "answer" /\ c = Chain ->
            /\ thread' = [thread EXCEPT ![o.thread] = Resolved(@, o.req)]
            /\ events' = Tail(events)
            /\ UNCHANGED dog
       [] o.op = "cancel" /\ c = Dog ->
            /\ dog' = [dog EXCEPT ![o.thread] = "failed"]
            /\ UNCHANGED <<thread, events>>
       [] OTHER -> UNCHANGED <<thread, events, dog>>
  /\ UNCHANGED <<prompt, allow>>

\* sendRaw finds no process, or a turn is sent to one that is not initialized.
CannotSend(c) ==
  /\ call[c].at = "act"
  /\ \/ ~client[call[c].scope].live
     \/ call[c].op = "send" /\ ~client[call[c].scope].greeted
  /\ FailCall(c, call[c])
  /\ UNCHANGED <<client, owner, link, runtime, nturn, faults>>

\* A request gets no answer for requestTimeoutMs, or the runtime refuses it.
RequestFails(c) ==
  /\ \/ call[c].at \in {"hello", "interrupt"}
     \/ call[c].at = "act" /\ call[c].op = "send"
  /\ Fault
  /\ FailCall(c, call[c])
  /\ UNCHANGED <<client, owner, link, runtime, nturn>>

\* The close of a process: handleTransportClosed, also when a new process has
\* taken its place.
CloseIdle(s) ==
  /\ client[s].closing /\ Rejected(s) = {}
  /\ client' = [client EXCEPT ![s].closing = FALSE, ![s].ready = FALSE]
  /\ UNCHANGED <<call, owner, link, runtime, bridge, nturn, faults>>

\* One of the requests it rejects; the last one leaves CloseIdle enabled.
CloseRejects(c) ==
  /\ c \in Rejected(call[c].scope) /\ client[call[c].scope].closing
  /\ FailCall(c, call[c])
  /\ UNCHANGED <<client, owner, link, runtime, nturn, faults>>

\* respondApproval has sent the answer.
Answered(c) ==
  LET o == call[c]
  IN /\ o.op = "answer" /\ o.at = "act" /\ client[User].live
     /\ open' = Delivered(o)
     /\ thread' = [thread EXCEPT ![o.thread] = Resolved(@, o.req)]
     /\ IF c = Main
        THEN /\ prompt' = [prompt EXCEPT ![o.thread] = "none"]
             /\ allow' = (allow \/ o.always)
             /\ UNCHANGED events
        ELSE events' = Tail(events) /\ UNCHANGED <<prompt, allow>>
     /\ call' = [call EXCEPT ![c] = Idle]
     /\ UNCHANGED <<client, owner, link, turn, kind, dog, nturn, faults>>

\* The end of a turn reaches the thread state and the watchdogs at once, and
\* the event chain.
TurnOver(t) ==
  /\ turn' = [turn EXCEPT ![t] = "none"]
  /\ open' = [open EXCEPT ![t] = {}]
  /\ thread' = [thread EXCEPT ![t] = Ended(@)]
  /\ dog' = [dog EXCEPT ![t] = "none"]
  /\ events' = Append(events, [type |-> "end", thread |-> t, req |-> None])

\* turn/interrupt is sent, and answered: the turn is over, or there was none.
Interrupt(c) ==
  /\ call[c].op = "cancel" /\ call[c].at = "act"
  /\ client[call[c].scope].live
  /\ call' = [call EXCEPT ![c].at = "interrupt"]
  /\ UNCHANGED <<client, owner, link, runtime, bridge, nturn, faults>>

Interrupted(c) ==
  LET t == call[c].thread
  IN /\ call[c].at = "interrupt" /\ client[call[c].scope].live
     /\ call' = [call EXCEPT ![c] = Idle]
     /\ IF turn[t] = "running" THEN TurnOver(t)
        ELSE UNCHANGED <<turn, open, thread, dog, events>>
     /\ UNCHANGED <<client, owner, link, kind, prompt, allow, nturn,
                    faults>>

Fresh(t) == owner[t] = "none" /\ \A u \in Threads : u < t => owner[u] # "none"

\* sendTurn: the thread of the scope is resumed, or a fresh one started when
\* there is none, its model is another, or it cannot be resumed.
Started(c) ==
  LET s == call[c].scope
  IN /\ call[c].op = "send" /\ call[c].at = "act"
     /\ client[s].live /\ client[s].greeted
     /\ \E t \in Threads :
          /\ t = link[s] \/ Fresh(t)
          /\ owner' = [owner EXCEPT ![t] = s]
          /\ link' = [link EXCEPT ![s] = t]
          /\ turn' = [turn EXCEPT ![t] = "running"]
          /\ thread' = [thread EXCEPT ![t] = Begun(@)]
          /\ dog' = [dog EXCEPT ![t] = "armed"]
     /\ call' = [call EXCEPT ![c] = Idle]
     /\ UNCHANGED <<client, open, kind, prompt, allow, events, nturn, faults>>

-----------------------------------------------------------------------------
\* The main loop: turns and commands.

\* A system turn takes a fresh thread: prepareSystemRuntimeBinding.
Dispatch(s) ==
  /\ call[Main] = Idle /\ nturn < NTurn
  /\ s = User => ~Blocked(User)
  /\ nturn' = nturn + 1
  /\ link' = IF s = System THEN [link EXCEPT ![System] = None] ELSE link
  /\ Enter(Main, [Idle EXCEPT !.op = "send", !.scope = s])
  /\ UNCHANGED <<owner, runtime, bridge, faults>>

\* /new, or a system message that clears the thread of the turn under way.
Unlink(s) ==
  /\ call[Main] = Idle /\ link[s] # None
  /\ link' = [link EXCEPT ![s] = None]
  /\ UNCHANGED <<client, call, owner, runtime, bridge, nturn, faults>>

\* buildApprovalResponsePayload has no answer to an elicitation.
Answerable(r) == kind[r] # "elicit"

\* respondApproval uses the foreground client for every request.
AnswerOf(t, r, always) ==
  [Idle EXCEPT !.op = "answer", !.thread = t, !.req = r, !.always = always]

\* handleApprovalCommand: /yes, /always and /no answer the request that waits
\* on the user's own thread.
Command(always) ==
  LET t == link[User]
      r == thread[t].pending
  IN /\ call[Main] = Idle /\ t # None /\ r # None
     /\ Answerable(r) /\ (always => kind[r] # "tool")
     /\ Enter(Main, AnswerOf(t, r, always))
     /\ UNCHANGED <<owner, link, runtime, bridge, nturn, faults>>

CancelOf(t) == [Idle EXCEPT !.op = "cancel", !.thread = t, !.scope = owner[t]]

\* handleStopCommand.
Stop ==
  LET t == link[User]
  IN /\ call[Main] = Idle /\ t # None
     /\ Active(thread[t])
     /\ Enter(Main, CancelOf(t))
     /\ UNCHANGED <<owner, link, runtime, bridge, nturn, faults>>

\* The stalled-turn watchdog fires on what the thread state calls running.
Stalled(t) ==
  /\ call[Dog] = Idle /\ dog[t] = "armed"
  /\ Active(thread[t])
  /\ dog' = [dog EXCEPT ![t] = "fired"]
  /\ Enter(Dog, CancelOf(t))
  /\ UNCHANGED <<owner, link, runtime, thread, prompt, allow,
                 events, nturn, faults>>

-----------------------------------------------------------------------------
\* The runtime.

\* A turn asks for an approval and waits for it.
Ask(t, k) ==
  /\ turn[t] = "running"
  /\ \E r \in Requests :
       /\ \A q \in Requests : kind[q] = "none" <=> q >= r
       /\ kind' = [kind EXCEPT ![r] = k]
       /\ open' = [open EXCEPT ![t] = @ \union {r}]
       /\ thread' = [thread EXCEPT ![t] = Asked(@, r)]
       /\ events' = Append(events, [type |-> "request", thread |-> t, req |-> r])
  /\ UNCHANGED <<client, call, owner, link, turn, prompt, allow, dog,
                 nturn, faults>>

\* A reply delta makes the status running, whatever the turn waits for.
Speak(t) ==
  /\ turn[t] = "running"
  /\ thread' = [thread EXCEPT ![t] = Begun(@)]
  /\ UNCHANGED <<client, call, owner, link, runtime, prompt, allow, events, dog,
                 nturn, faults>>

\* A turn that waits for nothing completes.
Complete(t) ==
  /\ turn[t] = "running" /\ open[t] = {}
  /\ TurnOver(t)
  /\ UNCHANGED <<client, call, owner, link, kind, prompt, allow, nturn,
                 faults>>

-----------------------------------------------------------------------------
\* handleRuntimeEvent, on the event chain.

\* findBindingForThreadId.
Linked(t) == \E s \in Scopes : link[s] = t

Handling(type) ==
  /\ call[Chain] = Idle /\ events # <<>> /\ Head(events).type = type

HandleEnd ==
  /\ Handling("end")
  /\ prompt' = [prompt EXCEPT ![Head(events).thread] = "none"]
  /\ events' = Tail(events)
  /\ UNCHANGED <<client, call, owner, link, runtime, thread, allow, dog,
                 nturn, faults>>

\* The thread of the request belongs to no binding any more.
IgnoreRequest ==
  /\ Handling("request") /\ ~Linked(Head(events).thread)
  /\ events' = Tail(events)
  /\ UNCHANGED <<client, call, owner, link, runtime, thread, prompt, allow,
                 dog, nturn, faults>>

Denied(r) == kind[r] = "forbidden"
AutoApproved(r) == kind[r] = "auto" \/ (kind[r] = "ask" /\ allow)

\* A request the bridge answers itself.
AnswerAtOnce ==
  LET e == Head(events)
  IN /\ Handling("request") /\ Linked(e.thread)
     /\ Denied(e.req) \/ AutoApproved(e.req)
     /\ Enter(Chain, AnswerOf(e.thread, e.req, FALSE))
     /\ prompt' = IF Denied(e.req) THEN [prompt EXCEPT ![e.thread] = "none"]
                  ELSE prompt
     /\ UNCHANGED <<owner, link, runtime, thread, allow, events, dog, nturn,
                    faults>>

\* The prompt state of a thread is kept only for an id that is a string, and a
\* request like the one prompted for is not prompted for again.
Prompt ==
  LET e == Head(events)
      k == kind[e.req]
  IN /\ Handling("request") /\ Linked(e.thread)
     /\ ~Denied(e.req) /\ ~AutoApproved(e.req)
     /\ IF prompt[e.thread] = k
        THEN events' = Tail(events) /\ UNCHANGED <<call, prompt>>
        ELSE /\ prompt' = IF TextIds THEN [prompt EXCEPT ![e.thread] = k] ELSE prompt
             /\ call' = [call EXCEPT ![Chain] =
                  [Idle EXCEPT !.op = "prompt", !.thread = e.thread,
                     !.req = e.req, !.at = "prompt"]]
             /\ UNCHANGED events
     /\ UNCHANGED <<client, owner, link, runtime, thread, allow, dog, nturn,
                    faults>>

\* It is sent, or there is no target to send it to.
Prompted ==
  /\ call[Chain].at = "prompt"
  /\ call' = [call EXCEPT ![Chain] = Idle]
  /\ events' = Tail(events)
  /\ UNCHANGED <<client, owner, link, runtime, thread, prompt, allow, dog,
                 nturn, faults>>

\* It cannot be sent: the request is denied, if there is a way to.
PromptFails ==
  LET o == call[Chain]
  IN /\ o.at = "prompt"
     /\ Fault
     /\ prompt' = [prompt EXCEPT ![o.thread] = "none"]
     /\ IF Answerable(o.req)
        THEN Enter(Chain, AnswerOf(o.thread, o.req, FALSE)) /\ UNCHANGED events
        ELSE /\ call' = [call EXCEPT ![Chain] = Idle]
             /\ events' = Tail(events)
             /\ UNCHANGED client
     /\ UNCHANGED <<owner, link, runtime, thread, allow, dog, nturn>>

\* The bridge is killed and started again, and its child processes with it.
Restart ==
  /\ Fault
  /\ client' = Clients
  /\ call' = [c \in Callers |-> Idle]
  /\ turn' = [t \in Threads |-> "none"] /\ open' = [t \in Threads |-> {}]
  /\ thread' = [t \in Threads |-> EmptyThread]
  /\ events' = <<>> /\ dog' = [t \in Threads |-> "none"]
  /\ UNCHANGED <<owner, link, kind, prompt, allow, nturn>>

-----------------------------------------------------------------------------
CallStep(c) ==
  \/ Greeted(c) \/ Models(c) \/ CloseRejects(c) \/ CannotSend(c)
  \/ Answered(c) \/ Interrupt(c) \/ Interrupted(c) \/ Started(c)

ChainStep == HandleEnd \/ IgnoreRequest \/ AnswerAtOnce \/ Prompt \/ Prompted

Next ==
  \/ \E c \in Callers : CallStep(c) \/ RequestFails(c)
  \/ \E s \in Scopes : Dispatch(s) \/ Unlink(s) \/ Exit(s) \/ CloseIdle(s)
  \/ \E always \in BOOLEAN : Command(always)
  \/ Stop \/ ChainStep \/ PromptFails \/ Restart
  \/ \E t \in Threads, k \in Kinds : Ask(t, k)
  \/ \E t \in Threads : Speak(t) \/ Complete(t) \/ Stalled(t)

\* The event loop runs what is ready, a request is answered or times out, the
\* close of a process comes and the watchdogs fire.
Fairness ==
  /\ WF_vars(ChainStep)
  /\ \A c \in Callers : WF_vars(CallStep(c))
  /\ \A s \in Scopes : WF_vars(CloseIdle(s))
  /\ \A t \in Threads : WF_vars(Stalled(t))

Spec == Init /\ [][Next]_vars
FairSpec == Spec /\ Fairness

-----------------------------------------------------------------------------
\* Properties.

\* The requests a thread's state offers for an answer.
Waiting(t) == (ToSet(thread[t].queue) \union {thread[t].pending}) \ {None}

\* What /yes and /no would answer is a request that its turn still waits for:
\* of two answers to different requests, an end and a new turn in any order,
\* none leaves an answered or dead request at the head of the queue (a turn
\* whose process died is the exception: no event tells the bridge).
PendingLive ==
  \A t \in Threads : turn[t] # "lost" => Waiting(t) \subseteq open[t]

\* No turn waits for an approval for ever: it gets an answer or ends, at the
\* latest when the watchdog cancels it, also when its prompt was suppressed,
\* its thread unlinked, or its answer sent to the wrong process; a cancel that
\* failed is the exception.
RequestSettles ==
  \A r \in Requests :
    (\E t \in Threads : r \in open[t])
      ~> (\A t \in Threads : r \in open[t] => dog[t] = "failed")
=============================================================================
