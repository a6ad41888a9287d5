---------------------------- MODULE ClaudeRuntime ----------------------------
(***************************************************************************)
(* The Claude Code runtime seen from the bridge: the adapter, which keeps  *)
(* one process for each scope (claudecode/index.js), the clients that own  *)
(* a process and translate what it prints (claudecode/process-client.js,   *)
(* claudecode/events.js), and what app.js does for this runtime alone: the *)
(* release of a stale gate and of a stale running thread, the thread that  *)
(* a failed turn forgets and the system process that is closed when idle.  *)
(*                                                                         *)
(* A process is named by the session it opens; one that resumes a thread   *)
(* prints that thread's session again.  Closing a process ends its input   *)
(* and waits until it is gone: until then it still prints, and its client  *)
(* still counts as alive.  The main loop and the event chain use the       *)
(* adapter at once.                                                        *)
(***************************************************************************)
EXTENDS Naturals, Sequences, FiniteSets, SequencesExt

CONSTANTS
  NProc,    \* bound on processes
  NInput,   \* bound on messages and commands of the user, and system messages
  MaxFaults \* bound on dead processes, fatal errors and timeouts

ASSUME ClaudeAssumption == NProc \in Nat /\ NInput \in Nat /\ MaxFaults \in Nat

None == 0
Procs == 1..NProc
Threads == Procs        \* the session a fresh process opens
Pending == NProc + 1    \* the thread of a turn whose session is not known yet

User == "user"
System == "system"
Scopes == {User, System}

Main == "main"
Chain == "chain"
Callers == {Main, Chain}

VARIABLES
  proc,      \* a client and its process
  cur,       \* clientsByKey
  approvals, \* pendingApprovals: requests, named by the process that asks
  stored,    \* the thread the session store has for a scope
  thread,    \* stateByThreadId
  gate,      \* pendingScopeKeys
  scopeOf,   \* scopeByThreadId
  buffer,    \* scopes with a message that waits for the end of a turn
  boundary,  \* turnBoundaryScopeKeys
  call,      \* what a caller awaits
  events,    \* runtimeEventChain
  ninput,
  faults,
  orphaned,  \* a closed process went while a thread waited for its approval
  forgotten, \* a request was forgotten when another process went
  misled     \* an answer reached a process while the one that asked waits

adapter == <<proc, cur, approvals>>
bridge == <<thread, gate, scopeOf, events>>
ghosts == <<orphaned, forgotten, misled>>
vars == <<adapter, stored, bridge, buffer, boundary, call, ninput, faults, ghosts>>

\* turn: pendingTurnId is set; active: activeThreadId; todo: messages that the
\* process has and has not answered; asked: its request.
NoProc == [scope |-> User, at |-> "none", turn |-> FALSE, session |-> None,
           active |-> None, greeted |-> FALSE, todo |-> 0, asked |-> "no"]
Idle == [at |-> "idle", scope |-> User, proc |-> None, again |-> FALSE]
EmptyThread == [status |-> "idle", pending |-> None, queue |-> <<>>]

Init ==
  /\ proc = [p \in Procs |-> NoProc]
  /\ cur = [k \in Scopes |-> None] /\ approvals = {}
  /\ stored = [k \in Scopes |-> None]
  /\ thread = [t \in Threads |-> EmptyThread]
  /\ gate = {} /\ scopeOf = [t \in Threads |-> "none"]
  /\ buffer = {} /\ boundary = {}
  /\ call = [x \in Callers |-> Idle]
  /\ events = <<>>
  /\ ninput = 0 /\ faults = 0
  /\ orphaned = FALSE /\ forgotten = FALSE /\ misled = FALSE

Fault == faults < MaxFaults /\ faults' = faults + 1
Input == ninput < NInput /\ ninput' = ninput + 1

-----------------------------------------------------------------------------
\* Clients.

\* A client is alive until its process is gone, while it is closed too.
Alive(p) == p # None /\ proc[p].at \in {"up", "closing"}

\* clientMatchesThread.
Matches(p, t) == Alive(p) /\ t # None /\ t \in {proc[p].session, proc[p].active}

\* The thread that an event of a client names.
EventThread(c) == IF c.active # None THEN c.active ELSE c.session

\* hasActiveTurn, for a scope and its thread.
HasActiveTurn(k) ==
  \E p \in Procs :
    /\ Alive(p) /\ proc[p].turn
    /\ p = cur[k] \/ (p \in {cur[j] : j \in Scopes} /\ Matches(p, stored[k]))

\* close: the input is ended, and what follows waits until the process is gone.
Closed(pr, p) ==
  IF p # None /\ pr[p].at = "up" THEN [pr EXCEPT ![p].at = "closing"] ELSE pr

\* Mutant: a process that goes takes every request with it.
ClearedAll(k) == {}
\* clearApprovalsForClientKey.
Cleared(k) == {p \in approvals : proc[p].scope # k}

-----------------------------------------------------------------------------
\* The thread state store, and what app.js decides from it.

\* applyRuntimeEvent; the pending thread is nobody's.
Started(th, t) == IF t \in Threads THEN [th EXCEPT ![t].status = "running"] ELSE th
Ended(th, t) == IF t \in Threads THEN [th EXCEPT ![t] = EmptyThread] ELSE th
Asked(th, t, p) ==
  IF t \notin Threads THEN th
  ELSE IF th[t].pending \in {None, p}
       THEN [th EXCEPT ![t].status = "waiting", ![t].pending = p]
       ELSE [th EXCEPT ![t].status = "waiting", ![t].queue = Append(@, p)]

\* resolveApproval; a queue has a request at most once.
Resolved(th, t, p) ==
  IF t \notin Threads THEN th
  ELSE IF th[t].pending \notin {None, p}
       THEN [th EXCEPT ![t].queue = RemoveFirst(@, p)]
       ELSE IF th[t].queue = <<>>
            THEN [th EXCEPT ![t] = [EmptyThread EXCEPT !.status = "running"]]
            ELSE [th EXCEPT ![t].pending = Head(th[t].queue), ![t].queue = Tail(@)]

\* isTurnDispatchBlocked: it releases a gate, and gives up a running thread,
\* that no turn of a process stands for.
Held(k, past) == (k \in boundary /\ ~past) \/ (k \in gate /\ HasActiveTurn(k))
\* Mutant: a running thread is believed.
IsStaleNever(k) == FALSE
IsStale(k) ==
  stored[k] # None /\ thread[stored[k]].status = "running" /\ ~HasActiveTurn(k)
Blocked(k, past) ==
  \/ Held(k, past)
  \/ /\ stored[k] # None /\ ~IsStale(k)
     /\ thread[stored[k]].status = "running" \/ thread[stored[k]].pending # None
Look(k, past) ==
  IF Held(k, past) THEN UNCHANGED <<thread, gate, scopeOf>>
  ELSE /\ gate' = gate \ {k}
       /\ IF IsStale(k)
          THEN /\ thread' = Ended(thread, stored[k])
               /\ scopeOf' = [scopeOf EXCEPT ![stored[k]] = "none"]
          ELSE UNCHANGED <<thread, scopeOf>>

-----------------------------------------------------------------------------
\* A dispatch: dispatchPreparedTurn and sendTextTurn.

\* The gate is taken, and typing is shown; a message of a flush comes back to
\* the buffer when the dispatch fails.
Begin(x, k, again) ==
  /\ call' = [call EXCEPT ![x] = [Idle EXCEPT !.at = "typing", !.scope = k,
                                    !.again = again]]
  /\ gate' = gate \union {k}

\* attachClientToThread uses the client of the scope, closes it first when it
\* has another thread, or starts a process that opens or resumes one.
Reusable(k) == Matches(cur[k], stored[k])
Fresh == {p \in Procs : proc[p].at = "none" /\ \A q \in Procs : q < p => proc[q].at # "none"}
Connected(p, k) ==
  [NoProc EXCEPT !.scope = k, !.at = "up", !.session = stored[k],
     !.active = stored[k]]

\* sendUserMessage: what is written after the input's end is lost.
Sent(c, t) ==
  [c EXCEPT !.turn = TRUE,
     !.active = IF t # None THEN t ELSE IF c.session # None THEN c.session ELSE Pending,
     !.todo = IF c.at = "up" THEN @ + 1 ELSE @]

\* The dispatch has a session and is accepted, or has not and fails.
Accepted(x, k, t) ==
  /\ stored' = [stored EXCEPT ![k] = t]
  /\ scopeOf' = [scopeOf EXCEPT ![t] = k]
  /\ call' = [call EXCEPT ![x] = Idle]
  /\ boundary' = IF x = Chain THEN boundary \ {k} ELSE boundary
  /\ UNCHANGED <<gate, buffer>>

Refused(x) ==
  LET k == call[x].scope
  IN /\ gate' = gate \ {k}
     /\ buffer' = IF call[x].again THEN buffer \union {k} ELSE buffer
     /\ call' = [call EXCEPT ![x] = Idle]
     /\ boundary' = IF x = Chain THEN boundary \ {k} ELSE boundary

\* The message goes to process p, as connected c.
Deliver(x, p, c) ==
  LET k == call[x].scope
      sent == Sent(c, stored[k])
  IN /\ proc' = [proc EXCEPT ![p] = sent]
     /\ cur' = [cur EXCEPT ![k] = p]
     /\ thread' = Started(thread, EventThread(sent))
     /\ IF stored[k] # None /\ sent.session = stored[k]
        THEN Accepted(x, k, stored[k])
        ELSE IF stored[k] # None
        THEN /\ stored' = [stored EXCEPT ![k] = None]
             /\ call' = [call EXCEPT ![x].at = "failing", ![x].proc = p]
             /\ UNCHANGED <<scopeOf, boundary, gate, buffer>>
        ELSE /\ call' = [call EXCEPT ![x].at = "opening", ![x].proc = p]
             /\ UNCHANGED <<stored, scopeOf, boundary, gate, buffer>>

Attach(x) ==
  LET k == call[x].scope
      p == cur[k]
  IN /\ \/ call[x].at = "typing"
        \/ call[x].at = "closing" /\ ~Alive(call[x].proc)
     /\ IF p # None /\ (Reusable(k) \/ call[x].at = "closing")
        THEN Deliver(x, p, proc[p])
        ELSE IF p # None
        THEN /\ proc' = Closed(proc, p)
             /\ call' = [call EXCEPT ![x].at = "closing", ![x].proc = p]
             /\ UNCHANGED <<cur, thread, stored, scopeOf, boundary, gate, buffer>>
        ELSE \E q \in Fresh : Deliver(x, q, Connected(q, k))
     /\ UNCHANGED <<approvals, events, ninput, faults, ghosts>>

\* The session of an opening turn is known.
Opened(x) ==
  LET p == call[x].proc
  IN /\ call[x].at = "opening" /\ Alive(p) /\ proc[p].session # None
     /\ Accepted(x, call[x].scope, proc[p].session)
     /\ UNCHANGED <<adapter, thread, events, ninput, faults, ghosts>>

\* Its process goes, or no session comes for 90 seconds: the client that the
\* scope has now is closed.
OpeningFails(x) ==
  LET k == call[x].scope
      p == call[x].proc
  IN /\ call[x].at = "opening"
     /\ IF Alive(p) THEN proc[p].session = None /\ Fault ELSE UNCHANGED faults
     /\ proc' = Closed(proc, cur[k])
     /\ call' = [call EXCEPT ![x].at = "failing", ![x].proc = cur[k]]
     /\ UNCHANGED <<cur, approvals, stored, bridge, buffer, boundary, ninput, ghosts>>

\* The failed client is closed; the dispatch is refused.
Failed(x) ==
  /\ call[x].at = "failing"
  /\ IF Alive(call[x].proc)
     THEN /\ proc[call[x].proc].at = "up"
          /\ proc' = Closed(proc, call[x].proc)
          /\ UNCHANGED <<call, gate, buffer, boundary>>
     ELSE Refused(x) /\ UNCHANGED proc
  /\ UNCHANGED <<cur, approvals, stored, thread, scopeOf, events, ninput, faults, ghosts>>

-----------------------------------------------------------------------------
\* The main loop.

MainIdle == call[Main].at = "idle"

\* A message of the user is dispatched or buffered; a system message that
\* cannot be dispatched waits in its queue.
Receive(k) ==
  /\ MainIdle /\ Input
  /\ IF k = User /\ ~Blocked(k, FALSE)
     THEN /\ Begin(Main, k, FALSE)
          /\ IF IsStale(k)
             THEN /\ thread' = Ended(thread, stored[k])
                  /\ scopeOf' = [scopeOf EXCEPT ![stored[k]] = "none"]
             ELSE UNCHANGED <<thread, scopeOf>>
          /\ UNCHANGED buffer
     ELSE /\ buffer' = buffer \union {k}
          /\ IF k = User THEN Look(k, FALSE) ELSE UNCHANGED <<thread, gate, scopeOf>>
          /\ UNCHANGED call
  /\ UNCHANGED <<adapter, stored, events, boundary, faults, ghosts>>

\* A flush of the outbound queues tries what waits.
Flushed(x, k, past) ==
  IF Blocked(k, past) THEN Look(k, past) /\ UNCHANGED <<buffer, call>>
  ELSE /\ Begin(x, k, TRUE)
       /\ buffer' = buffer \ {k}
       /\ IF IsStale(k)
          THEN /\ thread' = Ended(thread, stored[k])
               /\ scopeOf' = [scopeOf EXCEPT ![stored[k]] = "none"]
          ELSE UNCHANGED <<thread, scopeOf>>

Flush(k) ==
  /\ MainIdle /\ k \in buffer
  /\ k = System => ~Blocked(User, FALSE)
  /\ Flushed(Main, k, FALSE)
  /\ UNCHANGED <<adapter, stored, events, boundary, ninput, faults, ghosts>>

\* /stop: the client of the thread, or of the scope, is closed.
StopOf(k) ==
  LET of == {p \in {cur[j] : j \in Scopes} \ {None} : Matches(p, stored[k])}
  IN IF of # {} THEN CHOOSE p \in of : TRUE ELSE cur[k]

Stop ==
  LET t == stored[User]
      p == StopOf(User)
  IN /\ MainIdle /\ Input
     /\ t # None /\ thread[t].status \in {"running", "waiting"}
     /\ proc' = Closed(proc, p)
     /\ call' = [call EXCEPT ![Main] = [Idle EXCEPT !.at = "stopping", !.proc = p]]
     /\ UNCHANGED <<cur, approvals, stored, bridge, buffer, boundary, faults, ghosts>>

\* /new: the client of the scope is closed, then the thread is forgotten.
NewThread ==
  /\ MainIdle /\ Input
  /\ proc' = Closed(proc, cur[User])
  /\ call' = [call EXCEPT ![Main] = [Idle EXCEPT !.at = "renewing", !.proc = cur[User]]]
  /\ UNCHANGED <<cur, approvals, stored, bridge, buffer, boundary, faults, ghosts>>

\* The process of a /stop, a /new or an idle system scope is gone.
CloseOver(x) ==
  /\ call[x].at \in {"stopping", "renewing", "idling"} /\ ~Alive(call[x].proc)
  /\ stored' = IF call[x].at = "renewing" THEN [stored EXCEPT ![User] = None] ELSE stored
  /\ boundary' = IF x = Chain THEN boundary \ {call[x].scope} ELSE boundary
  /\ call' = [call EXCEPT ![x] = Idle]
  /\ UNCHANGED <<adapter, bridge, buffer, ninput, faults, ghosts>>

\* respondApproval: to the client that is registered for the request, or to any
\* when none is.
Target(r) ==
  IF r \in approvals THEN {cur[proc[r].scope]} \ {None} ELSE {cur[k] : k \in Scopes} \ {None}
Answered(r, p) ==
  /\ approvals' = approvals \ {r}
  /\ proc' = IF p = r /\ proc[p].at = "up" THEN [proc EXCEPT ![p].asked = "answered"] ELSE proc
  /\ misled' = (misled \/ (p # r /\ proc[r].at = "up" /\ proc[r].asked = "open"))

\* The user answers the pending request of the thread.  Without a client it
\* throws, and nothing changes.
Approve ==
  LET t == stored[User]
      r == thread[t].pending
  IN /\ MainIdle /\ t # None /\ r # None
     /\ \E p \in Target(r) : Answered(r, p)
     /\ thread' = Resolved(thread, t, r)
     /\ UNCHANGED <<cur, stored, gate, scopeOf, events, buffer, boundary, call,
                    ninput, faults, orphaned, forgotten>>

-----------------------------------------------------------------------------
\* The event chain.

ScopesWith(t) == {k \in Scopes : stored[k] = t}
Event(type, t, p) == [type |-> type, thread |-> t, proc |-> p]

\* The end of a turn: a failed one forgets its thread, the gate is released and
\* what waits for the scope is dispatched behind its boundary, or the client of
\* a system turn, where it is idle, is closed.
Released(t) == IF t \in Threads THEN gate \ {scopeOf[t]} ELSE gate
HandleEnd ==
  LET e == Head(events)
      t == e.thread
      ks == ScopesWith(t)
  IN /\ call[Chain].at = "idle" /\ events # <<>> /\ e.type \in {"completed", "failed"}
     /\ events' = Tail(events)
     /\ stored' = [k \in Scopes |-> IF k \in ks /\ e.type = "failed" THEN None ELSE stored[k]]
     /\ scopeOf' = IF t \in Threads THEN [scopeOf EXCEPT ![t] = "none"] ELSE scopeOf
     /\ gate' = Released(t)
     /\ boundary' = boundary \union ks
     /\ call' = IF ks = {} THEN call
                ELSE [call EXCEPT ![Chain] = [Idle EXCEPT !.at = "ended",
                        !.scope = CHOOSE k \in ks : TRUE, !.proc = e.proc]]
     /\ UNCHANGED <<adapter, thread, buffer, ninput, faults, ghosts>>

AfterEnd ==
  LET k == call[Chain].scope
      p == IF Matches(call[Chain].proc, stored[k]) /\ cur[k] = call[Chain].proc
           THEN call[Chain].proc ELSE cur[k]
  IN /\ call[Chain].at = "ended"
     /\ \/ /\ k = User /\ k \in buffer /\ ~Blocked(k, TRUE)
           /\ Flushed(Chain, k, TRUE)
           /\ UNCHANGED <<proc, boundary>>
        \/ /\ k = System /\ p # None /\ ~proc[p].turn
           /\ proc' = Closed(proc, p)
           /\ call' = [call EXCEPT ![Chain].at = "idling", ![Chain].proc = p]
           /\ UNCHANGED <<thread, gate, scopeOf, buffer, boundary>>
        \/ /\ ~(k = User /\ k \in buffer /\ ~Blocked(k, TRUE))
           /\ ~(k = System /\ p # None /\ ~proc[p].turn)
           /\ IF k = User /\ k \in buffer THEN Look(k, TRUE)
              ELSE UNCHANGED <<thread, gate, scopeOf>>
           /\ call' = [call EXCEPT ![Chain] = Idle]
           /\ boundary' = boundary \ {k}
           /\ UNCHANGED <<proc, buffer>>
     /\ UNCHANGED <<cur, approvals, stored, events, ninput, faults, ghosts>>

\* A request of a scope's thread is answered at once, or the user is asked.
HandleAsk ==
  LET e == Head(events)
  IN /\ call[Chain].at = "idle" /\ events # <<>> /\ e.type = "ask"
     /\ events' = Tail(events)
     /\ \/ UNCHANGED <<approvals, proc, misled, thread>>
        \/ /\ ScopesWith(e.thread) # {}
           /\ thread' = Resolved(thread, e.thread, e.proc)
           /\ IF Target(e.proc) = {} THEN UNCHANGED <<approvals, proc, misled>>
              ELSE \E p \in Target(e.proc) : Answered(e.proc, p)
     /\ UNCHANGED <<cur, stored, gate, scopeOf, buffer, boundary, call, ninput,
                    faults, orphaned, forgotten>>

-----------------------------------------------------------------------------
\* What a process prints, and its end.

Working(p) == Alive(p) /\ proc[p].todo > 0

\* Mutant: the session a process prints becomes the thread of every scope.
GreetedAll(p, s) == [k \in Scopes |-> s]
\* The adapter leaves the session store to the dispatch.
GreetedStore(p, s) == stored

\* It prints its session: its own, or the one it resumes.
Greet(p) ==
  LET c == proc[p]
      s == IF c.session = None THEN p ELSE c.session
  IN /\ Working(p) /\ ~c.greeted
     /\ proc' = [proc EXCEPT ![p].greeted = TRUE, ![p].session = s,
                   ![p].active = IF @ = Pending THEN s ELSE @]
     /\ thread' = IF c.turn /\ c.active = Pending THEN Started(thread, s) ELSE thread
     /\ stored' = GreetedStore(p, s)
     /\ UNCHANGED <<cur, approvals, gate, scopeOf, events, buffer, boundary, call,
                    ninput, faults, ghosts>>

\* It asks for an approval.
Ask(p) ==
  LET t == EventThread(proc[p])
  IN /\ Working(p) /\ proc[p].greeted /\ proc[p].asked = "no"
     /\ proc' = [proc EXCEPT ![p].asked = "open"]
     /\ approvals' = approvals \union {p}
     /\ thread' = Asked(thread, t, p)
     /\ events' = Append(events, Event("ask", t, p))
     /\ UNCHANGED <<cur, stored, gate, scopeOf, buffer, boundary, call, ninput,
                    faults, ghosts>>

\* It prints the result of a turn.
Result(p) ==
  LET t == EventThread(proc[p])
  IN /\ Working(p) /\ proc[p].greeted /\ proc[p].asked # "open"
     /\ proc' = [proc EXCEPT ![p].turn = FALSE, ![p].active = None, ![p].todo = @ - 1]
     /\ thread' = Ended(thread, t)
     /\ events' = Append(events, Event("completed", t, p))
     /\ UNCHANGED <<cur, approvals, stored, gate, scopeOf, buffer, boundary, call,
                    ninput, faults, ghosts>>

\* It reports a fatal error: the turn fails, the client is forgotten and closed.
Fatal(p) ==
  LET t == EventThread(proc[p])
      k == proc[p].scope
  IN /\ Working(p) /\ proc[p].turn /\ Fault
     /\ proc' = [proc EXCEPT ![p].turn = FALSE, ![p].active = None, ![p].at = "closing"]
     /\ cur' = [cur EXCEPT ![k] = IF @ = p THEN None ELSE @]
     /\ approvals' = Cleared(k)
     /\ thread' = Ended(thread, t)
     /\ events' = Append(events, Event("failed", t, p))
     /\ UNCHANGED <<stored, gate, scopeOf, buffer, boundary, call, ninput, ghosts>>

\* A thread waits for the answer to a request.
Waits(s, r) == s.pending = r \/ r \in Range(s.queue)

\* It is gone, closed or by itself: a turn that nobody closed has failed.
Gone(p) ==
  LET k == proc[p].scope
      t == EventThread(proc[p])
      fails == proc[p].turn /\ proc[p].at = "up"
  IN /\ Alive(p)
     /\ IF proc[p].at = "up" THEN Fault ELSE UNCHANGED faults
     /\ proc' = [proc EXCEPT ![p] = [NoProc EXCEPT !.scope = k, !.at = "gone"]]
     /\ cur' = [cur EXCEPT ![k] = IF @ = p THEN None ELSE @]
     /\ approvals' = Cleared(k)
     /\ forgotten' = (forgotten \/ \E r \in approvals : r # p /\ proc[r].scope = k)
     /\ orphaned' = (orphaned \/ (~fails /\ \E r \in Threads : Waits(thread[r], p)))
     /\ IF fails
        THEN /\ thread' = Ended(thread, t)
             /\ events' = Append(events, Event("failed", t, p))
        ELSE UNCHANGED <<thread, events>>
     /\ UNCHANGED <<stored, gate, scopeOf, buffer, boundary, call, ninput, misled>>

-----------------------------------------------------------------------------
CallStep(x) ==
  \/ Attach(x) \/ Opened(x) \/ Failed(x) \/ CloseOver(x)
  \/ OpeningFails(x)

ChainStep == HandleEnd \/ AfterEnd \/ HandleAsk
ProcStep(p) == Greet(p) \/ Result(p)

Next ==
  \/ \E k \in Scopes : Receive(k) \/ Flush(k)
  \/ Stop \/ NewThread \/ Approve \/ ChainStep
  \/ \E x \in Callers : CallStep(x)
  \/ \E p \in Procs : ProcStep(p) \/ Ask(p) \/ Fatal(p) \/ Gone(p)

\* The event loop runs what is ready, the poll loop flushes, the user answers
\* what is asked, a process works on its input and ends after its input did.
Fairness ==
  /\ \A x \in Callers : WF_vars(CallStep(x))
  /\ WF_vars(ChainStep) /\ WF_vars(Approve)
  /\ \A k \in Scopes : WF_vars(Flush(k))
  /\ \A p \in Procs : WF_vars(ProcStep(p)) /\ WF_vars(proc[p].at = "closing" /\ Gone(p))

Spec == Init /\ [][Next]_vars
FairSpec == Spec /\ Fairness

-----------------------------------------------------------------------------
\* Properties.

\* A conversation keeps its thread and its answers: the thread of a scope is one
\* that a process of that scope opened, so that a short system turn never takes the
\* place of the conversation's thread; and an answer never reaches another process
\* while the one that asked waits for it, whatever was closed, failed or resumed in
\* between (unless a failed client's process goes after its successor has asked,
\* which forgets the successor's request).
ConversationKept ==
  /\ \A k \in Scopes : stored[k] # None => proc[stored[k]].scope = k
  /\ misled => forgotten

\* A message of the user does not wait in the buffer for ever, unless a
\* process was closed while it waited for an approval.
BufferedLeaves == User \in buffer ~> (User \notin buffer \/ orphaned)
=============================================================================
