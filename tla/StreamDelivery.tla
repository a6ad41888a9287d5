--------------------------- MODULE StreamDelivery ---------------------------
(***************************************************************************)
(* What the bridge sends the user of what its runs say: stream-delivery.js *)
(* and deferred-system-reply-store.js, with the parts of app.js that drive *)
(* them (the priming of deferred replies on an inbound message, the reply  *)
(* target of an accepted turn, supersession, silent compaction).           *)
(*                                                                         *)
(* One user.  Runs of the user's messages and silent compactions share the *)
(* user's binding, system runs have a binding of their own.  A reply is a  *)
(* sequence of items; what reaches the user, is deferred or is lost is an  *)
(* item of a run, a "piece".  A context token is named by the message that *)
(* brought it.                                                             *)
(*                                                                         *)
(* The runtime event chain handles one event at a time, so an event is     *)
(* handled where it is produced, and waits while a send is under way.      *)
(***************************************************************************)
EXTENDS Naturals, FiniteSets, FiniteSetsExt

CONSTANTS
  NRun,       \* bound on runs
  NItem,      \* bound on the items of a run
  NInbound,   \* bound on inbound messages
  MaxRetry,   \* length of transientDeliveryRetryScheduleMs
  MaxFaults,  \* bound on failed sends and turns, recoveries and restarts
  MaxRestart  \* bound on restarts of the bridge

ASSUME BoundsAssumption ==
  /\ NRun \in Nat /\ NItem \in Nat \ {0} /\ NInbound \in Nat
  /\ MaxRetry \in Nat /\ MaxFaults \in Nat /\ MaxRestart \in Nat

None == 0
Runs == 1..NRun
Items == 1..NItem
Pieces == Runs \X Items
Tokens == 0..NInbound

VARIABLES
  runtime,    \* the runtime adapter in use
  run,        \* the turns: what they are of and how far the runtime is
  nrun,       \* runs begun
  inbound,    \* messages received
  waiting,    \* the newest message that waits for a dispatch, or None
  \* on disk
  deferred,   \* DeferredSystemReplyStore: the pieces it holds of each run
  bound,      \* the causal message of a causal_message_only reply, or None
  superseded, \* supersededRunByThreadId, restored from the refresh requests
  token,      \* the channel's newest context token
  \* in memory
  prefix,     \* deferredReplyPrefixByBindingKey of the user's binding
  binding,    \* replyTargetByBindingKey: the token of each binding's target
  turnTarget, \* replyTargetByTurnKey
  suppressed, \* suppressedRunCountByThreadId of the user's thread
  compacting, \* a run whose compactThread is awaited, or None
  st,         \* stateByRunKey
  sending,    \* the send that the event chain awaits
  \* bounds and history
  faults, restarts,
  cls,        \* what each piece is once the runtime has said it
  acked,      \* how often the channel accepted each piece
  broken,     \* the runs of which a send failed in a way that is only logged
  kept,       \* the pieces that have ever been deferred
  primed      \* the deferred pieces audited as prefixDelivered

vars == <<runtime, run, nrun, inbound, waiting, deferred, bound, superseded,
          token, prefix, binding, turnTarget, suppressed, compacting, st,
          sending, faults, restarts, cls, acked, broken, kept, primed>>
turns == <<runtime, nrun, inbound, waiting, token, restarts>>
history == <<acked, broken, kept, primed>>

NoTarget == [provider |-> "none", token |-> None, cause |-> None, gen |-> 0]
NoState ==
  [here |-> FALSE, target |-> NoTarget, attached |-> FALSE, suppress |-> FALSE,
   prefix |-> {}, known |-> {}, sent |-> {}]

Idle == [run |-> None, todo |-> {}, tries |-> 0, token |-> None,
         fresh |-> FALSE, end |-> FALSE]

NoRun == [kind |-> "none", cause |-> None, gen |-> 0, token |-> None,
          stage |-> "unused", turn |-> "none", done |-> 0]

Init ==
  /\ runtime \in {"codex", "claudecode"}
  /\ run = [r \in Runs |-> NoRun] /\ nrun = 0
  /\ inbound = 0 /\ waiting = None
  /\ deferred = [r \in Runs |-> {}] /\ bound = [r \in Runs |-> None]
  /\ superseded = {} /\ token = None
  /\ prefix = {} /\ binding = [b \in {"weixin", "system"} |-> None]
  /\ turnTarget = [r \in Runs |-> NoTarget]
  /\ suppressed = 0 /\ compacting = None
  /\ st = [r \in Runs |-> NoState] /\ sending = Idle
  /\ faults = 0 /\ restarts = 0
  /\ cls = [p \in Pieces |-> "unsaid"] /\ acked = [p \in Pieces |-> 0]
  /\ broken = {} /\ kept = {} /\ primed = {}

Fault == faults < MaxFaults /\ faults' = faults + 1

\* A run that the gate of its scope is held for.
Open(r) ==
  /\ run[r].stage \in {"sending", "accepted"} /\ r \notin superseded

Busy(kinds) == \E r \in Runs : run[r].kind \in kinds /\ Open(r)

-----------------------------------------------------------------------------
\* Inbound messages and dispatches.

\* What drainForSenderWithExpiry may drop: system replies and those bound to a
\* message, once they are old enough.
MayExpire(r) == run[r].kind = "system" \/ bound[r] # None

\* primeDeferredRepliesForSender: what is drained replaces the prefix that waits.
Primed(drained) ==
  IF drained = {} THEN prefix ELSE UNION {deferred[r] : r \in drained}

\* handleIncomingMessage: a message is dispatched, buffered or a command.
Inbound(isCommand, expired) ==
  /\ inbound < NInbound
  /\ inbound' = inbound + 1
  /\ token' = inbound + 1 /\ binding' = [binding EXCEPT !["weixin"] = inbound + 1]
  /\ waiting' = IF isCommand THEN waiting ELSE inbound + 1
  /\ LET held    == {r \in Runs : deferred[r] # {}}
         drained == {r \in held \ expired : bound[r] \in {None, inbound + 1}}
     IN /\ expired \subseteq {r \in held : MayExpire(r)}
        /\ prefix' = Primed(drained)
        /\ primed' = primed \union UNION {deferred[r] : r \in drained}
        /\ deferred' = [r \in Runs |-> IF r \in drained \union expired
                                       THEN {} ELSE deferred[r]]
        /\ bound' = [r \in Runs |-> IF r \in drained \union expired
                                    THEN None ELSE bound[r]]
  /\ UNCHANGED <<runtime, run, nrun, superseded, turnTarget, suppressed,
                 compacting, st, sending, faults, restarts, cls, acked, broken, kept>>

\* dispatchPreparedTurn; a user's turn answers with the token of its message.
Begun(kind, cause, gen, from) ==
  /\ nrun < NRun
  /\ nrun' = nrun + 1
  /\ run' = [run EXCEPT ![nrun + 1] =
               [NoRun EXCEPT !.kind = kind, !.cause = cause, !.gen = gen,
                             !.token = from, !.stage = "sending"]]

\* dispatchPreparedTurn for what waits, once the scope is free.
DispatchUser ==
  /\ waiting # None /\ ~Busy({"user", "compact"}) /\ compacting = None
  /\ Begun("user", waiting, 0, waiting)
  /\ waiting' = None
  /\ UNCHANGED <<runtime, inbound, deferred, bound, superseded, token, prefix,
                 binding, turnTarget, suppressed, compacting, st, sending,
                 faults, restarts, cls, history>>

\* dispatchSystemMessage, when neither scope is busy.
DispatchSystem ==
  /\ token # None
  /\ ~Busy({"user", "compact", "system"}) /\ compacting = None
  /\ Begun("system", None, 0, token)
  /\ UNCHANGED <<runtime, inbound, waiting, deferred, bound, superseded, token,
                 prefix, binding, turnTarget, suppressed, compacting, st,
                 sending, faults, restarts, cls, history>>

Provider(r) == IF run[r].kind = "system" THEN "system" ELSE "weixin"

TargetOf(r) ==
  [provider |-> Provider(r), token |-> run[r].token, cause |-> run[r].cause, gen |-> run[r].gen]

\* The answer to turn/start, and bindReplyTargetForTurn: the turn may be over.
Accept(r) ==
  /\ run[r].stage = "sending" /\ run[r].kind # "compact" /\ r \notin superseded
  /\ run' = [run EXCEPT ![r].stage =
               IF run[r].turn = "over" /\ sending.run # r THEN "done"
                                                          ELSE "accepted"]
  /\ turnTarget' = [turnTarget EXCEPT ![r] = TargetOf(r)]
  /\ st' = IF st[r].here
             THEN [st EXCEPT ![r].target = TargetOf(r), ![r].attached = TRUE]
             ELSE st
  /\ UNCHANGED <<turns, deferred, bound, superseded, prefix, binding,
                 suppressed, compacting, sending, faults, cls, history>>

\* recoverCodexPreStartFailure: the run is superseded, what was deferred of it
\* discarded, and its message dispatched again.  The turn has not started, or it
\* has ended while the recovery awaited the typing status.
Recover(r) ==
  /\ runtime = "codex" /\ run[r].kind = "user" /\ run[r].gen = 0 /\ Open(r)
  /\ run[r].turn = "none" \/ (run[r].turn = "over" /\ sending.run = r)
  /\ Fault
  /\ nrun < NRun /\ nrun' = nrun + 1
  /\ run' = [run EXCEPT ![nrun + 1] =
               [NoRun EXCEPT !.kind = "user", !.cause = run[r].cause,
                             !.gen = 1, !.token = run[r].token,
                             !.stage = "sending"]]
  /\ superseded' = superseded \union {r}
  /\ st' = IF st[r].here THEN [st EXCEPT ![r].suppress = TRUE] ELSE st
  /\ turnTarget' = [turnTarget EXCEPT ![r] = NoTarget]
  /\ deferred' = [deferred EXCEPT ![r] = {}]
  /\ bound' = [bound EXCEPT ![r] = None]
  /\ UNCHANGED <<runtime, inbound, waiting, token, prefix, binding, suppressed,
                 compacting, sending, restarts, cls, history>>

-----------------------------------------------------------------------------
\* Handling of the runtime's events.

\* A handler runs only when no other one is at a send or in a compaction.
ChainFree == sending = Idle /\ compacting = None

UserThread(r) == Provider(r) = "weixin"

\* attachReplyTarget: the turn's own, or the binding's.
Attached(r, s) ==
  IF turnTarget[r] # NoTarget
    THEN [s EXCEPT !.target = turnTarget[r], !.attached = TRUE]
    ELSE IF binding[Provider(r)] # None
           THEN [s EXCEPT !.target =
                   [NoTarget EXCEPT !.provider = Provider(r),
                                    !.token = binding[Provider(r)]]]
           ELSE s

\* Mutant of Ensured: a suppression is used up but has no effect.
EnsuredLoud(r) ==
  IF st[r].here THEN st[r]
  ELSE LET s == [NoState EXCEPT !.here = TRUE]
       IN IF UserThread(r) THEN [Attached(r, s) EXCEPT !.prefix = prefix]
                           ELSE Attached(r, s)

\* ensureRunState: a new state uses up a suppression and takes the prefix.
Ensured(r) ==
  IF st[r].here THEN st[r]
  ELSE LET s == [NoState EXCEPT !.here = TRUE,
                                !.suppress = UserThread(r) /\ suppressed > 0]
       IN IF UserThread(r) THEN [Attached(r, s) EXCEPT !.prefix = prefix]
                           ELSE Attached(r, s)

\* What creating it leaves behind.
Taken(r) ==
  /\ prefix' = IF ~st[r].here /\ UserThread(r) THEN {} ELSE prefix
  /\ suppressed' = IF ~st[r].here /\ UserThread(r) /\ suppressed > 0
                     THEN suppressed - 1 ELSE suppressed

\* collectPendingReplyDeliveries.
Pending(s, done, force) ==
  {i \in s.known : i \notin s.sent /\ (i <= done \/ force)}

\* flushNow: the send that it starts.  Nothing is sent for a suppressed run or
\* one without a target; the end of a turn goes on to ChainFinish all the same.
Send(r, s, todo, end) ==
  LET none == s.suppress \/ s.target.provider = "none"
  IN IF ~end /\ (none \/ todo = {}) THEN Idle
     ELSE [run |-> r, todo |-> IF none THEN {} ELSE todo, tries |-> 0,
           token |-> s.target.token, fresh |-> FALSE, end |-> end]

\* An event of a superseded run disposes of its state and does nothing else.
Late(r) ==
  /\ r \in superseded
  /\ st' = [st EXCEPT ![r] = NoState]
  /\ turnTarget' = [turnTarget EXCEPT ![r] = NoTarget]
  /\ UNCHANGED <<turns, deferred, bound, superseded, prefix, binding,
                 suppressed, compacting, sending, faults, cls, history>>

\* runtime.turn.started.
TurnStarted(r) ==
  /\ ChainFree /\ run[r].stage # "unused" /\ run[r].turn = "none"
  /\ run' = [run EXCEPT ![r].turn = "live"]
  /\ \/ Late(r)
     \/ /\ r \notin superseded
        /\ st' = [st EXCEPT ![r] = Ensured(r)]
        /\ Taken(r)
        /\ UNCHANGED <<turns, deferred, bound, superseded, binding, turnTarget,
                       compacting, sending, faults, cls, history>>

\* runtime.reply.delta and runtime.reply.completed for the next item.
ReplyItem(r, kind, complete) ==
  LET i == run[r].done + 1
      s == [Ensured(r) EXCEPT !.known = @ \union {i}]
  IN /\ ChainFree /\ run[r].turn = "live" /\ i <= NItem
     /\ cls[<<r, i>>] \in {"unsaid", kind}
     /\ run' = [run EXCEPT ![r].done = IF complete THEN i ELSE @]
     /\ \/ Late(r)
        \/ /\ r \notin superseded
           /\ ~complete => i \notin st[r].known
           /\ cls' = [cls EXCEPT ![<<r, i>>] = kind]
           /\ st' = [st EXCEPT ![r] = s]
           /\ Taken(r)
           /\ sending' = IF complete /\ s.target.provider = "weixin"
                           THEN Send(r, s, Pending(s, i, FALSE), FALSE)
                           ELSE Idle
           /\ UNCHANGED <<turns, deferred, bound, superseded, binding,
                          turnTarget, compacting, faults, history>>

\* resolveSystemReplyDelivery: the whole reply is one message, an order to be
\* silent, or not a valid answer.
SystemTodo(s) == {{}} \union {{Min(S)} : S \in {s.known} \ {{}}}

\* runtime.turn.completed: whatever is left of the reply is flushed.
TurnCompleted(r) ==
  LET s == Ensured(r)
  IN /\ ChainFree /\ run[r].turn = "live"
     /\ run' = [run EXCEPT ![r].turn = "over"]
     /\ \/ Late(r)
        \/ /\ r \notin superseded
           /\ st' = [st EXCEPT ![r] = s]
           /\ Taken(r)
           /\ \E todo \in IF Provider(r) = "system" THEN SystemTodo(s)
                                                    ELSE {Pending(s, run[r].done, TRUE)} :
                sending' = Send(r, s, todo, TRUE)
           /\ UNCHANGED <<turns, deferred, bound, superseded, binding,
                          turnTarget, compacting, faults, cls, history>>

\* captureTurnCompletionText: a turn that has said nothing ends with its result,
\* as Claude Code's does.
TurnCompletedWithText(r, kind) ==
  LET s == [Ensured(r) EXCEPT !.known = {1}]
  IN /\ ChainFree /\ run[r].turn = "live" /\ r \notin superseded
     /\ runtime = "claudecode" /\ run[r].done = 0 /\ st[r].known = {}
     /\ run' = [run EXCEPT ![r].turn = "over", ![r].done = 1]
     /\ cls' = [cls EXCEPT ![<<r, 1>>] = kind]
     /\ st' = [st EXCEPT ![r] = s]
     /\ Taken(r)
     /\ \E todo \in IF Provider(r) = "system" THEN SystemTodo(s) ELSE {{1}} :
          sending' = Send(r, s, todo, TRUE)
     /\ UNCHANGED <<turns, deferred, bound, superseded, binding, turnTarget,
                    compacting, faults, history>>

\* The end of the handler of a turn's end releases the gate.
Released(r) ==
  [run EXCEPT ![r].stage = IF @ = "accepted" THEN "done" ELSE @,
              ![r].turn = "over"]

\* runtime.turn.failed.
TurnFailed(r) ==
  /\ ChainFree /\ run[r].turn = "live" /\ Fault
  /\ run' = Released(r)
  /\ st' = [st EXCEPT ![r] = NoState]
  /\ turnTarget' = [turnTarget EXCEPT ![r] = NoTarget]
  /\ UNCHANGED <<turns, deferred, bound, superseded, prefix, binding,
                 suppressed, compacting, sending, cls, history>>

\* The rest of the handler of a completed turn.  requestAutoCompact suppresses
\* the next run of the thread before it awaits compactThread.
ChainFinish ==
  LET r == sending.run
  IN /\ sending.end /\ sending.todo = {}
     /\ run' = Released(r)
     /\ sending' = Idle
     /\ st' = [st EXCEPT ![r] = NoState]
     /\ turnTarget' = [turnTarget EXCEPT ![r] = NoTarget]
     /\ \/ UNCHANGED <<compacting, suppressed>>
        \/ /\ runtime = "claudecode" /\ run[r].kind = "user"
           /\ waiting = None /\ nrun < NRun
           /\ compacting' = nrun + 1 /\ suppressed' = suppressed + 1
     /\ UNCHANGED <<turns, deferred, bound, superseded, prefix, binding, faults,
                    cls, history>>

\* compactThread returns: its turn has been announced.
CompactStarted ==
  /\ compacting # None
  /\ nrun' = nrun + 1
  /\ run' = [run EXCEPT ![compacting] =
               [NoRun EXCEPT !.kind = "compact", !.token = token,
                             !.stage = "accepted"]]
  /\ compacting' = None
  /\ UNCHANGED <<runtime, inbound, waiting, deferred, bound, superseded, token,
                 prefix, binding, turnTarget, suppressed, st, sending, faults,
                 restarts, cls, history>>

\* Mutant of CompactFailed: the suppression stays.
CompactFailedKeeping ==
  /\ compacting # None /\ Fault
  /\ compacting' = None
  /\ UNCHANGED <<turns, run, deferred, bound, superseded, prefix, binding,
                 turnTarget, suppressed, st, sending, cls, history>>

\* compactThread fails: the suppression is taken back.
CompactFailed ==
  /\ compacting # None /\ Fault
  /\ compacting' = None
  /\ suppressed' = IF suppressed <= 1 THEN 0 ELSE suppressed - 1
  /\ UNCHANGED <<turns, run, deferred, bound, superseded, prefix, binding,
                 turnTarget, st, sending, cls, history>>

-----------------------------------------------------------------------------
\* The send that the chain awaits.

\* The item that is being sent, and the pieces its message carries: the first
\* message of a reply to the user carries the deferred prefix as well.
Now == Min(sending.todo)
Carried == {<<sending.run, Now>>} \union st[sending.run].prefix

\* The rest of a flush once an item is dealt with.
Rest(target) ==
  LET todo == sending.todo \ {Now}
  IN IF todo = {} /\ ~sending.end THEN Idle
     ELSE [sending EXCEPT !.todo = todo, !.tries = 0, !.fresh = FALSE,
                          !.token = target.token]

\* What a flush that gives up goes on to.
Given == IF sending.end THEN [sending EXCEPT !.todo = {}] ELSE Idle

Mute == cls[<<sending.run, Now>>] = "mute" /\ Provider(sending.run) = "weixin"

\* Mutant of ItemDone: sentItemIds is not kept.
ItemDoneForgetful(r) == [st EXCEPT ![r].prefix = {}]

ItemDone(r) == [st EXCEPT ![r].sent = @ \union {Now}, ![r].prefix = {}]

\* sendReplyDelivery of an item with nothing to show: it counts as sent.
SkipMute ==
  /\ sending.todo # {} /\ Mute
  /\ st' = ItemDone(sending.run)
  /\ sending' = Rest(st[sending.run].target)
  /\ UNCHANGED <<turns, run, deferred, bound, superseded, prefix, binding,
                 turnTarget, suppressed, compacting, faults, cls, history>>

\* resolveRetriableReplyTarget: the same user with the newest token.
Refreshed(r) ==
  [NoTarget EXCEPT !.provider = st[r].target.provider, !.token = sending.token]

\* The channel accepts the message.
SendOk ==
  LET r      == sending.run
      target == IF sending.fresh THEN Refreshed(r) ELSE st[r].target
  IN /\ sending.todo # {} /\ ~Mute
     /\ acked' = [p \in Pieces |-> IF p \in Carried THEN acked[p] + 1
                                                    ELSE acked[p]]
     /\ st' = [ItemDone(r) EXCEPT ![r].target = target]
     /\ binding' = IF sending.fresh
                     THEN [binding EXCEPT ![target.provider] = target.token]
                     ELSE binding
     /\ sending' = Rest(target)
     /\ UNCHANGED <<turns, run, deferred, bound, superseded, prefix, turnTarget,
                    suppressed, compacting, faults, cls, broken, kept, primed>>

\* Mutant of Unsent: the batch is cut after the item that failed.
UnsentAfter ==
  {<<sending.run, i>> : i \in {j \in sending.todo \ {Now} :
      cls[<<sending.run, j>>] = "text" \/ Provider(sending.run) = "system"}}
    \union st[sending.run].prefix

\* The pieces of a batch that could not be sent (buildPendingDeliveryBatchText).
Unsent ==
  {<<sending.run, i>> : i \in {j \in sending.todo :
      cls[<<sending.run, j>>] = "text" \/ Provider(sending.run) = "system"}}
    \union st[sending.run].prefix

\* deferSystemReply: the batch goes to the store, merged with what it holds of
\* the run, and counts as sent.
Defer ==
  LET r == sending.run
      t == st[r].target
  IN /\ deferred' = [deferred EXCEPT ![r] = @ \union Unsent]
     /\ bound' = [bound EXCEPT ![r] =
                    IF (t.gen > 0 \/ @ # None) /\ t.cause # None THEN t.cause
                                                                 ELSE @]
     /\ kept' = kept \union Unsent
     /\ st' = [st EXCEPT ![r].sent = @ \union sending.todo, ![r].prefix = {}]
     /\ sending' = Given
     /\ UNCHANGED <<turns, run, superseded, prefix, binding, turnTarget,
                    suppressed, compacting, cls, acked, broken, primed>>

\* What a failed attempt leaves alone.
Unchanged ==
  UNCHANGED <<turns, run, deferred, bound, superseded, prefix, binding,
              turnTarget, suppressed, compacting, st, cls, acked, kept, primed>>

\* A failure taken for transient: sendTextWithTransientRetry, then the store.
SendTransient ==
  /\ sending.todo # {} /\ ~Mute /\ Fault
  /\ \/ /\ sending.tries < MaxRetry
        /\ sending' = [sending EXCEPT !.tries = @ + 1]
        /\ UNCHANGED broken /\ Unchanged
     \/ /\ sending.tries = MaxRetry
        /\ Defer

\* The context token is rejected: once more with a newer one, then the store.
SendRejected ==
  LET newer == ~sending.fresh /\ token \notin {None, st[sending.run].target.token}
  IN /\ sending.todo # {} /\ ~Mute /\ Fault
     /\ \/ /\ newer
           /\ sending' = [sending EXCEPT !.token = token, !.tries = 0,
                                         !.fresh = TRUE]
           /\ UNCHANGED broken /\ Unchanged
        \/ ~newer /\ Defer

\* Any other failure is logged, and what is left stays unsent.
SendBroken ==
  /\ sending.todo # {} /\ ~Mute /\ Fault
  /\ sending' = Given
  /\ broken' = broken \union {sending.run}
  /\ Unchanged

-----------------------------------------------------------------------------
\* The bridge stops and starts again.  What it held in memory is gone; the
\* channel's token gives the user's binding a target.  The thread of a Codex
\* turn is resumed, the turns of a Claude Code process and of system threads are
\* not heard of again.
Restart ==
  /\ restarts < MaxRestart /\ Fault
  /\ restarts' = restarts + 1
  /\ waiting' = None /\ prefix' = {} /\ suppressed' = 0 /\ compacting' = None
  /\ binding' = [b \in {"weixin", "system"} |->
                   IF b = "weixin" THEN token ELSE None]
  /\ turnTarget' = [r \in Runs |-> NoTarget]
  /\ st' = [r \in Runs |-> NoState]
  /\ sending' = Idle
  /\ run' = [r \in Runs |->
       IF run[r].stage = "unused" THEN run[r]
       ELSE IF runtime = "codex" /\ UserThread(r) /\ run[r].turn # "over"
         THEN [run[r] EXCEPT !.stage = "accepted"]
         ELSE [run[r] EXCEPT !.stage = "done", !.turn = "over"]]
  /\ UNCHANGED <<runtime, nrun, inbound, deferred, bound, superseded, token,
                 cls, history>>

RunStep(r) ==
  \/ Accept(r) \/ Recover(r) \/ TurnStarted(r) \/ TurnCompleted(r)
  \/ TurnFailed(r)
  \/ \E kind \in {"text", "mute"} :
       \/ TurnCompletedWithText(r, kind)
       \/ \E complete \in BOOLEAN : ReplyItem(r, kind, complete)

SendStep ==
  \/ SkipMute \/ SendOk \/ SendTransient \/ SendRejected \/ SendBroken

Next ==
  \/ \E isCommand \in BOOLEAN, expired \in SUBSET Runs :
       Inbound(isCommand, expired)
  \/ DispatchUser \/ DispatchSystem
  \/ \E r \in Runs : RunStep(r)
  \/ SendStep \/ ChainFinish \/ CompactStarted \/ CompactFailed
  \/ Restart

Spec == Init /\ [][Next]_vars

-----------------------------------------------------------------------------
\* Properties.

\* A reply is shown once and without gaps: what the channel has accepted is not sent
\* again, by whichever way it went (at once, after retries, from the store or as a
\* prefix), and when an item is shown, the items before it that have something to
\* show were shown or deferred.
ShownOnceInOrder ==
  /\ \A p \in Pieces : acked[p] <= 1
  /\ \A r \in Runs, i, j \in Items :
       acked[<<r, j>>] > 0 /\ i < j /\ run[r].kind = "user"
         /\ cls[<<r, i>>] = "text"
       => acked[<<r, i>>] > 0 \/ <<r, i>> \in kept \/ restarts > 0

\* A compaction is silenced and nothing else is: nothing of it is shown or kept to
\* be shown, and a reply to the user never takes the suppression meant for it.
OnlyCompactSilent ==
  \A r \in Runs :
    /\ run[r].kind = "compact" =>
         \A i \in Items : acked[<<r, i>>] = 0 /\ <<r, i>> \notin kept
    /\ st[r].here /\ st[r].suppress /\ run[r].kind = "user" => r \in superseded

\* When the turn of a message has ended, whatever its reply had to show was
\* shown or deferred, unless a send of it failed in a way that is only logged.
ReplyAccounted ==
  [][LET r == sending.run
     IN sending.end /\ sending' = Idle /\ restarts' = restarts
          /\ run[r].kind = "user" /\ ~st[r].suppress /\ r \notin broken
        => \A i \in st[r].known :
             cls[<<r, i>>] = "text" => acked[<<r, i>>] > 0 \/ <<r, i>> \in kept]_vars
=============================================================================
