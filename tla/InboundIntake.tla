---------------------------- MODULE InboundIntake ----------------------------
(***************************************************************************)
(* What becomes of a WeChat message before a turn is dispatched for it: the*)
(* poll loop and its cursor (start in app.js, weixin/index.js), the filter *)
(* and the claims that ignore what was seen before (message-utils.js,      *)
(* weixin-ingress-audit-store.js), and the batching of attachments and of  *)
(* the texts around them (handlePreparedMessage and                        *)
(* flushPendingAttachmentInboundBatch in app.js).                          *)
(*                                                                         *)
(* One sender writes to one workspace.  The main loop handles one message  *)
(* at a time; a timer starts a flush of the batch that runs beside it and  *)
(* beside other flushes.  What routing a message leads to is the subject of*)
(* TurnDispatch: here it is routed, or its routing throws.                 *)
(***************************************************************************)
EXTENDS Naturals, Sequences, FiniteSets, SequencesExt, FiniteSetsExt

CONSTANTS
  NMsg,      \* bound on messages
  MaxSize,   \* bound on the attachments of a message
  NFlush,    \* bound on flushes that run at once
  MaxBatch,  \* MAX_INBOUND_ATTACHMENT_BATCH
  MaxFaults  \* bound on errors, repeated deliveries and restarts

IntakeAssumption ==
  /\ NMsg \in Nat /\ MaxSize \in Nat \ {0} /\ NFlush \in Nat
  /\ MaxBatch \in Nat \ {0} /\ MaxFaults \in Nat

Msgs == 1..NMsg
Flushes == 1..NFlush

\* A text, a text that announces an attachment, attachments, a command.
Kinds == {"text", "prelude", "files", "command"}

VARIABLES
  kind,    \* what a message is, "none" before it is sent
  cursor,  \* the sync buffer on disk: the last message it covers
  claims,  \* inboundClaimKeys, on disk
  seen,    \* the filter's keys of the last five minutes
  main,    \* where the main loop is, and with which message
  rest,    \* the messages of the poll that it has not handled
  batch,   \* the poll batch: none, one of texts, or one with attachments
  draft,   \* pendingAttachmentInboundByScope
  held,    \* the draft's timer, and deferredAttachmentInboundFlushScopeKeys
  flush,   \* the flushes under way
  poll,    \* the poll that brought a message
  saved,   \* the attachments of a message that were saved
  routed,  \* what was routed together, in order
  lost,    \* messages that an error or a restart dropped
  split,   \* a batch was split
  failed,  \* the routing of a batch threw
  faults

store == <<kind, cursor, claims>>
loop == <<main, rest, batch>>
pending == <<draft, held>>
history == <<poll, saved, routed, lost, split, failed>>
vars == <<store, seen, loop, pending, flush, history, faults>>

\* A prepared message, or what a split leaves of it, with its attachments.  One
\* whose attachments all failed has none and is attachment context all the same.
Prepared(m, atts) == [id |-> m, atts |-> atts]
IsText(p) == kind[p.id] \in {"text", "prelude"}

NoFlush == [at |-> "none", group |-> <<>>, more |-> FALSE]
Polling == [at |-> "poll", msg |-> 0]
Unheld == [timer |-> FALSE, deferred |-> FALSE]

Init ==
  /\ kind = [m \in Msgs |-> "none"]
  /\ cursor = 0 /\ seen = {} /\ claims = {}
  /\ main = Polling /\ rest = <<>> /\ batch = "none"
  /\ draft = <<>> /\ held = Unheld
  /\ flush = [f \in Flushes |-> NoFlush]
  /\ poll = [m \in Msgs |-> 0] /\ saved = [m \in Msgs |-> {}]
  /\ routed = <<>> /\ lost = {} /\ split = FALSE /\ failed = FALSE
  /\ faults = 0

Fault == faults < MaxFaults /\ faults' = faults + 1

-----------------------------------------------------------------------------
\* Helpers.

IdsOf(s) == {s[i].id : i \in DOMAIN s}

\* Messages are handled, and sorted in a batch, by their time and id: one comes
\* after as many as come before it.
Sorted(S) ==
  [k \in 1..Cardinality(S) |->
     CHOOSE x \in S : k = 1 + Cardinality({y \in S : y < x})]
SortedGroup(s) ==
  LET order == Sorted(IdsOf(s))
  IN [k \in DOMAIN s |-> s[CHOOSE i \in DOMAIN s : s[i].id = order[k]]]

\* takeAttachmentContextBatchMessages, where there is an attachment: the texts,
\* and the first attachments up to the capacity; the message where it is
\* reached is split.
InOrder(s) == UNION {{i} \X s[i].atts : i \in DOMAIN s}
Fitting(s) ==
  {p \in InOrder(s) : MaxBatch > Cardinality({q \in InOrder(s) :
     q[1] < p[1] \/ (q[1] = p[1] /\ q[2] < p[2])})}
Part(s, i, S) == Prepared(s[i].id, {a \in s[i].atts : <<i, a>> \in S})
Parts(s, S, I) ==
  LET order == Sorted(I) IN [j \in DOMAIN order |-> Part(s, order[j], S)]

Taken(s) == Parts(s, Fitting(s),
  {i \in DOMAIN s : s[i].atts = {} \/ Part(s, i, Fitting(s)).atts # {}})

\* Mutant: a message that does not fit is kept for later as it was.
RemainingWhole(s) ==
  LET over == InOrder(s) \ Fitting(s)
  IN Parts(s, InOrder(s), {i \in DOMAIN s : Part(s, i, over).atts # {}})
\* What is left of the batch for the next one.
Remaining(s) ==
  LET over == InOrder(s) \ Fitting(s)
  IN Parts(s, over, {i \in DOMAIN s : Part(s, i, over).atts # {}})

HasContext(s) == \E i \in DOMAIN s : ~IsText(s[i])

\* A message is routed, alone or merged with others, or dropped on the way.
Route(s) == routed' = Append(routed, s)
Lose(S) == lost' = lost \union S

-----------------------------------------------------------------------------
\* The server and the poll.

\* The user sends a message.
Send(k) ==
  \E m \in Msgs :
    /\ \A q \in Msgs : kind[q] = "none" <=> q >= m
    /\ kind' = [kind EXCEPT ![m] = k]
    /\ UNCHANGED <<cursor, claims, seen, loop, pending, flush, history, faults>>

\* getUpdates answers with the messages after the cursor, perhaps with one that
\* was delivered before; the new cursor is saved before anything is handled.
Poll(again) ==
  LET new == {m \in Msgs : m > cursor /\ kind[m] # "none"}
      msgs == new \union again
  IN /\ main.at = "poll" /\ again \subseteq 1..cursor
     /\ IF again = {} THEN UNCHANGED faults ELSE Fault
     /\ cursor' = Max(new \union {cursor})
     /\ rest' = Sorted(msgs)
     /\ poll' = [m \in Msgs |-> IF m \in new THEN cursor + 1 ELSE poll[m]]
     /\ batch' = IF Cardinality(msgs) <= 1 THEN "none"
                 ELSE IF \E m \in msgs : kind[m] = "files" THEN "files" ELSE "texts"
     /\ main' = [Polling EXCEPT !.at = "next"]
     /\ UNCHANGED <<kind, claims, seen, pending, flush, saved, routed, lost,
                    split, failed>>

\* The filter forgets a message after five minutes.
Forget(m) ==
  /\ m \in seen
  /\ seen' = seen \ {m}
  /\ UNCHANGED <<store, loop, pending, flush, history, faults>>

-----------------------------------------------------------------------------
\* The timer of the draft, and what holds it back.

\* enqueuePendingAttachmentInbound, outside of an intake.
TextHeld == IF batch = "none" THEN [held EXCEPT !.timer = TRUE]
            ELSE [timer |-> FALSE, deferred |-> TRUE]

\* beginPendingAttachmentIntake: no flush while an attachment is taken in.
IntakeHeld == IF draft = <<>> THEN held ELSE [timer |-> FALSE, deferred |-> TRUE]

\* Mutant: the end of an intake forgets that the poll batch still holds a flush.
IntakeOverDropped(d) ==
  IF d = <<>> THEN held ELSE [timer |-> batch = "none", deferred |-> FALSE]
\* endPendingAttachmentIntake: the flush that was held back is scheduled now,
\* or at the end of the poll batch.
IntakeOver(d) ==
  IF d = <<>> THEN held
  ELSE [timer |-> batch = "none", deferred |-> batch # "none"]

\* endInboundUpdateBatch.
BatchOver(h) ==
  IF batch = "none" THEN h
  ELSE [timer |-> h.timer \/ (h.deferred /\ draft # <<>>), deferred |-> FALSE]

\* hasPendingAttachmentIntake: the main loop is the only one to take in.
Intake == main.at = "prepare" /\ kind[main.msg] = "files"

-----------------------------------------------------------------------------
\* The main loop.

Handled ==
  /\ main' = [Polling EXCEPT !.at = "next"]
  /\ UNCHANGED <<rest, batch>>

\* The filter knows the message, or it was claimed before.
Ignore ==
  /\ main.at = "next" /\ rest # <<>> /\ Head(rest) \in seen \union claims
  /\ seen' = seen \union {Head(rest)}
  /\ rest' = Tail(rest)
  /\ UNCHANGED <<store, main, batch, pending, flush, history, faults>>

\* recordInbound with the stage "accepted".
Claimed(m) == claims \union {m}

\* The message is accepted and prepared: its attachments are taken in.
Accept ==
  LET m == Head(rest)
  IN /\ main.at = "next" /\ rest # <<>> /\ m \notin seen \union claims
     /\ seen' = seen \union {m}
     /\ claims' = Claimed(m)
     /\ rest' = Tail(rest)
     /\ main' = [at |-> IF kind[m] = "command" THEN "route" ELSE "prepare",
                 msg |-> m]
     /\ held' = IF kind[m] = "files" THEN IntakeHeld ELSE held
     /\ UNCHANGED <<kind, cursor, batch, draft, flush, history, faults>>

\* persistIncomingWeixinAttachments has saved n attachments: the message joins
\* the batch.
TakeIn(n) ==
  LET m == main.msg
  IN /\ Intake
     /\ saved' = [saved EXCEPT ![m] = 1..n]
     /\ draft' = Append(draft, Prepared(m, 1..n))
     /\ held' = IntakeOver(draft')
     /\ Handled
     /\ UNCHANGED <<store, seen, flush, poll, routed, lost, split, failed, faults>>

\* Mutant: a text does not wait for an attachment that its poll still holds.
WaitsForDraft(m) == draft # <<>> \/ kind[m] = "prelude"
\* A text joins the batch when there is one, or its poll has an attachment; one
\* that announces an attachment waits for it.
Waits(m) == draft # <<>> \/ batch = "files" \/ kind[m] = "prelude"

Text ==
  LET m == main.msg
  IN /\ main.at = "prepare" /\ kind[m] # "files"
     /\ IF Waits(m)
        THEN /\ draft' = Append(draft, Prepared(m, {}))
             /\ held' = TextHeld
             /\ Handled
        ELSE /\ main' = [main EXCEPT !.at = "route"]
             /\ UNCHANGED <<rest, batch, pending>>
     /\ UNCHANGED <<store, seen, flush, history, faults>>

\* A text, or a command, has been routed without a batch.
Alone ==
  /\ main.at = "route"
  /\ Handled
  /\ Route(<<Prepared(main.msg, {})>>)
  /\ UNCHANGED <<store, seen, pending, flush, poll, saved, lost, split, failed,
                 faults>>

\* Handling a message throws, be it that it cannot be claimed: it is lost, and
\* with it the rest of the poll; the loop sleeps and polls again.
Throws ==
  /\ \/ main.at \in {"prepare", "route"} /\ UNCHANGED seen
     \/ /\ main.at = "next" /\ rest # <<>> /\ Head(rest) \notin seen \union claims
        /\ seen' = seen \union {Head(rest)}
  /\ Fault
  /\ Lose(({main.msg} \ {0}) \union (ToSet(rest) \ claims))
  /\ main' = [Polling EXCEPT !.at = "sleep"] /\ rest' = <<>> /\ batch' = "none"
  /\ held' = BatchOver(IF Intake THEN IntakeOver(draft) ELSE held)
  /\ UNCHANGED <<store, draft, flush, poll, saved, routed, split, failed>>

\* The poll is handled; the outbound queues are flushed.
PollDone ==
  /\ main.at = "next" /\ rest = <<>>
  /\ held' = BatchOver(held) /\ batch' = "none"
  /\ main' = [Polling EXCEPT !.at = "outbound"]
  /\ UNCHANGED <<store, seen, rest, draft, flush, history, faults>>

\* They are flushed, or the sleep after a failure is over.
PollAgain ==
  /\ main.at \in {"outbound", "sleep"}
  /\ main' = Polling
  /\ UNCHANGED <<store, seen, rest, batch, pending, flush, history, faults>>

\* The poll fails, or the flush of the outbound queues throws.
PollFails ==
  /\ main.at \in {"poll", "outbound"}
  /\ Fault
  /\ main' = [Polling EXCEPT !.at = "sleep"]
  /\ UNCHANGED <<store, seen, rest, batch, pending, flush, history>>

-----------------------------------------------------------------------------
\* flushPendingAttachmentInboundBatch.

\* It takes the draft, and leaves what is over the capacity; a draft of texts
\* goes to the inbound buffer.
Take(f) ==
  \E s \in {SortedGroup(draft)} :
    LET left == IF HasContext(s) THEN Remaining(s) ELSE <<>>
    IN /\ flush' = [flush EXCEPT ![f] =
            IF s = <<>> THEN NoFlush
            ELSE [at |-> IF HasContext(s) THEN "memory" ELSE "route",
                  group |-> IF HasContext(s) THEN Taken(s) ELSE s,
                  more |-> left # <<>>]]
       /\ draft' = left
       /\ split' = (split \/ left # <<>>)
       /\ held' = [held EXCEPT !.timer = FALSE]

\* The timer of the draft fires.
Fire(f) ==
  /\ held.timer /\ flush[f] = NoFlush
  /\ \A g \in Flushes : g < f => flush[g] # NoFlush
  /\ Take(f)
  /\ UNCHANGED <<store, seen, loop, poll, saved, routed, lost, failed, faults>>

\* The memory context is attached: the batch is routed.
Remembered(f) ==
  /\ flush[f].at = "memory"
  /\ flush' = [flush EXCEPT ![f].at = "route"]
  /\ UNCHANGED <<store, seen, loop, pending, history, faults>>

\* It has been; a flush that left something takes the draft again.
Routed(f) ==
  /\ flush[f].at = "route"
  /\ Route(flush[f].group)
  /\ IF flush[f].more THEN Take(f)
     ELSE /\ flush' = [flush EXCEPT ![f] = NoFlush]
          /\ UNCHANGED <<pending, split>>
  /\ UNCHANGED <<store, seen, loop, poll, saved, lost, failed, faults>>

\* Its routing throws: the batch is lost, and what was left of it waits for a
\* timer that only another message sets.
BatchThrows(f) ==
  /\ flush[f].at # "none"
  /\ Fault
  /\ Lose(IdsOf(flush[f].group))
  /\ failed' = TRUE
  /\ flush' = [flush EXCEPT ![f] = NoFlush]
  /\ UNCHANGED <<store, seen, loop, pending, poll, saved, routed, split>>

\* The bridge is killed and started again: the cursor and the claims are on
\* disk, what has not been routed is not.
Restart ==
  /\ Fault
  /\ seen' = {} /\ main' = Polling /\ rest' = <<>> /\ batch' = "none"
  /\ draft' = <<>> /\ held' = Unheld
  /\ flush' = [f \in Flushes |-> NoFlush]
  /\ Lose(IdsOf(draft) \union ({main.msg} \ {0}) \union (ToSet(rest) \ claims)
          \union UNION {IdsOf(flush[f].group) : f \in Flushes})
  /\ UNCHANGED <<store, poll, saved, routed, split, failed>>

-----------------------------------------------------------------------------
MainStep ==
  \/ Poll({}) \/ Ignore \/ Accept \/ Text \/ Alone \/ PollDone \/ PollAgain
  \/ \E n \in 0..MaxSize : TakeIn(n)

FlushStep(f) == Remembered(f) \/ Routed(f)

Next ==
  \/ \E k \in Kinds : Send(k)
  \/ \E m \in Msgs : Forget(m) \/ Poll({m})
  \/ MainStep \/ Throws \/ PollFails \/ Restart
  \/ \E f \in Flushes : Fire(f) \/ FlushStep(f) \/ BatchThrows(f)

\* The event loop runs what is ready, a poll is answered, a sleep ends and the
\* timer fires.
Fairness ==
  /\ WF_vars(MainStep)
  /\ WF_vars(\E f \in Flushes : Fire(f))
  /\ \A f \in Flushes : WF_vars(FlushStep(f))

Spec == Init /\ [][Next]_vars
FairSpec == Spec /\ Fairness

-----------------------------------------------------------------------------
\* Properties.

\* The groups of prepared messages: the draft, what the flushes hold, and what
\* was routed; and every place where a prepared message can be, with what is there.
Groups == <<draft>> \o [f \in Flushes |-> flush[f].group] \o routed
Places ==
  LET groups == Groups
  IN UNION {{<<g, i, groups[g][i]>> : i \in DOMAIN groups[g]} : g \in DOMAIN groups}

InFlushes == UNION {IdsOf(flush[f].group) : f \in Flushes}
Routes(i) == IdsOf(routed[i])
RoutedOnes == UNION {Routes(i) : i \in DOMAIN routed}

\* Nothing is lost or sent twice on the way through the batch: however often it
\* is split and taken by two flushes at once, repeated by the server, or met by
\* a restart, every attachment of an accepted message, and every text, is in
\* exactly one place, unless an error or a restart dropped the message.  And a text
\* and an attachment of one poll reach the runtime in one turn, whichever of them
\* comes first and whatever was waiting, so long as no batch had more attachments
\* than fit.
BatchKept ==
  \A m \in Msgs \ lost :
    /\ LET at == {p \in Places : p[3].id = m}
           parts == UNION {p[3].atts : p \in at}
       IN /\ m \in claims /\ main.msg # m => at # {} /\ parts = saved[m]
          /\ \A p, q \in at : p # q =>
               p[3].atts # {} /\ p[3].atts \intersect q[3].atts = {}
    /\ \A n \in Msgs \ lost :
         /\ ~split /\ poll[m] = poll[n] /\ {m, n} \subseteq RoutedOnes
         /\ kind[m] \in {"text", "prelude"} /\ kind[n] = "files"
         => \E i \in DOMAIN routed : {m, n} \subseteq Routes(i)

\* A message that a poll brought does not wait in the batch for ever: the timer
\* that an intake or a poll batch holds back is always set again.  (Where the
\* routing of a split batch throws, what is left of it does wait.)
IntakeSettles ==
  \A m \in Msgs :
    (poll[m] # 0) ~>
      \/ failed \/ m \in lost
      \/ /\ m \notin IdsOf(draft) \union InFlushes
         /\ \E i \in DOMAIN routed : m \in Routes(i)
=============================================================================
