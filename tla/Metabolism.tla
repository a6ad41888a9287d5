----------------------------- MODULE Metabolism -----------------------------
(***************************************************************************)
(* Memory metabolism ("dreaming"): memory-metabolism-service.js, with the  *)
(* gate that tool-host.js puts before the memory tools and the parts of    *)
(* app.js that queue, dispatch, defer and complete a dreaming turn.        *)
(*                                                                         *)
(* An attempt is queued over the sources that are not closed yet, a system *)
(* turn evaluates them, memory tools append to a mutation ledger, and a    *)
(* receipt that the ledger bears out closes the sources when the turn ends.*)
(* The bridge and the tool host are different processes over one state     *)
(* file; each function reads and writes the file without waiting, so it is *)
(* one step.                                                               *)
(*                                                                         *)
(* Sources and attempts are numbered in the order of their timestamps.     *)
(* Times are relative: an attempt has an age and a time left to wait, both *)
(* of them counted in ticks and saturating.                                *)
(***************************************************************************)
EXTENDS Naturals, FiniteSets, FiniteSetsExt

CONSTANTS
  NSource,    \* bound on source records and source events
  NAttempt,   \* bound on attempts
  NMessage,   \* bound on dreaming messages that are queued or at work at once
  MaxSources, \* dreamingMaxSourceRecords
  MinSources, \* dreamingMinSourceRecords
  RetryDelay, \* dreamingRetryMinutes, in ticks
  LongDelay,  \* a delay until a circuit closes or a budget is renewed
  MaxAge,     \* ACTIVE_ATTEMPT_MAX_AGE_MS
  MaxTtl,     \* the time a dreaming message may wait in the queue
  MaxMutations, \* bound on the mutations of an attempt
  MaxFaults   \* bound on crashes, lost turns, refusals, delays and failed turns

ASSUME BoundsAssumption ==
  /\ NSource \in Nat /\ NAttempt \in Nat /\ NMessage \in Nat
  /\ MaxSources \in Nat \ {0} /\ MinSources \in 1..MaxSources
  /\ RetryDelay \in Nat \ {0} /\ LongDelay \in Nat \ {0}
  /\ MaxAge \in Nat \ {0} /\ MaxTtl \in Nat
  /\ MaxMutations \in Nat /\ MaxFaults \in Nat

None == 0
Sources == 1..NSource
Attempts == 1..NAttempt
Messages == 1..NMessage

Open == {"queued", "dispatched", "mutation_seen", "receipt_verified", "receipt_failed"}
Mutable == Open \ {"receipt_verified"}
Completed == {"completed", "completed_partial"}
Statuses == {"none", "retrying"} \union Open \union Completed

\* The dispositions told apart: those that close a source as promoted or not
\* promoted, those that retry it, and one that is missing or not allowed.
Allowed == {"promoted", "evaluated", "deferred"}
Dispositions == Allowed \union {"invalid"}
Closing == {"promoted", "evaluated"}

VARIABLES
  source,     \* the sources: conversation records age, source events do not
  attempts,   \* state.attempts
  disposed,   \* what closed a source: completed_record_ids, source_record_statuses
  retryAfter, \* state.retry_after_ms, in ticks from now
  message,    \* the dreaming messages, from the queue to the end of their turn
  faults

vars == <<source, attempts, disposed, retryAfter, message, faults>>

NoReceipt == [kind |-> "none", count |-> 0, disp |-> [s \in {} |-> "invalid"]]

NoAttempt ==
  [status |-> "none", src |-> {}, age |-> 0, loose |-> FALSE, wait |-> 0,
   count |-> 0, proved |-> {}, receipt |-> NoReceipt]

NoMessage ==
  [attempt |-> None, at |-> "gone", ttl |-> 0, call |-> {}]

Init ==
  /\ source = [s \in Sources |-> "none"]
  /\ attempts = [a \in Attempts |-> NoAttempt]
  /\ disposed = [s \in Sources |-> "open"]
  /\ retryAfter = 0
  /\ message = [m \in Messages |-> NoMessage]
  /\ faults = 0

Fault == faults < MaxFaults /\ faults' = faults + 1

Status(a) == attempts[a].status

-----------------------------------------------------------------------------
\* The environment: sources, activity and time.

\* A settled user turn, or recordSourceEvent of a change made outside dreaming.
NewSource(kind) ==
  \E s \in Sources :
    /\ \A q \in Sources : source[q] = "none" <=> q >= s
    /\ source' = [source EXCEPT ![s] = kind]
    /\ UNCHANGED <<attempts, disposed, retryAfter, message, faults>>

\* A conversation record leaves the window of dreamingWindowHours.
LeaveWindow(s) ==
  /\ source[s] = "record"
  /\ source' = [source EXCEPT ![s] = "old"]
  /\ UNCHANGED <<attempts, disposed, retryAfter, message, faults>>

Less(n) == IF n = 0 THEN 0 ELSE n - 1

Tick ==
  /\ attempts' = [a \in Attempts |->
       IF Status(a) \in {"none"} \union Completed THEN attempts[a]
       ELSE [attempts[a] EXCEPT !.age = IF @ = MaxAge THEN @ ELSE @ + 1,
                                !.loose = @ \/ attempts[a].age + 1 >= MaxAge,
                                !.wait = Less(@)]]
  /\ retryAfter' = Less(retryAfter)
  /\ message' = [m \in Messages |-> [message[m] EXCEPT !.ttl = Less(@)]]
  /\ UNCHANGED <<source, disposed, faults>>

-----------------------------------------------------------------------------
\* Queueing: maybeQueueDreaming.

\* Mutant: an attempt counts as active whatever its age.
ActiveForever(a) ==
  \/ Status(a) = "retrying" /\ attempts[a].wait > 0
  \/ Status(a) \in Open

\* Mutant: an attempt stops to be active once its receipt was refused.
ActiveUntilReceipt(a) ==
  \/ Status(a) = "retrying" /\ attempts[a].wait > 0
  \/ Status(a) \in Open \ {"receipt_failed"} /\ attempts[a].age < MaxAge

\* findActiveAttempt.
Active(a) ==
  \/ Status(a) = "retrying" /\ attempts[a].wait > 0
  \/ Status(a) \in Open /\ attempts[a].age < MaxAge

\* findRetryableAttempt: the oldest of those whose time has come.
Due == {a \in Attempts : Status(a) = "retrying" /\ attempts[a].wait = 0}

\* resolveReadiness.
Ready ==
  /\ \A m \in Messages : message[m].at # "queued"
  /\ ~\E a \in Attempts : Active(a)
  /\ retryAfter = 0

\* buildClosedSourceIdSet.
Closed == {s \in Sources : disposed[s] \in Closing}

\* collectSourceRecords: what is left, the newest of it.
Collectable == {s \in Sources : source[s] \in {"record", "event"}} \ Closed
Collected == {s \in Collectable :
                Cardinality({q \in Collectable : q > s}) < MaxSources}

\* SystemMessageQueueStore.enqueue.
Enqueued(ms, a) ==
  LET m == Min({n \in Messages : ms[n].at = "gone" /\ ms[n].call = {}})
  IN [ms EXCEPT ![m] = [NoMessage EXCEPT !.attempt = a, !.at = "queued", !.ttl = MaxTtl]]
RoomToQueue == \E m \in Messages : message[m].at = "gone" /\ message[m].call = {}

\* The retry of an attempt is its old record with a new message.
Requeue ==
  /\ Ready /\ Due # {} /\ RoomToQueue
  /\ LET a == Min(Due)
     IN /\ attempts' = [attempts EXCEPT ![a].status = "queued"]
        /\ message' = Enqueued(message, a)
  /\ retryAfter' = 0
  /\ UNCHANGED <<source, disposed, faults>>

FreeAttempts == {a \in Attempts : Status(a) = "none"}

\* createAttempt.
Created(status, src, wait, loose) ==
  [NoAttempt EXCEPT !.status = status, !.src = src, !.wait = wait, !.loose = loose]

Create ==
  /\ Ready /\ Due = {} /\ RoomToQueue /\ FreeAttempts # {}
  /\ Cardinality(Collected) >= MinSources
  /\ LET a == Min(FreeAttempts)
     IN /\ attempts' = [attempts EXCEPT ![a] = Created("queued", Collected, 0, FALSE)]
        /\ message' = Enqueued(message, a)
  /\ UNCHANGED <<source, disposed, retryAfter, faults>>

\* What is forgotten of a message once it has left the queue or is done with.
Placed(r, at) ==
  [r EXCEPT !.at = at,
            !.ttl = IF at \in {"queued", "held"} THEN @ ELSE 0,
            !.attempt = IF at = "gone" /\ r.call = {} THEN None ELSE @]

\* maybeQueueDreaming, polled by the main loop when it is time.
Poll == Requeue \/ Create

\* A crash loses what was drained, and which turns were of which message.
Crashed(ms) ==
  [m \in Messages |->
     CASE ms[m].at = "held" -> Placed(ms[m], "gone")
       [] ms[m].at \in {"started", "marked"} -> Placed(ms[m], "lost")
       [] OTHER -> ms[m]]

Crash ==
  /\ Fault
  /\ message' = Crashed(message)
  /\ UNCHANGED <<source, attempts, disposed, retryAfter>>

\* The bridge dies between queue.enqueue and writeState: the message stands in
\* the queue, of an attempt that is still retrying or that was never stored.
KilledWhileQueueing ==
  /\ Fault /\ Ready /\ RoomToQueue
  /\ \/ /\ Due # {}
        /\ message' = Crashed(Enqueued(message, Min(Due)))
        /\ attempts' = [attempts EXCEPT ![Min(Due)].loose = TRUE]
     \/ /\ Due = {} /\ Cardinality(Collected) >= MinSources
        /\ message' = Crashed(Enqueued(message, None))
        /\ UNCHANGED attempts
  /\ UNCHANGED <<source, disposed, retryAfter>>

-----------------------------------------------------------------------------
\* Dispatch: flushPendingSystemMessages, dispatchSystemMessage.

Moved(m, at) == message' = [message EXCEPT ![m] = Placed(@, at)]

\* load drops what is too old, drainForAccount takes the rest.
Drain(m) ==
  /\ message[m].at = "queued"
  /\ Moved(m, IF message[m].ttl = 0 THEN "gone" ELSE "held")
  /\ UNCHANGED <<source, attempts, disposed, retryAfter, faults>>

\* deferAttempt and markAttemptFailed, whatever the status by now.
Retried(a, wait) ==
  IF a = None THEN UNCHANGED <<attempts, retryAfter>>
  ELSE /\ attempts' = [attempts EXCEPT ![a].status = "retrying", ![a].wait = wait]
       /\ retryAfter' = wait

\* deferMemoryMetabolismAttemptForBudget, -ForRuntimeCircuit.
Deferred(m, delay) ==
  /\ message[m].at = "held" /\ Fault
  /\ Moved(m, "gone")
  /\ Retried(message[m].attempt, IF delay > RetryDelay THEN delay ELSE RetryDelay)
  /\ UNCHANGED <<source, disposed>>

Running(m) == message[m].at \in {"started", "marked"}

\* A scope is busy, or the runtime did not take the turn: requeue.
Refused(m) ==
  /\ message[m].at = "held" /\ Fault
  /\ Moved(m, "queued")
  /\ UNCHANGED <<source, attempts, disposed, retryAfter>>

\* The runtime takes the turn; its model may work before the bridge goes on.
Accepted(m) ==
  /\ message[m].at = "held" /\ ~\E n \in Messages : Running(n)
  /\ Moved(m, "started")
  /\ UNCHANGED <<source, attempts, disposed, retryAfter, faults>>

\* markAttemptDispatched, whatever the status by now.
Dispatched(a) ==
  IF a = None THEN attempts ELSE [attempts EXCEPT ![a].status = "dispatched"]

\* markMemoryMetabolismAttemptDispatched.
MarkDispatched(m) ==
  /\ message[m].at = "started"
  /\ Moved(m, "marked")
  /\ attempts' = Dispatched(message[m].attempt)
  /\ UNCHANGED <<source, disposed, retryAfter, faults>>

\* A stalled turn is recovered: its end will not be handled, though it may go on.
Lose(m) ==
  /\ message[m].at = "marked" /\ Fault
  /\ Moved(m, "lost")
  /\ UNCHANGED <<source, attempts, disposed, retryAfter>>

\* Such a turn ends and nothing hears of it.
EndUnheard(m) ==
  /\ message[m].at = "lost"
  /\ Moved(m, "gone")
  /\ UNCHANGED <<source, attempts, disposed, retryAfter, faults>>

-----------------------------------------------------------------------------
\* The model's tools, in the tool host.

\* The turn's model is at work, whether or not the bridge knows of the turn.
Working(m) == message[m].at \in {"started", "marked", "lost"} /\ message[m].attempt # None

\* validateMutation.
MutationValid(a, S) ==
  /\ Status(a) \in Mutable
  /\ S # {} /\ S \subseteq attempts[a].src

\* invokeToolWithoutAudit up to the handler, which is awaited.
CallTool(m, S) ==
  /\ Working(m) /\ message[m].call = {}
  /\ MutationValid(message[m].attempt, S)
  /\ message' = [message EXCEPT ![m].call = S]
  /\ UNCHANGED <<source, attempts, disposed, retryAfter, faults>>

\* recordMutation: the ledger's part of an attempt.
Recorded(a, S) ==
  [attempts EXCEPT ![a].count = @ + 1, ![a].proved = @ \union S]

\* recordMemoryMetabolismSideEffects, which validates again: by now the attempt
\* may have moved on, and then the call fails although memory has changed.
RecordMutation(m) ==
  LET a == message[m].attempt
      S == message[m].call
  IN /\ S # {} /\ (MutationValid(a, S) => attempts[a].count < MaxMutations)
     /\ message' = [message EXCEPT ![m] = Placed([@ EXCEPT !.call = {}], @.at)]
     /\ attempts' =
          IF MutationValid(a, S)
          THEN [Recorded(a, S) EXCEPT ![a].status = "mutation_seen"]
          ELSE attempts
     /\ UNCHANGED <<source, disposed, retryAfter, faults>>

\* The handler fails: nothing was changed and nothing is recorded.
CallFails(m) ==
  /\ message[m].call # {}
  /\ message' = [message EXCEPT ![m] = Placed([@ EXCEPT !.call = {}], @.at)]
  /\ UNCHANGED <<source, attempts, disposed, retryAfter, faults>>

\* The tool host dies between the ledger's file and the state file, which keep
\* the mutation and the old status.
KilledWhileRecording(m) ==
  LET a == message[m].attempt
      S == message[m].call
  IN /\ Fault
     /\ S # {} /\ MutationValid(a, S) /\ attempts[a].count < MaxMutations
     /\ message' = [message EXCEPT ![m] = Placed([@ EXCEPT !.call = {}], @.at)]
     /\ attempts' = Recorded(a, S)
     /\ UNCHANGED <<source, disposed, retryAfter>>

Promoted(disp) == {s \in DOMAIN disp : disp[s] = "promoted"}

\* Mutant: what is called promoted is not compared with the ledger.
VerifiedUnproven(a, kind, disp) ==
  /\ kind \in {"mutated", "no_op"}
  /\ \A s \in attempts[a].src : disp[s] \in Allowed
  /\ kind = "mutated" => attempts[a].count > 0

\* verifyReceipt.  A receipt that leaves a source out is one whose disposition
\* of it is invalid.
Verified(a, kind, disp) ==
  /\ kind \in {"mutated", "no_op"}
  /\ \A s \in attempts[a].src : disp[s] \in Allowed
  /\ kind = "mutated" => /\ attempts[a].count > 0
                         /\ Promoted(disp) = attempts[a].proved
  /\ kind = "no_op" => attempts[a].count = 0 /\ Promoted(disp) = {}

\* recordReceipt: the newest receipt that passes is the one that counts.
RecordReceipt(m, kind, disp) ==
  LET a == message[m].attempt
  IN /\ attempts' =
          IF Verified(a, kind, disp)
          THEN [attempts EXCEPT ![a].status = "receipt_verified",
                  ![a].receipt = [kind |-> kind, count |-> attempts[a].count, disp |-> disp]]
          ELSE [attempts EXCEPT ![a].status = "receipt_failed"]
     /\ UNCHANGED <<source, disposed, retryAfter, message, faults>>

Receipt(m) ==
  /\ Working(m)
  /\ \E kind \in {"mutated", "no_op", "failed"} :
     \E disp \in [attempts[message[m].attempt].src -> Dispositions] :
       RecordReceipt(m, kind, disp)

-----------------------------------------------------------------------------
\* The end of the turn: completeRuntimeAttempt.

\* Mutant: a verified receipt is not compared with the ledger again.
SettlesOnce(a) == attempts[a].receipt.kind # "none"

\* Its conditions on the newest verified receipt.
Settles(a) ==
  LET r == attempts[a].receipt
  IN /\ r.kind # "none"
     /\ r.count = attempts[a].count
     /\ Verified(a, r.kind, r.disp)

\* A turn that failed, or whose conversation could not be written back; the
\* receipts and the ledger stay.
TurnFailed(m) ==
  /\ message[m].at = "marked" /\ Fault
  /\ Moved(m, "gone")
  /\ Retried(message[m].attempt, RetryDelay)
  /\ UNCHANGED <<source, disposed>>

\* The same for a turn that completed without what settles it.
TurnUnsettled(m) ==
  /\ message[m].at = "marked" /\ message[m].attempt # None
  /\ ~Settles(message[m].attempt)
  /\ Moved(m, "gone")
  /\ Retried(message[m].attempt, RetryDelay)
  /\ UNCHANGED <<source, disposed, faults>>

\* The end of a turn whose attempt was never stored.
TurnUnknown(m) ==
  /\ message[m].at = "marked" /\ message[m].attempt = None
  /\ Moved(m, "gone")
  /\ UNCHANGED <<source, attempts, disposed, retryAfter, faults>>

\* mergeCompletedRecordIds, mergeSourceRecordStatuses.
Merged(disp) ==
  [s \in Sources |->
     IF s \in DOMAIN disp /\ disp[s] \in Closing THEN disp[s] ELSE disposed[s]]

\* createRetryAttempt.
RetryOf(a, retry) == Created("retrying", retry, RetryDelay, attempts[a].loose)

\* The receipt's dispositions are merged into the state; sources to retry go to
\* an attempt of their own.
TurnSettled(m) ==
  LET a     == message[m].attempt
      disp  == attempts[a].receipt.disp
      retry == {s \in DOMAIN disp : disp[s] \notin Closing}
  IN /\ message[m].at = "marked" /\ a # None /\ Settles(a)
     /\ retry # {} => FreeAttempts # {}
     /\ Moved(m, "gone")
     /\ disposed' = Merged(disp)
     /\ IF retry = {}
        THEN /\ attempts' = [attempts EXCEPT ![a].status = "completed"]
             /\ retryAfter' = 0
        ELSE /\ attempts' = [attempts EXCEPT
                  ![a].status = "completed_partial",
                  ![Min(FreeAttempts)] = RetryOf(a, retry)]
             /\ retryAfter' = RetryDelay
     /\ UNCHANGED <<source, faults>>

\* completeMemoryMetabolismAttempt.
TurnEnds(m) == TurnFailed(m) \/ TurnUnsettled(m) \/ TurnUnknown(m) \/ TurnSettled(m)

-----------------------------------------------------------------------------
ToolStep ==
  \E m \in Messages :
    \/ \E S \in SUBSET Sources : CallTool(m, S)
    \/ RecordMutation(m)
    \/ CallFails(m)
    \/ KilledWhileRecording(m)
    \/ Receipt(m)

DispatchStep ==
  \E m \in Messages :
    \/ Drain(m)
    \/ \E delay \in {RetryDelay, LongDelay} : Deferred(m, delay)
    \/ Refused(m)
    \/ Accepted(m)
    \/ MarkDispatched(m)

EndStep ==
  \E m \in Messages :
    Lose(m) \/ EndUnheard(m) \/ TurnEnds(m)

Next ==
  \/ \E kind \in {"record", "event"} : NewSource(kind)
  \/ \E s \in Sources : LeaveWindow(s)
  \/ Tick
  \/ Poll \/ Crash \/ KilledWhileQueueing
  \/ DispatchStep \/ ToolStep \/ EndStep

Spec == Init /\ [][Next]_vars

\* The main loop polls and drains, dispatches end, runtimes end their turns and
\* time passes.
FairSpec ==
  /\ Spec
  /\ WF_vars(Tick) /\ WF_vars(Requeue)
  /\ \A m \in Messages :
       /\ WF_vars(Drain(m)) /\ WF_vars(Accepted(m)) /\ WF_vars(MarkDispatched(m))
       /\ WF_vars(CallFails(m)) /\ WF_vars(EndUnheard(m))
       /\ WF_vars(TurnEnds(m))

-----------------------------------------------------------------------------
\* Properties.

\* Two attempts that are under way are about different sources, unless one of
\* them, or one it is the retry of, is loose: it has outlived the age at which an
\* attempt stops to count as active, or a message of it was queued and the state
\* file does not say so.  And what completed an attempt still agrees with its
\* mutation ledger, whatever tools were called after the receipt or the turn.
AttemptsApart ==
  /\ \A a, b \in Attempts :
       a # b /\ {Status(a), Status(b)} \subseteq Open \union {"retrying"}
         => \/ attempts[a].src \intersect attempts[b].src = {}
            \/ attempts[a].loose \/ attempts[b].loose
  /\ \A a \in Attempts :
       Status(a) \in Completed =>
         /\ attempts[a].receipt.count = attempts[a].count
         /\ Promoted(attempts[a].receipt.disp) = attempts[a].proved

\* No source is closed as promoted without a mutation in a ledger that names it.
PromotionProven ==
  \A s \in Sources :
    disposed[s] = "promoted" => \E a \in Attempts : s \in attempts[a].proved

\* A turn cannot settle, for want of an attempt to retry what it defers.
NoRoom ==
  /\ FreeAttempts = {}
  /\ \E m \in Messages :
       /\ message[m].at = "marked" /\ message[m].attempt # None
       /\ Settles(message[m].attempt)

\* While attempts wait to be retried, one is queued again and again: neither a
\* lost turn nor another attempt's delay stops the retries for ever.  (NoRoom is
\* the bound on attempts at work.)
RetryProgress ==
  []<>(\/ \A a \in Attempts : Status(a) # "retrying"
       \/ \E m \in Messages : message[m].at = "queued"
       \/ NoRoom)
=============================================================================
