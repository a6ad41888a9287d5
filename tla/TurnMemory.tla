------------------------------ MODULE TurnMemory ------------------------------
(***************************************************************************)
(* The memory of a conversation's turns (core/app.js): what is put before  *)
(* a message when it is prepared, what is remembered of it when its turn   *)
(* is accepted, and what is written back when the turn has ended.          *)
(*                                                                         *)
(* When turns start, stall and are sent again is TurnDispatch's; here they *)
(* do so in any of the orders it allows, of one user's conversation and of *)
(* the system's beside it. Several buffered messages are sent as one and   *)
(* count as one message.                                                   *)
(***************************************************************************)
EXTENDS Naturals, Sequences

CONSTANTS
  Said, Told,   \* messages of the user, and of the system
  Talks,        \* the sets of messages that may come
  MaxTurns,     \* bound on turns
  MaxCaptures   \* bound on preparations

Messages == Said \union Told
\* A thread has the number of the turn that opened it.
Threads == 1..MaxTurns
NoThread == 0
NoTurn == 0
\* The key of a conversation without a thread ends in "opening".
Opening == NoThread

VARIABLES
  runtime,
  msgs,     \* each message on its way to the runtime
  thread,   \* the thread of each binding: the user's, and the system's own
  marked,   \* residentAnchorPreludeKeys
  guided,   \* stableTurnGuidanceKeys
  refresh,  \* a session refresh is asked for
  grace,    \* the grace after a refresh: its thread and the turns left
  turns,    \* what was accepted by the runtime
  byRun,    \* turnWritebackContextByRunKey
  byThread, \* pendingTurnWritebackByThreadId
  records,  \* what was written back
  notes,    \* the turn whose answer filled the note of a message's attachment
  lost,     \* keys whose residents went into a packet that was not sent on their thread
  captures

Side(m) == IF m \in Told THEN "system" ELSE "user"
Fresh == [stage |-> "new", key |-> Opening, repeats |-> FALSE, guides |-> FALSE,
          residents |-> FALSE, flushed |-> FALSE]

MemoryInit ==
  /\ runtime \in {"codex", "claudecode"}
  /\ \E talk \in Talks :
       msgs = [m \in Messages |-> [Fresh EXCEPT !.stage = IF m \in talk THEN "new" ELSE "none"]]
  /\ thread = [user |-> NoThread, system |-> NoThread]
  /\ marked = {}
  /\ guided = {}
  /\ refresh = FALSE
  /\ grace = [thread |-> NoThread, left |-> 0]
  /\ turns = <<>>
  /\ byRun = <<>>
  /\ byThread = [t \in Threads |-> NoTurn]
  /\ records = {}
  /\ notes = [m \in Messages |-> NoTurn]
  /\ lost = {}
  /\ captures = 0

\* The key whose residents are lost with a packet that is not sent on thread t.
LostBut(m, t) ==
  IF msgs[m].residents /\ msgs[m].key # t THEN lost \union {msgs[m].key} ELSE lost

\* The gate of a binding, closed from the acceptance of a turn to its end.
Busy(side) ==
  \E k \in DOMAIN turns : turns[k].side = side /\ turns[k].state \in {"running", "ending"}

-----------------------------------------------------------------------------
\* Before the turn.

\* resolveResidentAnchorPreludeKey: the user's thread, also for a turn of the system.
Key == thread["user"]
\* shouldIncludeRuntimeMaintenanceGuidance.
Guides(m) == m \in Told /\ Key # Opening /\ Key \notin guided
\* resolveContinuityContextModeForPrepared uses up a turn of the grace.
UseGrace(m) ==
  IF m \in Said /\ ~refresh /\ grace.left > 0 /\ Key # NoThread /\ Key = grace.thread
  THEN [grace EXCEPT !.left = @ - 1] ELSE grace

\* attachMemoryContextToPreparedText, up to the packet.
Capture(m) ==
  /\ msgs[m].stage \in {"new", "buffered"} /\ captures < MaxCaptures
  /\ msgs[m].stage = "buffered" => ~Busy("user")
  /\ m \in Told => ~Busy("user") /\ ~Busy("system")
  /\ captures' = captures + 1
  /\ msgs' = [msgs EXCEPT ![m] =
       [stage |-> "capturing", key |-> Key, repeats |-> Key \in marked, guides |-> Guides(m),
        residents |-> FALSE, flushed |-> @.stage = "buffered"]]
  /\ grace' = UseGrace(m)
  /\ UNCHANGED <<runtime, thread, marked, guided, refresh, turns, byRun, byThread, records, notes, lost>>

\* The packet has come: the residents are left out where the key has had them.
Captured(m, residents) ==
  LET got == msgs[m]
  IN /\ got.stage = "capturing"
     /\ msgs' = [msgs EXCEPT ![m].stage = "ready", ![m].residents = residents /\ ~got.repeats]
     /\ marked' = IF residents /\ ~got.repeats THEN marked \union {got.key} ELSE marked
     /\ guided' = IF got.guides THEN guided \union {got.key} ELSE guided
     /\ UNCHANGED <<runtime, thread, refresh, grace, turns, byRun, byThread, records, notes, lost, captures>>

\* No packet could be made: the text stands alone.
CaptureFails(m) ==
  /\ msgs[m].stage = "capturing"
  /\ msgs' = [msgs EXCEPT ![m].stage = "ready"]
  /\ UNCHANGED <<runtime, thread, marked, guided, refresh, grace, turns, byRun, byThread, records,
                 notes, lost, captures>>

\* A message of the user waits for the turn before it, without its packet.
Wait(m) ==
  /\ msgs[m].stage = "ready" /\ m \in Said /\ ~msgs[m].flushed /\ Busy("user")
  /\ msgs' = [msgs EXCEPT ![m] = [Fresh EXCEPT !.stage = "buffered"]]
  /\ lost' = LostBut(m, NoTurn)
  /\ UNCHANGED <<runtime, thread, marked, guided, refresh, grace, turns, byRun, byThread, records,
                 notes, captures>>

-----------------------------------------------------------------------------
\* The turn.

\* Mutant: what is remembered of a turn is kept for its thread alone.
RememberByThread(k, t, named) ==
  /\ byThread' = [byThread EXCEPT ![t] = k]
  /\ byRun' = Append(byRun, FALSE)
\* rememberTurnWritebackContext: by the turn, or by the thread of a turn without an id.
Remember(k, t, named) ==
  /\ byRun' = Append(byRun, named)
  /\ byThread' = IF named THEN byThread ELSE [byThread EXCEPT ![t] = k]

\* dispatchPreparedTurn is accepted: a refresh that is asked for takes the session's
\* thread first, and a turn without a thread opens one. A message from the buffer and
\* one of the system do not look at the gate again.
Dispatch(m, named) ==
  LET side == Side(m)
      renews == refresh /\ side = "user"
      old == IF renews THEN NoThread ELSE thread[side]
      k == Len(turns) + 1
      t == IF old = NoThread THEN k ELSE old
  IN /\ msgs[m].stage = "ready" /\ k <= MaxTurns
     /\ msgs[m].flushed \/ m \in Told \/ ~Busy(side)
     /\ named \/ runtime = "codex"
     /\ msgs' = [msgs EXCEPT ![m].stage = "sent"]
     /\ thread' = [thread EXCEPT ![side] = t]
     /\ refresh' = (refresh /\ ~renews)
     /\ turns' = Append(turns, [msg |-> m, side |-> side, thread |-> t, named |-> named,
                                state |-> "running", renews |-> renews, answer |-> FALSE,
                                context |-> NoTurn, residents |-> msgs[m].residents,
                                quit |-> FALSE])
     /\ Remember(k, t, named)
     /\ lost' = LostBut(m, IF side = "user" THEN t ELSE NoTurn)
     /\ UNCHANGED <<runtime, marked, guided, grace, records, notes, captures>>

\* A dispatch is refused: a message of the user is held back as it was before its
\* packet, one of the system is tried again later.
Refused(m) ==
  /\ msgs[m].stage = "ready" /\ captures < MaxCaptures
  /\ msgs' = [msgs EXCEPT ![m] = IF m \in Said THEN [Fresh EXCEPT !.stage = "buffered"] ELSE Fresh]
  /\ lost' = LostBut(m, NoTurn)
  /\ UNCHANGED <<runtime, thread, marked, guided, refresh, grace, turns, byRun, byThread, records,
                 notes, captures>>

\* A refresh is asked for, or the user asks for a new thread.
AskRefresh ==
  /\ ~refresh /\ thread["user"] # NoThread /\ Len(turns) < MaxTurns
  /\ refresh' = TRUE
  /\ UNCHANGED <<runtime, msgs, thread, marked, guided, grace, turns, byRun, byThread, records,
                 notes, lost, captures>>
NewThread ==
  /\ thread["user"] # NoThread /\ ~Busy("user") /\ Len(turns) < MaxTurns
  /\ thread' = [thread EXCEPT !["user"] = NoThread]
  /\ UNCHANGED <<runtime, msgs, marked, guided, refresh, grace, turns, byRun, byThread, records,
                 notes, lost, captures>>

\* recoverCodexPreStartFailure: the thread is given up and its message sent again.
Supersede(k) ==
  LET m == turns[k].msg
  IN /\ runtime = "codex" /\ turns[k].state = "running" /\ turns[k].side = "user"
     /\ ~\E j \in DOMAIN turns : j < k /\ turns[j].msg = m
     /\ turns' = [turns EXCEPT ![k].state = "superseded"]
     /\ thread' = [thread EXCEPT !["user"] = NoThread]
     /\ msgs' = [msgs EXCEPT ![m] = [Fresh EXCEPT !.stage = "buffered"]]
     /\ UNCHANGED <<runtime, marked, guided, refresh, grace, byRun, byThread, records, notes, lost, captures>>

\* The first event of a system's turn does not come: its thread is given up, quietly.
GiveUpQuietly(k) ==
  LET t == turns[k].thread
  IN /\ turns[k].state = "running" /\ turns[k].side = "system"
     /\ turns' = [turns EXCEPT ![k].state = "left", ![k].quit = TRUE]
     /\ thread' = [thread EXCEPT !["system"] = NoThread]
     /\ byThread' = [byThread EXCEPT ![t] = NoTurn]
     /\ UNCHANGED <<runtime, msgs, marked, guided, refresh, grace, byRun, records, notes, lost, captures>>

\* recoverStaleRuntimeThreadState: Claude Code is found not to run the turn.
FindStale(k) ==
  LET t == turns[k].thread
  IN /\ runtime = "claudecode" /\ turns[k].state = "running"
     /\ turns' = [turns EXCEPT ![k].state = "left"]
     /\ byRun' = [byRun EXCEPT ![k] = FALSE]
     /\ byThread' = [byThread EXCEPT ![t] = NoTurn]
     /\ UNCHANGED <<runtime, msgs, thread, marked, guided, refresh, grace, records, notes, lost, captures>>

-----------------------------------------------------------------------------
\* After the turn.

\* consumeTurnWritebackContext: the turn whose context the end of turn k takes. Only
\* an event without a turn's id takes that of the thread.
Consumed(k) ==
  IF turns[k].named /\ byRun[k] THEN k
  ELSE IF turns[k].named THEN NoTurn ELSE byThread[turns[k].thread]

\* writebackRuntimeTurn begins, unless the thread was superseded: a notice of the
\* limit and the text of a failure are no answer, and a failure of Claude Code
\* takes the thread.
End(k, completed, answers) ==
  LET c == Consumed(k)
      gone == \E j \in DOMAIN turns : /\ turns[j].state = "superseded"
                                      /\ turns[j].thread = turns[k].thread
      side == turns[k].side
  IN /\ turns[k].state \in {"running", "superseded", "left"}
     /\ IF gone
        THEN /\ turns' = [turns EXCEPT ![k].state = "superseded"]
             /\ UNCHANGED <<thread, byRun, byThread>>
        ELSE /\ turns' = [turns EXCEPT ![k].state = "ending", ![k].context = c,
                                       ![k].answer = completed /\ answers]
             /\ byRun' = [byRun EXCEPT ![k] = FALSE]
             /\ byThread' = IF turns[k].named THEN byThread
                            ELSE [byThread EXCEPT ![turns[k].thread] = NoTurn]
             /\ thread' = IF ~completed /\ runtime = "claudecode"
                             /\ thread[side] = turns[k].thread
                          THEN [thread EXCEPT ![side] = NoThread] ELSE thread
     /\ UNCHANGED <<runtime, msgs, marked, guided, refresh, grace, records, notes, lost, captures>>

\* The memory has the turn, or could not take it; an answer fills the notes of the
\* message's attachments that are still open (finalizeAttachmentNotes).
Written(k, fails) ==
  LET c == turns[k].context
      m == turns[c].msg
  IN /\ turns[k].state = "ending"
     /\ turns' = [turns EXCEPT ![k].state = "ended", ![k].context = NoTurn, ![k].answer = FALSE,
                               ![k].renews = FALSE]
     /\ records' = IF c = NoTurn \/ fails THEN records
                   ELSE records \union {[of |-> c, ended |-> k]}
     /\ notes' = IF c # NoTurn /\ ~fails /\ turns[k].answer /\ notes[m] = NoTurn
                 THEN [notes EXCEPT ![m] = k] ELSE notes
     /\ grace' = IF turns[k].renews /\ c # NoTurn /\ ~fails /\ turns[k].answer
                 THEN [thread |-> turns[k].thread, left |-> 3] ELSE grace
     /\ UNCHANGED <<runtime, msgs, thread, marked, guided, refresh, byRun, byThread, lost, captures>>

MemoryNext ==
  \/ \E m \in Messages :
       \/ Capture(m) \/ CaptureFails(m) \/ Wait(m) \/ Refused(m)
       \/ \E b \in BOOLEAN : Captured(m, b) \/ Dispatch(m, b)
  \/ AskRefresh \/ NewThread
  \/ \E k \in DOMAIN turns :
       \/ Supersede(k) \/ GiveUpQuietly(k) \/ FindStale(k)
       \/ \E a, b \in BOOLEAN : End(k, a, b)
       \/ \E b \in BOOLEAN : Written(k, b)

-----------------------------------------------------------------------------
\* Properties (see Services).

\* A turn that can be told from the others of its thread: those without an id share
\* their context with each other and lose it with a turn that is given up quietly.
Known(k) ==
  \/ turns[k].named
  \/ ~\E j \in DOMAIN turns \ {k} : /\ turns[j].thread = turns[k].thread
                                    /\ ~turns[j].named \/ turns[j].quit
\* A record has the end of its own turn, and a message has one record.
RecordsPaired ==
  LET mine == {r \in records : Known(r.ended)}
  IN /\ \A r \in mine : r.of = r.ended
     /\ \A q, r \in mine : turns[q.of].msg = turns[r.of].msg => q = r
     /\ \A m \in Messages :
          notes[m] # NoTurn /\ Known(notes[m]) => turns[notes[m]].msg = m
\* What a turn at work was asked is there to be written at its end.
ContextsKept ==
  \A k \in DOMAIN turns : turns[k].state = "running" /\ Known(k) => Consumed(k) = k
\* A thread counts as having the residents when a turn of it was sent with them, or a
\* packet that had them is on its way or was lost.
ResidentsKnown ==
  \A t \in marked \ {Opening} :
    \/ t \in lost
    \/ \E k \in DOMAIN turns : turns[k].thread = t /\ turns[k].residents
    \/ \E m \in Messages : msgs[m].stage = "ready" /\ msgs[m].residents /\ msgs[m].key = t
=============================================================================
