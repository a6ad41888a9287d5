------------------------------- MODULE Services -------------------------------
(***************************************************************************)
(* What works beside the bridge: the warm memory, the cold memory, the     *)
(* journals, the memory of a conversation's turns, and the decisions that  *)
(* the bridge and the memory take by calculation (Policies). They share no *)
(* state and none waits for another, so that a behaviour follows one of    *)
(* them.                                                                   *)
(***************************************************************************)
EXTENDS Naturals

CONSTANTS Procs, Cards, Texts, MaxOps, MaxWarmStops,
          Keys, Values, MaxLabel, MaxReads, MaxWrites, MaxStops,
          Said, Told, Talks, MaxTurns, MaxCaptures,
          Ids, MaxActive, MaxSteps, MaxHalts,
          Day, Year, Step, Margin, MaxText, Limits, Shorts, Mosts

ASSUME BoundsAssumption ==
  /\ MaxOps \in Nat /\ MaxWarmStops \in Nat
  /\ MaxLabel \in Nat /\ MaxReads \in Nat /\ MaxWrites \in Nat /\ MaxStops \in Nat
  /\ MaxTurns \in Nat /\ MaxCaptures \in Nat
  /\ MaxActive \in Nat \ {0} /\ MaxSteps \in Nat /\ MaxHalts \in Nat
  \* The day is longer than the pauses and the quiet hours that are tried in it.
  /\ Day \in Nat \ (0..3) /\ Year \in Nat \ {0}
  /\ Step \in 1..Day /\ Margin \in Nat /\ Step + Margin <= Day
  /\ MaxText \in Nat /\ Limits \subseteq Nat \ {0}
  /\ Shorts \subseteq Nat /\ Mosts \subseteq Nat \ {0}

VARIABLES
  part,  \* what is followed
  index, files, archive, lock, aged, warmJob, robbed, ops, warmStops,
  bank, written, active, shown, roots, legacy, coldJob, marred, reads, writes, stops,
  runtime, msgs, thread, marked, guided, refresh, grace, turns, byRun, byThread,
  records, notes, lost, captures,
  journal, rows, record, log, page, doing, truth, excused, steps, halts,
  input

Warm == INSTANCE WarmStore WITH job <- warmJob, stops <- warmStops, MaxStops <- MaxWarmStops
Cold == INSTANCE ColdRoots WITH job <- coldJob
Turns == INSTANCE TurnMemory
Kept == INSTANCE Journals
Rule == INSTANCE Policies

\* No process has the name of none.
ASSUME NamesAssumption == Warm!Nobody \notin Procs

warmVars == <<index, files, archive, lock, aged, warmJob, robbed, ops, warmStops>>
coldVars ==
  <<bank, written, active, shown, roots, legacy, coldJob, marred, reads, writes, stops>>
turnVars ==
  <<runtime, msgs, thread, marked, guided, refresh, grace, turns, byRun, byThread,
    records, notes, lost, captures>>
journalVars == <<journal, rows, record, log, page, doing, truth, excused, steps, halts>>
vars == <<part, warmVars, coldVars, turnVars, journalVars, input>>

Init ==
  /\ part \in {"warm", "cold", "turns", "journals", "rules"}
  /\ Warm!WarmInit
  /\ Cold!ColdInit
  /\ Turns!MemoryInit
  /\ Kept!JournalInit
  /\ Rule!Init
  \* One beginning of what is not followed.
  /\ part # "cold" => ~legacy
  /\ part # "turns" => runtime = "codex" /\ \A m \in Said : msgs[m].stage = "new"
  /\ part # "journals" => journal = "tracks"
  /\ part # "rules" => input = Rule!Unasked("bridge")

Next ==
  \/ part = "warm" /\ Warm!WarmNext
       /\ UNCHANGED <<part, coldVars, turnVars, journalVars, input>>
  \/ part = "cold" /\ Cold!ColdNext
       /\ UNCHANGED <<part, warmVars, turnVars, journalVars, input>>
  \/ part = "turns" /\ Turns!MemoryNext
       /\ UNCHANGED <<part, warmVars, coldVars, journalVars, input>>
  \/ part = "journals" /\ Kept!JournalNext
       /\ UNCHANGED <<part, warmVars, coldVars, turnVars, input>>
  \/ part = "rules" /\ Rule!Next
       /\ UNCHANGED <<part, warmVars, coldVars, turnVars, journalVars>>

Spec == Init /\ [][Next]_vars

-----------------------------------------------------------------------------
\* Warm memory: as long as no lock was taken from a process at work, no change of
\* the other process is lost, whatever waited, stopped, gave up and found stale
\* locks: every write of the index keeps all but the fields that one operation
\* was asked to change, and a card that comes into the index has its file. (An
\* update is asked to change all that it read before it had the lock.)
WarmKept == [][index' # index /\ ~robbed => Warm!WriteKeepsOthers]_vars

\* Cold memory: when no process is at work, the active version can be read and
\* the next read serves the whole of it: after every write, every read of another
\* version, two processes that made the same projection at once, and a process
\* that stopped at any point of an activated write under a new label. Excepted
\* are two projections of different payloads at once, and a projection that was
\* cut off and was not of the active version, was of a version written twice, or
\* met a process about to make the version active that the index shows.
ColdServed == Cold!Quiet /\ active # 0 /\ ~marred => Cold!ServesActive

\* The conversation: whatever is superseded, found stale, given up, refused or ends
\* late, what is written of a message has the answer to this message and is written
\* once; a turn at work has its context; and no thread counts as having the
\* residents for which no packet had them. (Excepted are turns that the runtime gave no
\* id: they share what their thread keeps with each other, and lose it when another
\* turn of the thread is given up quietly.)
TurnsRemembered == Turns!RecordsPaired /\ Turns!ContextsKept /\ Turns!ResidentsKnown

\* The journals: as long as no operation met another one and none was cut between its
\* writes, at rest every journal is what its operations amount to, one by one: a track
\* that is closed is in the archive and no longer active, a change loses no row and
\* no observation, a case holds what its events brought whatever was written over it,
\* and the page shows the record with its whole log. (Where operations meet, or a
\* process stops halfway, rows, tracks and fields are lost: the stores have no locks.)
JournalsKept == Kept!AtRest /\ ~excused => Kept!Lasting

-----------------------------------------------------------------------------
\* Check-ins come when they may: the end of a quiet window is where it is said to be,
\* a pause for the day's budget lasts until the next day, a cooldown until the reset
\* that the notice announces, pressure on tokens never shortens an interval; and over
\* two days of rounds the check-ins keep the bounds their owner has set.
CheckinsTimely == Rule!TimesHonest /\ Rule!CheckinsInBounds

\* A reply reaches the user in order and, but for what does not fit into the
\* messages it may have, whole.
RepliesKept == Rule!RepliesKept

\* A thread that fills up is compacted or left in time, and its turns ask for no more
\* memory the fuller it is; the user's choice of a model means what it says.
ThreadsFit == Rule!ThreadsFit

\* A turn is given the memory that its words and its kind call for: the layers and the
\* days that are meant, in a prelude of the budget's size, with the best of the records
\* and one of each track; and the cards that match best or belong to every turn, each
\* in the packet that its owner's word and its matter allow.
MemoryDelivered == Rule!DeliveryHonest /\ Rule!CardsHonest

\* What is kept is changed and shown as it is: a patch of the cold memory changes the
\* item that its key shows and no other one, of each group of duplicates one stays, a
\* root that is asked for by its name is found first; a package keeps its conversation's
\* tail in order, a turn is noted once, and the best package is shown.
ItemsHonest == Rule!ColdHonest /\ Rule!HotHonest
=============================================================================
