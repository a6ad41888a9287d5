------------------------------- MODULE Journals -------------------------------
(***************************************************************************)
(* The memory's journals (asherie/): ongoing tracks, case files, episodes  *)
(* and observations. Each is a file that is read whole, changed and        *)
(* written back whole, with a log beside it that is only appended to, or,  *)
(* for tracks, an archive. The bridge and the tool host use them at once   *)
(* and without locks; a file is empty while it is written, and a process   *)
(* may stop between any two steps.                                         *)
(*                                                                         *)
(* A behaviour follows one journal: that of the tracks or of the           *)
(* observations has rows, a case or an episode is a record.                *)
(***************************************************************************)
EXTENDS Naturals, Sequences

CONSTANTS
  Procs,
  Ids,        \* tracks or observations; the items that are put in a case or an episode
  MaxActive,  \* maxActiveRecords
  MaxSteps, MaxHalts  \* bounds on operations and on stops

Statuses == {"active", "settled"}
NoStatus == "none"
\* A file that is not there, is empty or cannot be parsed.
NoRecord == [status |-> NoStatus, items |-> {}]

VARIABLES
  journal,  \* "tracks", "observations", "case" or "episode"
  rows,     \* the tracks' active file, or the observations' month
  record,   \* case.json or episode.json
  log,      \* the archive, events.jsonl or entries.jsonl
  page,     \* case.md or episode.md: the record and the log that it shows
  doing,    \* what each process is at
  truth,    \* what the operations that came to their write amount to, one by one
  excused,  \* an operation met another one, or was cut between its writes
  steps, halts

\* first: what an operation found when it began; then: what follows its next export.
Resting == [op |-> "none", pc |-> "rest", id |-> "none", status |-> NoStatus,
            rows |-> <<>>, record |-> NoRecord, first |-> NoRecord, then |-> "rest"]
NoPage == [record |-> NoRecord, log |-> {}]

JournalInit ==
  /\ journal \in {"tracks", "observations", "case", "episode"}
  /\ rows = <<>> /\ record = NoRecord /\ log = {} /\ page = NoPage
  /\ doing = [p \in Procs |-> Resting]
  /\ truth = [rows |-> <<>>, log |-> {}, record |-> NoRecord]
  /\ excused = FALSE /\ steps = 0 /\ halts = 0

In(p, pc) == doing[p].pc = pc
Put(p, job) == doing' = [doing EXCEPT ![p] = job]
HasRows == journal \in {"tracks", "observations"}
\* Nothing is read or written yet.
Untouched(p) ==
  \/ doing[p].pc \in {"rest", "read", "append", "look"}
  \/ In(p, "get") /\ doing[p].op = "upsert"
\* An operation that touches the files meets one that is between its first read and
\* its last write.
Meets(p) == excused' = (excused \/ \E q \in Procs \ {p} : ~Untouched(q))
Has(s, id) == \E i \in DOMAIN s : s[i] = id
Without(s, id) == SelectSeq(s, LAMBDA r : r # id)
\* saveActive keeps the last rows.
Kept(s) == SubSeq(s, IF Len(s) > MaxActive THEN Len(s) - MaxActive + 1 ELSE 1, Len(s))

-----------------------------------------------------------------------------
\* What is asked for.

Start(p, op, id, status, pc) ==
  /\ In(p, "rest") /\ steps < MaxSteps
  /\ steps' = steps + 1
  /\ Put(p, [Resting EXCEPT !.op = op, !.id = id, !.status = status, !.pc = pc])
  /\ UNCHANGED <<journal, rows, record, log, page, truth, excused, halts>>

\* upsertOngoingTrack, closeOngoingTrack and the store's delete.
TrackOperation(p) ==
  /\ journal = "tracks"
  /\ \E op \in {"upsert", "close", "delete"}, id \in Ids : Start(p, op, id, NoStatus, "read")
\* appendObservation and updateObservation.
ObservationOperation(p) ==
  /\ journal = "observations"
  /\ \E id \in Ids : \/ Start(p, "append", id, NoStatus, "append")
                     \/ Start(p, "update", id, NoStatus, "read")
\* upsertCase, appendCaseEvent (linkCaseArtifact goes through it) and closeCase.
CaseOperation(p) ==
  /\ journal = "case"
  /\ \/ \E s \in Statuses, id \in Ids : Start(p, "upsert", id, s, "get")
     \/ \E id \in Ids : Start(p, "log", id, NoStatus, "look")
     \/ Start(p, "close", "closed", "settled", "look")
\* upsertEpisode and appendEpisodeEntry.
EpisodeOperation(p) ==
  /\ journal = "episode"
  /\ \/ \E s \in Statuses : Start(p, "upsert", "none", s, "get")
     \/ \E id \in Ids : Start(p, "log", id, NoStatus, "look")

-----------------------------------------------------------------------------
\* Rows. writeFileSync empties the file and then fills it; an empty one has no rows.

\* What an operation writes: a track that is changed becomes the last.
Changed(op, id, s) ==
  IF op = "update" THEN s
  ELSE Kept(Without(s, id) \o (IF op = "upsert" THEN <<id>> ELSE <<>>))

\* loadActive, findById.
ReadRows(p) ==
  LET j == doing[p]
  IN /\ In(p, "read")
     /\ Put(p, IF j.op = "upsert" \/ Has(rows, j.id)
               THEN [j EXCEPT !.pc = "write", !.rows = rows] ELSE Resting)
     /\ Meets(p)
     /\ UNCHANGED <<journal, rows, record, log, page, truth, steps, halts>>

\* The observation's line is appended (its month is not read).
AppendRow(p) ==
  /\ In(p, "append")
  /\ Put(p, Resting)
  /\ rows' = Append(rows, doing[p].id)
  /\ truth' = [truth EXCEPT !.rows = Append(@, doing[p].id)]
  /\ Meets(p)
  /\ UNCHANGED <<journal, record, log, page, steps, halts>>

EmptyRows(p) ==
  /\ In(p, "write") /\ HasRows
  /\ Put(p, [doing[p] EXCEPT !.pc = "fill"])
  /\ rows' = <<>>
  /\ Meets(p)
  /\ UNCHANGED <<journal, record, log, page, truth, steps, halts>>
FillRows(p) ==
  LET j == doing[p]
  IN /\ In(p, "fill") /\ HasRows
     /\ Put(p, IF j.op = "close" THEN [j EXCEPT !.pc = "archive"] ELSE Resting)
     /\ rows' = Changed(j.op, j.id, j.rows)
     /\ truth' = [truth EXCEPT
          !.rows = IF j.op = "update" THEN @
                   ELSE Kept(Without(@, j.id) \o (IF j.op = "upsert" THEN <<j.id>> ELSE <<>>)),
          !.log = IF j.op = "close" THEN @ \union {j.id} ELSE @]
     /\ Meets(p)
     /\ UNCHANGED <<journal, record, log, page, steps, halts>>
\* appendArchive.
Archive(p) ==
  /\ In(p, "archive")
  /\ Put(p, Resting)
  /\ log' = log \union {doing[p].id}
  /\ UNCHANGED <<journal, rows, record, page, truth, excused, steps, halts>>

-----------------------------------------------------------------------------
\* Records.

\* get: the record's file is there and can be read.
Found == record # NoRecord

\* appendEvent, appendEntry and close look for the record first; the first two make
\* one that is missing, the last does nothing without one.
Look(p) ==
  LET j == doing[p]
  IN /\ In(p, "look")
     /\ Put(p, CASE Found /\ j.op = "log" -> [j EXCEPT !.pc = "note", !.first = record]
                 [] Found /\ j.op = "close" ->
                      [j EXCEPT !.pc = "get", !.first = record, !.then = "note"]
                 [] ~Found /\ j.op = "log" -> [j EXCEPT !.pc = "get", !.then = "note"]
                 [] ~Found /\ j.op = "close" -> Resting)
     /\ Meets(p)
     /\ UNCHANGED <<journal, rows, record, log, page, truth, steps, halts>>
\* The event or the entry is appended, and the record is written after it.
Note(p) ==
  LET j == doing[p]
  IN /\ In(p, "note")
     /\ Put(p, [j EXCEPT !.pc = "get", !.then = "rest", !.status = NoStatus])
     /\ log' = log \union {j.id}
     /\ Meets(p)
     /\ UNCHANGED <<journal, rows, record, page, truth, steps, halts>>
\* upsert reads the record, empties its file, fills it and has the page exported.
Get(p) ==
  /\ In(p, "get")
  /\ Put(p, [doing[p] EXCEPT !.pc = "write", !.record = record])
  /\ Meets(p)
  /\ UNCHANGED <<journal, rows, record, log, page, truth, steps, halts>>
EmptyRecord(p) ==
  /\ In(p, "write") /\ ~HasRows
  /\ Put(p, [doing[p] EXCEPT !.pc = "fill"])
  /\ record' = NoRecord
  /\ Meets(p)
  /\ UNCHANGED <<journal, rows, log, page, truth, steps, halts>>

StatusOf(r) == IF r = NoRecord THEN "active" ELSE r.status
\* eventToCasePatch: a case takes in what its event or its update brings.
Brought(j) ==
  IF journal = "case" /\ j.op # "close" /\ j.then = "rest" THEN {j.id} ELSE {}
\* Mutant: what the record held is lost.
WrittenAlone(j) == [status |-> StatusOf(j.record), items |-> Brought(j)]
\* What is written over the record that was read: an entry writes back the episode,
\* and a close the case, that it found when it began.
WrittenOver(j) ==
  [status |-> IF j.status # NoStatus THEN j.status
              ELSE IF journal = "episode" /\ j.then = "rest" THEN StatusOf(j.first)
              ELSE StatusOf(j.record),
   items |-> j.record.items \union Brought(j)
             \union (IF j.op = "close" /\ j.then = "note" THEN j.first.items ELSE {})]
FillRecord(p) ==
  LET j == doing[p]
  IN /\ In(p, "fill") /\ ~HasRows
     /\ Put(p, [j EXCEPT !.pc = "export"])
     /\ record' = WrittenOver(j)
     /\ truth' = [truth EXCEPT !.record =
          [status |-> IF j.status # NoStatus THEN j.status ELSE StatusOf(@),
           items |-> @.items \union Brought(j)]]
     /\ Meets(p)
     /\ UNCHANGED <<journal, rows, log, page, steps, halts>>

\* exportMarkdown; the entry that follows writes back the episode as it is now.
Export(p) ==
  LET j == doing[p]
  IN /\ In(p, "export")
     /\ Put(p, IF j.then = "rest" THEN Resting ELSE [j EXCEPT !.pc = "note", !.first = record])
     /\ page' = IF ~Found THEN page ELSE [record |-> record, log |-> log]
     /\ Meets(p)
     /\ UNCHANGED <<journal, rows, record, log, truth, steps, halts>>

\* A file is empty, or what was archived, logged or written has not reached the rest.
CutShort(j) ==
  \/ j.pc \in {"fill", "archive", "export"}
  \/ ~HasRows /\ j.op # "upsert" /\ j.then = "rest" /\ j.pc \in {"get", "write"}
\* A process stops. An operation that has written nothing is as if never asked for.
Halt(p) ==
  LET j == doing[p]
  IN /\ ~In(p, "rest") /\ halts < MaxHalts
     /\ halts' = halts + 1
     /\ Put(p, Resting)
     /\ excused' = (excused \/ CutShort(j))
     /\ UNCHANGED <<journal, rows, record, log, page, truth, steps>>

JournalNext ==
  \E p \in Procs :
    \/ TrackOperation(p) \/ ObservationOperation(p) \/ CaseOperation(p) \/ EpisodeOperation(p)
    \/ ReadRows(p) \/ AppendRow(p) \/ EmptyRows(p) \/ FillRows(p) \/ Archive(p)
    \/ Look(p) \/ Note(p) \/ Get(p) \/ EmptyRecord(p) \/ FillRecord(p) \/ Export(p)
    \/ Halt(p)

-----------------------------------------------------------------------------
\* Parts of the property JournalsKept (see Services).

AtRest == \A p \in Procs : In(p, "rest")
\* The rows, the archive and the record are what the operations amount to, one by one;
\* a case holds what its events brought; the page shows the record with its whole log.
Lasting ==
  /\ rows = truth.rows /\ record = truth.record
  /\ journal = "tracks" => log = truth.log
  /\ ~HasRows => page = [record |-> record, log |-> log]
  /\ journal = "case" => log \ {"closed"} \subseteq record.items
=============================================================================
