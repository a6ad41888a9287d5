----------------------------- MODULE ColdRoots ------------------------------
(***************************************************************************)
(* The cold memory: the versions of memory-version-bank.js and the roots   *)
(* that cold-root-store.js projects from one of them. A read makes sure of *)
(* the projection and so may write it. The bridge and the tool host do     *)
(* this on the same files without a lock, and a process may stop between   *)
(* two file operations, or in the middle of one.                           *)
(* A payload gives some keys a value.                                      *)
(***************************************************************************)
EXTENDS Naturals, FiniteSets

CONSTANTS
  Procs,      \* the processes that use the store
  Keys,       \* root keys
  Values,
  MaxLabel,   \* bound on version labels
  MaxReads, MaxWrites, MaxStops  \* bounds on operations and on crashes

Labels == 1..MaxLabel
NoLabel == 0
Absent == "absent"
Payloads == [Keys -> Values \union {Absent}]
Empty == [k \in Keys |-> Absent]

VARIABLES
  bank,     \* the payloads of the version files
  written,  \* the labels whose version file can be read
  active,   \* active_version of the manifest
  shown,    \* active-index.json: the version it shows and the keys of its rows
  roots,    \* the root files
  legacy,   \* there is a snapshot of the older store
  job,      \* what each process is doing
  marred,   \* see Meet and Spoils
  reads, writes, stops

KeysOf(pay) == {k \in Keys : pay[k] # Absent}
NoIndex == [version |-> NoLabel, keys |-> {}]

Idle ==
  [pc |-> "idle", op |-> "none", want |-> NoLabel, to |-> NoLabel, key |-> "none",
   value |-> Absent, label |-> NoLabel, pay |-> Empty, rows |-> {},
   again |-> FALSE]

ColdInit ==
  /\ bank = [l \in Labels |-> Empty]
  /\ written = {}
  /\ active = NoLabel
  /\ shown = NoIndex
  /\ roots = Empty
  /\ legacy \in BOOLEAN
  /\ job = [p \in Procs |-> Idle]
  /\ marred = FALSE
  /\ reads = 0
  /\ writes = 0
  /\ stops = 0

At(p, pc) == job[p].pc = pc
Goto(p, pc) == job' = [job EXCEPT ![p].pc = pc]
Done(p) == job' = [job EXCEPT ![p] = Idle]
Others(p) == Procs \ {p}

\* The roots are no longer those of the index. (A job is "again" when its version
\* was written before, or was shown by the time of its projection.)
Projecting(p) == job[p].pc \in {"roots", "index"}

\* Two projections of different payloads meet.
Meet(p) == \E q \in Others(p) : Projecting(q) /\ job[q].pay # job[p].pay

-----------------------------------------------------------------------------
\* The operations.

\* searchRoots, inspectDuplicateRoots, readRoot and describeActiveSource, with
\* or without a version.
Read(p) ==
  \E want \in Labels \union {NoLabel} :
    /\ At(p, "idle") /\ reads < MaxReads
    /\ reads' = reads + 1
    /\ job' = [job EXCEPT ![p] = [Idle EXCEPT !.pc = "ensure", !.op = "read", !.want = want]]
    /\ UNCHANGED <<bank, written, active, shown, roots, legacy, marred, writes, stops>>

StartWrite(p, j) ==
  /\ At(p, "idle") /\ writes < MaxWrites
  /\ writes' = writes + 1
  /\ job' = [job EXCEPT ![p] = j]
  /\ UNCHANGED <<bank, written, active, shown, roots, legacy, marred, reads, stops>>

\* persistColdVersion: a payload under a new or a given label becomes the active
\* version. A label that is not given counts seconds.
Persist(p) ==
  \E pay \in Payloads, label \in Labels :
    StartWrite(p, [Idle EXCEPT !.pc = "bank", !.op = "write", !.label = label, !.pay = pay])

\* patchRoot: one key gets a value or, with none, is deleted.
Patch(p) ==
  \E to \in Labels, k \in Keys, v \in Values \union {Absent} :
    StartWrite(p, [Idle EXCEPT !.pc = "ensure", !.op = "patch", !.to = to, !.key = k,
                               !.value = v])

-----------------------------------------------------------------------------
\* The steps.

Loaded(want) == IF want = NoLabel THEN active ELSE want
Readable(label) == label # NoLabel /\ label \in written

Project(p, label, pay) ==
  job' = [job EXCEPT ![p].pc = "clear", ![p].label = label, ![p].pay = pay,
                     ![p].rows = KeysOf(pay)]

\* loadIndex: the index shows the version.
Shows(label) == shown.version = label
\* loadLegacyIndex: the older store serves who asks for no version.
Legacy(want) == want = NoLabel /\ legacy

\* ensureProjection: the older store serves, and refuses a patch; an empty index
\* is written; the index that is there serves; or the version is projected.
Ensure(p) ==
  LET want == job[p].want
      label == Loaded(want)
  IN
  /\ At(p, "ensure")
  /\ CASE ~Readable(label) /\ Legacy(want) -> Done(p)
       [] ~Readable(label) /\ ~Legacy(want) -> Project(p, NoLabel, Empty)
       [] Readable(label) /\ Shows(label) ->
            IF job[p].op = "read" THEN Done(p)
            ELSE job' = [job EXCEPT ![p].pc = "patch", ![p].label = label,
                                    ![p].rows = shown.keys]
       [] OTHER -> Project(p, label, bank[label])
  /\ UNCHANGED <<bank, written, active, shown, roots, legacy, marred, reads, writes, stops>>

\* patchRoot after the projection: the row, then its item in the version it came
\* from, and the payload of the next version.
MakePatch(p) ==
  LET j == job[p] IN
  /\ At(p, "patch")
  /\ IF j.key \in j.rows /\ j.label \in written /\ bank[j.label][j.key] # Absent
     THEN job' = [job EXCEPT ![p].pc = "bank", ![p].op = "write", ![p].label = j.to,
                             ![p].pay = [bank[j.label] EXCEPT ![j.key] = j.value]]
     ELSE Done(p)
  /\ UNCHANGED <<bank, written, active, shown, roots, legacy, marred, reads, writes, stops>>

\* upsertVersion: the version file, then the manifest that points to it. A
\* version that another process has written or loaded, to project it, is changed
\* under it.
WriteVersion(p) ==
  LET label == job[p].label IN
  /\ At(p, "bank")
  /\ bank' = [bank EXCEPT ![label] = job[p].pay]
  /\ written' = written \union {label}
  /\ job' = [job EXCEPT ![p].pc = "manifest", ![p].again = label \in written]
  /\ marred' = (marred \/ \E q \in Others(p) :
       job[q].label = label /\ (job[q].pc \in {"manifest", "clear"} \/ Projecting(q)))
  /\ UNCHANGED <<active, shown, roots, legacy, reads, writes, stops>>

WriteManifest(p) ==
  /\ At(p, "manifest")
  /\ active' = job[p].label
  /\ Goto(p, "clear")
  /\ UNCHANGED <<bank, written, shown, roots, legacy, marred, reads, writes, stops>>

\* Mutant: the index is written before the roots.
ClearAndWriteIndex(p) ==
  /\ At(p, "clear")
  /\ roots' = Empty
  /\ shown' = [version |-> job[p].label, keys |-> KeysOf(job[p].pay)]
  /\ job' = [job EXCEPT ![p].pc = "roots", ![p].again = @ \/ Shows(job[p].label)]
  /\ marred' = (marred \/ Meet(p))
  /\ UNCHANGED <<bank, written, active, legacy, reads, writes, stops>>

\* projectVersion and writeEmptyIndex: the roots are removed, those of the
\* version are written, then the index.
ClearRoots(p) ==
  /\ At(p, "clear")
  /\ roots' = Empty
  /\ job' = [job EXCEPT ![p].pc = "roots", ![p].again = @ \/ Shows(job[p].label)]
  /\ marred' = (marred \/ Meet(p))
  /\ UNCHANGED <<bank, written, active, shown, legacy, reads, writes, stops>>

WriteRoots(p) ==
  /\ At(p, "roots")
  /\ roots' = [k \in Keys |-> IF job[p].pay[k] # Absent THEN job[p].pay[k] ELSE roots[k]]
  /\ Goto(p, "index")
  /\ UNCHANGED <<bank, written, active, shown, legacy, marred, reads, writes, stops>>

WriteIndex(p) ==
  /\ At(p, "index")
  /\ shown' = [version |-> job[p].label, keys |-> KeysOf(job[p].pay)]
  /\ job' = [q \in Procs |->
       IF q # p THEN [job[q] EXCEPT !.again = @ \/ Projecting(q)]
       ELSE IF job[p].op = "patch" THEN [job[p] EXCEPT !.pc = "patch"] ELSE Idle]
  /\ UNCHANGED <<bank, written, active, roots, legacy, marred, reads, writes, stops>>

-----------------------------------------------------------------------------
\* A process stops. The projection it leaves may be of another version than the
\* active one, of one that the index showed before, or shared; or a version that
\* the index shows is about to become the active one.
Spoils(p) ==
  \/ job[p].again
  \/ At(p, "bank") /\ job[p].label \in written
  \/ /\ Projecting(p)
     /\ \/ job[p].label # active
        \/ \E q \in Others(p) :
             Projecting(q) \/ (At(q, "manifest") /\ Shows(job[q].label))

Stop(p) ==
  /\ ~At(p, "idle") /\ stops < MaxStops
  /\ stops' = stops + 1
  /\ marred' = (marred \/ Spoils(p))
  /\ Done(p)
  /\ UNCHANGED <<bank, legacy, reads, writes>>

StopBetween(p) == Stop(p) /\ UNCHANGED <<written, active, shown, roots>>

\* A file that was being written is cut short: a version cannot be read, a
\* manifest is replaced by an empty one (loadManifest), an index counts as none.
StopWithin(p) ==
  /\ Stop(p)
  /\ \/ /\ At(p, "bank")
        /\ written' = written \ {job[p].label}
        /\ UNCHANGED <<active, shown, roots>>
     \/ /\ At(p, "manifest")
        /\ active' = NoLabel
        /\ UNCHANGED <<written, shown, roots>>
     \/ /\ At(p, "index")
        /\ shown' = NoIndex
        /\ UNCHANGED <<written, active, roots>>

ColdNext ==
  \E p \in Procs :
    \/ Read(p) \/ Persist(p) \/ Patch(p)
    \/ Ensure(p) \/ MakePatch(p) \/ WriteVersion(p) \/ WriteManifest(p)
    \/ ClearRoots(p) \/ WriteRoots(p) \/ WriteIndex(p)
    \/ StopBetween(p) \/ StopWithin(p)

-----------------------------------------------------------------------------
\* What the next read without a version serves.
Served ==
  IF shown.version = active
  THEN [k \in Keys |-> IF k \in shown.keys THEN roots[k] ELSE Absent]
  ELSE bank[active]

\* The active version can be read, and the next read serves the whole of it.
ServesActive == active \in written /\ Served = bank[active]

Quiet == \A p \in Procs : At(p, "idle")
=============================================================================
