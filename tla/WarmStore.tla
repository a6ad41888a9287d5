----------------------------- MODULE WarmStore ------------------------------
(***************************************************************************)
(* The warm memory cards: warm-memory/store.js under the operations of     *)
(* asherie-memory-service.js. The bridge and the tool host are two         *)
(* processes over the same files, kept apart by a lock directory; each     *)
(* file operation is a step, and a process may stop between two of them.   *)
(* A card has a text, a pin and the debt of its source; the counters and   *)
(* the access log are left out.                                            *)
(***************************************************************************)
EXTENDS Naturals, FiniteSets

CONSTANTS
  Procs,      \* the processes that use the store
  Cards,      \* material_id
  Texts,
  MaxOps,     \* bound on operations
  MaxStops    \* bound on crashes and on stalls of a process

Nobody == "nobody"
Kept == "kept"   \* a field that a payload does not have

NoCard == [text |-> "none", pinned |-> FALSE, owed |-> FALSE]

VARIABLES
  index,    \* index.json
  files,    \* the cards that have a markdown file
  archive,  \* the cards that have a local archive
  lock,     \* who made index.json.lock
  aged,     \* the lock is older than LOCK_STALE_MS
  job,      \* what each process is doing
  robbed,   \* a lock was taken from a process at work
  ops, stops

NoPay == [text |-> Kept, pinned |-> Kept, owed |-> Kept, bind |-> FALSE]
Idle == [pc |-> "idle", op |-> "none", card |-> "none", pay |-> NoPay,
         seen |-> [c \in Cards |-> NoCard]]

WarmInit ==
  /\ index = [c \in Cards |-> NoCard]
  /\ files = {}
  /\ archive = {}
  /\ lock = Nobody
  /\ aged = FALSE
  /\ job = [p \in Procs |-> Idle]
  /\ robbed = FALSE
  /\ ops = 0
  /\ stops = 0

Has(c) == index[c] # NoCard
At(p, pc) == job[p].pc = pc
Goto(p, pc) == job' = [job EXCEPT ![p].pc = pc]
Done(p) == job' = [job EXCEPT ![p] = Idle]

\* The process that made the lock is still inside withIndexLock.
Within == {"locked", "loaded", "filed", "written"}
Live == lock \in Procs /\ job[lock].pc \in Within

\* upsertMaterial: the card that a payload makes of the one that exists.
Upserted(old, pay) ==
  [text   |-> IF pay.text = Kept THEN old.text ELSE pay.text,
   pinned |-> IF pay.pinned = Kept THEN old.pinned ELSE pay.pinned = "yes",
   owed   |-> CASE pay.owed # Kept -> pay.owed = "yes"
                [] pay.owed = Kept /\ old = NoCard -> ~pay.bind
                [] OTHER -> old.owed /\ ~pay.bind]

\* updateWarmMaterial: the whole card with the changes over it.
Overlay(old, pay) ==
  [text   |-> IF pay.text = Kept THEN old.text ELSE pay.text,
   pinned |-> IF pay.pinned # Kept THEN pay.pinned ELSE IF old.pinned THEN "yes" ELSE "no",
   owed   |-> IF old.owed /\ ~pay.bind THEN "yes" ELSE "no",
   bind   |-> pay.bind]

Payloads ==
  {[NoPay EXCEPT !.text = t, !.bind = b] : t \in Texts, b \in BOOLEAN}

Changes ==
  {[NoPay EXCEPT !.text = t] : t \in Texts}
    \union {[NoPay EXCEPT !.pinned = "yes"], [NoPay EXCEPT !.bind = TRUE]}

-----------------------------------------------------------------------------
\* The operations, up to the lock.

Start(p, op, c, pay) ==
  /\ At(p, "idle") /\ ops < MaxOps
  /\ ops' = ops + 1
  /\ job' = [job EXCEPT ![p] = [Idle EXCEPT !.pc = "wait", !.op = op, !.card = c, !.pay = pay]]
  /\ UNCHANGED <<index, files, archive, lock, aged, robbed, stops>>

\* writeWarmMaterial, and writebackTurn with the cards of a turn.
Write(p) == \E c \in Cards, pay \in Payloads : Start(p, "write", c, pay)

\* updateWarmMaterial reads the card before it waits for the lock.
Update(p) ==
  \E c \in Cards, change \in Changes :
    Has(c) /\ Start(p, "update", c, Overlay(index[c], change))

Delete(p) == \E c \in Cards : Start(p, "delete", c, NoPay)

\* withIndexLock: a lock is made, waited for, given up, or removed as stale.
TakeLock(p) ==
  /\ At(p, "wait") /\ lock = Nobody
  /\ lock' = p /\ aged' = FALSE
  /\ Goto(p, "locked")
  /\ UNCHANGED <<index, files, archive, robbed, ops, stops>>

\* Mutant: when its time is over, a process goes on without the lock.
GoOnWithout(p) ==
  /\ At(p, "wait") /\ lock # Nobody /\ ~aged
  /\ Goto(p, "locked")
  /\ UNCHANGED <<index, files, archive, lock, aged, robbed, ops, stops>>

GiveUp(p) ==
  /\ At(p, "wait") /\ lock # Nobody /\ ~aged
  /\ Done(p)
  /\ UNCHANGED <<index, files, archive, lock, aged, robbed, ops, stops>>

FindStale(p) ==
  /\ At(p, "wait") /\ lock # Nobody /\ aged
  /\ Goto(p, "breaking")
  /\ UNCHANGED <<index, files, archive, lock, aged, robbed, ops, stops>>

\* What is removed is the lock that is there by now.
BreakLock(p) ==
  /\ At(p, "breaking")
  /\ robbed' = (robbed \/ Live)
  /\ lock' = Nobody /\ aged' = FALSE
  /\ Goto(p, "wait")
  /\ UNCHANGED <<index, files, archive, ops, stops>>

-----------------------------------------------------------------------------
\* Inside the lock.

\* readIndex.
ReadIndex(p) ==
  /\ At(p, "locked")
  /\ job' = [job EXCEPT ![p].pc = "loaded", ![p].seen = index]
  /\ UNCHANGED <<index, files, archive, lock, aged, robbed, ops, stops>>

\* The markdown file is written, or removed with the card.
ChangeFile(p) ==
  /\ At(p, "loaded")
  /\ LET c == job[p].card IN
       CASE job[p].op # "delete" ->
              files' = files \union {c} /\ Goto(p, "filed")
         [] job[p].op = "delete" /\ job[p].seen[c] # NoCard ->
              files' = files \ {c} /\ Goto(p, "filed")
         [] OTHER -> files' = files /\ Goto(p, "written")
  /\ UNCHANGED <<index, archive, lock, aged, robbed, ops, stops>>

\* writeIndex: the index that was read, with the card changed, replaces the file.
WriteIndex(p) ==
  /\ At(p, "filed")
  /\ LET c == job[p].card
         seen == job[p].seen
     IN index' = [seen EXCEPT ![c] =
          IF job[p].op = "delete" THEN NoCard ELSE Upserted(seen[c], job[p].pay)]
  /\ Goto(p, "written")
  /\ UNCHANGED <<files, archive, lock, aged, robbed, ops, stops>>

\* The lock is removed, whoever made it.
Release(p) ==
  /\ At(p, "written")
  /\ robbed' = (robbed \/ (lock # p /\ Live))
  /\ lock' = Nobody /\ aged' = FALSE
  /\ IF job[p].op = "write" THEN Goto(p, "archive") ELSE Done(p)
  /\ UNCHANGED <<index, files, archive, ops, stops>>

\* LocalArchiveStore.upsertWarmMaterial, after the lock.
Archive(p) ==
  /\ At(p, "archive")
  /\ archive' = archive \union {job[p].card}
  /\ Done(p)
  /\ UNCHANGED <<index, files, lock, aged, robbed, ops, stops>>

-----------------------------------------------------------------------------
\* A process stops, and its lock stays; a lock grows old when its process is
\* gone or, as a fault, does not go on.

StopProcess(p) ==
  /\ ~At(p, "idle") /\ stops < MaxStops
  /\ stops' = stops + 1
  /\ Done(p)
  /\ UNCHANGED <<index, files, archive, lock, aged, robbed, ops>>

Age ==
  /\ lock # Nobody /\ ~aged
  /\ IF Live THEN stops < MaxStops /\ stops' = stops + 1 ELSE stops' = stops
  /\ aged' = TRUE
  /\ UNCHANGED <<index, files, archive, lock, job, robbed, ops>>

WarmNext ==
  \/ \E p \in Procs :
       \/ Write(p) \/ Update(p) \/ Delete(p)
       \/ TakeLock(p) \/ GiveUp(p) \/ FindStale(p) \/ BreakLock(p)
       \/ ReadIndex(p) \/ ChangeFile(p) \/ WriteIndex(p) \/ Release(p) \/ Archive(p)
       \/ StopProcess(p)
  \/ Age

-----------------------------------------------------------------------------
\* What a write of the index puts in place of the current one differs from it in
\* the card of one operation, and there in what that operation was asked to change.
WriteKeepsOthers ==
  \E p \in Procs :
    /\ At(p, "filed")
    /\ LET c == job[p].card IN
         /\ \A d \in Cards \ {c} : index'[d] = index[d]
         /\ IF job[p].op = "delete" THEN index'[c] = NoCard
            ELSE index'[c] = Upserted(index[c], job[p].pay) /\ c \in files
=============================================================================
