---------------------------- MODULE TelegramWrites ----------------------------
(***************************************************************************)
(* Storing the file of one claimed item of a Telegram job: the worker that *)
(* holds the lease of the item (processFileUpload), the journal of its     *)
(* writes (telegramWriteReconciliation.ts) and the sweep of the journal    *)
(* by the recovery worker.                                                 *)
(*                                                                         *)
(* A worker is one claim of the item and stands for its lease token.  It   *)
(* tries twice; a write is a try of a worker, and names the object, the    *)
(* row of files and the journal row of that try.  What ChannelJobs does to *)
(* an item as a whole (claim, restore, reset) is atomic here; what it does *)
(* as one settlement is spelled out.                                       *)
(***************************************************************************)
EXTENDS Naturals

CONSTANTS
    Workers,   \* claims of the item
    None,      \* SQL NULL
    MaxFaults  \* bound on errors and crashes

ASSUME WritesAssumption == None \notin Workers \cup (Workers \X {1, 2}) /\ MaxFaults \in Nat

VARIABLES
    item,      \* the row of telegram_download_items
    journal,   \* telegram_write_reconciliations, by write
    object,    \* writes whose object is at the provider
    files,     \* writes whose row is in files
    worker,    \* the workers: the await they are at and what they remember
    sweep,     \* the loop over claimed journal rows
    won,       \* history: the write that settled the item as a success
    overlapped,\* history: writes that were swept while their worker was alive
    unsure,    \* history: writes with an effect that was reported as failed
    faults

vars == << item, journal, object, files, worker, sweep, won, overlapped, unsure, faults >>
history == << won, overlapped, unsure >>
outside == << object, files >>

Writes == Workers \X {1, 2}
NoRow == [status |-> "none", resolution |-> "none", object |-> "unknown", index |-> "unknown",
          path |-> FALSE, file |-> FALSE, lease |-> "free"]
Worker(label) == [pc |-> label, try |-> 1, named |-> FALSE, journaled |-> FALSE, path |-> FALSE,
                  file |-> FALSE, lost |-> FALSE, object |-> "unknown", index |-> "unknown"]
IdleSweep == [pc |-> "idle", todo |-> {}, at |-> None, snap |-> [x \in Writes |-> NoRow],
              object |-> "unknown", index |-> "unknown"]

Init ==
    /\ item = [st |-> "pending", token |-> None, leased |-> FALSE]
    /\ journal = [x \in Writes |-> NoRow]
    /\ object = {} /\ files = {}
    /\ worker = [w \in Workers |-> Worker("idle")]
    /\ sweep = IdleSweep
    /\ won = None /\ overlapped = {} /\ unsure = {} /\ faults = 0

Alive(w) == worker[w].pc \notin {"idle", "over"}
Write(w) == << w, worker[w].try >>
Pending(x) == journal[x].status = "pending"
\* The unique index of pending rows, and the NOT EXISTS of claim and reset.
Unsettled == \E x \in Writes : Pending(x)
\* Mutant: the token is left out of the settlement.
HoldsStatus(w) == item.st = "downloading"
Holds(w) == item.st = "downloading" /\ item.token = w

Fault == faults < MaxFaults /\ faults' = faults + 1
Smooth == UNCHANGED faults
Set(w, new) == worker' = [worker EXCEPT ![w] = new]
At(w, label) == [worker[w] EXCEPT !.pc = label]
Goto(w, label) == Set(w, At(w, label))
-----------------------------------------------------------------------------
(* save(): journal, object, row of files                                    *)

Claim(w) ==
    /\ worker[w].pc = "idle" /\ item.st = "pending" /\ ~Unsettled
    /\ item' = [st |-> "downloading", token |-> w, leased |-> TRUE]
    /\ Goto(w, "begin")
    /\ UNCHANGED << journal, outside, sweep, history, faults >>

\* beginTelegramWriteReconciliation, when the job is named in the reference.
Begin(w) ==
    /\ worker[w].pc = "begin"
    /\ IF worker[w].named
       THEN IF Holds(w) /\ ~Unsettled
            THEN /\ journal' = [journal EXCEPT ![Write(w)] = [NoRow EXCEPT !.status = "pending"]]
                 /\ Set(w, [At(w, "save") EXCEPT !.journaled = TRUE])
            ELSE Goto(w, "failed") /\ UNCHANGED journal
       ELSE Goto(w, "save") /\ UNCHANGED journal
    /\ Smooth /\ UNCHANGED << item, outside, sweep, history >>

\* The catch of save(): without a journal row nothing is undone.
AfterError(w) ==
    IF ~worker[w].journaled THEN "failed"
    ELSE IF worker[w].path THEN "undo_object"
    ELSE IF worker[w].file THEN "undo_index" ELSE "undo_persist"

SaveFile(w) ==
    /\ worker[w].pc = "save"
    /\ \/ /\ object' = object \cup {Write(w)} /\ Smooth
          /\ Set(w, [At(w, IF worker[w].journaled THEN "mark_object" ELSE "insert") EXCEPT !.path = TRUE])
       \/ /\ Fault /\ object' \in {object, object \cup {Write(w)}}
          /\ Set(w, [At(w, AfterError(w)) EXCEPT !.index = "deleted"])
    /\ UNCHANGED << item, journal, files, sweep, history >>

\* An error of a statement in save(), by a fault or because it finds no row.
Throws(w) == Set(w, [At(w, AfterError(w)) EXCEPT !.index = IF worker[w].file THEN "unknown" ELSE "deleted"])

MarkObject(w) ==
    /\ worker[w].pc = "mark_object"
    /\ \/ /\ Pending(Write(w)) /\ Smooth /\ Goto(w, "insert")
          /\ journal' = [journal EXCEPT ![Write(w)].path = TRUE, ![Write(w)].object = "present"]
       \/ (IF Pending(Write(w)) THEN Fault ELSE Smooth) /\ Throws(w) /\ UNCHANGED journal
    /\ UNCHANGED << item, outside, sweep, history >>

InsertFile(w) ==
    /\ worker[w].pc = "insert"
    /\ \/ /\ files' = files \cup {Write(w)} /\ Smooth /\ UNCHANGED unsure
          /\ Set(w, [At(w, IF worker[w].journaled THEN "mark_index" ELSE "validate") EXCEPT !.file = TRUE])
       \/ Fault /\ Throws(w) /\ UNCHANGED << files, unsure >>
       \/ Fault /\ Throws(w) /\ files' = files \cup {Write(w)} /\ unsure' = unsure \cup {Write(w)}
    /\ UNCHANGED << item, journal, object, sweep, won, overlapped >>

MarkIndex(w) ==
    /\ worker[w].pc = "mark_index"
    /\ \/ /\ Pending(Write(w)) /\ Smooth /\ Goto(w, "validate")
          /\ journal' = [journal EXCEPT ![Write(w)].file = TRUE, ![Write(w)].index = "present"]
       \/ (IF Pending(Write(w)) THEN Fault ELSE Smooth) /\ Throws(w) /\ UNCHANGED journal
    /\ UNCHANGED << item, outside, sweep, history >>

UndoObject(w) ==
    /\ worker[w].pc = "undo_object"
    /\ LET next == IF worker[w].file THEN "undo_index" ELSE "undo_persist" IN
       \/ object' = object \ {Write(w)} /\ Smooth /\ Set(w, [At(w, next) EXCEPT !.object = "deleted"])
       \/ object' \in {object, object \ {Write(w)}} /\ Fault /\ Goto(w, next)
    /\ UNCHANGED << item, journal, files, sweep, history >>

\* An index row that is gone already counts as an error here.
UndoIndex(w) ==
    /\ worker[w].pc = "undo_index"
    /\ \/ /\ Write(w) \in files /\ files' = files \ {Write(w)} /\ Smooth
          /\ Set(w, [At(w, "undo_persist") EXCEPT !.index = "deleted"])
       \/ /\ IF Write(w) \in files THEN Fault ELSE Smooth
          /\ UNCHANGED files /\ Goto(w, "undo_persist")
    /\ UNCHANGED << item, journal, object, sweep, history >>

\* Mutant: a row is resolved when its object is gone.
CompensatedObject(objectState, indexState) == objectState = "deleted"
Compensated(objectState, indexState) == objectState = "deleted" /\ indexState = "deleted"
\* Mutant: the resolution is written where the status belongs.
EvidenceTwice(x, objectState, indexState) ==
    [journal EXCEPT ![x].object = objectState, ![x].index = indexState, ![x].lease = "free",
                    ![x].status = IF Compensated(objectState, indexState) THEN "compensated" ELSE @]
\* The update both compensations and the sweep end with.
Evidence(x, objectState, indexState) ==
    [journal EXCEPT ![x].object = objectState, ![x].index = indexState, ![x].lease = "free",
                    ![x].status = IF Compensated(objectState, indexState) THEN "resolved" ELSE "pending",
                    ![x].resolution = IF Compensated(objectState, indexState) THEN "compensated" ELSE @]

UndoPersist(w) ==
    /\ worker[w].pc = "undo_persist" /\ Goto(w, "failed")
    /\ \/ /\ Pending(Write(w)) /\ Smooth
          /\ journal' = Evidence(Write(w), worker[w].object, worker[w].index)
       \/ (IF Pending(Write(w)) THEN Fault ELSE Smooth) /\ UNCHANGED journal
    /\ UNCHANGED << item, outside, sweep, history >>
-----------------------------------------------------------------------------
(* runLeaseProtectedTelegramSave: validate, settle, compensate              *)

\* The job was cancelled or the download aborted; or the work goes on.
Validate(w) ==
    /\ worker[w].pc = "validate"
    /\ \E label \in {"settle", "comp_object"} : Goto(w, label)
    /\ Smooth /\ UNCHANGED << item, journal, outside, sweep, history >>

\* The transaction of the settlement: item and journal row, or neither.
Accepted(w) ==
    worker[w].journaled
      => /\ Pending(Write(w))
         /\ journal[Write(w)].object = "present" /\ journal[Write(w)].index = "present"

Settled(w) ==
    /\ item' = [st |-> "success", token |-> None, leased |-> FALSE]
    /\ journal' = IF worker[w].journaled
                  THEN [journal EXCEPT ![Write(w)].status = "resolved", ![Write(w)].lease = "free",
                                       ![Write(w)].resolution = "committed"]
                  ELSE journal
    /\ won' = Write(w)

\* Mutant: a late abort is obeyed after the settlement.
AfterSettledStop(w) == At(w, "comp_object")
AfterSettled(w) == At(w, "over")

Settle(w) ==
    LET back == [At(w, "comp_object") EXCEPT !.named = TRUE] IN
    /\ worker[w].pc = "settle"
    /\ \/ Holds(w) /\ Accepted(w) /\ Settled(w) /\ Set(w, AfterSettled(w)) /\ Smooth /\ UNCHANGED unsure
       \/ /\ Holds(w) /\ Accepted(w) /\ Settled(w) /\ Set(w, back) /\ Fault
          /\ unsure' = unsure \cup {Write(w)}
       \/ /\ Set(w, [back EXCEPT !.lost = ~Holds(w)])
          /\ IF Holds(w) /\ Accepted(w) THEN Fault ELSE Smooth
          /\ UNCHANGED << item, journal, won, unsure >>
    /\ UNCHANGED << outside, sweep, overlapped >>

AfterComp(w) == IF worker[w].journaled THEN "comp_persist" ELSE "failed"

\* compensateIndexedWriteAfterCancel: an error of the first skips the second.
CompObject(w) ==
    /\ worker[w].pc = "comp_object"
    /\ \/ object' = object \ {Write(w)} /\ Smooth /\ Goto(w, "comp_index")
       \/ /\ object' \in {object, object \ {Write(w)}} /\ Fault
          /\ Set(w, [At(w, AfterComp(w)) EXCEPT !.object = "unknown", !.index = "unknown", !.lost = FALSE])
    /\ UNCHANGED << item, journal, files, sweep, history >>

CompIndex(w) ==
    /\ worker[w].pc = "comp_index"
    /\ \/ /\ Write(w) \in files /\ files' = files \ {Write(w)} /\ Smooth
          /\ Set(w, [At(w, AfterComp(w)) EXCEPT !.object = "deleted", !.index = "deleted"])
       \/ /\ IF Write(w) \in files THEN Fault ELSE Smooth
          /\ Set(w, [At(w, AfterComp(w)) EXCEPT !.object = "unknown", !.index = "unknown", !.lost = FALSE])
          /\ UNCHANGED files
    /\ UNCHANGED << item, journal, object, sweep, history >>

\* What the update throws replaces a lost lease as the error of the try.
CompPersist(w) ==
    /\ worker[w].pc = "comp_persist"
    /\ \/ /\ Pending(Write(w)) /\ Smooth /\ Goto(w, "failed")
          /\ journal' = Evidence(Write(w), worker[w].object, worker[w].index)
       \/ /\ IF Pending(Write(w)) THEN Fault ELSE Smooth
          /\ Set(w, [At(w, "failed") EXCEPT !.lost = FALSE]) /\ UNCHANGED journal
    /\ UNCHANGED << item, outside, sweep, history >>

\* A lost lease ends the worker; anything else is tried once more, or given up:
\* the item fails, or goes back because of a quota, an account or a pause.
TryEnds(w) ==
    /\ worker[w].pc = "failed"
    /\ \/ ~worker[w].lost /\ worker[w].try = 1 /\ UNCHANGED item
          /\ Set(w, [Worker("begin") EXCEPT !.try = 2, !.named = worker[w].named])
       \/ /\ Goto(w, "over")
          /\ IF ~worker[w].lost /\ Holds(w)
             THEN \E st \in {"failed", "pending"} : item' = [st |-> st, token |-> None, leased |-> FALSE]
             ELSE UNCHANGED item
    /\ Smooth /\ UNCHANGED << journal, outside, sweep, history >>
-----------------------------------------------------------------------------
(* claimTelegramWriteReconciliations and resolveClaimedTelegramWrite        *)

Sweepable ==
    {x \in Writes : /\ Pending(x) /\ journal[x].resolution # "operator_required"
                    /\ journal[x].lease = "free"}

SweepClaim ==
    /\ sweep.pc = "idle" /\ Sweepable # {}
    /\ journal' = [x \in Writes |-> IF x \in Sweepable THEN [journal[x] EXCEPT !.lease = "held"] ELSE journal[x]]
    /\ sweep' = [IdleSweep EXCEPT !.pc = "next", !.todo = Sweepable, !.snap = journal]
    /\ overlapped' = overlapped \cup {x \in Sweepable : Alive(x[1]) /\ Write(x[1]) = x}
    /\ Smooth /\ UNCHANGED << item, outside, worker, won, unsure >>

NextRow == [sweep EXCEPT !.pc = IF sweep.todo = {} THEN "idle" ELSE "next", !.at = None]
Owned(x) == Pending(x) /\ journal[x].lease = "held"

\* The account of the row is looked up, outside of the catch of the row; then
\* the row is left to an operator, or compensated.
SweepTake ==
    /\ sweep.pc = "next"
    /\ \E x \in sweep.todo :
         LET row == sweep.snap[x]
             rest == [sweep EXCEPT !.todo = @ \ {x}] IN
         \/ /\ ~(row.object = "unknown" /\ ~row.path) /\ UNCHANGED journal
            /\ sweep' = [rest EXCEPT !.pc = "own_object", !.at = x, !.object = row.object, !.index = row.index]
         \/ /\ row.object = "unknown" /\ ~row.path
            /\ journal' = IF Owned(x)
                          THEN [journal EXCEPT ![x].resolution = "operator_required", ![x].lease = "free"]
                          ELSE journal
            /\ sweep' = [rest EXCEPT !.pc = IF rest.todo = {} THEN "idle" ELSE "next"]
    /\ Smooth /\ UNCHANGED << item, outside, worker, history >>

LeaseLeft == [x \in Writes |-> IF journal[x].lease = "held" THEN [journal[x] EXCEPT !.lease = "left"] ELSE journal[x]]

\* getTarget throws, or a statement of the sweep: its other rows keep their lease.
SweepThrows ==
    /\ sweep.pc # "idle" /\ Fault
    /\ sweep' = IdleSweep /\ journal' = LeaseLeft
    /\ UNCHANGED << item, outside, worker, history >>

\* ownsTelegramReconciliationLease, before each of the two deletions.
SweepOwns ==
    /\ sweep.pc \in {"own_object", "own_index"}
    /\ sweep' = IF ~Owned(sweep.at) THEN NextRow
                ELSE [sweep EXCEPT !.pc = IF @ = "own_object" THEN "object" ELSE "index"]
    /\ Smooth /\ UNCHANGED << item, journal, outside, worker, history >>

SweepObject ==
    /\ sweep.pc = "object"
    /\ LET x == sweep.at
           needed == sweep.snap[x].path /\ sweep.object # "deleted" IN
       \/ /\ Smooth /\ object' = IF needed THEN object \ {x} ELSE object
          /\ sweep' = [sweep EXCEPT !.pc = "own_index", !.object = IF needed THEN "deleted" ELSE @]
       \/ /\ needed /\ Fault /\ object' \in {object, object \ {x}}
          /\ sweep' = [sweep EXCEPT !.pc = "own_index", !.object = "unknown"]
    /\ UNCHANGED << item, journal, files, worker, history >>

SweepIndex ==
    /\ sweep.pc = "index"
    /\ LET x == sweep.at
           needed == sweep.snap[x].file /\ sweep.index # "deleted" IN
       /\ files' = IF needed THEN files \ {x} ELSE files
       /\ sweep' = [sweep EXCEPT !.pc = "persist", !.index = IF needed THEN "deleted" ELSE @]
    /\ Smooth /\ UNCHANGED << item, journal, object, worker, history >>

SweepPersist ==
    /\ sweep.pc = "persist" /\ sweep' = NextRow
    /\ journal' = IF Owned(sweep.at) THEN Evidence(sweep.at, sweep.object, sweep.index) ELSE journal
    /\ Smooth /\ UNCHANGED << item, outside, worker, history >>
-----------------------------------------------------------------------------
(* The item, the clock and the process                                      *)

\* The lease of the item runs out; the worker may be alive.
LeaseExpires ==
    /\ item.st = "downloading" /\ item.leased
    /\ item' = [item EXCEPT !.leased = FALSE]
    /\ Smooth /\ UNCHANGED << journal, outside, worker, sweep, history >>

\* Recovery puts an item back whose lease ran out, unless its journal is pending.
Reset ==
    /\ item.st = "downloading" /\ ~item.leased /\ ~Unsettled
    /\ item' = [item EXCEPT !.st = "pending"]
    /\ Smooth /\ UNCHANGED << journal, outside, worker, sweep, history >>

Retry ==
    /\ item.st = "failed" /\ item' = [item EXCEPT !.st = "pending"]
    /\ Smooth /\ UNCHANGED << journal, outside, worker, sweep, history >>

\* The lease of an interrupted sweep runs out.
JournalLeaseExpires(x) ==
    /\ journal[x].lease = "left" /\ journal' = [journal EXCEPT ![x].lease = "free"]
    /\ Smooth /\ UNCHANGED << item, outside, worker, sweep, history >>

Crash ==
    /\ Fault
    /\ worker' = [w \in Workers |-> IF Alive(w) THEN At(w, "over") ELSE worker[w]]
    /\ sweep' = IdleSweep /\ journal' = LeaseLeft
    /\ UNCHANGED << item, outside, history >>

WorkerStep(w) ==
    \/ Begin(w) \/ SaveFile(w) \/ MarkObject(w) \/ InsertFile(w) \/ MarkIndex(w)
    \/ UndoObject(w) \/ UndoIndex(w) \/ UndoPersist(w)
    \/ Validate(w) \/ Settle(w) \/ CompObject(w) \/ CompIndex(w) \/ CompPersist(w)
    \/ TryEnds(w)
SweepStep == SweepClaim \/ SweepTake \/ SweepOwns \/ SweepObject \/ SweepIndex \/ SweepPersist

Next ==
    \/ \E w \in Workers : Claim(w) \/ WorkerStep(w)
    \/ SweepStep \/ SweepThrows
    \/ LeaseExpires \/ Reset \/ Retry
    \/ \E x \in Writes : JournalLeaseExpires(x)
    \/ Crash

Spec == Init /\ [][Next]_vars
-----------------------------------------------------------------------------
Effects == {"unknown", "present", "deleted"}
RowType == [status: {"none", "pending", "resolved"},
            resolution: {"none", "committed", "compensated", "operator_required"},
            object: Effects, index: Effects, path: BOOLEAN, file: BOOLEAN,
            lease: {"free", "held", "left"}]
Labels == {"idle", "begin", "save", "mark_object", "insert", "mark_index", "validate", "settle",
           "undo_object", "undo_index", "undo_persist", "comp_object", "comp_index",
           "comp_persist", "failed", "over"}

ItemType == [st: {"pending", "downloading", "success", "failed"},
             token: Workers \cup {None}, leased: BOOLEAN]
WorkerType == [pc: Labels, try: {1, 2}, named: BOOLEAN, journaled: BOOLEAN, path: BOOLEAN,
               file: BOOLEAN, lost: BOOLEAN, object: Effects, index: Effects]
SweepLabels == {"idle", "next", "own_object", "object", "own_index", "index", "persist"}
SweepType == [pc: SweepLabels, todo: SUBSET Writes, at: Writes \cup {None},
              snap: [Writes -> RowType], object: Effects, index: Effects]

TypeOK ==
    /\ item \in ItemType
    /\ journal \in [Writes -> RowType] /\ object \subseteq Writes /\ files \subseteq Writes
    /\ worker \in [Workers -> WorkerType]
    /\ sweep \in SweepType
    /\ won \in Writes \cup {None} /\ overlapped \subseteq Writes /\ unsure \subseteq Writes
    /\ faults \in 0..MaxFaults

\* What a journaled try has stored belongs to the successful item, or is listed by
\* a pending row, whatever failed and whoever compensated it.
JournaledIsTracked ==
    \A x \in (object \cup files) \ unsure :
        journal[x].status # "none" => Pending(x) \/ won = x

\* No compensation, of a late worker or of a sweep, takes the file of an item that
\* succeeded, unless the sweep had claimed the row of a running worker.
SuccessIsIntact ==
    won # None => won \in (object \cap files) \cup overlapped \cup unsure

\* The file of an item is the one stored under its present lease: a worker that was
\* replaced can store, but not settle.
WinnerHoldsLease ==
    [][won' # won => won = None /\ won'[1] = item.token]_vars

\* No second file is stored for the item while the journal does not know whether
\* the first is there.
OneOpenWrite ==
    \A x, y \in Writes :
        /\ x # y /\ Pending(x) /\ journal[y].status # "none"
        => x \notin object \cup files \/ y \notin object \cup files \/ {x, y} \cap unsure # {}

\* Both: one file of the item is stored and tracked, and stays.
OneFileIsKept == SuccessIsIntact /\ OneOpenWrite

\* A pending row is resolved, unless it needs an operator: its object is unknown, or
\* it has a path and never got the id of its row of files.
NeedsOperator(x) ==
    journal[x].resolution = "operator_required" \/ (journal[x].index = "unknown" /\ ~journal[x].file)
Reconciled(x) == ~Pending(x) \/ NeedsOperator(x)
=============================================================================
