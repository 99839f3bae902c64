--------------------------- MODULE ChunkCompletion ---------------------------
(***************************************************************************)
(* Turning a fully received chunked upload into a stored file.             *)
(*                                                                         *)
(* Three actors share the database and the storage provider:               *)
(*   - the handlers of POST /api/chunked/complete (Requests), each an      *)
(*     async function that can be interleaved at every await and that      *)
(*     owns the session row only through its completion token;             *)
(*   - the maintenance job (Scans), which claims pending journal rows      *)
(*     under a lease, compensates them, deletes expired sessions and       *)
(*     fails completions whose lease ran out;                              *)
(*   - the client, which may retry or cancel the upload.                   *)
(* A request r is identified with its completion token, with the object    *)
(* it stores, with the row of files it inserts and with its journal row.   *)
(* Time is the environment: a deadline passes in a step of its own.        *)
(* Errors of the database and of the provider, and crashes of the server,  *)
(* are counted by faults and bounded by MaxFaults.                         *)
(***************************************************************************)
EXTENDS Naturals

CONSTANTS
    Uploads,    \* upload ids
    Requests,   \* completion attempts; one randomUUID token each
    Scans,      \* concurrent runs of the maintenance timer
    UploadOf,   \* the upload a request is about
    Duplicate,  \* the id of an already stored file with the same content
    None,       \* SQL NULL
    MaxFaults   \* bound on errors and crashes in one behaviour

ASSUME ConstantsAssumption ==
    /\ UploadOf \in [Requests -> Uploads]
    /\ Duplicate \notin Requests
    /\ None \notin Requests \cup Scans \cup {Duplicate}
    /\ MaxFaults \in Nat

VARIABLES
    session,    \* chunk_upload_sessions
    journal,    \* chunk_upload_reconciliations, by completion token
    chunks,     \* uploads whose chunk directory still exists
    object,     \* requests whose object exists at the provider
    row,        \* requests whose row exists in files
    handler,    \* the running POST /complete of a request: its next await, its
                \* completionLeaseError, whether its variable file is set, and
                \* objectState and indexState of its compensation
    scan,       \* the maintenance runs
    overlapped, \* history: a scan claimed, to compensate it, the journal row
                \* of a handler that was still running
    unsure,     \* history: the INSERT or the COMMIT of a request took effect
                \* and was reported as failed
    faults

vars == << session, journal, chunks, object, row, handler, scan, overlapped,
           unsure, faults >>
dbVars == << session, journal, row >>
history == << overlapped, unsure >>

Effects == {"unknown", "present", "deleted"}

NoJournal == [status |-> "none", resolution |-> "none", object |-> "unknown",
              index |-> "unknown", path |-> FALSE, file |-> FALSE,
              lease |-> None, leaseExpired |-> FALSE]
\* The locals of a handler matter only while it runs.
Handler(label) == [pc |-> label, leaseLost |-> FALSE, indexed |-> FALSE,
                   object |-> "unknown", index |-> "unknown"]
NoSnap == [path |-> FALSE, file |-> FALSE, object |-> "unknown",
           index |-> "unknown", committed |-> FALSE]
\* A maintenance run between two rows of its batch, and one that has not begun.
Batch(todo, snap) == [pc |-> "next", todo |-> todo, at |-> None, snap |-> snap,
                      object |-> "unknown", index |-> "unknown"]
IdleScan == [Batch({}, [r \in Requests |-> NoSnap]) EXCEPT !.pc = "idle"]

\* Mutant: writes the status where the resolution belongs.
ResolvedTwice(resolution) == [NoJournal EXCEPT !.status = "resolved",
                                               !.resolution = "resolved"]
\* Nothing reads the other columns of a resolved row.
Resolved(resolution) == [NoJournal EXCEPT !.status = "resolved",
                                          !.resolution = resolution]

Live(r) == handler[r].pc \notin {"idle", "over"}
Pending(r) == journal[r].status = "pending"
\* Mutant: no NOT EXISTS (SELECT ... FROM chunk_upload_reconciliations).
PendingIgnored(u) == FALSE
PendingUpload(u) == \E r \in Requests : UploadOf[r] = u /\ Pending(r)
\* Mutant: the token is left out of the WHERE clause.
HoldsStatus(r) == session[UploadOf[r]].status = "completing"
\* WHERE status = 'completing' AND completion_token = $3
HoldsToken(r) == /\ session[UploadOf[r]].status = "completing"
                 /\ session[UploadOf[r]].token = r
Committed(r) == /\ session[UploadOf[r]].status = "completed"
                /\ session[UploadOf[r]].file = r

Faultless == UNCHANGED faults
Fault == faults < MaxFaults /\ faults' = faults + 1
Goto(r, label) ==
    handler' = [handler EXCEPT ![r] = IF label = "over" THEN Handler(label)
                                      ELSE [@ EXCEPT !.pc = label]]

\* Both effects of an attempt must be gone before its journal row is resolved.
\* Mutant: the index row is forgotten.
ObjectReconciled(objectState, indexState) == objectState = "deleted"
Reconciled(objectState, indexState) ==
    objectState = "deleted" /\ indexState = "deleted"

\* DELETE FROM files: the foreign key of the sessions is ON DELETE SET NULL.
DeleteRow(r) ==
    /\ row' = row \ {r}
    /\ session' = [u \in Uploads |->
                     IF r \in row /\ session[u].file = r
                     THEN [session[u] EXCEPT !.file = None] ELSE session[u]]

Init ==
    /\ session = [u \in Uploads |->
                    [status |-> "open", token |-> None, expired |-> FALSE,
                     leaseExpired |-> FALSE, file |-> None]]
    /\ journal = [r \in Requests |-> NoJournal]
    /\ chunks = Uploads
    /\ object = {}
    /\ row = {}
    /\ handler = [r \in Requests |-> Handler("idle")]
    /\ scan = [s \in Scans |-> IdleScan]
    /\ overlapped = {}
    /\ unsure = {}
    /\ faults = 0

-----------------------------------------------------------------------------
(* The handler of POST /complete.                                          *)

\* claimCompletion: the compare-and-set that hands the session to r.
Claim(r) ==
    /\ handler[r].pc = "idle"
    /\ session[UploadOf[r]].status = "open"
    /\ session[UploadOf[r]].token = None
    /\ session' = [session EXCEPT ![UploadOf[r]].status = "completing",
                                  ![UploadOf[r]].token = r,
                                  ![UploadOf[r]].leaseExpired = FALSE]
    /\ Goto(r, "prepare")
    /\ UNCHANGED << journal, chunks, object, row, scan, history, faults >>

BeforeCommit == {"prepare", "merged", "save", "mark_object", "insert",
                 "mark_index", "commit"}

\* The heartbeat renews the lease, or records that it is lost; nothing
\* reads the loss after the commit.
Renew(r) ==
    /\ Live(r)
    /\ \/ /\ HoldsToken(r)
          /\ session' = [session EXCEPT ![UploadOf[r]].leaseExpired = FALSE]
          /\ UNCHANGED << handler, faults >>
       \/ /\ handler[r].pc \in BeforeCommit
          /\ IF HoldsToken(r) THEN Fault ELSE Faultless
          /\ handler' = [handler EXCEPT ![r].leaseLost = TRUE]
          /\ UNCHANGED session
    /\ UNCHANGED << journal, chunks, object, row, scan, history >>

\* Storage lease, writability check and merge of the chunks.
Prepare(r) ==
    /\ handler[r].pc = "prepare"
    /\ UploadOf[r] \in chunks
    /\ Goto(r, "merged")
    /\ UNCHANGED << dbVars, chunks, object, scan,
                    history, faults >>

\* Duplicate mode "skip": the session completes with the existing file.
CompleteDuplicate(r) ==
    /\ handler[r].pc = "merged"
    /\ HoldsToken(r)
    /\ session' = [session EXCEPT ![UploadOf[r]].status = "completed",
                                  ![UploadOf[r]].leaseExpired = FALSE,
                                  ![UploadOf[r]].file = Duplicate]
    /\ Goto(r, "cleanup")
    /\ UNCHANGED << journal, chunks, object, row, scan, history, faults >>

\* beginChunkCompletionReconciliation: only the foreign key guards the row.
BeginJournal(r) ==
    /\ handler[r].pc = "merged"
    /\ session[UploadOf[r]].status # "gone"
    /\ journal' = [journal EXCEPT ![r] = [NoJournal EXCEPT !.status = "pending"]]
    /\ Goto(r, "save")
    /\ UNCHANGED << session, chunks, object, row, scan, history, faults >>

\* provider.saveFile either returns the path, or throws with an unknown result.
SaveObject(r) ==
    /\ handler[r].pc = "save"
    /\ \/ object' = object \cup {r} /\ Goto(r, "mark_object") /\ Faultless
       \/ object' \in {object, object \cup {r}} /\ Goto(r, "uncertain") /\ Fault
    /\ UNCHANGED << dbVars, chunks, scan, history >>

\* compensateAfterSideEffectFailure without a stored path.
JournalUncertain(r) ==
    /\ handler[r].pc = "uncertain"
    /\ Pending(r)
    /\ journal' = [journal EXCEPT ![r].object = "unknown", ![r].index = "deleted"]
    /\ Goto(r, "fail")
    /\ UNCHANGED << session, chunks, object, row, scan, history, faults >>

MarkObject(r) ==
    /\ handler[r].pc = "mark_object"
    /\ Pending(r)
    /\ journal' = [journal EXCEPT ![r].path = TRUE, ![r].object = "present"]
    /\ Goto(r, "insert")
    /\ UNCHANGED << session, chunks, object, row, scan, history, faults >>

\* The variable file is set from the answer of the INSERT.
InsertFile(r) ==
    /\ handler[r].pc = "insert"
    /\ row' = row \cup {r}
    /\ \/ /\ handler' = [handler EXCEPT ![r].pc = "mark_index", ![r].indexed = TRUE]
          /\ UNCHANGED unsure /\ Faultless
       \/ Goto(r, "undo_object") /\ unsure' = unsure \cup {r} /\ Fault
    /\ UNCHANGED << session, journal, chunks, object, scan, overlapped >>

MarkIndex(r) ==
    /\ handler[r].pc = "mark_index"
    /\ Pending(r)
    /\ journal' = [journal EXCEPT ![r].file = TRUE, ![r].index = "present"]
    /\ Goto(r, "commit")
    /\ UNCHANGED << session, chunks, object, row, scan, history, faults >>

\* completeWithReconciliation: session and journal in one transaction, the
\* file id checked by its foreign key.
CanCommit(r) == ~handler[r].leaseLost /\ HoldsToken(r) /\ Pending(r) /\ r \in row

Commit(r) ==
    /\ handler[r].pc = "commit"
    /\ CanCommit(r)
    /\ session' = [session EXCEPT ![UploadOf[r]].status = "completed",
                                  ![UploadOf[r]].leaseExpired = FALSE,
                                  ![UploadOf[r]].file = r]
    /\ journal' = [journal EXCEPT ![r] = Resolved(journal[r].resolution)]
    /\ \/ Goto(r, "cleanup") /\ UNCHANGED unsure /\ Faultless
       \/ Goto(r, "undo_object") /\ unsure' = unsure \cup {r} /\ Fault
    /\ UNCHANGED << chunks, object, row, scan, overlapped >>

\* compensateChunkCompletionFailure: the object, then the row, then the journal.
UndoObject(r) ==
    /\ handler[r].pc = "undo_object"
    /\ \E outcome \in {"deleted", "unknown"} :
          /\ IF outcome = "deleted"
             THEN object' = object \ {r} /\ Faultless
             ELSE object' \in {object, object \ {r}} /\ Fault
          /\ handler' = [handler EXCEPT ![r].pc = "undo_index", ![r].object = outcome]
    /\ UNCHANGED << dbVars, chunks, scan, history >>

\* A row that is no longer there counts as an unknown outcome.
UndoIndex(r) ==
    /\ handler[r].pc = "undo_index"
    /\ \/ /\ handler[r].indexed
          /\ DeleteRow(r)
          /\ handler' = [handler EXCEPT ![r].pc = "undo_persist",
                             ![r].index = IF r \in row THEN "deleted" ELSE "unknown"]
          /\ Faultless
       \/ /\ handler[r].indexed
          /\ handler' = [handler EXCEPT ![r].pc = "undo_persist", ![r].index = "unknown"]
          /\ UNCHANGED << row, session >>
          /\ Fault
       \/ /\ ~handler[r].indexed
          /\ handler' = [handler EXCEPT ![r].pc = "undo_persist", ![r].index = "deleted"]
          /\ UNCHANGED << row, session, faults >>
    /\ UNCHANGED << journal, chunks, object, scan, history >>

\* updateChunkReconciliationAfterCompensation
PersistUndo(r) ==
    LET resolved == Reconciled(handler[r].object, handler[r].index) IN
    /\ handler[r].pc = "undo_persist"
    /\ Pending(r)
    /\ journal' = [journal EXCEPT ![r] =
                     IF resolved THEN Resolved(@.resolution)
                     ELSE [@ EXCEPT !.object = handler[r].object,
                                    !.index = handler[r].index]]
    /\ Goto(r, "fail")
    /\ UNCHANGED << session, chunks, object, row, scan, history, faults >>

\* Mutant: the failed attempt takes the chunks with it.
FailAndRemoveChunks(r) ==
    /\ handler[r].pc = "fail"
    /\ HoldsToken(r)
    /\ session' = [session EXCEPT ![UploadOf[r]].status = "failed",
                                  ![UploadOf[r]].token = None]
    /\ chunks' = chunks \ {UploadOf[r]}
    /\ Goto(r, "over")
    /\ UNCHANGED << journal, object, row, scan, history, faults >>

\* markCompletionFailed, fenced by the token.
FailCompletion(r) ==
    /\ handler[r].pc = "fail"
    /\ HoldsToken(r)
    /\ session' = [session EXCEPT ![UploadOf[r]].status = "failed",
                                  ![UploadOf[r]].token = None,
                                  ![UploadOf[r]].leaseExpired = FALSE]
    /\ Goto(r, "over")
    /\ UNCHANGED << journal, chunks, object, row, scan, history, faults >>

RemoveChunks(r) ==
    /\ handler[r].pc = "cleanup"
    /\ chunks' = chunks \ {UploadOf[r]}
    /\ Goto(r, "over")
    /\ UNCHANGED << dbVars, object, scan, history,
                    faults >>

\* The steps whose exception is compensated: the object has been saved.
\* Mutant: the clean-up of the chunks is inside the same try block.
AfterSaveToTheEnd == {"mark_object", "insert", "mark_index", "commit", "cleanup"}
AfterSave == {"mark_object", "insert", "mark_index", "commit"}

\* Where an exception of the step at a label leads.
Fallible == AfterSave \cup {"prepare", "merged", "uncertain", "undo_persist",
                            "fail", "cleanup"}
OnError == [label \in Fallible |->
              CASE label \in AfterSave -> "undo_object"
                [] label \in {"fail", "cleanup"} -> "over"
                [] OTHER -> "fail"]

\* The condition under which the statement at a label changes its row.
Accepted(r) ==
    CASE handler[r].pc = "prepare" -> UploadOf[r] \in chunks
      [] handler[r].pc \in {"merged", "fail"} -> HoldsToken(r)
      [] handler[r].pc \in {"uncertain", "mark_object", "mark_index", "undo_persist"} -> Pending(r)
      [] handler[r].pc = "commit" -> CanCommit(r)
      [] OTHER -> TRUE

\* A rejected statement needs no fault to end in the exception's branch.
Throw(r) ==
    /\ handler[r].pc \in Fallible
    /\ ~Accepted(r)
    /\ Goto(r, OnError[handler[r].pc])
    /\ UNCHANGED << dbVars, chunks, object, scan,
                    history, faults >>

ThrowByFault(r) ==
    /\ handler[r].pc \in Fallible
    /\ Accepted(r)
    /\ Fault
    /\ Goto(r, OnError[handler[r].pc])
    /\ UNCHANGED << dbVars, chunks, object, scan,
                    history >>

-----------------------------------------------------------------------------
(* runChunkMaintenance: the sweep of the journal, of the expired sessions  *)
(* and of the completions whose lease ran out.                             *)

\* Mutant: a lease that ran out is never taken over.
Unleased(r) ==
    /\ Pending(r)
    /\ journal[r].resolution # "operator_required"
    /\ journal[r].lease = None
\* status = 'pending', not yet left to the operator, and not leased.
Claimable(r) ==
    /\ Pending(r)
    /\ journal[r].resolution # "operator_required"
    /\ journal[r].lease = None \/ journal[r].leaseExpired

Snapshot(r) ==
    [path |-> journal[r].path, file |-> journal[r].file,
     object |-> journal[r].object, index |-> journal[r].index,
     committed |-> /\ session[UploadOf[r]].status = "completed"
                   /\ session[UploadOf[r]].file = (IF journal[r].file THEN r ELSE None)
                   /\ journal[r].object = "present"
                   /\ journal[r].index = "present"]

\* A claimed row that the scan will compensate rather than leave to the operator.
Sweepable(r) == journal[r].object # "unknown" \/ journal[r].path

ScanClaim(s) ==
    LET claimed == {r \in Requests : Claimable(r)} IN
    /\ scan[s].pc = "idle"
    /\ journal' = [r \in Requests |->
                     IF r \in claimed
                     THEN [journal[r] EXCEPT !.lease = s, !.leaseExpired = FALSE]
                     ELSE journal[r]]
    /\ scan' = [scan EXCEPT ![s] =
                  Batch(claimed, [r \in Requests |->
                                    IF r \in claimed THEN Snapshot(r) ELSE NoSnap])]
    /\ overlapped' = overlapped \cup {r \in claimed : Live(r) /\ Sweepable(r)}
    /\ UNCHANGED unsure
    /\ UNCHANGED << session, chunks, object, row, handler, faults >>

\* WHERE lease_token = $2 AND status = 'pending': the expiry is not looked at.
Owns(s, r) == journal[r].lease = s /\ Pending(r)

\* The scan after it is done with a row of its batch.
Done(s, r) ==
    [scan EXCEPT ![s] = Batch(scan[s].todo \ {r}, [scan[s].snap EXCEPT ![r] = NoSnap])]

\* A row that is not compensated: its upload turns out to be completed, or
\* its object cannot be named.
ScanSettle(s, r) ==
    LET snap == scan[s].snap[r] IN
    /\ scan[s].pc = "next" /\ r \in scan[s].todo
    /\ snap.committed \/ (snap.object = "unknown" /\ ~snap.path)
    /\ journal' = CASE ~Owns(s, r) -> journal
                    [] Owns(s, r) /\ snap.committed ->
                         [journal EXCEPT ![r] = Resolved("committed")]
                    [] OTHER ->
                         [journal EXCEPT ![r].resolution = "operator_required",
                                         ![r].lease = None, ![r].leaseExpired = FALSE]
    /\ scan' = Done(s, r)
    /\ UNCHANGED << session, chunks, object, row, handler, history, faults >>

\* ownsChunkReconciliationLease also renews; the row is dropped when it is lost.
CheckLease(s, r, label) ==
    IF Owns(s, r)
    THEN /\ journal' = [journal EXCEPT ![r].leaseExpired = FALSE]
         /\ scan' = [scan EXCEPT ![s].pc = label, ![s].at = r]
    ELSE journal' = journal /\ scan' = Done(s, r)

ScanTake(s, r) ==
    /\ scan[s].pc = "next" /\ r \in scan[s].todo
    /\ ~scan[s].snap[r].committed
    /\ scan[s].snap[r].object # "unknown" \/ scan[s].snap[r].path
    /\ IF Owns(s, r)
       THEN /\ journal' = [journal EXCEPT ![r].leaseExpired = FALSE]
            /\ scan' = [scan EXCEPT
                  ![s].pc = IF scan[s].snap[r].path /\ scan[s].snap[r].object # "deleted"
                            THEN "object" ELSE "own",
                  ![s].at = r,
                  ![s].object = scan[s].snap[r].object,
                  ![s].index = scan[s].snap[r].index]
       ELSE journal' = journal /\ scan' = Done(s, r)
    /\ UNCHANGED << session, chunks, object, row, handler, history, faults >>

ScanDeleteObject(s) ==
    LET r == scan[s].at IN
    /\ scan[s].pc = "object"
    /\ \/ /\ object' = object \ {r}
          /\ scan' = [scan EXCEPT ![s].object = "deleted", ![s].pc = "own"]
          /\ Faultless
       \/ /\ object' \in {object, object \ {r}}
          /\ scan' = [scan EXCEPT ![s].object = "unknown", ![s].pc = "own"]
          /\ Fault
    /\ UNCHANGED << dbVars, chunks, handler, history >>

ScanCheckLease(s) ==
    /\ scan[s].pc = "own"
    /\ CheckLease(s, scan[s].at, "index")
    /\ UNCHANGED << session, chunks, object, row, handler, history, faults >>

ScanDeleteIndex(s) ==
    LET r == scan[s].at
        toDelete == scan[s].snap[r].file /\ scan[s].index # "deleted"
    IN
    /\ scan[s].pc = "index"
    /\ \/ /\ toDelete
          /\ DeleteRow(r)
          /\ scan' = [scan EXCEPT ![s].index = "deleted", ![s].pc = "persist"]
          /\ Faultless
       \/ /\ toDelete
          /\ scan' = [scan EXCEPT ![s].index = "unknown", ![s].pc = "persist"]
          /\ UNCHANGED << row, session >>
          /\ Fault
       \/ /\ ~toDelete
          /\ scan' = [scan EXCEPT ![s].pc = "persist"]
          /\ UNCHANGED << row, session, faults >>
    /\ UNCHANGED << journal, chunks, object, handler, history >>

ScanPersist(s) ==
    LET r == scan[s].at
        resolved == Reconciled(scan[s].object, scan[s].index)
    IN
    /\ scan[s].pc = "persist"
    /\ journal' = IF Owns(s, r)
                  THEN [journal EXCEPT ![r] =
                          IF resolved THEN Resolved("compensated")
                          ELSE [@ EXCEPT !.object = scan[s].object,
                                         !.index = scan[s].index,
                                         !.lease = None, !.leaseExpired = FALSE]]
                  ELSE journal
    /\ scan' = Done(s, r)
    /\ UNCHANGED << session, chunks, object, row, handler, history, faults >>

\* Mutant: the status is left out of the WHERE clause.
ExpiredAny(u) == session[u].expired /\ ~PendingUpload(u)
Expired(u) ==
    /\ session[u].status \in {"open", "failed", "cancelled"}
    /\ session[u].expired
    /\ ~PendingUpload(u)

\* The batch is done: deleteExpiredSessions. The journal rows go with the
\* session (ON DELETE CASCADE), and fs.rm of the directories may fail.
ScanDeleteExpired(s) ==
    LET gone == {u \in Uploads : Expired(u)} IN
    /\ scan[s].pc = "next" /\ scan[s].todo = {}
    /\ session' = [u \in Uploads |-> IF u \in gone
                                     THEN [session[u] EXCEPT !.status = "gone"]
                                     ELSE session[u]]
    /\ journal' = [r \in Requests |-> IF UploadOf[r] \in gone THEN NoJournal
                                      ELSE journal[r]]
    /\ \/ chunks' = chunks \ gone /\ Faultless
       \/ gone # {} /\ chunks' = chunks /\ Fault
    /\ scan' = [scan EXCEPT ![s].pc = "recover"]
    /\ UNCHANGED << object, row, handler, history >>

ScanRecoverExpired(s) ==
    LET dead == {u \in Uploads : /\ session[u].status = "completing"
                                 /\ session[u].leaseExpired
                                 /\ ~PendingUpload(u)}
    IN
    /\ scan[s].pc = "recover"
    /\ session' = [u \in Uploads |-> IF u \in dead
                                     THEN [session[u] EXCEPT !.status = "failed",
                                              !.token = None, !.leaseExpired = FALSE]
                                     ELSE session[u]]
    /\ scan' = [scan EXCEPT ![s] = IdleScan]
    /\ UNCHANGED << journal, chunks, object, row, handler, history, faults >>

\* An error drops the row with its lease; outside of a row, or when the
\* provider of a row cannot be resolved, it ends the run.
ScanError(s) ==
    /\ scan[s].pc # "idle"
    /\ Fault
    /\ \/ scan[s].at # None /\ scan' = Done(s, scan[s].at)
       \/ \E r \in scan[s].todo : scan[s].at = None /\ scan' = Done(s, r)
       \/ scan[s].at = None /\ scan' = [scan EXCEPT ![s] = IdleScan]
    /\ UNCHANGED << dbVars, chunks, object, handler, history >>

-----------------------------------------------------------------------------
(* The client, the clock and crashes.                                      *)

\* reopenFailed: not while a journal row of the upload is pending.
Retry(u) ==
    /\ session[u].status = "failed"
    /\ ~session[u].expired
    /\ ~PendingUpload(u)
    /\ session' = [session EXCEPT ![u].status = "open"]
    /\ UNCHANGED << journal, chunks, object, row, handler, scan, history, faults >>

Cancel(u) ==
    /\ session[u].status \in {"open", "failed"}
    /\ session' = [session EXCEPT ![u].status = "cancelled", ![u].token = None]
    /\ \/ chunks' = chunks \ {u} /\ Faultless
       \/ chunks' = chunks /\ Fault
    /\ UNCHANGED << journal, object, row, handler, scan, history >>

\* expires_at is not read once the upload is completed.
ExpireSession(u) ==
    /\ ~session[u].expired /\ session[u].status \notin {"completed", "gone"}
    /\ session' = [session EXCEPT ![u].expired = TRUE]
    /\ UNCHANGED << journal, chunks, object, row, handler, scan, history, faults >>

ExpireCompletion(u) ==
    /\ session[u].status = "completing" /\ ~session[u].leaseExpired
    /\ session' = [session EXCEPT ![u].leaseExpired = TRUE]
    /\ UNCHANGED << journal, chunks, object, row, handler, scan, history, faults >>

ExpireJournalLease(r) ==
    /\ Pending(r) /\ journal[r].lease # None /\ ~journal[r].leaseExpired
    /\ journal' = [journal EXCEPT ![r].leaseExpired = TRUE]
    /\ UNCHANGED << session, chunks, object, row, handler, scan, history, faults >>

\* The server stops: handlers and scans vanish at their await.
Crash ==
    /\ Fault
    /\ handler' = [r \in Requests |-> IF Live(r) THEN Handler("over") ELSE handler[r]]
    /\ scan' = [s \in Scans |-> IdleScan]
    /\ UNCHANGED << dbVars, chunks, object, history >>

-----------------------------------------------------------------------------
(* Steps that need no fault; fairness is stated for these alone.           *)
HandlerStep(r) ==
    \/ Prepare(r) \/ CompleteDuplicate(r) \/ BeginJournal(r)
    \/ SaveObject(r) \/ JournalUncertain(r) \/ MarkObject(r) \/ InsertFile(r)
    \/ MarkIndex(r) \/ Commit(r)
    \/ UndoObject(r) \/ UndoIndex(r) \/ PersistUndo(r)
    \/ FailCompletion(r) \/ RemoveChunks(r) \/ Throw(r)

ScanStep(s) ==
    \/ ScanClaim(s)
    \/ \E r \in Requests : ScanSettle(s, r) \/ ScanTake(s, r)
    \/ ScanDeleteObject(s) \/ ScanCheckLease(s) \/ ScanDeleteIndex(s)
    \/ ScanPersist(s)
    \/ ScanDeleteExpired(s) \/ ScanRecoverExpired(s)

Next ==
    \/ \E r \in Requests : Claim(r) \/ Renew(r) \/ HandlerStep(r) \/ ThrowByFault(r)
    \/ \E s \in Scans : ScanStep(s) \/ ScanError(s)
    \/ \E u \in Uploads : \/ Retry(u) \/ Cancel(u)
                          \/ ExpireSession(u) \/ ExpireCompletion(u)
    \/ \E r \in Requests : ExpireJournalLease(r)
    \/ Crash

\* The event loop runs every handler and every scan on, the timer starts
\* scans, and deadlines pass. Claiming, retrying, cancelling and renewing
\* are up to the client and to the moment: they are not fair.
Fairness ==
    /\ \A r \in Requests : WF_vars(HandlerStep(r)) /\ WF_vars(ExpireJournalLease(r))
    /\ \A s \in Scans : WF_vars(ScanStep(s))
    /\ \A u \in Uploads : WF_vars(ExpireCompletion(u))

Spec == Init /\ [][Next]_vars
FairSpec == Spec /\ Fairness

-----------------------------------------------------------------------------
(* Types: the state space of the rows, handlers and scans.                 *)
SessionType == [status : {"open", "completing", "completed", "cancelled", "failed", "gone"},
                token : Requests \cup {None}, expired : BOOLEAN,
                leaseExpired : BOOLEAN, file : Requests \cup {Duplicate, None}]
JournalType == [status : {"none", "pending", "resolved"},
                resolution : {"none", "committed", "compensated", "operator_required"},
                object : Effects, index : Effects, path : BOOLEAN, file : BOOLEAN,
                lease : Scans \cup {None}, leaseExpired : BOOLEAN]
Labels == {"idle", "prepare", "merged", "save", "uncertain", "mark_object",
           "insert", "mark_index", "commit", "undo_object", "undo_index",
           "undo_persist", "fail", "cleanup", "over"}
HandlerType == [pc : Labels, leaseLost : BOOLEAN, indexed : BOOLEAN,
                object : Effects, index : Effects]
SnapType == [path : BOOLEAN, file : BOOLEAN, object : Effects, index : Effects,
             committed : BOOLEAN]
ScanType == [pc : {"idle", "next", "object", "own", "index", "persist", "recover"},
             todo : SUBSET Requests, at : Requests \cup {None},
             snap : [Requests -> SnapType], object : Effects, index : Effects]

\* Every variable keeps the type of its table, handler or maintenance run.
TypeOK ==
    /\ session \in [Uploads -> SessionType]
    /\ journal \in [Requests -> JournalType]
    /\ chunks \subseteq Uploads
    /\ object \subseteq Requests
    /\ row \subseteq Requests
    /\ handler \in [Requests -> HandlerType]
    /\ scan \in [Scans -> ScanType]
    /\ overlapped \subseteq Requests
    /\ unsure \subseteq Requests
    /\ faults \in 0..MaxFaults

(* Whatever fails, crashes or races, an object or an index row that was    *)
(* written and is not part of a completed upload is still listed by a      *)
(* pending journal row, provided that no maintenance run took a running    *)
(* completion for a dead one (services/chunkUploadReconciliation.ts), and  *)
(* that no effective statement was reported as failed to the handler.      *)
NoUntrackedSideEffect ==
    \A r \in Requests \ (overlapped \cup unsure) :
        r \in object \cup row => Committed(r) \/ Pending(r)

(* A completed upload has its object and its index row, under the same     *)
(* provisos.                                                               *)
CommittedFileIntact ==
    \A r \in Requests \ (overlapped \cup unsure) :
        Committed(r) => r \in object /\ r \in row

(* Both, for one completion that races another.                            *)
SideEffectsAreSafe == NoUntrackedSideEffect /\ CommittedFileIntact

(* A session that may still be completed or retried has its chunks on disk.*)
RetryableHasChunks ==
    \A u \in Uploads :
        session[u].status \in {"open", "completing", "failed"} => u \in chunks

(* A handler that lost its session (its token was cleared or replaced, e.g.*)
(* by recovery after its lease ran out) never changes that session again.  *)
FencedByToken ==
    [][\A r \in Requests :
          Live(r) /\ handler'[r] # handler[r] /\ session[UploadOf[r]].token # r
          => session'[UploadOf[r]] = session[UploadOf[r]]]_vars

(* A journal row that no program step can resolve: left to the operator,   *)
(* or its index outcome is unknown and no file id was ever recorded.       *)
NeedsOperator(r) ==
    /\ Pending(r)
    /\ \/ journal[r].resolution = "operator_required"
       \/ journal[r].index = "unknown" /\ ~journal[r].file

(* Every claimed completion ends, after crashes too, unless its journal    *)
(* row needs an operator.                                                  *)
CompletionEnds ==
    \A u \in Uploads :
        session[u].status = "completing" ~>
            \/ session[u].status # "completing"
            \/ \E r \in Requests : UploadOf[r] = u /\ NeedsOperator(r)

\* What the client sees of a session: see UploadOutcome.
Outcome == [u \in Uploads |->
              CASE session[u].status = "completed" -> "stored"
                [] session[u].status \in {"cancelled", "gone"} -> "discarded"
                [] OTHER -> "undecided"]

Abstract == INSTANCE UploadOutcome WITH outcome <- Outcome

(* Completion, recovery, retry, cancellation and expiry together decide    *)
(* every upload at most once, and never take a decision back.              *)
OutcomeIsFinal == Abstract!Spec

-----------------------------------------------------------------------------
(* A statement of a test that the running system does not keep.            *)

(* "must not compensate committed output" (pendingWriteReconciliation.     *)
(* test.ts): the object and the row of a completed upload are there.       *)
CommittedOutputKept ==
    \A r \in Requests : Committed(r) => r \in object /\ r \in row
==============================================================================
