------------------------- MODULE ChunkUploadSessions -------------------------
(***************************************************************************)
(* Receiving the chunks of an upload (services/chunkUploadSessions.ts and  *)
(* POST /api/chunked/chunk).                                               *)
(*                                                                         *)
(* A writer is one request that carries one chunk. The chunk goes through  *)
(* a chain of promises (one writer per key at a time), a check of the      *)
(* session and of the known chunks, a lock file, a temporary file, a       *)
(* candidate file and at last the transaction that records it. Requests    *)
(* interleave at every await, with each other, with the transitions of the *)
(* session (see ChunkCompletion) and with the removal of its directory.    *)
(* A crash loses the requests and the chain; the rows and the files stay.  *)
(***************************************************************************)
EXTENDS Naturals, FiniteSets, FiniteSetsExt

CONSTANTS
    Uploads,     \* upload ids
    Writers,     \* requests; their candidate files have random names
    UploadOf,    \* the upload and the chunk index a request names
    IndexOf,
    Content,     \* size and SHA-256 of the chunk of a request
    Bytes,       \* the size, by content
    Size,        \* total_size of an upload
    ChunkCount,  \* total_chunks of an upload
    Budget,      \* GLOBAL_BUDGET_BYTES
    None,
    MaxFaults    \* bound on errors and crashes in one behaviour

\* POST /chunk refuses an index beyond total_chunks.
ASSUME SessionsAssumption ==
    /\ UploadOf \in [Writers -> Uploads]
    /\ Size \in [Uploads -> Nat] /\ ChunkCount \in [Uploads -> Nat]
    /\ IndexOf \in [Writers -> Nat]
    /\ \A w \in Writers : IndexOf[w] < ChunkCount[UploadOf[w]]
    /\ \A w \in Writers : Bytes[Content[w]] \in Nat \ {0}
    /\ None \notin Writers
    /\ Budget \in Nat /\ MaxFaults \in Nat

VARIABLES
    session,    \* chunk_upload_sessions
    recorded,   \* writers whose chunk is a row of chunk_upload_chunks
    files,      \* writers whose candidate file is on disk
    parts,      \* writers whose temporary file is on disk
    locks,      \* keys whose lock file is on disk
    tail,       \* chunkWriteLocks: the last writer in the chain of a key
    previous,   \* the writer a request waits for
    pc,         \* the next await of a request
    result,     \* its response: recorded or duplicate ("ok"), or an error
    removing,   \* uploads whose directory is about to be removed
    unsure,     \* writers whose COMMIT took effect and was reported as failed
    faults

vars == << session, recorded, files, parts, locks, tail, previous, pc, result,
           removing, unsure, faults >>
disk == << files, parts, locks >>
chain == << tail, previous >>

Key(w) == << UploadOf[w], IndexOf[w] >>
Keys == {Key(w) : w \in Writers}
Indexes(u) == 0..(ChunkCount[u] - 1)
Unfinished == {"open", "completing", "failed"}

Live(w) == pc[w] \notin {"idle", "over"}
\* The recorded chunk of the writer's key.
Known(w) == {v \in recorded : Key(v) = Key(w)}
\* WHERE status = 'open' AND expires_at > NOW()
Writable(u) == session[u].status = "open" /\ ~session[u].expired

Faultless == UNCHANGED faults
Fault == faults < MaxFaults /\ faults' = faults + 1

Goto(w, label) == pc' = [pc EXCEPT ![w] = label] /\ UNCHANGED << result, chain >>

\* Mutant: the release is not in a finally block.
LeaveOnSuccess(w, response) ==
    /\ pc' = [pc EXCEPT ![w] = IF response = "ok" THEN "over" ELSE "rejected"]
    /\ result' = [result EXCEPT ![w] = response]
    /\ tail' = [tail EXCEPT ![Key(w)] = IF @ = w THEN None ELSE @]
    /\ UNCHANGED previous
\* Mutant: the entry is deleted without a look at whose it is.
LeaveAndForget(w, response) ==
    /\ pc' = [pc EXCEPT ![w] = "over"]
    /\ result' = [result EXCEPT ![w] = response]
    /\ tail' = [tail EXCEPT ![Key(w)] = None]
    /\ UNCHANGED previous
\* The finally block of writeChunk, in the last step of a request.
Leave(w, response) ==
    /\ pc' = [pc EXCEPT ![w] = "over"]
    /\ result' = [result EXCEPT ![w] = response]
    /\ tail' = [tail EXCEPT ![Key(w)] = IF @ = w THEN None ELSE @]
    /\ UNCHANGED previous

Init ==
    /\ session = [u \in Uploads |-> [status |-> "none", received |-> 0, expired |-> FALSE]]
    /\ recorded = {} /\ files = {} /\ parts = {} /\ locks = {}
    /\ tail = [k \in Keys |-> None]
    /\ previous = [w \in Writers |-> None]
    /\ pc = [w \in Writers |-> "idle"]
    /\ result = [w \in Writers |-> "none"]
    /\ removing = {}
    /\ unsure = {}
    /\ faults = 0

-----------------------------------------------------------------------------
(* The session: reservation, completion, cancellation and expiry.          *)

\* WHERE status IN ('open','completing','failed') AND expires_at > NOW()
Counted == {u \in Uploads : session[u].status \in Unfinished /\ ~session[u].expired}

\* reserveSession, under an advisory lock. (The disk may refuse more.)
Reserve(u) ==
    /\ session[u].status = "none"
    /\ MapThenSumSet(LAMBDA v : Size[v], Counted) + Size[u] <= Budget
    /\ session' = [session EXCEPT ![u].status = "open"]
    /\ UNCHANGED << recorded, disk, chain, pc, result, removing, unsure, faults >>

SetStatus(u, from, to) ==
    /\ session[u].status \in from
    /\ session' = [session EXCEPT ![u].status = to]
    /\ UNCHANGED << recorded, disk, chain, pc, result, unsure, faults >>

\* received_bytes = total_size AND (SELECT COUNT(*) ...) = total_chunks
FullyReceived(u) ==
    /\ session[u].received = Size[u]
    /\ Cardinality({w \in recorded : UploadOf[w] = u}) = ChunkCount[u]

ClaimCompletion(u) ==
    FullyReceived(u) /\ SetStatus(u, {"open"}, "completing") /\ UNCHANGED removing
\* Mutant: a failed completion removes the directory as well.
FailAndRemove(u) ==
    SetStatus(u, {"completing"}, "failed") /\ removing' = removing \cup {u}
\* markCompletionFailed and recoverExpiredCompletions.
FailCompletion(u) == SetStatus(u, {"completing"}, "failed") /\ UNCHANGED removing
\* Both the completion and the cancellation remove the directory afterwards.
Complete(u) ==
    SetStatus(u, {"completing"}, "completed") /\ removing' = removing \cup {u}
Cancel(u) ==
    SetStatus(u, {"open", "failed"}, "cancelled") /\ removing' = removing \cup {u}
\* reopenFailed, which a pending journal row can also refuse.
ReopenFailed(u) ==
    ~session[u].expired /\ SetStatus(u, {"failed"}, "open") /\ UNCHANGED removing

Expire(u) ==
    /\ session[u].status \in Unfinished \cup {"cancelled"}
    /\ ~session[u].expired
    /\ session' = [session EXCEPT ![u].expired = TRUE]
    /\ UNCHANGED << recorded, disk, chain, pc, result, removing, unsure, faults >>

\* deleteExpiredSessions; the chunk rows go by ON DELETE CASCADE.
DeleteExpired(u) ==
    /\ session[u].status \in {"open", "failed", "cancelled"}
    /\ session[u].expired
    /\ session' = [session EXCEPT ![u].status = "gone", ![u].received = 0]
    /\ recorded' = {w \in recorded : UploadOf[w] # u}
    /\ removing' = removing \cup {u}
    /\ UNCHANGED << disk, chain, pc, result, unsure, faults >>

\* fs.rm of the directory; its failure is logged at most.
RemoveDirectory(u) ==
    /\ u \in removing
    /\ removing' = removing \ {u}
    /\ \/ /\ files' = {w \in files : UploadOf[w] # u}
          /\ parts' = {w \in parts : UploadOf[w] # u}
          /\ locks' = {k \in locks : k[1] # u}
          /\ Faultless
       \/ UNCHANGED disk /\ Fault
    /\ UNCHANGED << session, recorded, chain, pc, result, unsure >>

-----------------------------------------------------------------------------
(* The request of a writer.                                                *)

\* POST /chunk found the session; writeChunk appends itself to the chain.
Enqueue(w) ==
    /\ pc[w] = "idle"
    /\ session[UploadOf[w]].status \notin {"none", "gone"}
    /\ pc' = [pc EXCEPT ![w] = "wait"]
    /\ previous' = [previous EXCEPT ![w] = tail[Key(w)]]
    /\ tail' = [tail EXCEPT ![Key(w)] = w]
    /\ UNCHANGED << session, recorded, disk, result, removing, unsure, faults >>

\* await previous
Enter(w) ==
    /\ pc[w] = "wait"
    /\ previous[w] # None => pc[previous[w]] = "over"
    /\ Goto(w, "check")
    /\ UNCHANGED << session, recorded, disk, removing, unsure, faults >>

\* The status alone is looked at here, not the expiry.
CheckSession(w) ==
    /\ pc[w] = "check"
    /\ IF session[UploadOf[w]].status = "open" THEN Goto(w, "check_chunk")
                                               ELSE Leave(w, "refused")
    /\ UNCHANGED << session, recorded, disk, removing, unsure, faults >>

\* The same content is acknowledged again, another content is a conflict.
Answer(w) ==
    IF \E v \in Known(w) : Content[v] = Content[w] THEN "ok" ELSE "refused"

CheckChunk(w) ==
    /\ pc[w] = "check_chunk"
    /\ IF Known(w) = {} THEN Goto(w, "open") ELSE Leave(w, Answer(w))
    /\ UNCHANGED << session, recorded, disk, removing, unsure, faults >>

\* open(lockPath, 'wx') and the temporary file.
OpenLock(w) ==
    /\ pc[w] = "open"
    /\ Key(w) \notin locks
    /\ locks' = locks \cup {Key(w)}
    /\ parts' = parts \cup {w}
    /\ Goto(w, "stream")
    /\ UNCHANGED << session, recorded, files, removing, unsure, faults >>

\* EEXIST: ChunkWriteBusyError.
Busy(w) ==
    /\ pc[w] = "open"
    /\ Key(w) \in locks
    /\ Leave(w, "refused")
    /\ UNCHANGED << session, recorded, disk, removing, unsure, faults >>

\* The stream has the announced size and hash, and the file gets its name.
\* The name is gone when the directory was removed meanwhile.
StreamDone(w) ==
    /\ pc[w] = "stream"
    /\ w \in parts
    /\ parts' = parts \ {w}
    /\ files' = files \cup {w}
    /\ Goto(w, "unlock")
    /\ UNCHANGED << session, recorded, locks, removing, unsure, faults >>

\* The client aborts or sent something else, or the directory is gone.
StreamFails(w) ==
    /\ pc[w] = "stream"
    /\ parts' = parts \ {w}
    /\ Goto(w, "unlock_failed")
    /\ UNCHANGED << session, recorded, files, locks, removing, unsure, faults >>

\* The finally block of writeChunkAtomically swallows its errors.
Unlock(w) ==
    \/ locks' = locks \ {Key(w)} /\ Faultless
    \/ locks' = locks /\ Fault

AfterWrite(w) ==
    /\ Unlock(w)
    /\ \/ pc[w] = "unlock" /\ Goto(w, "record")
       \/ pc[w] = "unlock_failed" /\ Leave(w, "refused")
    /\ UNCHANGED << session, recorded, files, parts, removing, unsure >>

Fits(w) == session[UploadOf[w]].received + Bytes[Content[w]] <= Size[UploadOf[w]]

\* Mutant: SET received_bytes = $3
InsertOverwriting(w) ==
    /\ Writable(UploadOf[w]) /\ Known(w) = {} /\ Fits(w)
    /\ recorded' = recorded \cup {w}
    /\ session' = [session EXCEPT ![UploadOf[w]].received = Bytes[Content[w]]]
Insert(w) ==
    /\ Writable(UploadOf[w]) /\ Known(w) = {} /\ Fits(w)
    /\ recorded' = recorded \cup {w}
    /\ session' = [session EXCEPT ![UploadOf[w]].received = @ + Bytes[Content[w]]]

\* The candidate is dropped, whatever the response will be.
Reject(w, response) ==
    /\ pc' = [pc EXCEPT ![w] = "drop"]
    /\ result' = [result EXCEPT ![w] = response]
    /\ UNCHANGED chain

\* recordChunk. The last disjunct is a COMMIT whose acknowledgement is lost.
Record(w) ==
    /\ pc[w] = "record"
    /\ \/ Insert(w) /\ Leave(w, "ok") /\ Faultless /\ UNCHANGED unsure
       \/ /\ ~(Writable(UploadOf[w]) /\ Known(w) = {} /\ Fits(w))
          /\ Reject(w, IF Writable(UploadOf[w]) THEN Answer(w) ELSE "refused")
          /\ UNCHANGED << session, recorded, unsure, faults >>
       \/ Reject(w, "refused") /\ Fault /\ UNCHANGED << session, recorded, unsure >>
       \/ Insert(w) /\ Reject(w, "refused") /\ Fault /\ unsure' = unsure \cup {w}
    /\ UNCHANGED << disk, removing >>

\* fs.rm(candidate.path), whose errors are swallowed.
RemoveCandidate(w) ==
    \/ files' = files \ {w} /\ Faultless
    \/ files' = files /\ Fault

Drop(w) ==
    /\ pc[w] = "drop"
    /\ RemoveCandidate(w)
    /\ Leave(w, result[w])
    /\ UNCHANGED << session, recorded, parts, locks, removing, unsure >>

\* An error of the database or of the disk before anything was written.
Fail(w) ==
    /\ pc[w] \in {"check", "check_chunk", "open"}
    /\ Fault
    /\ Leave(w, "refused")
    /\ UNCHANGED << session, recorded, disk, removing, unsure >>

Crash ==
    /\ Fault
    /\ pc' = [w \in Writers |-> IF Live(w) THEN "over" ELSE pc[w]]
    /\ tail' = [k \in Keys |-> None]
    /\ previous' = [w \in Writers |-> None]
    /\ removing' = {}
    /\ UNCHANGED << session, recorded, disk, result, unsure >>

-----------------------------------------------------------------------------
WriterStep(w) ==
    \/ Enter(w) \/ CheckSession(w) \/ CheckChunk(w) \/ OpenLock(w) \/ Busy(w)
    \/ StreamDone(w) \/ StreamFails(w) \/ AfterWrite(w) \/ Record(w) \/ Drop(w)

Next ==
    \/ \E u \in Uploads : \/ Reserve(u) \/ ClaimCompletion(u) \/ FailCompletion(u)
                          \/ Complete(u) \/ Cancel(u) \/ ReopenFailed(u)
                          \/ Expire(u) \/ DeleteExpired(u) \/ RemoveDirectory(u)
    \/ \E w \in Writers : Enqueue(w) \/ WriterStep(w) \/ Fail(w)
    \/ Crash

Spec == Init /\ [][Next]_vars
-----------------------------------------------------------------------------
Statuses == {"none", "open", "completing", "completed", "cancelled", "failed", "gone"}
SessionType == [status : Statuses, received : Nat, expired : BOOLEAN]
Labels == {"idle", "wait", "check", "check_chunk", "open", "stream", "unlock",
           "unlock_failed", "record", "drop", "over"}

\* The rows, the files and the requests have their types.
TypeOK ==
    /\ session \in [Uploads -> SessionType]
    /\ recorded \subseteq Writers
    /\ files \subseteq Writers
    /\ parts \subseteq Writers
    /\ locks \subseteq Keys
    /\ tail \in [Keys -> Writers \cup {None}]
    /\ previous \in [Writers -> Writers \cup {None}]
    /\ pc \in [Writers -> Labels]
    /\ result \in [Writers -> {"none", "ok", "refused"}]
    /\ removing \subseteq Uploads
    /\ unsure \subseteq Writers
    /\ faults \in 0..MaxFaults

(* A chunk that an unfinished upload counts as received is on disk, unless *)
(* the acknowledgement of its COMMIT was lost (recordChunk): no clean-up of*)
(* a failed request, a cancelled or an expired upload takes it away.       *)
RecordedChunkHasFile ==
    \A w \in recorded \ unsure :
        session[UploadOf[w]].status \in Unfinished => w \in files

(* A client that was told its chunk is stored finds that very content      *)
(* recorded as long as the upload is unfinished (writeChunk).              *)
AcknowledgedIsStored ==
    \A w \in Writers :
        /\ pc[w] = "over" /\ result[w] = "ok"
        /\ session[UploadOf[w]].status \in Unfinished
        => \E v \in Known(w) : Content[v] = Content[w]

\* The bytes of the recorded chunks of an upload, one by one.
BytesOf(u) ==
    UNION {{w} \X (1..Bytes[Content[w]]) : w \in {v \in recorded : UploadOf[v] = u}}

(* The counter of the session is the sum of its chunks, through conflicts, *)
(* rollbacks and crashes (recordChunk).                                    *)
ReceivedMatchesChunks == \A u \in Uploads : session[u].received = Cardinality(BytesOf(u))

(* An upload whose completion was claimed has every index exactly once.    *)
ClaimedIsComplete ==
    \A u \in Uploads :
        session[u].status \in {"completing", "completed", "failed"} =>
            /\ {IndexOf[w] : w \in {v \in recorded : UploadOf[v] = u}} = Indexes(u)
            /\ \A v, w \in recorded : Key(v) = Key(w) => v = w
            /\ session[u].received = Size[u]

\* Between its check of the session and its response a writer owns its key.
Writing(w) == pc[w] \notin {"idle", "wait", "over"}

(* The chain of promises lets one writer per chunk through (chunkWriteLocks)*)
OneWriterPerChunk ==
    \A v, w \in Writers :
        v # w /\ Key(v) = Key(w) => ~(Writing(v) /\ Writing(w))

(* Without errors and crashes nothing is left behind: a file on disk is    *)
(* being written, recorded, or in a directory that is about to be removed. *)
NoStrayFile ==
    faults = 0 =>
        /\ \A w \in files \cup parts :
              Live(w) \/ w \in recorded \/ UploadOf[w] \in removing
        /\ \A k \in locks : \E w \in Writers : Key(w) = k /\ Writing(w)

(* No upload receives more than it was promised, in whatever order its     *)
(* chunks arrive and fail.                                                 *)
ReceivedWithinSize == \A u \in Uploads : session[u].received <= Size[u]

(* The rows of an upload tell what its client was told and what is on disk. *)
RowsTellTheTruth ==
    /\ AcknowledgedIsStored /\ ReceivedMatchesChunks /\ ClaimedIsComplete
    /\ NoStrayFile /\ ReceivedWithinSize

(* Every request that waits for its turn is answered.                      *)
Answered(w) == pc[w] \in {"idle", "over"}
=============================================================================
