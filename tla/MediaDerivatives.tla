-------------------------- MODULE MediaDerivatives --------------------------
(***************************************************************************)
(* Thumbnails and previews (services/mediaDerivatives.ts,                  *)
(* utils/thumbnail.ts).  An upload writes its row as 'queued' and then     *)
(* enqueues a job; a few slots work on the queue, each job claiming its    *)
(* row, making a thumbnail, reading the dimensions and making a preview    *)
(* under a deadline each.  The row of an interrupted job is queued again   *)
(* when the server starts.  A request for a preview that is not there      *)
(* makes one on its own (routes/files.ts).  The source of a file of a      *)
(* remote storage is a temporary copy that the job removes at its end.     *)
(***************************************************************************)
EXTENDS Integers, Sequences, FiniteSets, SequencesExt, FiniteSetsExt

CONSTANTS
    Files,      \* the images and videos uploaded
    Remote,     \* those of a remote storage: their source is a temporary copy
    Slots,      \* MEDIA_DERIVATIVE_CONCURRENCY
    Batch,      \* rows that a recovery reads (1000 in the code)
    Requests,   \* requests for previews that run at a time
    MaxEvents   \* bound on deletions, restarts, deadlines and failures

DerivativesAssumption ==
    /\ IsFiniteSet(Files) /\ Remote \subseteq Files /\ IsFiniteSet(Requests)
    /\ Slots \in Nat \ {0} /\ Batch \in Nat \ {0} /\ MaxEvents \in Nat

VARIABLES
    row,     \* the rows: derivative_status, and the preview that is recorded
    source,  \* the files whose source is on the disk
    shown,   \* the previews on the disk: the file and a number
    job,     \* the job of a file: where it is, whether its deadline passed, its preview
    queue,
    upload,  \* the uploads: "none", "indexed" (not enqueued yet), "done"
    deleting, \* the preview that a deletion read from the row, or -1
    request, \* the file whose preview a request makes, or "none"
    lost,    \* files that a failure or a restart left half done: a job that wrote no
             \* outcome or had not cleaned up, a deletion that kept its row
    events
vars == << row, source, shown, job, queue, upload, deleting, request, lost, events >>

NoRow == [status |-> "none", preview |-> 0]
NoJob == [at |-> "none", late |-> FALSE, made |-> 0]
Working == {"claim", "thumbnail", "dimensions", "preview", "store", "fail", "clean"}
Generating == {"thumbnail", "dimensions", "preview"}
Active(j) == {f \in Files : j[f].at \in Working}

Init ==
    /\ row = [f \in Files |-> NoRow] /\ source = {} /\ shown = {}
    /\ job = [f \in Files |-> NoJob] /\ queue = << >> /\ upload = [f \in Files |-> "none"]
    /\ deleting = [f \in Files |-> -1] /\ request = [r \in Requests |-> "none"]
    /\ lost = {} /\ events = 0
-----------------------------------------------------------------------------
Event == events < MaxEvents /\ events' = events + 1
New(f) == << f, 1 + Max({0} \cup {p[2] : p \in {q \in shown : q[1] = f}}) >>
SetRow(f, st) == row' = IF row[f] = NoRow THEN row ELSE [row EXCEPT ![f].status = st]

(* drain: the slots that are free take jobs from the queue.                *)
Drain(j, q) ==
    LET free == Slots - Cardinality(Active(j))
        taken == SubSeq(q, 1, Min({free, Len(q)}))
    IN  /\ queue' = SubSeq(q, Len(taken) + 1, Len(q))
        /\ job' = [f \in Files |->
                       IF Contains(taken, f) THEN [NoJob EXCEPT !.at = "claim"] ELSE j[f]]

(* routes/upload.ts and the completion of chunks: save and index, then     *)
(* enqueue; a file that is queued or worked on is not enqueued again.      *)
Upload(f) ==
    /\ upload[f] = "none"
    /\ upload' = [upload EXCEPT ![f] = "indexed"] /\ source' = source \cup {f}
    /\ row' = [row EXCEPT ![f] = [status |-> "queued", preview |-> 0]]
    /\ UNCHANGED << shown, job, queue, deleting, request, lost, events >>

Known(f) == job[f].at # "none"
Enqueue(f) ==
    /\ upload[f] = "indexed" /\ upload' = [upload EXCEPT ![f] = "done"]
    /\ IF Known(f) THEN UNCHANGED << job, queue >>
       ELSE Drain([job EXCEPT ![f].at = "queue"], Append(queue, f))
    /\ UNCHANGED << row, source, shown, deleting, request, lost, events >>
-----------------------------------------------------------------------------
(* processJob.  A row that is not queued any more ends the job before its  *)
(* clean-up.                                                               *)
Step(f, st) == job' = [job EXCEPT ![f].at = st, ![f].late = FALSE]
Leave(f) == Drain([job EXCEPT ![f] = NoJob], queue)

Claim(f) ==
    /\ job[f].at = "claim"
    /\ IF row[f].status = "queued"
       THEN SetRow(f, "processing") /\ Step(f, "thumbnail") /\ UNCHANGED queue
       ELSE Leave(f) /\ UNCHANGED row
    /\ UNCHANGED << source, shown, upload, deleting, request, lost, events >>

(* settleWithDeadline: what is late fails, once it has ended.              *)
Deadline(f) ==
    /\ job[f].at \in Generating /\ ~job[f].late /\ Event
    /\ job' = [job EXCEPT ![f].late = TRUE]
    /\ UNCHANGED << row, source, shown, queue, upload, deleting, request, lost >>

Settled(f) == job[f].at \in Generating
After(f) == CASE job[f].at = "thumbnail" -> "dimensions" [] job[f].at = "dimensions" -> "preview"
              [] OTHER -> "store"

NoResult(f) == Step(f, "fail")

GeneratorFails(f) ==
    /\ Settled(f) /\ NoResult(f) /\ IF f \in source THEN Event ELSE UNCHANGED events
    /\ UNCHANGED << row, source, shown, queue, upload, deleting, request, lost >>

Generated(f) ==
    /\ Settled(f) /\ f \in source
    /\ LET new == IF job[f].at = "preview" THEN New(f) ELSE << f, 0 >>
       IN  /\ shown' = IF job[f].at = "preview" THEN shown \cup {new} ELSE shown
           /\ job' = [job EXCEPT ![f] = [at |-> IF job[f].late THEN "fail" ELSE After(f),
                                        late |-> FALSE, made |-> new[2]]]
    /\ UNCHANGED << row, source, queue, upload, deleting, request, lost, events >>

(* The row gets what was made.                                             *)
Store(f) ==
    /\ job[f].at = "store"
    /\ \/ /\ Step(f, "clean") /\ UNCHANGED events
          /\ row' = IF row[f] = NoRow THEN row
                    ELSE [row EXCEPT ![f] = [status |-> "ready", preview |-> job[f].made]]
       \/ Event /\ Step(f, "fail") /\ UNCHANGED row
    /\ UNCHANGED << source, shown, queue, upload, deleting, request, lost >>

Fail(f) ==
    /\ job[f].at = "fail" /\ Step(f, "clean")
    /\ \/ SetRow(f, "failed") /\ UNCHANGED << events, lost >>
       \/ Event /\ UNCHANGED row /\ lost' = lost \cup {f}
    /\ UNCHANGED << source, shown, queue, upload, deleting, request >>

Cleaned(f) == source \ (Remote \cap {f})
Clean(f) ==
    /\ job[f].at = "clean" /\ Leave(f) /\ source' = Cleaned(f)
    /\ UNCHANGED << row, shown, upload, deleting, request, lost, events >>
-----------------------------------------------------------------------------
(* A restart, and recoverMediaDerivativeJobs before the server listens.    *)
\* Mutant: a recovery takes up failed rows, too.
RequeuedFailed(f) ==
    IF row[f].status \in {"processing", "failed"} THEN [row[f] EXCEPT !.status = "queued"] ELSE row[f]
Requeued(f) == IF row[f].status = "processing" THEN [row[f] EXCEPT !.status = "queued"] ELSE row[f]
Restart ==
    /\ Event /\ row' = [f \in Files |-> Requeued(f)]
    /\ \E q \in SetToSeqs({f \in Files : row'[f].status = "queued"}) :
          Drain([f \in Files |->
                     IF Contains(SubSeq(q, 1, Min({Batch, Len(q)})), f)
                     THEN [NoJob EXCEPT !.at = "queue"] ELSE NoJob],
                SubSeq(q, 1, Min({Batch, Len(q)})))
    /\ upload' = [f \in Files |-> IF upload[f] = "indexed" THEN "done" ELSE upload[f]]
    /\ deleting' = [f \in Files |-> -1] /\ request' = [r \in Requests |-> "none"]
    /\ lost' = lost \cup {f \in Files : job[f].at = "clean" \/ deleting[f] # -1}
    /\ UNCHANGED << source, shown >>

(* A deletion reads the row, removes what it names, and deletes the row.   *)
DeleteReads(f) ==
    /\ row[f] # NoRow /\ upload[f] = "done" /\ deleting[f] = -1 /\ Event
    /\ deleting' = [deleting EXCEPT ![f] = row[f].preview]
    /\ source' = source \ ({f} \ Remote)
    /\ shown' = shown \ {<< f, row[f].preview >>}
    /\ UNCHANGED << row, job, queue, upload, request, lost >>

DeleteRow(f) ==
    /\ deleting[f] # -1 /\ deleting' = [deleting EXCEPT ![f] = -1]
    /\ \/ row' = [row EXCEPT ![f] = NoRow] /\ UNCHANGED << lost, events >>
       \/ Event /\ lost' = lost \cup {f} /\ UNCHANGED row
    /\ UNCHANGED << source, shown, job, queue, upload, request >>

(* GET /:id/preview of a local file without one.                           *)
RequestPreview(r, f) ==
    /\ request[r] = "none" /\ f \in source \ Remote /\ row[f] # NoRow
    /\ << f, row[f].preview >> \notin shown /\ Event
    /\ request' = [request EXCEPT ![r] = f]
    /\ UNCHANGED << row, source, shown, job, queue, upload, deleting, lost >>

RequestMakes(r) ==
    /\ request[r] # "none" /\ request' = [request EXCEPT ![r] = "none"]
    /\ LET f == request[r]
       IN  /\ shown' = IF f \in source THEN shown \cup {New(f)} ELSE shown
           /\ row' = IF row[f] = NoRow \/ f \notin source THEN row
                     ELSE [row EXCEPT ![f].preview = New(f)[2]]
    /\ UNCHANGED << source, job, queue, upload, deleting, lost, events >>
-----------------------------------------------------------------------------
Serve ==
    \/ \E f \in Files : Enqueue(f) \/ Claim(f) \/ Generated(f) \/ GeneratorFails(f) \/ Store(f)
                          \/ Fail(f) \/ Clean(f) \/ DeleteRow(f)
    \/ \E r \in Requests : RequestMakes(r)
Next ==
    \/ Serve \/ Restart
    \/ \E f \in Files : Upload(f) \/ Deadline(f) \/ DeleteReads(f)
    \/ \E r \in Requests, f \in Files : RequestPreview(r, f)
Spec == Init /\ [][Next]_vars
-----------------------------------------------------------------------------
(* The types.                                                              *)
TypeOK ==
    /\ \A f \in Files : row[f].status \in {"none", "queued", "processing", "ready", "failed"}
    /\ source \subseteq Files /\ lost \subseteq Files /\ queue \in Seq(Files)
    /\ \A f \in Files : job[f].at \in {"none", "queue"} \cup Working

(* A job that is waiting, or may be recovered, has what it works on: the   *)
(* source of a row that is not settled is on the disk.  Not so when a      *)
(* deletion took it, or when neither outcome of a job could be written     *)
(* before it removed its temporary copy.                                   *)
SourceKept ==
    \A f \in Files : (/\ row[f].status \in {"queued", "processing"} /\ deleting[f] = -1
                      /\ job[f].at \notin {"clean"} /\ f \notin lost) => f \in source

(* The temporary copies do not pile up: one stays only for a row that      *)
(* waits for its job or is in it.  Two ways leave one that nobody removes: *)
(* a row deleted before its job claimed it (the job leaves before its      *)
(* clean-up), and a restart between the outcome and the clean-up.          *)
TempIsCleaned ==
    \A f \in Remote \cap source : row[f].status \in {"queued", "processing"}
                                  \/ Known(f) \/ upload[f] = "indexed" \/ f \in lost
                                  \/ row[f] = NoRow

(* A file shown as ready has the preview that its row names.               *)
ReadyHasPreview ==
    \A f \in Files : row[f].status = "ready" /\ deleting[f] = -1 /\ f \notin lost =>
        << f, row[f].preview >> \in shown

(* Every upload is settled in the end, through restarts: its row is ready  *)
(* or failed or deleted, or it could not be written.                       *)
Over(f) == upload[f] = "none" \/ row[f].status \in {"none", "ready", "failed"} \/ f \in lost
=============================================================================
