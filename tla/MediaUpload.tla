---------------------------- MODULE MediaUpload ----------------------------
(***************************************************************************)
(* The files a user sends to the bot (services/telegramUpload.ts): albums, *)
(* whose messages are collected for a moment and processed together, and   *)
(* single files; each is downloaded to a temporary file, stored, entered   *)
(* in the table of files, and taken back when its task was cancelled.      *)
(*                                                                         *)
(* The queue that starts the tasks is DownloadTaskQueue; files of channel  *)
(* jobs, which have a lease and a journal, are ChannelJobs and             *)
(* TelegramWrites.  The messages shown to the user are ChatStatus.         *)
(***************************************************************************)
EXTENDS Integers, FiniteSets

CONSTANTS
    Album,      \* the messages of one album
    Singles,    \* messages with one file
    Twins,      \* messages whose files have the same name and size
    SkipTwins,  \* the duplicate policy is "skip"
    MaxEvents   \* bound on errors, cancellations and shortages of space

Messages == Album \cup Singles
UploadAssumption ==
    /\ Album \cap Singles = {} /\ Twins \subseteq Messages
    /\ IsFiniteSet(Messages) /\ "none" \notin Messages
    /\ SkipTwins \in BOOLEAN /\ MaxEvents \in Nat

VARIABLES
    hand,      \* the handler of each message, and the queue it was given
    map,       \* mediaGroupQueues: the queue of the album, 0 if there is none
    creating,  \* mediaGroupQueueCreations
    made,      \* queues made so far
    timer,     \* the debouncer has a timer for the album
    proc,      \* processBatchUpload of each queue
    file,      \* the status of each file, as its task or its queue knows it
    work,      \* the task of each file
    aborted,   \* tasks whose signal is aborted
    temp,      \* temporary files
    object,    \* stored objects
    row,       \* rows of files, by message
    holder,    \* who has the write lock of the folder
    low,       \* the disk is below the watermark
    blockers,  \* downloads that hold the queue back
    odd,       \* files that ended in one of the code's gaps, for the properties
    events

vars == << hand, map, creating, made, timer, proc, file, work, aborted, temp, object,
           row, holder, low, blockers, odd, events >>
albumVars == << hand, map, creating, made, timer, proc >>
taskVars == << file, work, aborted, temp, object, row, holder, low, blockers, odd >>

None == "none"
Queues == 1..Cardinality(Album)
NoProc == [started |-> FALSE, at |-> "idle", snap |-> {}]
Gaps == {"orphan", "refused", "quota", "gaveUp", "uncompensated", "undoFailed"}

Init ==
    /\ hand = [m \in Messages |-> [at |-> "new", queue |-> 0]]
    /\ map = 0 /\ creating = FALSE /\ made = 0 /\ timer = FALSE
    /\ proc = [q \in Queues |-> NoProc]
    /\ file = [m \in Messages |-> "none"]
    /\ work = [m \in Messages |-> [at |-> "none", tries |-> 0]]
    /\ aborted = {} /\ temp = {} /\ object = {} /\ row = [m \in Messages |-> 0]
    /\ holder = None /\ low = FALSE /\ blockers = {}
    /\ odd = [g \in Gaps |-> {}] /\ events = 0
-----------------------------------------------------------------------------
Event == events < MaxEvents /\ events' = events + 1
Pending(q) == {m \in Album : hand[m].queue = q /\ hand[m].at = "in" /\ file[m] = "pending"}
Gap(g, m) == odd' = [odd EXCEPT ![g] = @ \cup {m}]

(* The album: getOrCreateTelegramMediaGroupQueue and the debouncer. *)
\* A message takes the queue there is, or the one that is being made.
Arrive(m) ==
    /\ m \in Album /\ hand[m].at = "new"
    /\ hand' = [hand EXCEPT ![m] = [at |-> "asking", queue |-> map]]
    /\ creating' = (creating \/ map = 0)
    /\ UNCHANGED << map, made, timer, proc, taskVars, events >>

\* The chosen storage target is read; without one nobody gets the queue.
Created(ok) ==
    /\ creating /\ creating' = FALSE
    /\ LET waiting == {m \in Album : hand[m] = [at |-> "asking", queue |-> 0]} IN
       IF ok
       THEN /\ made' = made + 1 /\ map' = made + 1
            /\ hand' = [m \in Messages |-> IF m \in waiting THEN [hand[m] EXCEPT !.queue = made + 1]
                                           ELSE hand[m]]
            /\ UNCHANGED << odd, events >>
       ELSE /\ Event
            /\ hand' = [m \in Messages |-> IF m \in waiting THEN [at |-> "in", queue |-> 0]
                                           ELSE hand[m]]
            /\ odd' = [odd EXCEPT !["refused"] = @ \cup waiting]
            /\ UNCHANGED << made, map >>
    /\ UNCHANGED << timer, proc, file, work, aborted, temp, object, row, holder, low, blockers >>

\* The rest of the handler; the queue may have gone since it was asked for.
Push(m) ==
    /\ hand[m].at = "asking" /\ hand[m].queue # 0
    /\ hand' = [hand EXCEPT ![m].at = "in"]
    /\ file' = [file EXCEPT ![m] = "pending"] /\ timer' = TRUE
    /\ IF hand[m].queue = map THEN UNCHANGED odd ELSE Gap("orphan", m)
    /\ UNCHANGED << map, creating, made, proc, work, aborted, temp, object, row, holder, low,
                    blockers, events >>

\* The quiet window, or the longest wait, is over: processBatchUpload.
Fire ==
    /\ timer /\ timer' = FALSE
    /\ IF map = 0 THEN UNCHANGED << map, proc >>
       ELSE IF proc[map].started THEN UNCHANGED << map, proc >>
       ELSE /\ proc' = [proc EXCEPT ![map] =
                 [started |-> TRUE, at |-> IF Pending(map) = {} THEN "idle" ELSE "admit",
                  snap |-> Pending(map)]]
            /\ map' = IF Pending(map) = {} THEN 0 ELSE map
    /\ UNCHANGED << hand, creating, made, taskVars, events >>

\* admitOrdinaryTransferTask and the queue's group; then every file is queued.
Admit(q, ok) ==
    /\ proc[q].at = "admit"
    /\ IF ok
       THEN /\ proc' = [proc EXCEPT ![q].at = "files"]
            /\ file' = [m \in Messages |-> IF m \in proc[q].snap THEN "queued" ELSE file[m]]
            /\ work' = [m \in Messages |-> IF m \in proc[q].snap THEN [at |-> "queue", tries |-> 0]
                                           ELSE work[m]]
            /\ UNCHANGED << timer, events >>
       ELSE /\ Event /\ proc' = [proc EXCEPT ![q] = NoProc] /\ timer' = TRUE
            /\ UNCHANGED << file, work >>
    /\ UNCHANGED << hand, map, creating, made, aborted, temp, object, row, holder, low,
                    blockers, odd >>

Done(m) == work[m].at = "done"

\* All have ended; messages that came meanwhile are processed in another round.
WrapUp(q) ==
    /\ proc[q].at = "files" /\ \A m \in proc[q].snap : Done(m)
    /\ IF Pending(q) = {}
       THEN map' = 0 /\ proc' = [proc EXCEPT ![q].at = "idle"] /\ UNCHANGED timer
       ELSE timer' = TRUE /\ proc' = [proc EXCEPT ![q] = NoProc] /\ UNCHANGED map
    /\ UNCHANGED << hand, creating, made, taskVars, events >>

\* A single file: admitted and queued by its handler.
Single(m, ok) ==
    /\ m \in Singles /\ hand[m].at = "new"
    /\ hand' = [hand EXCEPT ![m].at = "in"]
    /\ IF ok
       THEN /\ work' = [work EXCEPT ![m].at = "queue"] /\ file' = [file EXCEPT ![m] = "queued"]
            /\ UNCHANGED << odd, events >>
       ELSE Event /\ Gap("refused", m) /\ UNCHANGED << work, file >>
    /\ UNCHANGED << map, creating, made, timer, proc, aborted, temp, object, row, holder, low,
                    blockers >>
-----------------------------------------------------------------------------
(* The task of a file. *)
At(m, l) == work[m].at = l
To(m, l) == work' = [work EXCEPT ![m].at = l]
Ends(m, st) == To(m, "done") /\ file' = [file EXCEPT ![m] = st]
Unlock(m) == holder' = IF holder = m THEN None ELSE holder
Aborted(m) == m \in aborted

MayRetry(m) == work[m].tries = 0 /\ ~Aborted(m)

\* An attempt that failed has removed its temporary file; there is one more.
AttemptFails(m) ==
    /\ Unlock(m) /\ blockers' = blockers \ {m} /\ temp' = temp \ {m}
    /\ IF MayRetry(m)
       THEN work' = [work EXCEPT ![m] = [at |-> "check", tries |-> 1]] /\ UNCHANGED file
       ELSE Ends(m, "failed")

\* The provider's daily quota: a single file waits, a file of an album is given
\* up with the status it has.
Quota(m) ==
    /\ Unlock(m) /\ temp' = temp \ {m} /\ UNCHANGED blockers
    /\ IF m \in Singles
       THEN work' = [work EXCEPT ![m] = [at |-> "cool", tries |-> 1]] /\ UNCHANGED << file, odd >>
       ELSE Ends(m, "uploading") /\ Gap("quota", m)

Start(m) ==
    /\ At(m, "queue") /\ blockers = {} /\ To(m, "check")
    /\ file' = [file EXCEPT ![m] = "uploading"]
    /\ UNCHANGED << albumVars, aborted, temp, object, row, holder, low, blockers, odd, events >>

\* assertStorageTargetWritable and the folder of the file.
Check(m) ==
    /\ At(m, "check")
    /\ \/ /\ ~Aborted(m) \/ m \in Album
          /\ To(m, "disk") /\ UNCHANGED << file, temp, holder, blockers, odd, events >>
       \/ m \in Singles /\ Aborted(m) /\ AttemptFails(m) /\ UNCHANGED << odd, events >>
       \/ Event /\ AttemptFails(m) /\ UNCHANGED odd
       \/ Event /\ Quota(m)
    /\ UNCHANGED << albumVars, aborted, object, row, low >>

\* waitForDiskWatermark: blocks the queue while it waits, and lets go in any case.
Disk(m) ==
    /\ At(m, "disk")
    /\ \/ /\ ~low /\ ~Aborted(m) /\ To(m, "download") /\ blockers' = blockers \ {m}
          /\ UNCHANGED << file, temp, holder >>
       \/ /\ low /\ ~Aborted(m) /\ m \notin blockers /\ blockers' = blockers \cup {m}
          /\ UNCHANGED << work, file, temp, holder >>
       \/ (Aborted(m) \/ m \in blockers) /\ AttemptFails(m)
    /\ UNCHANGED << albumVars, aborted, object, row, low, odd, events >>

\* downloadAndSaveFile; on an error it removes what it wrote.
Download(m) ==
    /\ At(m, "download")
    /\ \/ To(m, "twin") /\ temp' = temp \cup {m} /\ UNCHANGED << file, holder, blockers, events >>
       \/ (IF Aborted(m) THEN UNCHANGED events ELSE Event) /\ AttemptFails(m)
    /\ UNCHANGED << albumVars, aborted, object, row, low, odd >>

HasTwin(m) == SkipTwins /\ m \in Twins /\ \E n \in Twins \ {m} : row[n] > 0

\* findDuplicateFile, before the lock.
Twin(m) ==
    /\ At(m, "twin")
    /\ IF HasTwin(m) THEN Ends(m, "success") /\ temp' = temp \ {m} /\ UNCHANGED << holder, blockers >>
       ELSE IF Aborted(m) THEN AttemptFails(m)
       ELSE /\ m \in Album => holder = None
            /\ holder' = IF m \in Album THEN m ELSE holder
            /\ To(m, "save") /\ UNCHANGED << file, temp, blockers >>
    /\ UNCHANGED << albumVars, aborted, object, row, low, odd, events >>

Save(m) ==
    /\ At(m, "save")
    /\ \/ /\ ~Aborted(m) /\ To(m, "index") /\ object' = object \cup {<<m, work[m].tries>>}
          /\ UNCHANGED << file, temp, holder, blockers, odd, events >>
       \/ /\ (IF Aborted(m) THEN UNCHANGED events ELSE Event) /\ AttemptFails(m)
          /\ UNCHANGED << object, odd >>
       \/ Event /\ ~Aborted(m) /\ Quota(m) /\ UNCHANGED object
    /\ UNCHANGED << albumVars, aborted, row, low >>

\* saveAndIndexWithCompensation deletes the object; a file of an album has no
\* journal and leaves it.
IndexFails(m) ==
    /\ Event /\ AttemptFails(m)
    /\ \/ m \in Singles /\ object' = object \ {<<m, work[m].tries>>} /\ UNCHANGED odd
       \/ Gap("uncompensated", m) /\ UNCHANGED object

Index(m) ==
    /\ At(m, "index")
    /\ \/ /\ row' = [row EXCEPT ![m] = @ + 1] /\ To(m, "end")
          /\ UNCHANGED << object, file, temp, holder, blockers, odd, events >>
       \/ IndexFails(m) /\ UNCHANGED row
    /\ UNCHANGED << albumVars, aborted, low >>

\* Stored and entered; a task that was cancelled meanwhile takes both back.
End(m) ==
    /\ At(m, "end") /\ temp' = temp \ {m}
    /\ IF Aborted(m) THEN To(m, "undo") /\ UNCHANGED << file, holder >>
       ELSE Ends(m, "success") /\ Unlock(m)
    /\ UNCHANGED << albumVars, aborted, object, row, low, blockers, odd, events >>

\* Mutant: the object goes, the row stays.
UndoHalf(m) ==
    /\ At(m, "undo") /\ AttemptFails(m)
    /\ object' = object \ {<<m, work[m].tries>>} /\ UNCHANGED << row, odd, events >>
    /\ UNCHANGED << albumVars, aborted, low >>

\* compensateIndexedWriteAfterCancel: the object, then the row; either may fail.
Undo(m) ==
    /\ At(m, "undo") /\ AttemptFails(m)
    /\ \/ /\ object' = object \ {<<m, work[m].tries>>} /\ row' = [row EXCEPT ![m] = @ - 1]
          /\ UNCHANGED << odd, events >>
       \/ /\ Event /\ Gap("undoFailed", m) /\ UNCHANGED row
          /\ object' \in {object, object \ {<<m, work[m].tries>>}}
    /\ UNCHANGED << albumVars, aborted, low >>

\* waitForStorageCooldownRetry, for single files.
Cooled(m) ==
    /\ At(m, "cool")
    /\ IF Aborted(m) THEN Ends(m, "success") /\ Gap("gaveUp", m)
       ELSE To(m, "check") /\ UNCHANGED << file, odd >>
    /\ UNCHANGED << albumVars, aborted, temp, object, row, holder, low, blockers, events >>

\* The user cancels the group: a queued file ends, a running one is told.
Cancel(m) ==
    /\ work[m].at \notin {"none", "done"} /\ ~Aborted(m) /\ Event
    /\ IF At(m, "queue") THEN Ends(m, "failed") /\ UNCHANGED aborted
       ELSE aborted' = aborted \cup {m} /\ UNCHANGED << work, file >>
    /\ UNCHANGED << albumVars, temp, object, row, holder, low, blockers, odd >>

DiskFills == ~low /\ Event /\ low' = TRUE
             /\ UNCHANGED << albumVars, file, work, aborted, temp, object, row, holder, blockers, odd >>
DiskFrees == low /\ low' = FALSE
             /\ UNCHANGED << albumVars, file, work, aborted, temp, object, row, holder, blockers,
                             odd, events >>
-----------------------------------------------------------------------------
TaskStep(m) == Start(m) \/ Check(m) \/ Disk(m) \/ Download(m) \/ Twin(m) \/ Save(m)
               \/ Index(m) \/ End(m) \/ Undo(m) \/ Cooled(m)
AlbumStep == Created(TRUE) \/ Fire \/ \E q \in Queues : Admit(q, TRUE) \/ WrapUp(q)

Next ==
    \/ \E m \in Messages : Arrive(m) \/ Push(m) \/ TaskStep(m) \/ Cancel(m)
                           \/ \E ok \in BOOLEAN : Single(m, ok)
    \/ AlbumStep \/ Created(FALSE) \/ \E q \in Queues : Admit(q, FALSE)
    \/ DiskFills \/ DiskFrees

Spec == Init /\ [][Next]_vars
-----------------------------------------------------------------------------
\* Every variable has its type.
TypeOK ==
    /\ hand \in [Messages -> [at : {"new", "asking", "in"}, queue : {0} \cup Queues]]
    /\ map \in {0} \cup Queues /\ made \in {0} \cup Queues
    /\ proc \in [Queues -> [started : BOOLEAN, at : {"idle", "admit", "files"}, snap : SUBSET Album]]
    /\ file \in [Messages -> {"none", "pending", "queued", "uploading", "success", "failed"}]
    /\ {aborted, temp, blockers} \subseteq SUBSET Messages
    /\ row \in [Messages -> 0..2] /\ holder \in Album \cup {None}

Running(m) == work[m].at \notin {"none", "queue", "done"}

\* A row of the table names an object that exists, unless taking both back
\* failed half-way.
RowHasObject ==
    \A m \in Messages : row[m] > 0 =>
        m \in odd["undoFailed"] \/ \E k \in 0..1 : <<m, k>> \in object

\* An object has its row, or its task is still between the two, or taking it
\* back failed; the INSERT of an album's file is the one that nobody takes back.
ObjectHasRow ==
    \A m \in Messages, k \in 0..1 : <<m, k>> \in object =>
        \/ row[m] > 0 \/ work[m].at \in {"index", "end", "undo"}
        \/ m \in odd["uncompensated"] \cup odd["undoFailed"]

\* A file whose task was cancelled before it had ended leaves no row behind, and
\* no file is entered twice, whatever was retried.
CancelledLeavesNothing ==
    \A m \in Messages :
        /\ row[m] <= 1
        /\ Done(m) /\ Aborted(m) /\ row[m] = 1 => m \in odd["undoFailed"]

\* A download that ended, in whichever way, holds no temporary file, no lock, and
\* does not hold the queue back.
NothingHeld ==
    \A m \in Messages : ~Running(m) => m \notin temp \cup blockers /\ holder # m

\* What the task reports as done is in the table, or was there before; a file that
\* waited for the quota and was cancelled is reported as done as well.
SuccessIsStored ==
    \A m \in Messages : file[m] = "success" =>
        row[m] > 0 \/ m \in odd["gaveUp"] \/ (SkipTwins /\ m \in Twins)

\* A message of an album is processed however late it comes, unless its queue was
\* dropped between its lookup and its arrival in it.
Taken(m) == file[m] # "pending" \/ m \in odd["orphan"]

\* A queued file comes to an end.
Ended(m) == work[m].at = "none" \/ Done(m)
=============================================================================
