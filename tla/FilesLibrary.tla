---------------------------- MODULE FilesLibrary ----------------------------
(***************************************************************************)
(* The index of the files and their objects (routes/files.ts,              *)
(* routes/folderOperations.ts, services/fileDeletion.ts, utils/fileScope.ts *)
(* and the file commands of the bot): folders that are made, moved and     *)
(* filled, and deletions, which are asked about first, list what they will *)
(* delete, and are confirmed later.  A folder is kept alive by a row of    *)
(* its own, its mark.  Deletions, uploads and moves overlap.               *)
(***************************************************************************)
EXTENDS Integers, FiniteSets

CONSTANTS
    Files,      \* the ids of files
    Marks,      \* the ids of the marks of folders
    Folders,
    Jobs,       \* deletions asked about or under way at a time
    MaxOps,     \* bound on what the users do
    MaxEvents   \* bound on failures, switches of the storage account, restarts

LibraryAssumption ==
    /\ IsFiniteSet(Files) /\ IsFiniteSet(Marks) /\ IsFiniteSet(Folders) /\ IsFiniteSet(Jobs)
    /\ Files \cap Marks = {} /\ MaxOps \in Nat /\ MaxEvents \in Nat

VARIABLES
    storage,  \* "local", "webdav", or another "cloud"
    row,      \* the rows: the folder each id is listed in, or "none"
    object,   \* the objects of the files: the directory each is in, or "none"
    making,   \* the marks that are being made: the folder each is for, or "none"
    moving,   \* the folder that is being moved, and where to
    job,      \* the deletions
    here,     \* the account of the rows is the active one
    agreed,   \* what was listed by a deletion that was confirmed
    told,     \* what a deletion was answered to have deleted
    refused,  \* the marks that a deletion reported as failed with nothing in its way
    away,     \* a deletion read its rows while another account was active
    ops, events
vars == << storage, row, object, making, moving, job, here, agreed, told, refused, away, ops, events >>
rowVars == << storage, row, object, making, moving, here >>
askVars == << agreed, told, refused, away >>

Ids == Files \cup Marks
Idle == [at |-> "idle", kind |-> "none", ids |-> {}, paths |-> {}, read |-> [i \in {} |-> "none"], id |-> "none"]
Rows == {i \in Ids : row[i] # "none"}
In(g) == {i \in Ids : row[i] = g}

Init ==
    /\ storage \in {"local", "webdav", "cloud"}
    /\ \E g \in Folders, there \in SUBSET Files :
          /\ object = [f \in Files |-> IF f \in there THEN g ELSE "none"]
          /\ row = [i \in Ids |-> IF i \in there THEN g ELSE "none"]
    /\ making = [m \in Marks |-> "none"] /\ moving = << "none", "none" >>
    /\ job = [j \in Jobs |-> Idle] /\ here = TRUE
    /\ agreed = {} /\ told = {} /\ refused = {} /\ away = FALSE /\ ops = 0 /\ events = 0
-----------------------------------------------------------------------------
Op == ops < MaxOps /\ ops' = ops + 1 /\ UNCHANGED events
Event == events < MaxEvents /\ events' = events + 1 /\ UNCHANGED ops
Goes == UNCHANGED << ops, events >>

(* An upload stores its object and then inserts its row.                   *)
Store(f, g) ==
    /\ row[f] = "none" /\ object[f] = "none" /\ f \notin agreed \cup told /\ Op
    /\ object' = [object EXCEPT ![f] = g]
    /\ UNCHANGED << storage, row, making, moving, job, here, askVars >>
Insert(f) ==
    /\ object[f] # "none" /\ row[f] = "none" /\ f \notin told /\ Goes
    /\ row' = [row EXCEPT ![f] = object[f]]
    /\ UNCHANGED << storage, object, making, moving, job, here, askVars >>

(* POST /folders looks for rows in the folder and then inserts its mark.   *)
CreateFolder(m, g) ==
    /\ here /\ row[m] = "none" /\ making[m] = "none" /\ m \notin agreed /\ In(g) = {} /\ Op
    /\ making' = [making EXCEPT ![m] = g]
    /\ UNCHANGED << storage, row, object, moving, job, here, askVars >>
InsertMark(m) ==
    /\ making[m] # "none" /\ Goes
    /\ row' = [row EXCEPT ![m] = making[m]] /\ making' = [making EXCEPT ![m] = "none"]
    /\ UNCHANGED << storage, object, moving, job, here, askVars >>

(* Moving or renaming a folder: the checks, and the update of its rows.    *)
(* The objects stay where they are.                                        *)
MayMove(g, h) == here /\ g # h /\ In(g) # {} /\ In(h) = {}
Moved(g, h) == [i \in Ids |-> IF row[i] = g /\ here THEN h ELSE row[i]]
PreviewMove(g, h) ==
    /\ moving = << "none", "none" >> /\ MayMove(g, h) /\ Op
    /\ moving' = << g, h >>
    /\ UNCHANGED << storage, row, object, making, job, here, askVars >>
UpdateFolder ==
    /\ moving # << "none", "none" >> /\ moving' = << "none", "none" >> /\ Goes
    /\ row' = Moved(moving[1], moving[2])
    /\ UNCHANGED << storage, object, making, job, here, askVars >>

MoveFile(f, h) ==
    /\ here /\ row[f] \notin {"none", h} /\ In(h) # {} /\ Op
    /\ row' = [row EXCEPT ![f] = h]
    /\ UNCHANGED << storage, object, making, moving, job, here, askVars >>

Switch == Event /\ here' = ~here /\ UNCHANGED << storage, row, object, making, moving, job, askVars >>
-----------------------------------------------------------------------------
(* The questions: one file, in the web page or in the bot; what is in a    *)
(* folder; or everything in the local directory, with or without a row.    *)
Ask(j, kind, ids, paths) ==
    /\ job[j] = Idle /\ ids \cup paths # {} /\ Op
    /\ job' = [job EXCEPT ![j] = [Idle EXCEPT !.at = "asked", !.kind = kind, !.ids = ids, !.paths = paths]]
    /\ UNCHANGED << rowVars, askVars >>

AskFile(j, f) == here /\ f \in Rows /\ Ask(j, "file", {f}, {})
AskBot(j, f) == here /\ f \in Rows /\ Ask(j, "bot", {f}, {})
AskFolder(j, g) == here /\ Ask(j, "batch", In(g), {})
AskClear(j) ==
    /\ storage = "local" /\ Ask(j, "clear", Rows, {f \in Files \ Rows : object[f] # "none"})

Cancel(j) ==
    /\ job[j].at = "asked" /\ job' = [job EXCEPT ![j] = Idle] /\ Goes
    /\ UNCHANGED << rowVars, askVars >>

Confirm(j, kind) ==
    /\ job[j].at = "asked" /\ job[j].kind = kind /\ Goes
    /\ job' = [job EXCEPT ![j].at = "confirmed"] /\ agreed' = agreed \cup job[j].ids \cup job[j].paths
    /\ UNCHANGED << rowVars, told, refused, away >>
ConfirmFile(j) == Confirm(j, "file")
ConfirmBot(j) == Confirm(j, "bot")
ConfirmBatch(j) == here /\ Confirm(j, "batch")
ConfirmClear(j) == Confirm(j, "clear")

(* The rows are read in the scope of the account that is active by now;    *)
(* what is not found counts as deleted by a batch.                         *)
Selected(j) == job[j].ids \cap Rows
Read(j) ==
    /\ job[j].at = "confirmed" /\ Goes
    /\ LET found == IF here \/ job[j].kind = "clear" THEN Selected(j) ELSE {}
       IN  /\ job' = [job EXCEPT ![j].at = "next", ![j].ids = found,
                                 ![j].read = [i \in found |-> row[i]]]
           /\ told' = IF job[j].kind = "batch" THEN told \cup (job[j].ids \ found) ELSE told
    /\ away' = (away \/ ~here)
    /\ UNCHANGED << rowVars, agreed, refused >>
-----------------------------------------------------------------------------
(* deleteIndexedFile: first what is stored, then the row.  A file is       *)
(* removed from where it is; the mark of a folder is no file: on WebDAV    *)
(* the collection of that name is deleted, with what is in it; locally its *)
(* path lies outside of the directory of the uploads, which is refused.    *)
Advance(j, at, i) == [job EXCEPT ![j].at = at, ![j].id = i]
Drops(j, i) == [job EXCEPT ![j].at = "next", ![j].ids = @ \ {i}, ![j].id = "none"]

RemoveFile(j, i) ==
    /\ job[j].at = "next" /\ i \in job[j].ids \cap Files /\ Goes
    /\ ~(job[j].kind = "bot" /\ storage = "webdav" /\ object[i] = "none")
    /\ object' = [object EXCEPT ![i] = "none"] /\ job' = Advance(j, "index", i)
    /\ UNCHANGED << storage, row, making, moving, here, askVars >>

RemoveMark(j, i) ==
    /\ job[j].at = "next" /\ i \in job[j].ids \cap Marks /\ storage # "local" /\ Goes
    /\ object' = [f \in Files |->
           IF storage = "webdav" /\ object[f] = job[j].read[i] THEN "none" ELSE object[f]]
    /\ job' = Advance(j, "index", i)
    /\ UNCHANGED << storage, row, making, moving, here, askVars >>

Refuse(j, i) == Drops(j, i)
RemoveFails(j, i) ==
    /\ job[j].at = "next" /\ i \in job[j].ids
    /\ IF i \in Marks /\ storage = "local"
       THEN refused' = refused \cup {i} /\ Goes
       ELSE refused' = refused /\ Event
    /\ job' = Refuse(j, i)
    /\ UNCHANGED << rowVars, agreed, told, away >>

(* A row that has gone meanwhile makes a failure, except in the bot.       *)
DeleteIndex(j) ==
    /\ job[j].at = "index" /\ Goes
    /\ row' = [row EXCEPT ![job[j].id] = "none"] /\ job' = Drops(j, job[j].id)
    /\ told' = IF job[j].id \in Rows \/ job[j].kind \in {"bot", "clear"} THEN told \cup {job[j].id} ELSE told
    /\ UNCHANGED << storage, object, making, moving, here, agreed, refused, away >>

(* The row could not be deleted: the batch goes on, and does not count it. *)
DeleteIndexFails(j) ==
    /\ job[j].at = "index" /\ Event
    /\ job' = Drops(j, job[j].id) /\ UNCHANGED told
    /\ UNCHANGED << rowVars, agreed, refused, away >>

(* Clearing goes on with the paths that had no row when it was asked.      *)
Unlink(j, f) ==
    /\ job[j].at = "next" /\ job[j].ids = {} /\ f \in job[j].paths /\ Goes
    /\ object' = [object EXCEPT ![f] = "none"]
    /\ job' = [job EXCEPT ![j].paths = @ \ {f}]
    /\ UNCHANGED << storage, row, making, moving, here, askVars >>

Answer(j) ==
    /\ job[j].at = "next" /\ job[j].ids = {} /\ job[j].paths = {} /\ job' = [job EXCEPT ![j] = Idle] /\ Goes
    /\ UNCHANGED << rowVars, askVars >>

(* The server restarts, or the time of the questions passes: they live in  *)
(* memory, as do the deletions under way.                                  *)
Restart ==
    /\ Event /\ job' = [j \in Jobs |-> Idle] /\ making' = [m \in Marks |-> "none"]
    /\ moving' = << "none", "none" >>
    /\ UNCHANGED << storage, row, object, here, askVars >>
-----------------------------------------------------------------------------
Next ==
    \/ \E f \in Files : Insert(f) \/ \E g \in Folders : Store(f, g) \/ MoveFile(f, g)
    \/ \E m \in Marks : InsertMark(m) \/ \E g \in Folders : CreateFolder(m, g)
    \/ UpdateFolder \/ \E g, h \in Folders : PreviewMove(g, h)
    \/ \E j \in Jobs :
          \/ AskClear(j) \/ Cancel(j) \/ ConfirmFile(j) \/ ConfirmBot(j) \/ ConfirmBatch(j) \/ ConfirmClear(j)
          \/ Read(j) \/ DeleteIndex(j) \/ DeleteIndexFails(j) \/ Answer(j)
          \/ \E g \in Folders : AskFolder(j, g)
          \/ \E f \in Files : AskFile(j, f) \/ AskBot(j, f) \/ Unlink(j, f)
          \/ \E i \in Ids : RemoveFile(j, i) \/ RemoveMark(j, i) \/ RemoveFails(j, i)
    \/ Switch \/ Restart
Spec == Init /\ [][Next]_vars
-----------------------------------------------------------------------------
(* The types.                                                              *)
TypeOK ==
    /\ row \in [Ids -> Folders \cup {"none"}] /\ object \in [Files -> Folders \cup {"none"}]
    /\ agreed \subseteq Ids /\ told \subseteq Ids /\ refused \subseteq Marks
    /\ \A j \in Jobs : job[j].at \in {"idle", "asked", "confirmed", "next", "index"}

(* An object goes only when a confirmed question listed its file.          *)
OnlyListedGoes == \A f \in Files : row[f] # "none" /\ object[f] = "none" => f \in agreed

(* The same where no collection is deleted with what has come, or has been *)
(* left, in it: on WebDAV the mark of a folder takes the directory of that *)
(* name along, wherever the files in it are listed.                        *)
OnlyListedGoesOffDav == storage # "webdav" => OnlyListedGoes

(* What is answered as deleted is gone, its row and its object.            *)
ToldIsGone == told \cap Rows = {} /\ \A f \in told \cap Files : object[f] = "none"

(* The same unless the account was switched between the question and the   *)
(* reading of the rows, for then they are not found.                       *)
ToldIsGoneUnlessAway == ~away => ToldIsGone
=============================================================================
