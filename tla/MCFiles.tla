------------------------------- MODULE MCFiles -------------------------------
(***************************************************************************)
(* The components that receive files from Telegram, keep them and show them: *)
(* downloads and uploads of albums, storage accounts, clouds, previews, the  *)
(* library, and the web page with its tasks, sessions and uploads.           *)
(* They do not share state, so that one run checks them one beside the      *)
(* other: "part" says which of them a behaviour is about, and the cells c1, *)
(* c2 ... stand for its variables.                                          *)
(***************************************************************************)
EXTENDS Naturals

VARIABLES
    part,   \* the component that the behaviour is about
    c1, c2, c3, c4, c5, c6, c7, c8, c9, c10, c11, c12, c13, c14, c15, c16, c17   \* its state
vars == << part, c1, c2, c3, c4, c5, c6, c7, c8, c9, c10, c11, c12, c13, c14, c15, c16, c17 >>

Range == INSTANCE DownloadRange WITH
    Count <- 4, Segment <- 2, NoFile <- {2}, Vanished <- {4}, MaxEvents <- 3, call <- c1,
    item <- c2, list <- c3, tally <- c4, told <- c5, account <- c6, control <- c7,
    odd <- c8, events <- c9
Upload == INSTANCE MediaUpload WITH
    Album <- {"a", "b"}, Singles <- {"s"}, Twins <- {"a", "s"}, SkipTwins <- TRUE,
    MaxEvents <- 2, hand <- c1, map <- c2, creating <- c3, made <- c4, timer <- c5,
    proc <- c6, file <- c7, work <- c8, aborted <- c9, temp <- c10, object <- c11,
    row <- c12, holder <- c13, low <- c14, blockers <- c15, odd <- c16, events <- c17
Tasks == INSTANCE TransferTasks WITH
    Tasks <- {"t"}, Jobs <- {"j"}, Size <- 1, Requests <- {"w1", "w2"}, MaxOps <- 4,
    MaxEvents <- 1, group <- c1, chain <- c2, persisted <- c3, row <- c4, request <- c5,
    dismissal <- c6, hidden <- c7, confirmed <- c8, retried <- c9, unwritten <- c10,
    told <- c11, ops <- c12, events <- c13
Storage == INSTANCE StorageAccounts WITH
    Accounts <- {"a", "b"}, TypeOf <- [a |-> "s3", b |-> "onedrive"],
    Switches <- {"s1", "s2"}, Uploads <- {"u1"}, MaxEvents <- 1, account <- c1,
    setting <- c2, active <- c3, loaded <- c4, call <- c5, adding <- c6, upload <- c7,
    lease <- c8, row <- c9, delete <- c10, odd <- c11, events <- c12
Cloud == INSTANCE CloudProviders WITH
    Sessions <- {"s1", "s2"}, MaxFlows <- 2, Uploads <- {"u1", "u2"}, Chunks <- 2,
    MaxEvents <- 1, pending <- c1, issued <- c2, redeemed <- c3, callback <- c4,
    config <- c5, provider <- c6, upload <- c7, folder <- c8, session <- c9, odd <- c10,
    events <- c11
Media == INSTANCE MediaDerivatives WITH
    Files <- {"a", "b"}, Remote <- {"a"}, Slots <- 1, Batch <- 2, Requests <- {"r"},
    MaxEvents <- 3, row <- c1, source <- c2, shown <- c3, job <- c4, queue <- c5,
    upload <- c6, deleting <- c7, request <- c8, lost <- c9, events <- c10
Pages == INSTANCE FilePages WITH
    Ids <- {1, 2, 3}, Ticks <- 2, Times <- {2, 3, 4}, Names <- {1, 2}, Limit <- 1,
    MaxEvents <- 1, rows <- c1, sort <- c2, direction <- c3, cursor <- c4, listed <- c5,
    stayed <- c6, close <- c7, events <- c8
Browser == INSTANCE FileBrowser WITH
    Views <- {"x", "y"}, Files <- {"a", "b", "c"},
    Home <- [a |-> "x", b |-> "x", c |-> "y"], Later <- {"b"}, Requests <- {1, 2},
    Mutations <- {"m"}, MaxMutations <- 1, MaxMoves <- 3, server <- c1, view <- c2,
    shown <- c3, cache <- c4, timer <- c5, request <- c6, current <- c7, armed <- c8,
    loading <- c9, loadingMore <- c10, failed <- c11, mutation <- c12, gone <- c13,
    odd <- c14, mutations <- c15, moves <- c16
Library == INSTANCE FilesLibrary WITH
    Files <- {"f", "g"}, Marks <- {"m"}, Folders <- {"x", "y"}, Jobs <- {"j"}, MaxOps <- 4,
    MaxEvents <- 1, storage <- c1, row <- c2, object <- c3, making <- c4, moving <- c5,
    job <- c6, here <- c7, agreed <- c8, told <- c9, refused <- c10, away <- c11,
    ops <- c12, events <- c13
Web == INSTANCE WebAccess WITH
    Devices <- {"d1", "d2"}, Requests <- {"r1", "r2"}, MaxRequests <- 5, MaxEvents <- 1,
    password <- c1, sessions <- c2, enabled <- c3, secret <- c4, request <- c5,
    browser <- c6, scanned <- c7, confirmed <- c8, odd <- c9, count <- c10
Queue == INSTANCE UploadQueue WITH
    Small <- {"s"}, Chunked <- {"c"}, Resumers <- {"r"}, N <- 1, MaxOps <- 4,
    MaxEvents <- 1, entry <- c1, task <- c2, pending <- c3, active <- c4, paused <- c5,
    caps <- c6, attached <- c7, server <- c8, recovered <- c9, resuming <- c10, due <- c11,
    closing <- c12, late <- c13, resumed <- c14, ops <- c15, events <- c16

ASSUME
    /\ Range!RangeAssumption
    /\ Upload!UploadAssumption
    /\ Tasks!TasksAssumption
    /\ Storage!StorageAssumption
    /\ Cloud!CloudAssumption
    /\ Media!DerivativesAssumption
    /\ Pages!PagesAssumption
    /\ Browser!BrowserAssumption
    /\ Library!LibraryAssumption
    /\ Web!AccessAssumption
    /\ Queue!QueueAssumption

Init ==
    \/ part = "range" /\ Range!Init
       /\ c10 = 0 /\ c11 = 0 /\ c12 = 0 /\ c13 = 0 /\ c14 = 0 /\ c15 = 0 /\ c16 = 0 /\ c17 = 0
    \/ part = "upload" /\ Upload!Init
    \/ part = "tasks" /\ Tasks!Init
       /\ c14 = 0 /\ c15 = 0 /\ c16 = 0 /\ c17 = 0
    \/ part = "storage" /\ Storage!Init
       /\ c13 = 0 /\ c14 = 0 /\ c15 = 0 /\ c16 = 0 /\ c17 = 0
    \/ part = "cloud" /\ Cloud!Init
       /\ c12 = 0 /\ c13 = 0 /\ c14 = 0 /\ c15 = 0 /\ c16 = 0 /\ c17 = 0
    \/ part = "media" /\ Media!Init
       /\ c11 = 0 /\ c12 = 0 /\ c13 = 0 /\ c14 = 0 /\ c15 = 0 /\ c16 = 0 /\ c17 = 0
    \/ part = "pages" /\ Pages!Init
       /\ c9 = 0 /\ c10 = 0 /\ c11 = 0 /\ c12 = 0 /\ c13 = 0 /\ c14 = 0 /\ c15 = 0 /\ c16 = 0 /\ c17 = 0
    \/ part = "browser" /\ Browser!Init
       /\ c17 = 0
    \/ part = "library" /\ Library!Init
       /\ c14 = 0 /\ c15 = 0 /\ c16 = 0 /\ c17 = 0
    \/ part = "web" /\ Web!Init
       /\ c11 = 0 /\ c12 = 0 /\ c13 = 0 /\ c14 = 0 /\ c15 = 0 /\ c16 = 0 /\ c17 = 0
    \/ part = "queue" /\ Queue!Init
       /\ c17 = 0

RangeNext ==
    /\ part = "range" /\ Range!Next
    /\ UNCHANGED << part, c10, c11, c12, c13, c14, c15, c16, c17 >>
UploadNext == part = "upload" /\ Upload!Next /\ UNCHANGED << part >>
TasksNext == part = "tasks" /\ Tasks!Next /\ UNCHANGED << part, c14, c15, c16, c17 >>
StorageNext == part = "storage" /\ Storage!Next /\ UNCHANGED << part, c13, c14, c15, c16, c17 >>
CloudNext == part = "cloud" /\ Cloud!Next /\ UNCHANGED << part, c12, c13, c14, c15, c16, c17 >>
MediaNext == part = "media" /\ Media!Next /\ UNCHANGED << part, c11, c12, c13, c14, c15, c16, c17 >>
PagesNext ==
    /\ part = "pages" /\ Pages!Next
    /\ UNCHANGED << part, c9, c10, c11, c12, c13, c14, c15, c16, c17 >>
BrowserNext == part = "browser" /\ Browser!Next /\ UNCHANGED << part, c17 >>
LibraryNext == part = "library" /\ Library!Next /\ UNCHANGED << part, c14, c15, c16, c17 >>
WebNext == part = "web" /\ Web!Next /\ UNCHANGED << part, c11, c12, c13, c14, c15, c16, c17 >>
QueueNext == part = "queue" /\ Queue!Next /\ UNCHANGED << part, c17 >>

Next ==
    \/ RangeNext \/ UploadNext \/ TasksNext \/ StorageNext \/ CloudNext \/ MediaNext \/ PagesNext
    \/ BrowserNext \/ LibraryNext \/ WebNext \/ QueueNext
Spec == Init /\ [][Next]_vars
-----------------------------------------------------------------------------
\* Every component keeps its types.
TypesOK ==
    /\ part = "range" => Range!TypeOK
    /\ part = "upload" => Upload!TypeOK
    /\ part = "tasks" => Tasks!TypeOK
    /\ part = "storage" => Storage!TypeOK
    /\ part = "cloud" => Cloud!TypeOK
    /\ part = "media" => Media!TypeOK
    /\ part = "pages" => Pages!TypeOK
    /\ part = "browser" => Browser!TypeOK
    /\ part = "library" => Library!TypeOK
    /\ part = "web" => Web!TypeOK
    /\ part = "queue" => Queue!TypeOK

(* An object has its row and a row its object, and nothing is held or left   *)
(* behind, however an upload or an album ends; every message of a range has  *)
(* one outcome that the caller is told, with the account held meanwhile.     *)
FilesAreWhole ==
    /\ part = "upload" =>
        /\ Upload!RowHasObject /\ Upload!ObjectHasRow
        /\ Upload!CancelledLeavesNothing /\ Upload!NothingHeld
        /\ Upload!SuccessIsStored
    /\ part = "range" =>
        /\ Range!OneOutcome /\ Range!ReturnIsComplete
        /\ Range!AccountCoversWork

(* A file that is listed can be read from where it was stored: its account,   *)
(* the grant of its cloud, its folder and the source of its preview stay.     *)
TargetsAreKept ==
    /\ part = "storage" => Storage!TargetExists /\ Storage!MemoryFollowsRows
    /\ part = "cloud" =>
        /\ Cloud!OneRedemption /\ Cloud!TokenFitsGrant /\ Cloud!OneFolder
        /\ Cloud!NothingLeftOpen
    /\ part = "media" => Media!SourceKept /\ Media!TempIsCleaned /\ Media!ReadyHasPreview

(* The page lists every file once and only files of what it was asked for;    *)
(* what was deleted stays away, what is uploading or cancelled is shown as    *)
(* such, and the row of a task says what became of it.                        *)
PageShowsServer ==
    /\ part = "pages" => Pages!PagesListApart /\ Pages!ListedOnce
    /\ part = "browser" =>
        /\ Browser!ShownIsAskedUnlessLeft /\ Browser!KeptIsOfView
        /\ Browser!GoneStaysGone /\ Browser!LoadingHasRequest
    /\ part = "queue" => Queue!CancelledIsNotStored /\ Queue!RunningIsShown
    /\ part = "tasks" => Tasks!RowTellsOutcome

(* What is deleted is what was listed when it was confirmed; a task that is   *)
(* cancelled stops, a hidden one is the one that was confirmed, and its end   *)
(* is final; a session ends with its password, and otherwise only for a       *)
(* reason.                                                                    *)
ConfirmedIsDone ==
    /\ [](/\ part = "storage" => Storage!DeletedAsConfirmed
          /\ part = "library" => Library!OnlyListedGoesOffDav /\ Library!ToldIsGoneUnlessAway
          /\ part = "web" => Web!ConfirmedIsAsked /\ Web!SessionsEndWithPassword
          /\ part = "tasks" => Tasks!CancelledIsStoppedUnlessRetried /\ Tasks!HiddenIsConfirmed)
    /\ [][part = "web" => Web!LeavesForReason]_vars
    /\ [][part = "tasks" => Tasks!EndIsFinal]_vars
=============================================================================
