------------------------------- MODULE MCEnds --------------------------------
(***************************************************************************)
(* What every component comes to in the end, under the fairness its code     *)
(* justifies.  The components do not share state, so that one run checks     *)
(* them one beside the other: "part" says which of them a behaviour is       *)
(* about, and the cells c1, c2 ... stand for its variables.  A condition     *)
(* that always holds again, []<>P, is one that whatever breaks it leads to.  *)
(***************************************************************************)
EXTENDS Naturals

CONSTANT Null

VARIABLES
    part,   \* the component that the behaviour is about
    c1, c2, c3, c4, c5, c6, c7, c8, c9, c10, c11, c12, c13, c14, c15, c16, c17   \* its state
vars == << part, c1, c2, c3, c4, c5, c6, c7, c8, c9, c10, c11, c12, c13, c14, c15, c16, c17 >>

Chain == INSTANCE ChunkUploadSessions WITH
    Uploads <- {"u"}, Writers <- {"w1", "w2", "w3"},
    UploadOf <- [w \in {"w1", "w2", "w3"} |-> "u"],
    IndexOf <- [w \in {"w1", "w2", "w3"} |-> 0],
    Content <- [w1 |-> "x", w2 |-> "x", w3 |-> "y"], Bytes <- [x |-> 1, y |-> 2],
    Size <- [u |-> 2], ChunkCount <- [u |-> 2], Budget <- 3, None <- Null, MaxFaults <- 1,
    session <- c1, recorded <- c2, files <- c3, parts <- c4, locks <- c5, tail <- c6,
    previous <- c7, pc <- c8, result <- c9, removing <- c10, unsure <- c11, faults <- c12
Downloads == INSTANCE DownloadTaskQueue WITH
    Tasks <- {"a", "b"}, Groups <- {"g", "h"}, GroupOf <- [a |-> "g", b |-> "h"],
    Scopes <- {"chat"}, ScopeGroups <- [chat |-> {"g"}], Blockers <- {"disk"},
    MaxHistory <- 1, MaxGroups <- 1, MaxLimit <- 1, MaxExpected <- 0, status <- c1,
    ahead <- c2, aborted <- c3, groups <- c4, history <- c5, userPaused <- c6,
    scopePaused <- c7, blockers <- c8, maxConcurrent <- c9
Job == INSTANCE ChannelJobs WITH
    Jobs <- {"j"}, Items <- {"i"}, JobOf <- [i |-> "j"], Legacy <- {},
    Recovery <- "recovery", MaxAttempts <- 2, Batch <- 2, MaxClaims <- 8, MaxFaults <- 1,
    MaxCrashes <- 1, MaxCommands <- 1, job <- c1, item <- c2, run <- c3, todo <- c4,
    quota <- c5, skipDue <- c6, fresh <- c7, faults <- c8, crashes <- c9, commands <- c10
Writes == INSTANCE TelegramWrites WITH
    Workers <- {"w"}, None <- Null, MaxFaults <- 2, item <- c1, journal <- c2, object <- c3,
    files <- c4, worker <- c5, sweep <- c6, won <- c7, overlapped <- c8, unsure <- c9,
    faults <- c10
Upload == INSTANCE MediaUpload WITH
    Album <- {"a", "b"}, Singles <- {}, Twins <- {"a"}, SkipTwins <- TRUE, MaxEvents <- 1,
    hand <- c1, map <- c2, creating <- c3, made <- c4, timer <- c5, proc <- c6, file <- c7,
    work <- c8, aborted <- c9, temp <- c10, object <- c11, row <- c12, holder <- c13,
    low <- c14, blockers <- c15, odd <- c16, events <- c17
Chat == INSTANCE ChatStatus WITH
    Files <- {"a", "b", "c"}, Few <- 1, step <- c1, entry <- c2, total <- c3, known <- c4,
    card <- c5, cards <- c6, scope <- c7, odd <- c8
Range == INSTANCE DownloadRange WITH
    Count <- 4, Segment <- 2, NoFile <- {2}, Vanished <- {4}, MaxEvents <- 2, call <- c1,
    item <- c2, list <- c3, tally <- c4, told <- c5, account <- c6, control <- c7,
    odd <- c8, events <- c9
Bot == INSTANCE BotLifecycle WITH
    HasEnvironment <- TRUE, Required <- FALSE, WebCreds <- {2}, MaxOps <- 1, MaxEvents <- 1,
    config <- c1, client <- c2, bots <- c3, status <- c4, init <- c5, op <- c6, timer <- c7,
    resume <- c8, workers <- c9, restored <- c10, odd <- c11, ops <- c12, events <- c13
Sweep == INSTANCE AccessSweep WITH
    Accounts <- 2, Items <- 1, Workers <- 2, MaxSweeps <- 2, MaxEvents <- 1, sweep <- c1,
    worker <- c2, tail <- c3, shown <- c4, stopped <- c5, events <- c6
Media == INSTANCE MediaDerivatives WITH
    Files <- {"a", "b"}, Remote <- {"a"}, Slots <- 1, Batch <- 2, Requests <- {"r"},
    MaxEvents <- 2, row <- c1, source <- c2, shown <- c3, job <- c4, queue <- c5,
    upload <- c6, deleting <- c7, request <- c8, lost <- c9, events <- c10
Queue == INSTANCE UploadQueue WITH
    Small <- {"s"}, Chunked <- {"c"}, Resumers <- {"r"}, N <- 1, MaxOps <- 3,
    MaxEvents <- 1, entry <- c1, task <- c2, pending <- c3, active <- c4, paused <- c5,
    caps <- c6, attached <- c7, server <- c8, recovered <- c9, resuming <- c10, due <- c11,
    closing <- c12, late <- c13, resumed <- c14, ops <- c15, events <- c16

ASSUME
    /\ Chain!SessionsAssumption
    /\ Downloads!QueueAssumption
    /\ Job!JobsAssumption
    /\ Writes!WritesAssumption
    /\ Upload!UploadAssumption
    /\ Chat!ChatAssumption
    /\ Range!RangeAssumption
    /\ Bot!BotAssumption
    /\ Sweep!SweepAssumption
    /\ Media!DerivativesAssumption
    /\ Queue!QueueAssumption

Init ==
    \/ part = "chain" /\ Chain!Init
       /\ c13 = 0 /\ c14 = 0 /\ c15 = 0 /\ c16 = 0 /\ c17 = 0
    \/ part = "downloads" /\ Downloads!Init
       /\ c10 = 0 /\ c11 = 0 /\ c12 = 0 /\ c13 = 0 /\ c14 = 0 /\ c15 = 0 /\ c16 = 0 /\ c17 = 0
    \/ part = "job" /\ Job!Init
       /\ c11 = 0 /\ c12 = 0 /\ c13 = 0 /\ c14 = 0 /\ c15 = 0 /\ c16 = 0 /\ c17 = 0
    \/ part = "writes" /\ Writes!Init
       /\ c11 = 0 /\ c12 = 0 /\ c13 = 0 /\ c14 = 0 /\ c15 = 0 /\ c16 = 0 /\ c17 = 0
    \/ part = "upload" /\ Upload!Init
    \/ part = "chat" /\ Chat!Init
       /\ c9 = 0 /\ c10 = 0 /\ c11 = 0 /\ c12 = 0 /\ c13 = 0 /\ c14 = 0 /\ c15 = 0 /\ c16 = 0 /\ c17 = 0
    \/ part = "range" /\ Range!Init
       /\ c10 = 0 /\ c11 = 0 /\ c12 = 0 /\ c13 = 0 /\ c14 = 0 /\ c15 = 0 /\ c16 = 0 /\ c17 = 0
    \/ part = "bot" /\ Bot!Init
       /\ c14 = 0 /\ c15 = 0 /\ c16 = 0 /\ c17 = 0
    \/ part = "sweep" /\ Sweep!Init
       /\ c7 = 0 /\ c8 = 0 /\ c9 = 0 /\ c10 = 0 /\ c11 = 0 /\ c12 = 0 /\ c13 = 0 /\ c14 = 0 /\ c15 = 0
       /\ c16 = 0 /\ c17 = 0
    \/ part = "media" /\ Media!Init
       /\ c11 = 0 /\ c12 = 0 /\ c13 = 0 /\ c14 = 0 /\ c15 = 0 /\ c16 = 0 /\ c17 = 0
    \/ part = "queue" /\ Queue!Init
       /\ c17 = 0

ChainPart == part = "chain" /\ UNCHANGED << part, c13, c14, c15, c16, c17 >>
DownloadsPart == part = "downloads" /\ UNCHANGED << part, c10, c11, c12, c13, c14, c15, c16,
        c17 >>
JobPart == part = "job" /\ UNCHANGED << part, c11, c12, c13, c14, c15, c16, c17 >>
WritesPart == part = "writes" /\ UNCHANGED << part, c11, c12, c13, c14, c15, c16, c17 >>
UploadPart == part = "upload" /\ UNCHANGED << part >>
ChatPart == part = "chat" /\ UNCHANGED << part, c9, c10, c11, c12, c13, c14, c15, c16, c17 >>
RangePart == part = "range" /\ UNCHANGED << part, c10, c11, c12, c13, c14, c15, c16, c17 >>
BotPart == part = "bot" /\ UNCHANGED << part, c14, c15, c16, c17 >>
SweepPart == part = "sweep" /\ UNCHANGED << part, c7, c8, c9, c10, c11, c12, c13, c14, c15,
        c16, c17 >>
MediaPart == part = "media" /\ UNCHANGED << part, c11, c12, c13, c14, c15, c16, c17 >>
QueuePart == part = "queue" /\ UNCHANGED << part, c17 >>

ChainNext == ChainPart /\ Chain!Next
DownloadsNext == DownloadsPart /\ Downloads!Next
JobNext == JobPart /\ Job!Next
WritesNext == WritesPart /\ Writes!Next
UploadNext == UploadPart /\ Upload!Next
ChatNext == ChatPart /\ Chat!Next
RangeNext == RangePart /\ Range!Next
BotNext == BotPart /\ Bot!Next
SweepNext == SweepPart /\ Sweep!Next
MediaNext == MediaPart /\ Media!Next
QueueNext == QueuePart /\ Queue!Next

Next ==
    \/ ChainNext \/ DownloadsNext \/ JobNext \/ WritesNext \/ UploadNext
    \/ ChatNext \/ RangeNext \/ BotNext \/ SweepNext \/ MediaNext
    \/ QueueNext

\* The fairness that the code of each component justifies: awaited calls return,
\* timers fire, and the event loop serves everybody.
Fairness ==
    \* The HTTP server closes a request that takes too long (requestTimeout of Node.js).
    /\ \A w \in {"w1", "w2", "w3"} : WF_vars(ChainPart /\ Chain!WriterStep(w))
    \* Downloads end, by themselves or aborted; every command is up to the user.
    /\ \A t \in {"a", "b"} : WF_vars(DownloadsPart /\ \E o \in Downloads!Settled : Downloads!Finish(t, o))
    \* Runs and the recovery timer go on, clocks advance; nobody commands, no error has to happen.
    /\ \A r \in {"j", "recovery"} : WF_vars(JobPart /\ Job!RunStep(r))
    /\ WF_vars(JobPart /\ Job!RecoveryStep)
    /\ WF_vars(JobPart /\ Job!QuotaEnds)
    /\ WF_vars(JobPart /\ Job!SkipPending("j"))
    /\ WF_vars(JobPart /\ Job!CooldownEnds("j"))
    /\ WF_vars(JobPart /\ ~Job!Held("i") /\ Job!LeaseExpires("i"))
    \* Workers and the recovery timer go on, leases run out.
    /\ WF_vars(WritesPart /\ Writes!WorkerStep("w"))
    /\ WF_vars(WritesPart /\ Writes!SweepStep)
    /\ WF_vars(WritesPart /\ Writes!LeaseExpires)
    /\ WF_vars(WritesPart /\ Writes!Reset)
    /\ \A x \in {"w"} \X {1, 2} : WF_vars(WritesPart /\ Writes!JournalLeaseExpires(x))
    \* The debouncer fires, the disk is emptied; nobody has to send or cancel.
    /\ \A m \in {"a", "b"} : WF_vars(UploadPart /\ Upload!Push(m))
    /\ \A m \in {"a", "b"} : WF_vars(UploadPart /\ Upload!TaskStep(m))
    /\ WF_vars(UploadPart /\ Upload!AlbumStep)
    /\ WF_vars(UploadPart /\ Upload!DiskFrees)
    \* Tasks end, and what is sent to Telegram is answered.
    /\ \A f \in {"a", "b", "c"} : WF_vars(ChatPart /\ Chat!Handle(f))
    /\ \A f \in {"a", "b", "c"} : WF_vars(ChatPart /\ Chat!Task(f))
    \* Downloads end.
    /\ WF_vars(RangePart /\ Range!CallStep)
    /\ \A r \in 1..4 : WF_vars(RangePart /\ Range!ItemStep(r))
    \* client.start has a deadline, the start of accounts and workers has a timer.
    /\ \A a \in Bot!Actors : WF_vars(BotPart /\ Bot!InitStep(a))
    /\ WF_vars(BotPart /\ Bot!Boot)
    /\ WF_vars(BotPart /\ Bot!BootEnds)
    /\ WF_vars(BotPart /\ Bot!OpStep)
    /\ WF_vars(BotPart /\ Bot!LaterStep)
    \* Probes are answered; triggers wait for the promise of the one before.
    /\ WF_vars(SweepPart /\ Sweep!Begin)
    /\ \A s \in 1..2 : WF_vars(SweepPart /\ Sweep!SweepStep(s))
    \* A job that takes too long has a deadline.
    /\ WF_vars(MediaPart /\ Media!Serve)
    \* Requests are answered or fail; nobody has to click.
    /\ WF_vars(QueuePart /\ Queue!CapsAnswer)
    /\ \A i \in {"s", "c", "r"} : WF_vars(QueuePart /\ Queue!Work(i))
    /\ WF_vars(QueuePart /\ Queue!ServerCompletes("c"))

Spec == Init /\ [][Next]_vars /\ Fairness
-----------------------------------------------------------------------------
(* Files from Telegram: a queued file is started and ends, an album is taken *)
(* however late its messages come, a group that is pausing or cancelling      *)
(* comes to it, a range of messages returns, and the card of a chat closes.   *)
(* Uploads from the page: its queue starts what waits and ends what runs,     *)
(* every request for a chunk is answered while one at a time writes it, and   *)
(* the preview of every file is settled, through restarts.                    *)
TransfersEnd ==
    /\ \A m \in {"a", "b"} :
         []<>(part = "upload" => Upload!Taken(m)) /\ []<>(part = "upload" => Upload!Ended(m))
    /\ \A g \in {"g", "h"} : []<>(part = "downloads" => Downloads!TransitionEnded(g))
    /\ \A t \in {"a", "b"} : []<>(part = "downloads" => Downloads!HeadStarted(t))
    /\ []<>(part = "range" => Range!CallOver) /\ []<>(part = "chat" => Chat!SessionOver)
    /\ \A i \in {"s", "c", "r"} :
         []<>(part = "queue" => Queue!Started(i)) /\ []<>(part = "queue" => Queue!RunEnds(i))
    /\ \A w \in {"w1", "w2", "w3"} : []<>(part = "chain" => Chain!Answered(w))
    /\ [](part = "chain" => Chain!OneWriterPerChunk)
    /\ \A f \in {"a", "b"} : []<>(part = "media" => Media!Over(f))

(* Channel jobs: a claim ends, a finished job with a pending item is opened   *)
(* again, recovery returns, and every pending row of the journal of writes is *)
(* resolved or left to an operator.                                           *)
JobsEnd ==
    /\ []<>(part = "job" => Job!ClaimEnded("i")) /\ []<>(part = "job" => Job!Reopened("j"))
    /\ []<>(part = "job" => Job!RecoveryOver)
    /\ \A x \in {"w"} \X {1, 2} : []<>(part = "writes" => Writes!Reconciled(x))

(* Operations of the administrator: each is answered, the user accounts come  *)
(* back after a start of the server, and every sweep that was asked for ends. *)
OperationsEnd ==
    /\ []<>(part = "bot" => Bot!Answered) /\ []<>(part = "bot" => Bot!Restored)
    /\ \A s \in 1..2 : []<>(part = "sweep" => Sweep!SweepOver(s))
=============================================================================
