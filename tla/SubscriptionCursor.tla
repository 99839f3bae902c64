------------------------ MODULE SubscriptionCursor ------------------------
(***************************************************************************)
(* One channel subscription (services/telegramChannelJobs.ts): its cursor, *)
(* the periodic scan that turns a page of new messages into a download job,*)
(* the recovery worker that finishes the jobs of an interrupted process,   *)
(* the advertisement filter of the scan, and the review that restores a    *)
(* message the filter held back.                                           *)
(*                                                                         *)
(* Both workers live in one process and each runs once at a time (a flag   *)
(* and an advisory lock); they may work on the same job.  Leases, tries    *)
(* and cooldowns of the items are the subject of ChannelJobs.              *)
(***************************************************************************)
EXTENDS Integers, FiniteSets

CONSTANTS
    MaxId,       \* bound on the messages of the channel
    Media,       \* the messages that carry a file
    Ads,         \* the messages the classifier takes for advertisements
    Limit,       \* SUBSCRIPTION_SCAN_LIMIT
    MaxJobs,     \* bound on jobs
    MaxEvents    \* bound on errors, crashes and commands together

Ids == 1..MaxId
Jobs == 1..MaxJobs
Workers == {"scan", "recovery"}

CursorAssumption ==
    /\ {MaxId, Limit, MaxJobs} \subseteq Nat \ {0}
    /\ Media \subseteq Ids /\ Ads \subseteq Media
    /\ MaxEvents \in Nat

VARIABLES
    latest,    \* the newest message of the channel
    sub,       \* telegram_channel_subscriptions
    decision,  \* telegram_subscription_ad_decisions, by message
    job,       \* telegram_background_jobs and their items
    run,       \* what each worker holds in memory
    review,    \* the request that reviews a decision
    now,       \* the message "from now" has read, not yet written
    history,   \* what the cursor was moved over, for the properties
    events     \* errors, crashes and commands so far

vars == << latest, sub, decision, job, run, review, now, history, events >>

Finals == {"completed", "errors", "failed"}
NoJob == [st |-> "none", decision |-> 0, from |-> 0, to |-> 0, hi |-> 0,
          item |-> [i \in Ids |-> "absent"]]
IdleRun == [at |-> "idle", job |-> 0, last |-> 0, hi |-> 0, page |-> {},
            claim |-> 0, ok |-> {}, bad |-> {}]
IdleReview == [at |-> "idle", id |-> 0, label |-> "none", job |-> 0]

Init ==
    /\ latest = 0
    /\ sub = [enabled |-> TRUE, cursor |-> 0, due |-> TRUE, filter |-> TRUE]
    /\ decision = [i \in Ids |-> [st |-> "none", label |-> "none",
                                  restore |-> "none", job |-> 0]]
    /\ job = [j \in Jobs |-> NoJob]
    /\ run = [w \in Workers |-> IdleRun]
    /\ review = IdleReview /\ now = -1
    /\ history = [jumped |-> {}, overshot |-> {}, shared |-> {}]
    /\ events = 0
-----------------------------------------------------------------------------
Event == events < MaxEvents /\ events' = events + 1
Known == {j \in Jobs : job[j].st # "none"}
ItemsIn(j, S) == {i \in Ids : job[j].item[i] \in S}
Larger(a, b) == IF a > b THEN a ELSE b
Put(f, S, v) == [i \in DOMAIN f |-> IF i \in S THEN v ELSE f[i]]
Created(j, d, from, to, hi) ==
    /\ j \in Jobs \ Known
    /\ \A k \in Jobs : k < j => k \in Known
    /\ job' = [job EXCEPT ![j] = [NoJob EXCEPT !.st = "pending", !.decision = d,
                                              !.from = from, !.to = to, !.hi = hi]]
Goto(w, at) == run' = [run EXCEPT ![w].at = at]
Leave(w) == run' = [run EXCEPT ![w] = IdleRun]

\* Mutant: what failed counts as dealt with.
ContiguousOfAll(start, processed, failed) ==
    CHOOSE c \in start..MaxId :
        /\ \A i \in (start + 1)..c : i \in processed \cup failed
        /\ c + 1 \notin processed \cup failed
\* contiguousProcessedMessageId: the last message before the first that failed
\* or was not seen.
Contiguous(start, processed, failed) ==
    CHOOSE c \in start..MaxId :
        /\ \A i \in (start + 1)..c : i \in processed \ failed
        /\ c + 1 \notin processed \ failed

Publish ==
    /\ latest < MaxId /\ latest' = latest + 1
    /\ UNCHANGED << sub, decision, job, run, review, now, history, events >>

\* next_scan_at passes.
DueAgain ==
    /\ ~sub.due /\ sub' = [sub EXCEPT !.due = TRUE]
    /\ UNCHANGED << latest, decision, job, run, review, now, history, events >>
-----------------------------------------------------------------------------
(* The scan.  The cursor is the one of the list read at its start. *)
ScanSelect ==
    /\ run["scan"].at = "idle" /\ sub.enabled /\ sub.due
    /\ run' = [run EXCEPT !["scan"].at = "latest", !["scan"].last = sub.cursor]
    /\ UNCHANGED << latest, sub, decision, job, review, now, history, events >>

ScanLatest ==
    /\ run["scan"].at = "latest"
    /\ sub' = [sub EXCEPT !.due = FALSE]
    /\ LET last == run["scan"].last IN
       IF latest <= last THEN Leave("scan")
       ELSE LET hi == IF latest - last > Limit THEN last + Limit ELSE latest IN
            \E j \in Jobs :
                /\ Created(j, 0, last + 1, latest, hi)
                /\ run' = [run EXCEPT !["scan"] =
                             [@ EXCEPT !.at = "filter", !.job = j, !.hi = hi]]
    /\ (latest <= run["scan"].last => UNCHANGED job)
    /\ UNCHANGED << latest, decision, review, now, history, events >>

\* The rules a review has learned, then the classifier.
Blocked(i) ==
    /\ sub.filter /\ decision[i].label # "normal"
    /\ i \in Ads \/ decision[i].label = "ad"

\* getMessages, filterConfiguredTelegramBatchMessages and the advertisement
\* filter, which records its decisions; a reviewed decision is kept.
ScanFilter ==
    /\ run["scan"].at = "filter"
    /\ LET page == Media \cap ((run["scan"].last + 1)..run["scan"].hi) IN
       /\ decision' = [i \in Ids |->
            IF sub.filter /\ i \in page /\ decision[i].label = "none"
            THEN [decision[i] EXCEPT !.st = IF Blocked(i) THEN "blocked" ELSE "allow"]
            ELSE decision[i]]
       /\ run' = [run EXCEPT !["scan"] =
            [@ EXCEPT !.at = "persist", !.page = {i \in page : ~Blocked(i)}]]
    /\ UNCHANGED << latest, sub, job, review, now, history, events >>

Movable(j) == job[j].st \notin {"cancelled", "paused"}

ScanPersist ==
    /\ run["scan"].at = "persist"
    /\ LET j == run["scan"].job IN
       job' = [job EXCEPT ![j] =
                 [job[j] EXCEPT !.item = Put(@, run["scan"].page, "pending"),
                                !.st = IF Movable(j) THEN "running" ELSE @]]
    /\ Goto("scan", "work")
    /\ UNCHANGED << latest, sub, decision, review, now, history, events >>

\* An error of the account, the channel or the database before the downloads;
\* a channel that is no longer accessible ends the subscription.
ScanThrows ==
    /\ run["scan"].at \in {"latest", "filter", "persist"} /\ Event /\ Leave("scan")
    /\ \E gone \in BOOLEAN : sub' = [sub EXCEPT !.enabled = @ /\ ~gone]
    /\ UNCHANGED << latest, decision, job, review, now, history >>
-----------------------------------------------------------------------------
(* downloadPendingForJob: both workers. *)
Runnable(j) == job[j].st \in {"pending", "running"}

Claim(w) ==
    /\ run[w].at = "work" /\ run[w].claim = 0 /\ Runnable(run[w].job)
    /\ \E i \in ItemsIn(run[w].job, {"pending"}) :
         /\ job' = [job EXCEPT ![run[w].job].item[i] = "downloading"]
         /\ run' = [run EXCEPT ![w].claim = i]
    /\ UNCHANGED << latest, sub, decision, review, now, history, events >>

Settle(w) ==
    /\ run[w].claim # 0
    /\ \E out \in {"success", "failed", "skipped"} :
         /\ IF out = "failed" THEN Event ELSE UNCHANGED events
         /\ job' = [job EXCEPT ![run[w].job].item[run[w].claim] = out]
         /\ run' = [run EXCEPT ![w] =
               [run[w] EXCEPT !.claim = 0,
                              !.ok = IF out = "failed" THEN @ ELSE @ \cup {run[w].claim},
                              !.bad = IF out = "failed" THEN @ \cup {run[w].claim} ELSE @]]
    /\ UNCHANGED << latest, sub, decision, review, now, history >>

\* The loop ends: cancelled, or nothing left to claim.  A paused job is waited for.
Drained(w) ==
    /\ run[w].at = "work" /\ run[w].claim = 0
    /\ \/ job[run[w].job].st \in Finals \cup {"cancelled"}
       \/ Runnable(run[w].job) /\ ItemsIn(run[w].job, {"pending"}) = {}

\* Mutant: the cursor is set, not raised.
AdvanceSet(id) == sub' = [sub EXCEPT !.cursor = id]
\* Mutant: the cursor is the message to look at next.
AdvancePast(id) == sub' = [sub EXCEPT !.cursor = Larger(sub.cursor, id + 1)]
\* The second statement of finalizeSubscriptionJobWithQuery.
Advance(id) == sub' = [sub EXCEPT !.cursor = Larger(@, id)]

\* Neither cancelled, paused nor finished, and nothing of it under way.
Closable(j) == Runnable(j) /\ ItemsIn(j, {"pending", "downloading"}) = {}
Closed(j, failed) == job' = [job EXCEPT ![j].st = IF failed THEN "errors" ELSE "completed"]

\* The scan goes by the results of its own downloads.
ScanFinish ==
    /\ Drained("scan")
    /\ LET r == run["scan"]
           page == (r.last + 1)..r.hi
           unloaded == page \ r.page
           safe == IF r.bad = {} THEN r.hi
                   ELSE Contiguous(r.last, r.ok \cup unloaded, r.bad)
       IN IF Closable(r.job) /\ sub.enabled
          THEN Closed(r.job, r.bad # {}) /\ Advance(safe)
          ELSE UNCHANGED << job, sub >>
    /\ Leave("scan")
    /\ UNCHANGED << latest, decision, review, now, history, events >>
-----------------------------------------------------------------------------
(* The recovery worker. *)
Unfinished(j) == job[j].st \in {"pending", "running"}
Held == {<<run[w].job, run[w].claim>> : w \in Workers}

\* repairTelegramJobInvariants, then items whose lease ran out.
Repaired(j) ==
    LET lost == {i \in ItemsIn(j, {"downloading"}) : <<j, i>> \notin Held} IN
    IF Unfinished(j) THEN [job[j] EXCEPT !.item = Put(@, lost, "pending")]
    ELSE IF job[j].st \in Finals /\ ItemsIn(j, {"pending"}) # {}
    THEN [job[j] EXCEPT !.st = "running", !.item = Put(@, lost, "pending")]
    ELSE job[j]

RecoveryTake ==
    /\ run["recovery"].at = "idle"
    /\ job' = [j \in Jobs |-> Repaired(j)]
    /\ \E j \in Jobs :
         /\ job'[j].st \in {"pending", "running"}
         /\ \E i \in Ids : job'[j].item[i] = "pending"
         /\ run' = [run EXCEPT !["recovery"] = [IdleRun EXCEPT !.at = "start", !.job = j]]
    /\ UNCHANGED << latest, sub, decision, review, now, history, events >>

\* recoverTelegramJob up to the downloads.
RecoveryStart ==
    /\ run["recovery"].at = "start"
    /\ LET j == run["recovery"].job IN
       IF job[j].st \in {"cancelled", "paused"} \/ ItemsIn(j, {"pending"}) = {}
       THEN Leave("recovery") /\ UNCHANGED << job, history >>
       ELSE /\ job' = [job EXCEPT ![j].st = "running"]
            /\ Goto("recovery", "work")
            /\ history' = [history EXCEPT !.shared =
                 IF run["scan"].job = j THEN @ \cup {j} ELSE @]
    /\ UNCHANGED << latest, sub, decision, review, now, events >>

FirstFailed(j) == CHOOSE i \in ItemsIn(j, {"failed"}) : \A k \in ItemsIn(j, {"failed"}) : i <= k

\* How far the cursor may go: to the latest message at the time of the scan,
\* or to the one before the first that failed.
Recovered(j) ==
    IF ItemsIn(j, {"failed"}) = {} THEN job[j].to
    ELSE Larger(job[j].from - 1, FirstFailed(j) - 1)

\* A job without a range (a restored message) is an error, and so is a
\* subscription that was disabled: the job has failed.
RecoveryFinish ==
    /\ Drained("recovery")
    /\ LET j == run["recovery"].job
           safe == Recovered(j)
       IN IF Closable(j) \/ (job[j].st \in Finals /\ ItemsIn(j, {"pending", "downloading"}) = {})
          THEN IF job[j].to = 0 \/ (Runnable(j) /\ ~sub.enabled)
               THEN job' = [job EXCEPT ![j].st = "failed"] /\ UNCHANGED << sub, history >>
               ELSE IF Runnable(j)
               THEN /\ Closed(j, ItemsIn(j, {"failed"}) # {}) /\ Advance(safe)
                    /\ history' = [history EXCEPT !.overshot =
                         @ \cup ((job[j].hi + 1)..safe)]
               ELSE UNCHANGED << job, sub, history >>
          ELSE UNCHANGED << job, sub, history >>
    /\ Leave("recovery")
    /\ UNCHANGED << latest, decision, review, now, events >>
-----------------------------------------------------------------------------
(* The user's commands. *)
\* subscribeTelegramChannel, resume and "sync now"; the cursor is kept.
Enable ==
    /\ Event
    /\ \E due \in {sub.due, TRUE} : sub' = [sub EXCEPT !.enabled = TRUE, !.due = due]
    /\ UNCHANGED << latest, decision, job, run, review, now, history >>

\* unsubscribeTelegramChannel, and pause.
Disable ==
    /\ Event /\ sub' = [sub EXCEPT !.enabled = FALSE]
    /\ UNCHANGED << latest, decision, job, run, review, now, history >>

SetFilter ==
    /\ Event /\ sub' = [sub EXCEPT !.filter = ~@]
    /\ UNCHANGED << latest, decision, job, run, review, now, history >>

FromNowRead ==
    /\ now = -1 /\ Event /\ now' = latest
    /\ UNCHANGED << latest, sub, decision, job, run, review, history >>

FromNow ==
    /\ now # -1 /\ now' = -1
    /\ sub' = [sub EXCEPT !.cursor = now]
    /\ history' = [history EXCEPT !.jumped = @ \cup ((sub.cursor + 1)..now)]
    /\ UNCHANGED << latest, decision, job, run, review, events >>

Pause(j) ==
    /\ Runnable(j) /\ Event /\ job' = [job EXCEPT ![j].st = "paused"]
    /\ UNCHANGED << latest, sub, decision, run, review, now, history >>

Resume(j) ==
    /\ job[j].st = "paused" /\ job' = [job EXCEPT ![j].st = "running"]
    /\ UNCHANGED << latest, sub, decision, run, review, now, history, events >>

Cancel(j) ==
    /\ Runnable(j) \/ job[j].st = "paused"
    /\ Event
    /\ job' = [job EXCEPT ![j] = [job[j] EXCEPT !.st = "cancelled",
                 !.item = Put(@, ItemsIn(j, {"pending"}), "skipped")]]
    /\ UNCHANGED << latest, sub, decision, run, review, now, history >>

Retry(j) ==
    /\ job[j].st \in {"errors", "failed"} /\ ItemsIn(j, {"failed"}) # {} /\ Event
    /\ job' = [job EXCEPT ![j] = [job[j] EXCEPT !.st = "running",
                 !.item = Put(@, ItemsIn(j, {"failed"}), "pending")]]
    /\ UNCHANGED << latest, sub, decision, run, review, now, history >>
-----------------------------------------------------------------------------
(* The review of a decision (routes/subscriptions.ts). *)
ReviewClaim(i, label) ==
    /\ review.at = "idle" /\ decision[i].st # "none" /\ Event
    /\ IF label = "normal" /\ decision[i].job = 0
       THEN /\ decision[i].restore # "restoring"
            /\ decision' = [decision EXCEPT ![i].restore = "restoring"]
            /\ review' = [at |-> IF decision[i].st = "blocked" THEN "job" ELSE "mark",
                          id |-> i, label |-> label, job |-> 0]
       ELSE /\ review' = [at |-> "mark", id |-> i, label |-> label, job |-> 0]
            /\ UNCHANGED decision
    /\ UNCHANGED << latest, sub, job, run, now, history >>

\* Five minutes after it began, a restore that never ended can be begun again.
RestoreStale(i) ==
    /\ decision[i].restore = "restoring"
    /\ review.id # i /\ decision' = [decision EXCEPT ![i].restore = "stale"]
    /\ UNCHANGED << latest, sub, job, run, review, now, history, events >>

\* createSubscriptionDownloadJob: one job for a decision (a unique index).
ReviewJob ==
    /\ review.at = "job" /\ sub.enabled
    /\ LET mine == {j \in Known : job[j].decision = review.id} IN
       \/ \E j \in mine : review' = [review EXCEPT !.at = "items", !.job = j] /\ UNCHANGED job
       \/ /\ mine = {}
          /\ \E j \in Jobs : Created(j, review.id, 0, 0, 0)
                             /\ review' = [review EXCEPT !.at = "items", !.job = j]
    /\ UNCHANGED << latest, sub, decision, run, now, history, events >>

ReviewItems ==
    /\ review.at = "items"
    /\ job' = [job EXCEPT ![review.job] =
                 [job[review.job] EXCEPT
                    !.st = IF Movable(review.job) THEN "pending" ELSE @,
                    !.item[review.id] = IF @ = "absent" THEN "pending" ELSE @]]
    /\ review' = [review EXCEPT !.at = "restored"]
    /\ UNCHANGED << latest, sub, decision, run, now, history, events >>

ReviewRestored ==
    /\ review.at = "restored"
    /\ decision' = [decision EXCEPT ![review.id] =
                      [@ EXCEPT !.job = review.job, !.restore = "restored"]]
    /\ review' = [review EXCEPT !.at = "mark"]
    /\ UNCHANGED << latest, sub, job, run, now, history, events >>

\* markTelegramSubscriptionAdDecision, with the rule that is learned.
ReviewMark ==
    /\ review.at = "mark" /\ review' = IdleReview
    /\ decision' = [decision EXCEPT ![review.id] =
                      [@ EXCEPT !.label = review.label,
                                !.st = IF review.label = "ad" THEN "blocked" ELSE "allow"]]
    /\ UNCHANGED << latest, sub, job, run, now, history, events >>

\* Mutant: the error is recorded and the decision marked all the same.
ReviewFailsUnnoticed ==
    /\ review.at \in {"job", "items", "restored"}
    /\ IF review.at = "job" /\ ~sub.enabled THEN UNCHANGED events ELSE Event
    /\ decision' = [decision EXCEPT ![review.id].restore = "failed"]
    /\ review' = [review EXCEPT !.at = "mark"]
    /\ UNCHANGED << latest, sub, job, run, now, history >>
\* The subscription is disabled, the message is gone, or a statement fails.
ReviewFails ==
    /\ review.at \in {"job", "items", "restored"}
    /\ IF review.at = "job" /\ ~sub.enabled THEN UNCHANGED events ELSE Event
    /\ decision' = [decision EXCEPT ![review.id].restore = "failed"]
    /\ review' = IdleReview
    /\ UNCHANGED << latest, sub, job, run, now, history >>

Crash ==
    /\ Event
    /\ run' = [w \in Workers |-> IdleRun] /\ review' = IdleReview /\ now' = -1
    /\ UNCHANGED << latest, sub, decision, job, history >>
-----------------------------------------------------------------------------
ScanStep == ScanSelect \/ ScanLatest \/ ScanFilter \/ ScanPersist \/ ScanFinish
RecoveryStep == RecoveryTake \/ RecoveryStart \/ RecoveryFinish
WorkStep(w) == Claim(w) \/ Settle(w)
ReviewStep == ReviewJob \/ ReviewItems \/ ReviewRestored \/ ReviewMark

Next ==
    \/ Publish \/ DueAgain \/ ScanStep \/ ScanThrows
    \/ \E w \in Workers : WorkStep(w)
    \/ RecoveryStep
    \/ Enable \/ Disable \/ SetFilter \/ FromNowRead \/ FromNow
    \/ \E j \in Jobs : Pause(j) \/ Resume(j) \/ Cancel(j) \/ Retry(j)
    \/ \E i \in Ids, label \in {"ad", "normal"} : ReviewClaim(i, label)
    \/ \E i \in Ids : RestoreStale(i)
    \/ ReviewStep \/ ReviewFails \/ Crash

Spec == Init /\ [][Next]_vars
-----------------------------------------------------------------------------
ItemStatus == {"absent", "pending", "downloading", "success", "failed", "skipped"}
JobStatus == Finals \cup {"none", "pending", "running", "paused", "cancelled"}
SubType == [enabled : BOOLEAN, cursor : 0..MaxId, due : BOOLEAN, filter : BOOLEAN]
DecisionType ==
    [st : {"none", "blocked", "allow"}, label : {"none", "ad", "normal"},
     restore : {"none", "restoring", "stale", "restored", "failed"}, job : 0..MaxJobs]
JobType ==
    [st : JobStatus, decision : 0..MaxId, from : 0..MaxId, to : 0..MaxId, hi : 0..MaxId,
     item : [Ids -> ItemStatus]]
RunType ==
    [at : {"idle", "latest", "filter", "persist", "start", "work"}, job : 0..MaxJobs,
     last : 0..MaxId, hi : 0..MaxId, page : SUBSET Ids, claim : 0..MaxId,
     ok : SUBSET Ids, bad : SUBSET Ids]
ReviewType ==
    [at : {"idle", "job", "items", "restored", "mark"}, id : 0..MaxId,
     label : {"none", "ad", "normal"}, job : 0..MaxJobs]
HistoryType == [jumped : SUBSET Ids, overshot : SUBSET Ids, shared : SUBSET Jobs]

\* Every variable has its type.
TypeOK ==
    /\ latest \in 0..MaxId
    /\ sub \in SubType
    /\ decision \in [Ids -> DecisionType]
    /\ job \in [Jobs -> JobType]
    /\ run \in [Workers -> RunType]
    /\ review \in ReviewType
    /\ now \in -1..MaxId
    /\ history \in HistoryType
    /\ events \in 0..MaxEvents

Tried(i) == \E j \in Jobs : job[j].item[i] \in {"success", "skipped"}
FailedShared(i) == \E j \in history.shared : job[j].item[i] = "failed"

\* A message with a file that the cursor has passed was downloaded, skipped or
\* held back by the filter.  Three ways around it are the code's: "from now",
\* the recovery of a job that covered one page of a longer backlog, and a
\* download that failed for recovery while the scan drained the same job.
CursorIsCovered ==
    \A i \in Media \cap (1..sub.cursor) :
        \/ Tried(i)
        \/ decision[i].st = "blocked" \/ decision[i].label = "normal"
        \/ i \in history.jumped \cup history.overshot
        \/ FailedShared(i)

\* Only "from now" takes the cursor back, however late an old job is finished.
CursorGrows == [][sub'.cursor >= sub.cursor \/ now # -1]_vars

\* A message the filter held back and a user released has been put in a job.
ReleasedIsQueued ==
    \A i \in Ads : decision[i].label = "normal" /\ decision[i].restore # "none" =>
        \E j \in Known : job[j].item[i] # "absent"

=============================================================================
