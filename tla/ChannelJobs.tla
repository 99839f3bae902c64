---------------------------- MODULE ChannelJobs ----------------------------
(***************************************************************************)
(* Persistent Telegram download jobs (services/telegramChannelJobs.ts): a  *)
(* job row, its item rows, the run that was started by the request which   *)
(* created the job, and the recovery worker of the process.                *)
(*                                                                         *)
(* One action is one SQL statement or one await of a run.  A claim, a      *)
(* settlement and a restore are single statements (or one transaction that *)
(* holds the row lock), fenced by the lease token of the item.  A timestamp*)
(* of the code is here whether it is set; a cooldown or a lease that has   *)
(* run out is one whose flag has been cleared by the clock.                *)
(***************************************************************************)
EXTENDS Naturals, FiniteSets

CONSTANTS
    Jobs,
    Items,
    JobOf,       \* the job an item belongs to
    Legacy,      \* items whose row may lack the metadata of its file
    Recovery,    \* the recovery worker; the run of a job has the job's name
    MaxAttempts, \* TG_JOB_MAX_ATTEMPTS (3 in the code)
    Batch,       \* TG_JOB_DOWNLOAD_BATCH_SIZE
    MaxClaims,   \* bound on claims: lease tokens are 1..MaxClaims
    MaxFaults,   \* bound on errors, flood waits, expiries of a held lease
    MaxCrashes,  \* bound on crashes of the process
    MaxCommands  \* bound on the user's commands, but for the resumption of what was paused

ASSUME JobsAssumption ==
    /\ Jobs # {} /\ JobOf \in [Items -> Jobs] /\ Legacy \subseteq Items
    /\ Recovery \notin Jobs
    /\ {MaxAttempts, Batch, MaxClaims} \subseteq Nat \ {0}
    /\ {MaxFaults, MaxCrashes, MaxCommands} \subseteq Nat

VARIABLES
    job,       \* telegram_background_jobs
    item,      \* telegram_download_items
    run,       \* the runs: what they hold in memory
    todo,      \* jobs the recovery worker has listed and not yet taken
    quota,     \* the storage account is in its daily quota cooldown
    skipDue,   \* jobs that were cancelled and whose items are not skipped yet
    fresh,     \* tokens given so far
    faults, crashes, commands

vars == << job, item, run, todo, quota, skipDue, fresh, faults, crashes, commands >>

Runs == Jobs \cup {Recovery}
Open == {"pending", "downloading"}
Terminal == {"success", "failed", "skipped"}
Finals == {"completed", "completed_with_errors", "failed"}
ItemStatus == Open \cup Terminal \cup {"absent"}
JobStatus == Finals \cup {"queued", "pending", "running", "paused", "cooling", "cancelled"}

ItemsOf(j) == {i \in Items : JobOf[i] = j}
ItemsIn(j, S) == {i \in ItemsOf(j) : item[i].st \in S}

Idle(mode) == [at |-> "idle", job |-> CHOOSE j \in Jobs : TRUE, mode |-> mode,
               claim |-> [i \in Items |-> 0], left |-> {}, hydrating |-> {}, back |-> "pending",
               drain |-> FALSE, bad |-> FALSE, failed |-> FALSE, open |-> FALSE,
               aborted |-> FALSE]

Init ==
    /\ job = [j \in Jobs |-> [st |-> "queued", paused |-> FALSE, cancelled |-> FALSE,
                              finished |-> FALSE, cool |-> FALSE, scanned |-> FALSE]]
    /\ item = [i \in Items |-> [st |-> "absent", attempts |-> 0, token |-> 0,
                                leased |-> FALSE, quotaError |-> FALSE,
                                meta |-> i \notin Legacy]]
    /\ run = [r \in Runs |->
                IF r = Recovery THEN Idle("recover")
                ELSE [Idle("segmented") EXCEPT !.at = "start", !.job = r]]
    /\ todo = {} /\ quota = FALSE /\ skipDue = {}
    /\ fresh = 0 /\ faults = 0 /\ crashes = 0 /\ commands = 0
-----------------------------------------------------------------------------
\* ensureJobCanRunForTest: what the row says, before the storage cooldown.
Persisted(j) ==
    IF job[j].cancelled \/ job[j].st = "cancelled" THEN "cancelled"
    ELSE IF job[j].paused \/ job[j].st = "paused" THEN "paused"
    ELSE IF job[j].cool THEN "cooldown" ELSE "run"

\* ensureJobCanRun; its side effect is Checked.
Control(j) == IF Persisted(j) = "run" /\ quota THEN "cooldown" ELSE Persisted(j)

\* The guard of a claim and of the updates that start a run.
Runnable(j) ==
    /\ ~job[j].cancelled /\ ~job[j].paused /\ ~job[j].finished /\ ~job[j].cool
    /\ job[j].st \notin {"cancelled", "paused", "cooling"}

\* Mutant: the status a job ends with is written whatever became of the job.
MovableAny(j) == ~job[j].paused
\* The guard of updateJob when it writes running or a final status.
Movable(j) ==
    /\ ~job[j].cancelled /\ ~job[j].paused
    /\ job[j].st \notin {"cancelled", "paused", "cooling"}

\* putJobIntoStorageCooldown: the update of the job and that of its items (the
\* second does not depend on the first).  Nothing can come between them that
\* would not have the same result before or after both.
CooledJob(j) ==
    IF job[j].cancelled \/ job[j].finished THEN job[j]
    ELSE [job[j] EXCEPT !.st = IF job[j].paused THEN "paused" ELSE "cooling",
                        !.cool = TRUE]
\* Mutant: the storage cooldown puts every item of the job back.
CooledItemsAll(j) ==
    [i \in Items |-> IF JobOf[i] = j THEN [item[i] EXCEPT !.st = "pending"] ELSE item[i]]
\* Its token and its lease stay; the kind of its error is that of a failed item.
BackToPending(it) == [it EXCEPT !.st = "pending", !.quotaError = FALSE]
CooledItems(j) ==
    [i \in Items |->
        IF /\ JobOf[i] = j
           /\ item[i].st = "downloading" \/ (item[i].st = "failed" /\ item[i].quotaError)
        THEN BackToPending(item[i]) ELSE item[i]]

PutCooldown(j) == job' = [job EXCEPT ![j] = CooledJob(j)] /\ item' = CooledItems(j)

\* The effect of reading the control state of a job.
Checked(j) ==
    IF Persisted(j) = "run" /\ quota THEN PutCooldown(j) ELSE UNCHANGED << job, item >>

UpdateJob(j, new) == job' = [job EXCEPT ![j] = new]
UpdateIf(guard, j, new) == IF guard THEN UpdateJob(j, new) ELSE UNCHANGED job

Goto(r, next) == run' = [run EXCEPT ![r].at = next]
Quiet == UNCHANGED << todo, quota, skipDue, fresh, faults, crashes, commands >>

\* A run ends; the recovery worker goes on with the next job of its list.
Rest(r) == IF r = Recovery THEN [Idle("recover") EXCEPT !.at = "next"] ELSE Idle("segmented")
Leave(r) == run' = [run EXCEPT ![r] = Rest(r)]

Fault == faults < MaxFaults /\ faults' = faults + 1
Command == commands < MaxCommands /\ commands' = commands + 1

Claimed(r) == {i \in Items : run[r].claim[i] # 0}
\* Mutant: a settlement looks at the status of the item and not at its token.
HoldsStatus(r, i) == item[i].st = "downloading"
Holds(r, i) == item[i].st = "downloading" /\ item[i].token = run[r].claim[i]

Working == {"work", "error", "lost", "restore"}
-----------------------------------------------------------------------------
(* runSegmentedTelegramJob: start, scan segment by segment, drain, finalise *)

Start(r) ==
    LET j == run[r].job IN
    /\ run[r].at = "start"
    /\ \/ Control(j) = "cancelled" /\ Leave(r) /\ UNCHANGED << job, item >>
       \/ Control(j) \in {"paused", "cooldown"} /\ run' = run /\ Checked(j) /\ (job # job' \/ item # item')
       \/ /\ Control(j) = "run" /\ Runnable(j)
          /\ UpdateJob(j, [job[j] EXCEPT !.st = "running"])
          /\ Goto(r, "scan") /\ UNCHANGED item
       \/ Control(j) = "run" /\ ~Runnable(j) /\ Leave(r) /\ UNCHANGED << job, item >>
    /\ Quiet

\* One segment: items are discovered and persisted, the cursor advances.
Scan(r) ==
    LET j == run[r].job IN
    /\ run[r].at = "scan" /\ Control(j) = "run" /\ ~job[j].scanned
    /\ \E found \in SUBSET ItemsIn(j, {"absent"}) :
         LET done == found = ItemsIn(j, {"absent"}) IN
         /\ item' = [i \in Items |-> IF i \in found THEN BackToPending(item[i]) ELSE item[i]]
         /\ UpdateJob(j, [job[j] EXCEPT !.scanned = done])
    /\ run' = [run EXCEPT ![r].at = "wait", ![r].drain = FALSE]
    /\ Quiet

\* A flood wait while scanning cools the job and leaves its status alone.
ScanFlood(r) ==
    LET j == run[r].job IN
    /\ run[r].at = "scan" /\ Control(j) = "run" /\ ~job[j].scanned /\ Fault
    /\ UpdateJob(j, [job[j] EXCEPT !.cool = TRUE])
    /\ UNCHANGED << item, run, todo, quota, skipDue, fresh, crashes, commands >>

\* The scan loop ends: the scan is done, or the job was cancelled.
ScanEnds(r) ==
    LET j == run[r].job IN
    /\ run[r].at = "scan"
    /\ \/ /\ Control(j) = "run" /\ job[j].scanned
          /\ run' = [run EXCEPT ![r].at = "wait", ![r].drain = TRUE]
          /\ UNCHANGED job
       \/ /\ Control(j) = "cancelled" /\ Leave(r)
          /\ UpdateJob(j, [job[j] EXCEPT !.st = "cancelled", !.finished = TRUE])
    /\ UNCHANGED item /\ Quiet
-----------------------------------------------------------------------------
(* downloadPendingForJob: wait, complete metadata, claim, download          *)

AfterBatch(r) == IF run[r].drain THEN "wait" ELSE "scan"
AfterLoop(r) == IF run[r].drain THEN "stats" ELSE "scan"

\* The batch is over: nothing of it is kept in memory.
BatchOver(r) ==
    run' = [run EXCEPT ![r].at = AfterBatch(r), ![r].claim = [i \in Items |-> 0], ![r].left = {},
                       ![r].back = "pending", ![r].bad = FALSE, ![r].aborted = FALSE]

\* waitUntilRunnable, at the head of each turn.
Wait(r) ==
    LET j == run[r].job IN
    /\ run[r].at = "wait" /\ Control(j) \in {"run", "cancelled"}
    /\ run' = [run EXCEPT ![r].at = IF Control(j) = "cancelled" THEN AfterLoop(r) ELSE "hydrate",
                          ![r].hydrating = {i \in ItemsIn(j, {"pending"}) : ~item[i].meta}]
    /\ UNCHANGED << job, item >> /\ Quiet

\* The control state is read in a loop: a storage cooldown is applied to the job.
WaitCools(r) ==
    LET j == run[r].job IN
    /\ run[r].at \in {"scan", "wait"} /\ Persisted(j) = "run" /\ quota
    /\ PutCooldown(j) /\ UNCHANGED run /\ Quiet

\* hydratePendingDownloadRefs: each row by its id, after a request to Telegram.
Hydrate(r) ==
    /\ run[r].at \in {"hydrate", "rehydrate"}
    /\ \E i \in run[r].hydrating :
         /\ run' = [run EXCEPT ![r].hydrating = @ \ {i}]
         /\ \/ item' = [item EXCEPT ![i].meta = TRUE]
            \/ item' = [item EXCEPT ![i].st = "failed", ![i].attempts = @ + 1, ![i].quotaError = FALSE]
            \/ item' = [item EXCEPT ![i].st = "skipped"]
            \/ item' = item
    /\ UNCHANGED job /\ Quiet

Hydrated(r) ==
    /\ run[r].at \in {"hydrate", "rehydrate"} /\ run[r].hydrating = {}
    /\ Goto(r, IF run[r].at = "hydrate" THEN "claim" ELSE "look") /\ UNCHANGED << job, item >> /\ Quiet

Claimable(j) ==
    {i \in ItemsIn(j, {"pending"}) : item[i].attempts < MaxAttempts /\ item[i].meta}

\* claimPendingDownloadRefs: a new token; nothing to claim ends the loop.
Claim(r) ==
    LET j == run[r].job IN
    /\ run[r].at = "claim"
    /\ IF Runnable(j) /\ Claimable(j) # {}
       THEN /\ fresh < MaxClaims
            /\ \E S \in SUBSET Claimable(j) :
                 /\ S # {} /\ Cardinality(S) <= Batch
                 /\ item' = [i \in Items |->
                               IF i \in S THEN [item[i] EXCEPT !.st = "downloading",
                                                               !.token = fresh + 1, !.leased = TRUE]
                               ELSE item[i]]
                 /\ run' = [run EXCEPT ![r].at = "gate",
                                       ![r].claim = [i \in Items |-> IF i \in S THEN fresh + 1 ELSE 0]]
            /\ fresh' = fresh + 1
       ELSE Goto(r, AfterLoop(r)) /\ UNCHANGED << item, fresh >>
    /\ UNCHANGED << job, todo, quota, skipDue, faults, crashes, commands >>

\* downloadClaimedRefs up to the download: the job must still be runnable.
Gate(r) ==
    LET j == run[r].job IN
    /\ run[r].at = "gate"
    /\ IF Control(j) = "run" /\ Runnable(j)
       THEN /\ UpdateJob(j, [job[j] EXCEPT !.st = "running"]) /\ UNCHANGED item
            /\ Goto(r, "work")
       ELSE Checked(j) /\ run' = [run EXCEPT ![r].at = "refused", ![r].left = Claimed(r)]
    /\ Quiet

\* The claim is given back: skipped when the job was cancelled.
Judge(r) ==
    LET j == run[r].job IN
    /\ run[r].at \in {"refused", "close"}
    /\ Checked(j)
    /\ IF run[r].at = "close" /\ Control(j) = "run"
       THEN BatchOver(r)
       ELSE run' = [run EXCEPT ![r].at = "restore",
                               ![r].back = IF Control(j) = "cancelled" THEN "skipped" ELSE "pending"]
    /\ Quiet

\* Mutant: a claim that was skipped is called cancelled.
ReturnedCancelled(it, st) ==
    [it EXCEPT !.st = IF st = "skipped" THEN "cancelled" ELSE st, !.token = 0, !.leased = FALSE]
Returned(it, st) == [it EXCEPT !.st = st, !.token = 0, !.leased = FALSE, !.quotaError = FALSE]

\* restoreTelegramDownloadRefsWithQuery: only what the token still owns.
Restore(r) ==
    /\ run[r].at = "restore"
    /\ item' = [i \in Items |->
                  IF run[r].claim[i] # 0 /\ Holds(r, i) THEN Returned(item[i], run[r].back) ELSE item[i]]
    /\ BatchOver(r) /\ UNCHANGED job /\ Quiet
-----------------------------------------------------------------------------
(* The files of a claimed batch, which are downloaded and saved in parallel *)

Dealt(r, i) == [run EXCEPT ![r].claim[i] = 0]

\* withTelegramDownloadRefLease: the settlement and its check, under the row lock.
Commit(r, i) ==
    /\ run[r].at \in Working /\ i \in Claimed(r) \ run[r].left
    /\ Holds(r, i) /\ ~run[r].aborted
    /\ item' = [item EXCEPT ![i] = Returned(@, "success")]
    /\ run' = Dealt(r, i)
    /\ UNCHANGED job /\ Quiet

\* A file fails, or was cancelled before it started.
SettleAs(r, i, st) ==
    /\ run[r].at \in Working /\ i \in Claimed(r) \ run[r].left /\ Holds(r, i)
    /\ \E q \in {FALSE, st = "failed"} :
         item' = [item EXCEPT ![i] = [Returned(@, st) EXCEPT
                                        !.attempts = item[i].attempts + (IF st = "failed" THEN 1 ELSE 0),
                                        !.quotaError = q]]
    /\ run' = [Dealt(r, i) EXCEPT ![r].bad = @ \/ st = "failed"]
    /\ UNCHANGED job

Fail(r, i) ==
    /\ SettleAs(r, i, "failed")
    /\ IF run[r].aborted \/ run[r].at = "error" THEN UNCHANGED faults ELSE Fault
    /\ UNCHANGED << todo, quota, skipDue, fresh, crashes, commands >>

Skip(r, i) ==
    /\ Control(run[r].job) = "cancelled" /\ run[r].at = "work"
    /\ SettleAs(r, i, "skipped") /\ Quiet

\* A file that has not started leaves its claim when the job may not go on.
LeaveItem(r, i) ==
    /\ run[r].at = "work" /\ i \in Claimed(r) \ run[r].left
    /\ Control(run[r].job) \in {"paused", "cooldown"}
    /\ Checked(run[r].job)
    /\ run' = [run EXCEPT ![r].left = @ \cup {i}]
    /\ Quiet

\* abortChannelExecutionForLeaseLoss: every run of the job that is downloading.
Abort(j, r2) == run[r2].job = j /\ run[r2].at \in Working

\* The settlement finds that the lease is lost: the batch is thrown away.
Lose(r, i) ==
    /\ run[r].at \in Working /\ i \in Claimed(r) \ run[r].left /\ ~Holds(r, i)
    /\ run' = [s \in Runs |->
                 IF s = r THEN [run[s] EXCEPT !.claim[i] = 0, !.aborted = TRUE,
                                              !.at = IF @ = "work" THEN "lost" ELSE @]
                 ELSE [run[s] EXCEPT !.aborted = @ \/ Abort(run[r].job, s)]]
    /\ UNCHANGED << job, item >> /\ Quiet

\* heartbeatTelegramDownloadRefsWithQuery.
Heartbeat(r) ==
    LET held == {i \in Claimed(r) : Holds(r, i)}
        lost == {i \in Claimed(r) \ held : item[i].st \notin Terminal}
    IN
    /\ run[r].at = "work"
    /\ lost # {} \/ \E i \in held : ~item[i].leased
    /\ item' = [i \in Items |-> IF i \in held THEN [item[i] EXCEPT !.leased = TRUE] ELSE item[i]]
    /\ run' = [s \in Runs |->
                 [run[s] EXCEPT !.aborted = @ \/ (lost # {} /\ Abort(run[r].job, s))]]
    /\ UNCHANGED job /\ Quiet

\* Every file is dealt with or left: back to the control state of the job.
BatchEnds(r) ==
    /\ run[r].at = "work" /\ Claimed(r) \subseteq run[r].left
    /\ run' = [run EXCEPT ![r].at = "close", ![r].bad = FALSE,
                          ![r].failed = @ \/ (run[r].bad /\ run[r].mode = "recover")]
    /\ UNCHANGED << job, item >> /\ Quiet

\* A flood wait: the job is cooled whatever its state, the claim given back.
Flood(r) ==
    /\ run[r].at = "work" /\ Claimed(r) # {} /\ Fault
    /\ UpdateJob(run[r].job, [job[run[r].job] EXCEPT !.st = "cooling", !.cool = TRUE])
    /\ run' = [run EXCEPT ![r].at = "restore", ![r].back = "pending"]
    /\ UNCHANGED << item, todo, quota, skipDue, fresh, crashes, commands >>

\* The daily quota of the storage account is used up.
QuotaError(r) ==
    /\ run[r].at = "work" /\ Claimed(r) # {} /\ Fault
    /\ quota' = TRUE /\ PutCooldown(run[r].job)
    /\ run' = [run EXCEPT ![r].at = "restore", ![r].back = "pending"]
    /\ UNCHANGED << todo, skipDue, fresh, crashes, commands >>

\* The user account cannot go on: its claim is given back.
AccountError(r) ==
    /\ run[r].at = "work" /\ Claimed(r) # {} /\ Fault
    /\ run' = [run EXCEPT ![r].at = "restore", ![r].back = "pending"]
    /\ UNCHANGED << job, item, todo, quota, skipDue, fresh, crashes, commands >>

\* Any other error: the claimed items fail one by one, and it is thrown.
BatchError(r) ==
    /\ run[r].at = "work" /\ Claimed(r) # {} /\ Fault
    /\ Goto(r, "error")
    /\ UNCHANGED << job, item, todo, quota, skipDue, fresh, crashes, commands >>

\* What was thrown ends the run; recovery marks the job as failed.
Thrown(r) ==
    LET j == run[r].job IN
    /\ run[r].at \in {"error", "lost"} /\ Claimed(r) \subseteq run[r].left
    /\ UpdateIf(run[r].mode = "recover" /\ Movable(j), j,
                [job[j] EXCEPT !.st = "failed", !.finished = TRUE])
    /\ Leave(r) /\ UNCHANGED item /\ Quiet
-----------------------------------------------------------------------------
(* The end of a run                                                         *)

\* The counts are read ...
ReadStats(r) ==
    LET j == run[r].job IN
    /\ run[r].at = "stats"
    /\ IF \/ Persisted(j) \in {"cancelled", "paused"}
          \/ run[r].mode = "recover" /\ (job[j].st = "cooling" \/ ItemsIn(j, Open) # {})
       THEN Leave(r)
       ELSE run' = [run EXCEPT ![r].at = "finish", ![r].open = ItemsIn(j, Open) # {},
                               ![r].failed = IF run[r].mode = "recover" THEN @
                                             ELSE ItemsIn(j, {"failed"}) # {}]
    /\ UNCHANGED << job, item >> /\ Quiet

\* ... and the job updated: finalizeTelegramJob, whose guard does not name
\* cooling, or the end of recoverTelegramJob.
Finish(r) ==
    LET j == run[r].job
        st == IF run[r].open THEN "running"
              ELSE IF run[r].failed THEN "completed_with_errors" ELSE "completed"
        new == [job[j] EXCEPT !.st = st, !.finished = ~run[r].open,
                              !.cool = IF run[r].mode = "recover" THEN FALSE ELSE @]
    IN
    /\ run[r].at = "finish"
    /\ UpdateIf(IF run[r].mode = "recover" THEN Movable(j)
                ELSE ~job[j].cancelled /\ ~job[j].paused /\ job[j].st \notin {"cancelled", "paused"},
                j, new)
    /\ Leave(r) /\ UNCHANGED item /\ Quiet
-----------------------------------------------------------------------------
(* recoverInterruptedTelegramJobs                                           *)

\* Mutant: repair looks at jobs that say they are running.
UnfinishedRunning(j) == job[j].st = "running" /\ job[j].finished /\ ItemsIn(j, {"pending"}) # {}
Unfinished(j) ==
    /\ ~job[j].cancelled /\ ~job[j].paused
    /\ job[j].st \in Finals \cup {"running"} /\ (job[j].finished \/ job[j].st \in Finals)
    /\ ItemsIn(j, {"pending"}) # {}

\* repairTelegramJobInvariantsWithQuery: a finished job with pending items.
Repair ==
    /\ run[Recovery].at = "idle" /\ Goto(Recovery, "uncool")
    /\ job' = [j \in Jobs |-> IF Unfinished(j) THEN [job[j] EXCEPT !.st = "running", !.finished = FALSE]
                              ELSE job[j]]
    /\ \E old \in SUBSET {i \in Items : item[i].st = "downloading" /\ ~item[i].leased} :
         item' = [i \in Items |-> IF i \in old /\ Unfinished(JobOf[i]) THEN BackToPending(item[i])
                                  ELSE item[i]]
    /\ Quiet

\* Jobs whose cooldown is over run again.
Uncool ==
    /\ run[Recovery].at = "uncool" /\ Goto(Recovery, "expired")
    /\ job' = [j \in Jobs |->
                 IF /\ job[j].st = "cooling" /\ ~job[j].cool
                    /\ ~job[j].paused /\ ~job[j].cancelled /\ ~job[j].finished
                 THEN [job[j] EXCEPT !.st = "running"] ELSE job[j]]
    /\ UNCHANGED item /\ Quiet

\* Items whose lease has run out are pending again; their token stays.
ResetExpired ==
    /\ run[Recovery].at = "expired" /\ Goto(Recovery, "list")
    /\ item' = [i \in Items |->
                  IF /\ item[i].st = "downloading" /\ ~item[i].leased
                     /\ ~job[JobOf[i]].finished /\ Persisted(JobOf[i]) \notin {"cancelled", "paused"}
                  THEN BackToPending(item[i]) ELSE item[i]]
    /\ UNCHANGED job /\ Quiet

ListJobs ==
    /\ run[Recovery].at = "list" /\ Goto(Recovery, "next")
    /\ todo' = {j \in Jobs : /\ ~job[j].finished /\ ~job[j].cancelled
                             /\ job[j].st \notin {"queued", "paused", "completed", "cancelled"}
                             /\ ItemsIn(j, {"pending"}) # {}}
    /\ UNCHANGED << job, item, quota, skipDue, fresh, faults, crashes, commands >>

\* One listed job after the other: its scan goes on, or its items are drained.
TakeJob ==
    /\ run[Recovery].at = "next"
    /\ IF todo = {} THEN run' = [run EXCEPT ![Recovery] = Idle("recover")] /\ UNCHANGED todo
       ELSE \E j \in todo :
              /\ todo' = todo \ {j}
              /\ run' = [run EXCEPT ![Recovery] =
                           IF job[j].scanned
                           THEN [Idle("recover") EXCEPT !.at = "look", !.job = j, !.drain = TRUE]
                           ELSE [Idle("segmented") EXCEPT !.at = "start", !.job = j]]
    /\ UNCHANGED << job, item, quota, skipDue, fresh, faults, crashes, commands >>

\* The head of recoverTelegramJob.
Look ==
    LET r == Recovery
        j == run[r].job
        bare == {i \in ItemsIn(j, {"pending"}) : ~item[i].meta}
    IN
    /\ run[r].at = "look"
    /\ \/ /\ ItemsIn(j, {"pending"}) = {} \/ (bare = {} /\ Persisted(j) \in {"cancelled", "paused"})
          /\ Leave(r) /\ UNCHANGED job
       \/ /\ bare # {}
          /\ run' = [run EXCEPT ![r].at = "rehydrate", ![r].hydrating = bare]
          /\ UNCHANGED job
       \/ /\ bare # {} /\ Leave(r)     \* no user client is connected
          /\ UpdateIf(Movable(j), j, [job[j] EXCEPT !.st = "failed", !.finished = TRUE])
       \/ /\ bare = {} /\ ItemsIn(j, {"pending"}) # {} /\ Persisted(j) \notin {"cancelled", "paused"}
          /\ UpdateIf(Movable(j), j, [job[j] EXCEPT !.st = "running"])
          /\ Goto(r, "wait")
    /\ UNCHANGED item /\ Quiet
-----------------------------------------------------------------------------
(* The user, the clock and the process                                      *)

MayEnd(j) == ~job[j].finished /\ job[j].st \notin {"completed", "completed_with_errors", "cancelled"}

Pause(j) ==
    /\ Command /\ MayEnd(j)
    /\ UpdateJob(j, [job[j] EXCEPT !.st = "paused", !.paused = TRUE])
    /\ UNCHANGED << item, run, todo, quota, skipDue, fresh, faults, crashes >>

Resume(j) ==
    /\ ~job[j].cancelled /\ job[j].st = "paused" /\ ~job[j].cool
    /\ UpdateJob(j, [job[j] EXCEPT !.st = "running", !.paused = FALSE, !.finished = FALSE])
    /\ UNCHANGED << item, run, todo, quota, skipDue, fresh, faults, crashes, commands >>

\* cancelTelegramBackgroundJob: the job ...
Cancel(j) ==
    /\ Command /\ MayEnd(j)
    /\ UpdateJob(j, [job[j] EXCEPT !.st = "cancelled", !.cancelled = TRUE, !.finished = TRUE])
    /\ skipDue' = skipDue \cup {j}
    /\ UNCHANGED << item, run, todo, quota, fresh, faults, crashes >>

\* ... then its pending items; the caller then aborts its downloads.
SkipPending(j) ==
    /\ j \in skipDue /\ skipDue' = skipDue \ {j}
    /\ item' = [i \in Items |-> IF JobOf[i] = j /\ item[i].st = "pending"
                                THEN [item[i] EXCEPT !.st = "skipped"] ELSE item[i]]
    /\ run' = [r \in Runs |-> [run[r] EXCEPT !.aborted = @ \/ Abort(j, r)]]
    /\ UNCHANGED << job, todo, quota, fresh, faults, crashes, commands >>

Retry(j) ==
    /\ Command
    /\ ~job[j].cancelled /\ ~job[j].paused /\ ~job[j].cool
    /\ job[j].st \in {"failed", "completed_with_errors"} /\ ItemsIn(j, {"failed"}) # {}
    /\ UpdateJob(j, [job[j] EXCEPT !.st = "running", !.finished = FALSE])
    /\ item' = [i \in Items |-> IF JobOf[i] = j /\ item[i].st = "failed"
                                THEN [BackToPending(item[i]) EXCEPT !.attempts = 0] ELSE item[i]]
    /\ UNCHANGED << run, todo, quota, skipDue, fresh, faults, crashes >>

CooldownEnds(j) ==
    /\ job[j].cool /\ ~quota
    /\ UpdateJob(j, [job[j] EXCEPT !.cool = FALSE])
    /\ UNCHANGED << item, run >> /\ Quiet

QuotaEnds ==
    /\ quota /\ quota' = FALSE
    /\ UNCHANGED << job, item, run, todo, skipDue, fresh, faults, crashes, commands >>

Held(i) == \E r \in Runs : run[r].claim[i] # 0 /\ run[r].claim[i] = item[i].token

\* A lease runs out because nobody renews it, or although its run is alive.
LeaseExpires(i) ==
    /\ item[i].st = "downloading" /\ item[i].leased
    /\ item' = [item EXCEPT ![i].leased = FALSE]
    /\ IF Held(i) THEN Fault ELSE UNCHANGED faults
    /\ UNCHANGED << job, run, todo, quota, skipDue, fresh, crashes, commands >>

\* The process stops and starts again: all of its runs are gone.
Crash ==
    /\ crashes < MaxCrashes /\ crashes' = crashes + 1
    /\ run' = [r \in Runs |-> IF r = Recovery THEN Idle("recover") ELSE Idle("segmented")]
    /\ todo' = {} /\ skipDue' = {}
    /\ UNCHANGED << job, item, quota, fresh, faults, commands >>
-----------------------------------------------------------------------------
Work(r, i) == Commit(r, i) \/ Fail(r, i) \/ Skip(r, i) \/ LeaveItem(r, i) \/ Lose(r, i)

RunStep(r) ==
    \/ Start(r) \/ Scan(r) \/ ScanEnds(r)
    \/ Wait(r) \/ WaitCools(r) \/ Hydrate(r) \/ Hydrated(r) \/ Claim(r) \/ Gate(r)
    \/ Judge(r) \/ Restore(r) \/ Heartbeat(r) \/ BatchEnds(r) \/ Thrown(r)
    \/ ReadStats(r) \/ Finish(r)
    \/ \E i \in Items : Work(r, i)

ErrorStep(r) ==
    ScanFlood(r) \/ Flood(r) \/ QuotaError(r) \/ AccountError(r) \/ BatchError(r)

RecoveryStep == Repair \/ Uncool \/ ResetExpired \/ ListJobs \/ TakeJob \/ Look

UserStep(j) == Pause(j) \/ Resume(j) \/ Cancel(j) \/ SkipPending(j) \/ Retry(j)

Next ==
    \/ \E r \in Runs : RunStep(r) \/ ErrorStep(r)
    \/ RecoveryStep
    \/ \E j \in Jobs : UserStep(j) \/ CooldownEnds(j)
    \/ QuotaEnds
    \/ \E i \in Items : LeaseExpires(i)
    \/ Crash

Spec == Init /\ [][Next]_vars
-----------------------------------------------------------------------------
Places == {"idle", "start", "scan", "wait", "hydrate", "rehydrate", "claim", "gate", "refused",
           "work", "close", "restore", "error", "lost", "stats", "finish",
           "uncool", "expired", "list", "next", "look"}

JobType == [st: JobStatus, paused: BOOLEAN, cancelled: BOOLEAN, finished: BOOLEAN,
            cool: BOOLEAN, scanned: BOOLEAN]
ItemType == [st: ItemStatus, attempts: Nat, token: 0..MaxClaims, leased: BOOLEAN,
             quotaError: BOOLEAN, meta: BOOLEAN]
RunType == [at: Places, job: Jobs, mode: {"segmented", "recover"}, claim: [Items -> 0..MaxClaims],
            left: SUBSET Items, hydrating: SUBSET Items, back: {"pending", "skipped"},
            drain: BOOLEAN, bad: BOOLEAN, failed: BOOLEAN, open: BOOLEAN, aborted: BOOLEAN]

\* The rows and the runs keep their types.
TypeOK ==
    /\ job \in [Jobs -> JobType] /\ item \in [Items -> ItemType] /\ run \in [Runs -> RunType]
    /\ todo \subseteq Jobs /\ quota \in BOOLEAN /\ skipDue \subseteq Jobs
    /\ fresh \in 0..MaxClaims /\ faults \in 0..MaxFaults
    /\ crashes \in 0..MaxCrashes /\ commands \in 0..MaxCommands

\* A cancelled job never runs or completes again, whatever its run, the recovery
\* worker and a finalisation that read the job before were about to write.
CancelledNeverRuns ==
    \A j \in Jobs : job[j].cancelled => job[j].st \in {"cancelled", "cooling"}

\* The metadata of a row is completed by its id, whoever claimed it in the meantime.
Completing(i) == \E r \in Runs : i \in run[r].hydrating

\* A download is settled by the run that holds the present lease of its item: a
\* run whose item was reset, and perhaps claimed again, changes nothing, unless it
\* is completing metadata.
OnlyHolderSettles ==
    [][\A i \in Items :
         item[i].st = "downloading" /\ item'[i].st \in Terminal
           => \/ \E r \in Runs : run[r].claim[i] = item[i].token /\ run'[r].claim[i] = 0
              \/ Completing(i)]_vars

\* A file that was downloaded and saved is never downloaded again.
SuccessIsFinal ==
    [][\A i \in Items : item[i].st = "success" => item'[i].st = "success" \/ Completing(i)]_vars

\* An item does not stay in a download that nobody works on: its run ends, or its
\* lease does and recovery puts it back, unless the job was ended or paused.
ClaimEnded(i) ==
    \/ item[i].st # "downloading" \/ job[JobOf[i]].finished
    \/ Persisted(JobOf[i]) \in {"cancelled", "paused"}

\* A job that was finished while an item was pending is opened again.
Reopened(j) ==
    \/ ~job[j].finished \/ ItemsIn(j, {"pending"}) = {}
    \/ Persisted(j) \in {"cancelled", "paused"}

\* The recovery run, which starts only one at a time, comes to its end, unless it
\* waits for a job that was paused, or one whose metadata cannot be read.
RecoveryOver == run[Recovery].at = "idle" \/ \E j \in Jobs : Persisted(j) = "paused"
=============================================================================
