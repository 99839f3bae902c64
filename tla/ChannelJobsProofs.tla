------------------------- MODULE ChannelJobsProofs -------------------------
(***************************************************************************)
(* Proofs about ChannelJobs, for every number of jobs, items, claims and   *)
(* faults: a cancelled job stays so, no two runs hold the lease of an item,*)
(* and only the holder settles it.  The last part is about the task centre *)
(* of the bot that commands these jobs (TaskCards): the row of a job and   *)
(* its group in the memory of the server agree.                            *)
(***************************************************************************)
EXTENDS ChannelJobs, TLAPS

\* A cancelled row is finished, which is what keeps the commands away from it.
SoundRow(row) == row.cancelled => row.finished /\ row.st \in {"cancelled", "cooling"}
CancelledIsFinished == \A j \in Jobs : SoundRow(job[j])

\* Tokens are those given so far, and a claim of an item is held by one run.
LeasesAreUnique ==
    \A i \in Items :
      /\ item[i].token <= fresh
      /\ item[i].st = "downloading" => item[i].token # 0
      /\ \A r \in Runs : run[r].claim[i] <= fresh
      /\ \A r, s \in Runs : run[r].claim[i] # 0 /\ run[r].claim[i] = run[s].claim[i] => r = s

\* At most one run may settle an item: the lock of the row and the token decide.
OneHolder == \A i \in Items : \A r, s \in Runs : Holds(r, i) /\ Holds(s, i) => r = s

JobsInv == TypeOK /\ CancelledIsFinished /\ LeasesAreUnique
-----------------------------------------------------------------------------
(* Rows of jobs                                                             *)

JobRow == {row \in JobType : SoundRow(row)}

\* The names of the statuses of jobs and of items, spelled out.
LEMMA StatusNames ==
    /\ {"completed", "completed_with_errors", "failed", "queued", "pending", "running", "paused",
        "cooling", "cancelled"} = JobStatus
    /\ {"pending", "downloading", "success", "failed", "skipped", "absent"} = ItemStatus
  BY DEF JobStatus, ItemStatus, Finals, Open, Terminal

\* The updates of a job keep its row sound.
LEMMA JobRows ==
  ASSUME NEW row \in JobRow
  PROVE  /\ \A b \in BOOLEAN : [row EXCEPT !.cool = b] \in JobRow /\ [row EXCEPT !.scanned = b] \in JobRow
         /\ \A b \in BOOLEAN : [row EXCEPT !.st = "cooling", !.cool = b] \in JobRow
         /\ [row EXCEPT !.st = "cancelled", !.finished = TRUE] \in JobRow
         /\ [row EXCEPT !.st = "cancelled", !.cancelled = TRUE, !.finished = TRUE] \in JobRow
         /\ ~row.finished \/ ~row.cancelled =>
              \A st \in JobStatus, b, c \in BOOLEAN :
                /\ [row EXCEPT !.st = st] \in JobRow
                /\ [row EXCEPT !.st = st, !.finished = b] \in JobRow
                /\ [row EXCEPT !.st = st, !.cool = b] \in JobRow
                /\ [row EXCEPT !.st = st, !.paused = b] \in JobRow
                /\ [row EXCEPT !.st = st, !.paused = b, !.finished = c] \in JobRow
                /\ [row EXCEPT !.st = st, !.finished = b, !.cool = c] \in JobRow
<1>1. row \in JobType /\ (row.cancelled => row.finished /\ row.st \in {"cancelled", "cooling"})
  BY DEF JobRow, SoundRow
<1>2. \A b \in BOOLEAN : [row EXCEPT !.cool = b] \in JobRow /\ [row EXCEPT !.scanned = b] \in JobRow
  BY <1>1 DEF JobRow, SoundRow, JobType
<1>3. \A b \in BOOLEAN : [row EXCEPT !.st = "cooling", !.cool = b] \in JobRow
  BY <1>1, StatusNames DEF JobRow, SoundRow, JobType
<1>4. [row EXCEPT !.st = "cancelled", !.finished = TRUE] \in JobRow
  BY <1>1, StatusNames DEF JobRow, SoundRow, JobType
<1>5. [row EXCEPT !.st = "cancelled", !.cancelled = TRUE, !.finished = TRUE] \in JobRow
  BY <1>1, StatusNames DEF JobRow, SoundRow, JobType
<1>6. ASSUME ~row.finished \/ ~row.cancelled, NEW st \in JobStatus, NEW b \in BOOLEAN, NEW c \in BOOLEAN
      PROVE  /\ [row EXCEPT !.st = st] \in JobRow
             /\ [row EXCEPT !.st = st, !.finished = b] \in JobRow
             /\ [row EXCEPT !.st = st, !.cool = b] \in JobRow
             /\ [row EXCEPT !.st = st, !.paused = b] \in JobRow
             /\ [row EXCEPT !.st = st, !.paused = b, !.finished = c] \in JobRow
             /\ [row EXCEPT !.st = st, !.finished = b, !.cool = c] \in JobRow
  BY <1>1, <1>6 DEF JobRow, SoundRow, JobType
<1> QED  BY <1>2, <1>3, <1>4, <1>5, <1>6

\* What the invariant says of the rows of jobs.
LEMMA RowsOfJobs ==
  ASSUME JobsInv, NEW j \in Jobs
  PROVE  job \in [Jobs -> JobRow] /\ job[j] \in JobRow
  BY DEF JobsInv, TypeOK, CancelledIsFinished, JobRow

\* An update of one job leaves sound rows, when the row it writes is sound.
LEMMA UpdatedJobs ==
  ASSUME JobsInv, NEW j \in Jobs, NEW new \in JobRow, UpdateJob(j, new)
  PROVE  job' \in [Jobs -> JobRow]
  BY RowsOfJobs DEF UpdateJob

\* The control state of a job that is not cancelled, and what reading it does.
LEMMA ControlStates ==
  ASSUME NEW j \in Jobs
  PROVE  /\ Control(j) = "run" => ~job[j].cancelled /\ Persisted(j) = "run" /\ ~quota
         /\ Persisted(j) = "run" => ~job[j].cancelled
         /\ Runnable(j) => ~job[j].cancelled
         /\ Movable(j) => ~job[j].cancelled
         /\ Unfinished(j) => ~job[j].cancelled
  BY DEF Control, Persisted, Runnable, Movable, Unfinished

\* The storage cooldown, and a look at the control state, leave sound rows.
LEMMA CooledJobs ==
  ASSUME JobsInv, NEW j \in Jobs
  PROVE  /\ PutCooldown(j) => job' \in [Jobs -> JobRow]
         /\ Checked(j) => job' \in [Jobs -> JobRow]
<1>1. job \in [Jobs -> JobRow] /\ job[j] \in JobRow
  BY RowsOfJobs
<1>2. \A s \in JobStatus : ~job[j].cancelled => [job[j] EXCEPT !.st = s, !.cool = TRUE] \in JobRow
  BY <1>1, JobRows
<1>3. CooledJob(j) \in JobRow
  BY <1>1, <1>2, StatusNames DEF CooledJob
<1>4. PutCooldown(j) => job' \in [Jobs -> JobRow]
  BY <1>1, <1>3 DEF PutCooldown
<1> QED  BY <1>1, <1>4 DEF Checked

\* A run works for a job.
LEMMA RunsHaveJobs ==
  ASSUME JobsInv, NEW r \in Runs
  PROVE  run[r] \in RunType /\ run[r].job \in Jobs
  BY DEF JobsInv, TypeOK, RunType

\* Every step leaves sound rows of jobs.
LEMMA JobsStep ==
  ASSUME JobsInv, Next
  PROVE  job' \in [Jobs -> JobRow]
<1>a. job \in [Jobs -> JobRow]
  BY DEF JobsInv, TypeOK, CancelledIsFinished, JobRow
<1>b. \A j \in Jobs, new \in JobRow : UpdateJob(j, new) => job' \in [Jobs -> JobRow]
  BY UpdatedJobs
<1>1. ASSUME NEW r \in Runs, RunStep(r) \/ ErrorStep(r)
      PROVE  job' \in [Jobs -> JobRow]
  <2> DEFINE j == run[r].job
  <2>0. j \in Jobs /\ job[j] \in JobRow
    BY <1>a, RunsHaveJobs
  <2>p. /\ PutCooldown(j) => job' \in [Jobs -> JobRow]
        /\ Checked(j) => job' \in [Jobs -> JobRow]
    BY <2>0, CooledJobs
  <2>u. \A new \in JobRow : UpdateJob(j, new) => job' \in [Jobs -> JobRow]
    BY <1>b, <2>0
  <2>r. \A b \in BOOLEAN : /\ [job[j] EXCEPT !.cool = b] \in JobRow
                           /\ [job[j] EXCEPT !.scanned = b] \in JobRow
                           /\ [job[j] EXCEPT !.st = "cooling", !.cool = b] \in JobRow
                           /\ [job[j] EXCEPT !.st = "cancelled", !.finished = TRUE] \in JobRow
    BY <2>0, JobRows
  <2>s. ~job[j].cancelled =>
          \A st \in JobStatus, b, c \in BOOLEAN :
            /\ [job[j] EXCEPT !.st = st] \in JobRow
            /\ [job[j] EXCEPT !.st = st, !.finished = b] \in JobRow
            /\ [job[j] EXCEPT !.st = st, !.finished = b, !.cool = c] \in JobRow
    BY <2>0, JobRows
  <2>c. /\ Control(j) = "run" => ~job[j].cancelled
        /\ Runnable(j) => ~job[j].cancelled
        /\ Movable(j) => ~job[j].cancelled
    BY <2>0, ControlStates
  <2>1. CASE Start(r)
    BY <1>a, <2>1, <2>p, <2>u, <2>s, <2>c, StatusNames DEF Start
  <2>2. CASE Scan(r) \/ ScanFlood(r)
    BY <2>2, <2>u, <2>r DEF Scan, ScanFlood
  <2>3. CASE ScanEnds(r)
    BY <1>a, <2>3, <2>u, <2>r DEF ScanEnds
  <2>4. CASE Wait(r) \/ Hydrate(r) \/ Hydrated(r) \/ Claim(r) \/ Restore(r) \/ Heartbeat(r) \/ BatchEnds(r)
             \/ ReadStats(r) \/ AccountError(r) \/ BatchError(r)
    BY <1>a, <2>4 DEF Wait, Hydrate, Hydrated, Claim, Restore, Heartbeat, BatchEnds, ReadStats,
       AccountError, BatchError
  <2>5. CASE WaitCools(r) \/ QuotaError(r) \/ Judge(r)
    BY <2>5, <2>p DEF WaitCools, QuotaError, Judge
  <2>6. CASE Gate(r)
    BY <2>6, <2>p, <2>u, <2>s, <2>c, StatusNames DEF Gate
  <2>7. CASE Flood(r)
    BY <2>7, <2>u, <2>r DEF Flood
  <2>8. CASE Thrown(r)
    BY <1>a, <2>8, <2>u, <2>s, <2>c, StatusNames DEF Thrown, UpdateIf
  <2>9. CASE Finish(r)
    <3>0. job[j].cool \in BOOLEAN /\ run[r].open \in BOOLEAN
      BY <2>0, RunsHaveJobs DEF JobRow, JobType, RunType
    <3>1. ASSUME ~job[j].cancelled
          PROVE  [job[j] EXCEPT
                   !.st = IF run[r].open THEN "running"
                          ELSE IF run[r].failed THEN "completed_with_errors" ELSE "completed",
                   !.finished = ~run[r].open,
                   !.cool = IF run[r].mode = "recover" THEN FALSE ELSE job[j].cool] \in JobRow
      BY <3>0, <3>1, <2>s, StatusNames
    <3> QED
      BY <1>a, <2>9, <2>u, <2>c, <3>1 DEF Finish, UpdateIf
  <2>10. ASSUME NEW i \in Items, Work(r, i)
         PROVE  job' \in [Jobs -> JobRow]
    BY <1>a, <2>10, <2>p DEF Work, Commit, Fail, Skip, SettleAs, LeaveItem, Lose
  <2> QED
    BY <1>1, <2>1, <2>2, <2>3, <2>4, <2>5, <2>6, <2>7, <2>8, <2>9, <2>10 DEF RunStep, ErrorStep
<1>2. CASE RecoveryStep
  <2> DEFINE j == run[Recovery].job
  <2>0. j \in Jobs /\ job[j] \in JobRow
    BY <1>a, RunsHaveJobs DEF Runs
  <2>1. CASE Repair
    <3>1. \A k \in Jobs : (IF Unfinished(k) THEN [job[k] EXCEPT !.st = "running", !.finished = FALSE]
                           ELSE job[k]) \in JobRow
      BY <1>a, ControlStates, JobRows, StatusNames
    <3> QED  BY <2>1, <3>1 DEF Repair
  <2>2. CASE Uncool
    <3>1. \A k \in Jobs : ~job[k].cancelled => [job[k] EXCEPT !.st = "running"] \in JobRow
      BY <1>a, JobRows, StatusNames
    <3> QED  BY <1>a, <2>2, <3>1 DEF Uncool
  <2>3. CASE ResetExpired \/ ListJobs \/ TakeJob
    BY <1>a, <2>3 DEF ResetExpired, ListJobs, TakeJob
  <2>4. CASE Look
    <3>1. Movable(j) => /\ [job[j] EXCEPT !.st = "failed", !.finished = TRUE] \in JobRow
                        /\ [job[j] EXCEPT !.st = "running"] \in JobRow
      BY <2>0, ControlStates, JobRows, StatusNames
    <3> QED  BY <1>a, <1>b, <2>0, <2>4, <3>1 DEF Look, UpdateIf
  <2> QED  BY <1>2, <2>1, <2>2, <2>3, <2>4 DEF RecoveryStep
<1>3. ASSUME NEW j \in Jobs, UserStep(j) \/ CooldownEnds(j)
      PROVE  job' \in [Jobs -> JobRow]
  <2>0. job[j] \in JobRow
    BY <1>a
  <2>1. /\ [job[j] EXCEPT !.st = "cancelled", !.cancelled = TRUE, !.finished = TRUE] \in JobRow
        /\ [job[j] EXCEPT !.cool = FALSE] \in JobRow
    BY <2>0, JobRows
  <2>2. ~job[j].finished \/ ~job[j].cancelled =>
          /\ [job[j] EXCEPT !.st = "paused", !.paused = TRUE] \in JobRow
          /\ [job[j] EXCEPT !.st = "running", !.paused = FALSE, !.finished = FALSE] \in JobRow
          /\ [job[j] EXCEPT !.st = "running", !.finished = FALSE] \in JobRow
    BY <2>0, JobRows, StatusNames
  <2> QED
    BY <1>a, <1>b, <1>3, <2>1, <2>2 DEF UserStep, Pause, Resume, Cancel, SkipPending, Retry, MayEnd, CooldownEnds
<1>4. CASE QuotaEnds \/ Crash \/ \E i \in Items : LeaseExpires(i)
  BY <1>a, <1>4 DEF QuotaEnds, Crash, LeaseExpires
<1> QED  BY <1>1, <1>2, <1>3, <1>4 DEF Next

-----------------------------------------------------------------------------
(* Runs                                                                     *)

\* The runs a step leaves are runs, and no claim of theirs is new.
Tame(new) ==
    /\ new \in [Runs -> RunType]
    /\ \A s \in Runs, i \in Items : new[s].claim[i] \in {0, run[s].claim[i]}

\* The assignments by which a run moves on keep its type and add no claim.
LEMMA RunForms ==
  ASSUME TypeOK, NEW r \in Runs
  PROVE  /\ \A a \in Places : Tame([run EXCEPT ![r].at = a])
         /\ \A a \in Places, b \in BOOLEAN : Tame([run EXCEPT ![r].at = a, ![r].drain = b])
         /\ \A a \in Places, h \in SUBSET Items : Tame([run EXCEPT ![r].at = a, ![r].hydrating = h])
         /\ \A h \in SUBSET Items : Tame([run EXCEPT ![r].hydrating = h])
         /\ \A a \in Places, h \in SUBSET Items : Tame([run EXCEPT ![r].at = a, ![r].left = h])
         /\ \A h \in SUBSET Items : Tame([run EXCEPT ![r].left = h])
         /\ \A a \in Places, b \in {"pending", "skipped"} : Tame([run EXCEPT ![r].at = a, ![r].back = b])
         /\ \A a \in Places, b, c \in BOOLEAN : Tame([run EXCEPT ![r].at = a, ![r].bad = b, ![r].failed = c])
         /\ \A a \in Places, b, c \in BOOLEAN : Tame([run EXCEPT ![r].at = a, ![r].open = b, ![r].failed = c])
<1>t. run \in [Runs -> RunType] /\ run[r] \in RunType
  BY DEF TypeOK
<1>1. ASSUME NEW a \in Places
      PROVE  Tame([run EXCEPT ![r].at = a])
  <2>1. [run[r] EXCEPT !.at = a] \in RunType /\ [run[r] EXCEPT !.at = a].claim = run[r].claim
    BY <1>t DEF RunType
  <2>2. [run EXCEPT ![r].at = a] = [run EXCEPT ![r] = [run[r] EXCEPT !.at = a]]
    BY <1>t
  <2> QED  BY <1>t, <2>1, <2>2 DEF Tame
<1>2. ASSUME NEW a \in Places, NEW b \in BOOLEAN
      PROVE  Tame([run EXCEPT ![r].at = a, ![r].drain = b])
  <2>1. [run[r] EXCEPT !.at = a, !.drain = b] \in RunType /\ [run[r] EXCEPT !.at = a, !.drain = b].claim = run[r].claim
    BY <1>t DEF RunType
  <2>2. [run EXCEPT ![r].at = a, ![r].drain = b] = [run EXCEPT ![r] = [run[r] EXCEPT !.at = a, !.drain = b]]
    BY <1>t
  <2> QED  BY <1>t, <2>1, <2>2 DEF Tame
<1>3. ASSUME NEW a \in Places, NEW h \in SUBSET Items
      PROVE  Tame([run EXCEPT ![r].at = a, ![r].hydrating = h])
  <2>1. [run[r] EXCEPT !.at = a, !.hydrating = h] \in RunType /\ [run[r] EXCEPT !.at = a, !.hydrating = h].claim = run[r].claim
    BY <1>t DEF RunType
  <2>2. [run EXCEPT ![r].at = a, ![r].hydrating = h] = [run EXCEPT ![r] = [run[r] EXCEPT !.at = a, !.hydrating = h]]
    BY <1>t
  <2> QED  BY <1>t, <2>1, <2>2 DEF Tame
<1>4. ASSUME NEW h \in SUBSET Items
      PROVE  Tame([run EXCEPT ![r].hydrating = h])
  <2>1. [run[r] EXCEPT !.hydrating = h] \in RunType /\ [run[r] EXCEPT !.hydrating = h].claim = run[r].claim
    BY <1>t DEF RunType
  <2>2. [run EXCEPT ![r].hydrating = h] = [run EXCEPT ![r] = [run[r] EXCEPT !.hydrating = h]]
    BY <1>t
  <2> QED  BY <1>t, <2>1, <2>2 DEF Tame
<1>5. ASSUME NEW a \in Places, NEW h \in SUBSET Items
      PROVE  Tame([run EXCEPT ![r].at = a, ![r].left = h])
  <2>1. [run[r] EXCEPT !.at = a, !.left = h] \in RunType /\ [run[r] EXCEPT !.at = a, !.left = h].claim = run[r].claim
    BY <1>t DEF RunType
  <2>2. [run EXCEPT ![r].at = a, ![r].left = h] = [run EXCEPT ![r] = [run[r] EXCEPT !.at = a, !.left = h]]
    BY <1>t
  <2> QED  BY <1>t, <2>1, <2>2 DEF Tame
<1>6. ASSUME NEW h \in SUBSET Items
      PROVE  Tame([run EXCEPT ![r].left = h])
  <2>1. [run[r] EXCEPT !.left = h] \in RunType /\ [run[r] EXCEPT !.left = h].claim = run[r].claim
    BY <1>t DEF RunType
  <2>2. [run EXCEPT ![r].left = h] = [run EXCEPT ![r] = [run[r] EXCEPT !.left = h]]
    BY <1>t
  <2> QED  BY <1>t, <2>1, <2>2 DEF Tame
<1>7. ASSUME NEW a \in Places, NEW b \in {"pending", "skipped"}
      PROVE  Tame([run EXCEPT ![r].at = a, ![r].back = b])
  <2>1. [run[r] EXCEPT !.at = a, !.back = b] \in RunType /\ [run[r] EXCEPT !.at = a, !.back = b].claim = run[r].claim
    BY <1>t DEF RunType
  <2>2. [run EXCEPT ![r].at = a, ![r].back = b] = [run EXCEPT ![r] = [run[r] EXCEPT !.at = a, !.back = b]]
    BY <1>t
  <2> QED  BY <1>t, <2>1, <2>2 DEF Tame
<1>8. ASSUME NEW a \in Places, NEW b \in BOOLEAN, NEW c \in BOOLEAN
      PROVE  Tame([run EXCEPT ![r].at = a, ![r].bad = b, ![r].failed = c])
  <2>1. [run[r] EXCEPT !.at = a, !.bad = b, !.failed = c] \in RunType /\ [run[r] EXCEPT !.at = a, !.bad = b, !.failed = c].claim = run[r].claim
    BY <1>t DEF RunType
  <2>2. [run EXCEPT ![r].at = a, ![r].bad = b, ![r].failed = c] = [run EXCEPT ![r] = [run[r] EXCEPT !.at = a, !.bad = b, !.failed = c]]
    BY <1>t
  <2> QED  BY <1>t, <2>1, <2>2 DEF Tame
<1>9. ASSUME NEW a \in Places, NEW b \in BOOLEAN, NEW c \in BOOLEAN
      PROVE  Tame([run EXCEPT ![r].at = a, ![r].open = b, ![r].failed = c])
  <2>1. [run[r] EXCEPT !.at = a, !.open = b, !.failed = c] \in RunType /\ [run[r] EXCEPT !.at = a, !.open = b, !.failed = c].claim = run[r].claim
    BY <1>t DEF RunType
  <2>2. [run EXCEPT ![r].at = a, ![r].open = b, ![r].failed = c] = [run EXCEPT ![r] = [run[r] EXCEPT !.at = a, !.open = b, !.failed = c]]
    BY <1>t
  <2> QED  BY <1>t, <2>1, <2>2 DEF Tame
<1> QED  BY <1>1, <1>2, <1>3, <1>4, <1>5, <1>6, <1>7, <1>8, <1>9

\* One run is replaced by another that has no new claim.
LEMMA ReplacedRun ==
  ASSUME TypeOK, NEW r \in Runs, NEW new \in RunType,
         \A i \in Items : new.claim[i] \in {0, run[r].claim[i]}
  PROVE  Tame([run EXCEPT ![r] = new])
<1>1. run \in [Runs -> RunType]
  BY DEF TypeOK
<1> QED  BY <1>1 DEF Tame

\* Runs that do not change are tame.
LEMMA SameRuns ==
  ASSUME TypeOK
  PROVE  Tame(run)
  BY DEF Tame, TypeOK

\* A run at rest holds no claim.
LEMMA RunsAtRest ==
  /\ \A mode \in {"segmented", "recover"} : Idle(mode) \in RunType
  /\ \A r \in Runs : Rest(r) \in RunType /\ \A i \in Items : Rest(r).claim[i] = 0
<1>1. (CHOOSE j \in Jobs : TRUE) \in Jobs
  BY JobsAssumption
<1>2. [i \in Items |-> 0] \in [Items -> 0..MaxClaims]
  BY JobsAssumption
<1>3. {"idle", "next"} \subseteq Places
  BY DEF Places
<1>4. \A mode \in {"segmented", "recover"} : Idle(mode) \in RunType
  BY <1>1, <1>2, <1>3 DEF Idle, RunType
<1>5. [Idle("recover") EXCEPT !.at = "next"] \in RunType
  BY <1>3, <1>4 DEF RunType
<1>6. \A r \in Runs : Rest(r) \in RunType
  BY <1>4, <1>5 DEF Rest
<1>7. \A r \in Runs, i \in Items : Rest(r).claim[i] = 0
  BY DEF Rest, Idle
<1> QED  BY <1>4, <1>6, <1>7

\* A run that ends has no claim left.
LEMMA Leaving ==
  ASSUME TypeOK, NEW r \in Runs, Leave(r)
  PROVE  Tame(run')
<1>1. Rest(r) \in RunType /\ \A i \in Items : Rest(r).claim[i] = 0
  BY RunsAtRest
<1>2. Tame([run EXCEPT ![r] = Rest(r)])
  BY <1>1, ReplacedRun
<1> QED  BY <1>2 DEF Leave

\* A batch that is over leaves no claim in memory.
LEMMA BatchesEnd ==
  ASSUME TypeOK, NEW r \in Runs, BatchOver(r)
  PROVE  Tame(run') /\ \A i \in Items : run'[r].claim[i] = 0
<1> DEFINE zero == [i \in Items |-> 0]
           new == [run[r] EXCEPT !.at = AfterBatch(r), !.claim = zero, !.left = {},
                                 !.back = "pending", !.bad = FALSE, !.aborted = FALSE]
<1>1. run \in [Runs -> RunType] /\ run[r] \in RunType
  BY DEF TypeOK
<1>2. AfterBatch(r) \in Places /\ zero \in [Items -> 0..MaxClaims]
  BY JobsAssumption DEF AfterBatch, Places
<1>3. new \in RunType /\ new.claim = zero
  <2> HIDE DEF zero
  <2> QED  BY <1>1, <1>2 DEF RunType
<1>4. \A i \in Items : new.claim[i] = 0
  BY <1>3
<1>5. run' = [run EXCEPT ![r] = new]
  <2> HIDE DEF zero
  <2> SUFFICES [run EXCEPT ![r].at = AfterBatch(r), ![r].claim = zero, ![r].left = {},
                           ![r].back = "pending", ![r].bad = FALSE, ![r].aborted = FALSE]
               = [run EXCEPT ![r] = new]
    BY DEF BatchOver, zero
  <2> QED  BY <1>1
<1> QED
  <2> HIDE DEF new
  <2>1. Tame([run EXCEPT ![r] = new])
    BY <1>3, <1>4, ReplacedRun
  <2>2. run'[r] = new
    BY <1>1, <1>5
  <2> QED  BY <1>4, <1>5, <2>1, <2>2

\* A file of a claim is dealt with.
LEMMA DealtRuns ==
  ASSUME TypeOK, NEW r \in Runs, NEW i \in Items
  PROVE  /\ Tame(Dealt(r, i)) /\ Dealt(r, i)[r].claim[i] = 0
         /\ \A b \in BOOLEAN : /\ Tame([Dealt(r, i) EXCEPT ![r].bad = b])
                               /\ [Dealt(r, i) EXCEPT ![r].bad = b][r].claim[i] = 0
<1>1. run \in [Runs -> RunType] /\ run[r] \in RunType /\ run[r].claim \in [Items -> 0..MaxClaims]
  BY DEF TypeOK, RunType
<1> DEFINE c == [run[r].claim EXCEPT ![i] = 0]
           row == [run[r] EXCEPT !.claim = c]
<1>2. c \in [Items -> 0..MaxClaims] /\ c[i] = 0 /\ \A k \in Items : c[k] \in {0, run[r].claim[k]}
  BY <1>1, JobsAssumption
<1>3. Dealt(r, i) = [run EXCEPT ![r] = row]
  BY <1>1 DEF Dealt
<1>4. row \in RunType /\ row.claim = c
  <2> HIDE DEF c
  <2> QED  BY <1>1, <1>2 DEF RunType
<1>5. Tame(Dealt(r, i)) /\ Dealt(r, i)[r].claim[i] = 0
  <2> HIDE DEF row, c
  <2>1. Tame([run EXCEPT ![r] = row])
    BY <1>2, <1>4, ReplacedRun
  <2>2. [run EXCEPT ![r] = row][r] = row
    BY <1>1
  <2> QED  BY <1>2, <1>3, <1>4, <2>1, <2>2
<1>6. ASSUME NEW b \in BOOLEAN
      PROVE  /\ Tame([Dealt(r, i) EXCEPT ![r].bad = b])
             /\ [Dealt(r, i) EXCEPT ![r].bad = b][r].claim[i] = 0
  <2> HIDE DEF row, c
  <2> DEFINE new == [row EXCEPT !.bad = b]
  <2>1. new \in RunType /\ new.claim = c
    BY <1>4 DEF RunType
  <2>2. [Dealt(r, i) EXCEPT ![r].bad = b] = [run EXCEPT ![r] = new]
    BY <1>1, <1>3
  <2>3. [run EXCEPT ![r] = new][r] = new
    BY <1>1
  <2> HIDE DEF new
  <2>4. Tame([run EXCEPT ![r] = new])
    BY <1>2, <2>1, ReplacedRun
  <2> QED  BY <1>2, <2>1, <2>2, <2>3, <2>4
<1> QED  BY <1>5, <1>6

\* A run that is told that it is aborted keeps its claim.
LEMMA AbortedRun ==
  ASSUME TypeOK, NEW s \in Runs, NEW b \in BOOLEAN
  PROVE  [run[s] EXCEPT !.aborted = b] \in RunType /\ [run[s] EXCEPT !.aborted = b].claim = run[s].claim
<1>1. run[s] \in RunType
  BY DEF TypeOK
<1> QED  BY <1>1 DEF RunType

\* The runs of a job are aborted together; their claims stay.
LEMMA AbortedRuns ==
  ASSUME TypeOK, NEW f \in [Runs -> BOOLEAN]
  PROVE  Tame([s \in Runs |-> [run[s] EXCEPT !.aborted = f[s]]])
  BY AbortedRun DEF Tame

\* A settlement whose lease is lost drops its own claim and no other.
LEMMA LostRuns ==
  ASSUME TypeOK, NEW r \in Runs, NEW i \in Items, Lose(r, i)
  PROVE  Tame(run')
<1>1. \A s \in Runs : run[s] \in RunType /\ run[s].claim \in [Items -> 0..MaxClaims]
  BY DEF TypeOK, RunType
<1>2. ASSUME NEW s \in Runs, NEW b \in BOOLEAN
      PROVE  [run[s] EXCEPT !.aborted = b] \in RunType /\ [run[s] EXCEPT !.aborted = b].claim = run[s].claim
  BY AbortedRun
<1> DEFINE c == [run[r].claim EXCEPT ![i] = 0]
           a == IF run[r].at = "work" THEN "lost" ELSE run[r].at
           new == [run[r] EXCEPT !.claim = c, !.aborted = TRUE, !.at = a]
<1>3. c \in [Items -> 0..MaxClaims] /\ \A k \in Items : c[k] \in {0, run[r].claim[k]}
  BY <1>1, JobsAssumption
<1>4. a \in Places
  BY <1>1 DEF RunType, Places
<1>5. new \in RunType /\ new.claim = c
  <2> DEFINE x == [run[r] EXCEPT !.claim = c]
             y == [x EXCEPT !.aborted = TRUE]
             z == [y EXCEPT !.at = a]
  <2> HIDE DEF c, a
  <2>1. x \in RunType /\ x.claim = c
    BY <1>1, <1>3 DEF RunType
  <2>2. new = z
    BY <1>1 DEF RunType
  <2> HIDE DEF x, new
  <2>3. y \in RunType /\ y.claim = c
    BY <2>1 DEF RunType
  <2> HIDE DEF y
  <2>4. z \in RunType /\ z.claim = c
    BY <1>4, <2>3 DEF RunType
  <2> HIDE DEF z
  <2> QED  BY <2>2, <2>4
<1>6. [run[r] EXCEPT !.claim[i] = 0, !.aborted = TRUE, !.at = IF @ = "work" THEN "lost" ELSE @] = new
  BY <1>1 DEF RunType
<1>7. run' = [s \in Runs |-> IF s = r THEN new
                             ELSE [run[s] EXCEPT !.aborted = @ \/ Abort(run[r].job, s)]]
  BY <1>6 DEF Lose
<1>8. \A s \in Runs : (run[s].aborted \/ Abort(run[r].job, s)) \in BOOLEAN
  OBVIOUS
<1> QED
  <2> HIDE DEF new, c, a
  <2>1. ASSUME NEW s \in Runs
        PROVE  run'[s] \in RunType /\ \A k \in Items : run'[s].claim[k] \in {0, run[s].claim[k]}
    <3>1. CASE s = r
      BY <3>1, <1>3, <1>5, <1>7
    <3>2. CASE s # r
      BY <3>2, <1>2, <1>7, <1>8
    <3> QED  BY <3>1, <3>2
  <2>2. run' = [s \in Runs |-> run'[s]]
    BY <1>7
  <2> QED  BY <2>1, <2>2 DEF Tame

\* Every step but a claim leaves tame runs.
LEMMA RunsStep ==
  ASSUME TypeOK, Next
  PROVE  Tame(run') \/ \E r \in Runs : Claim(r)
<1>s. run' = run => Tame(run')
  BY SameRuns
<1>1. ASSUME NEW r \in Runs, RunStep(r) \/ ErrorStep(r)
      PROVE  Tame(run') \/ Claim(r)
  <2>f. /\ \A a \in Places : Tame([run EXCEPT ![r].at = a])
        /\ \A a \in Places, b \in BOOLEAN : Tame([run EXCEPT ![r].at = a, ![r].drain = b])
        /\ \A a \in Places, h \in SUBSET Items : Tame([run EXCEPT ![r].at = a, ![r].hydrating = h])
        /\ \A h \in SUBSET Items : Tame([run EXCEPT ![r].hydrating = h])
        /\ \A a \in Places, h \in SUBSET Items : Tame([run EXCEPT ![r].at = a, ![r].left = h])
        /\ \A h \in SUBSET Items : Tame([run EXCEPT ![r].left = h])
        /\ \A a \in Places, b \in {"pending", "skipped"} : Tame([run EXCEPT ![r].at = a, ![r].back = b])
        /\ \A a \in Places, b, c \in BOOLEAN : Tame([run EXCEPT ![r].at = a, ![r].bad = b, ![r].failed = c])
        /\ \A a \in Places, b, c \in BOOLEAN : Tame([run EXCEPT ![r].at = a, ![r].open = b, ![r].failed = c])
    BY RunForms
  <2>l. Leave(r) => Tame(run')
    BY Leaving
  <2>b. BatchOver(r) => Tame(run')
    BY BatchesEnd
  <2>g. \A a \in Places : Goto(r, a) => Tame(run')
    BY <2>f DEF Goto
  <2>p. /\ {"scan", "wait", "stats", "hydrate", "claim", "look", "work", "error", "refused", "restore",
            "close", "finish"} \subseteq Places
        /\ AfterLoop(r) \in Places
    BY DEF Places, AfterLoop
  <2>t. run[r] \in RunType /\ run[r].left \subseteq Items /\ run[r].hydrating \subseteq Items
        /\ run[r].failed \in BOOLEAN
    BY DEF TypeOK, RunType
  <2>d. Tame([run EXCEPT ![r].at = "wait", ![r].drain = TRUE])
    BY <2>f, <2>p
  <2>1. CASE Start(r) \/ ScanEnds(r)
    <3>1. CASE Start(r)
      BY <3>1, <1>s, <2>l, <2>g, <2>p DEF Start
    <3>2. CASE ScanEnds(r)
      BY <3>2, <2>l, <2>p, <2>d DEF ScanEnds
    <3> QED  BY <2>1, <3>1, <3>2
  <2>2. CASE Scan(r)
    BY <2>2, <2>f, <2>p DEF Scan
  <2>3. CASE Wait(r)
    <3>1. {i \in ItemsIn(run[r].job, {"pending"}) : ~item[i].meta} \in SUBSET Items
      BY DEF ItemsIn, ItemsOf
    <3>2. (IF Control(run[r].job) = "cancelled" THEN AfterLoop(r) ELSE "hydrate") \in Places
      BY <2>p
    <3> QED  BY <2>3, <2>f, <3>1, <3>2 DEF Wait
  <2>4. CASE WaitCools(r) \/ ScanFlood(r)
    BY <2>4, <1>s DEF WaitCools, ScanFlood
  <2>5. CASE Hydrate(r)
    <3>1. PICK i \in run[r].hydrating : run' = [run EXCEPT ![r].hydrating = run[r].hydrating \ {i}]
      BY <2>5 DEF Hydrate, TypeOK
    <3>2. run[r].hydrating \ {i} \in SUBSET Items
      BY <2>t
    <3> QED  BY <2>f, <3>1, <3>2
  <2>6. CASE Hydrated(r)
    BY <2>6, <2>g, <2>p DEF Hydrated
  <2>7. CASE Gate(r)
    <3>1. Claimed(r) \in SUBSET Items
      BY DEF Claimed
    <3>2. \/ Goto(r, "work")
          \/ run' = [run EXCEPT ![r].at = "refused", ![r].left = Claimed(r)]
      BY <2>7 DEF Gate
    <3>3. CASE Goto(r, "work")
      BY <2>g, <2>p, <3>3
    <3>4. CASE run' = [run EXCEPT ![r].at = "refused", ![r].left = Claimed(r)]
      BY <2>f, <2>p, <3>1, <3>4
    <3> QED  BY <3>2, <3>3, <3>4
  <2>8. CASE Judge(r)
    <3>1. (IF Control(run[r].job) = "cancelled" THEN "skipped" ELSE "pending") \in {"pending", "skipped"}
      OBVIOUS
    <3> QED  BY <2>8, <2>b, <2>f, <2>p, <3>1 DEF Judge
  <2>9. CASE Restore(r)
    BY <2>9, <2>b DEF Restore
  <2>10. CASE Heartbeat(r)
    <3> DEFINE held == {i \in Claimed(r) : Holds(r, i)}
               lost == {i \in Claimed(r) \ held : item[i].st \notin Terminal}
               f == [s \in Runs |-> run[s].aborted \/ (lost # {} /\ Abort(run[r].job, s))]
    <3>1. \A s \in Runs : run[s].aborted \in BOOLEAN
      BY DEF TypeOK, RunType
    <3>2. f \in [Runs -> BOOLEAN]
      BY <3>1
    <3>3. run' = [s \in Runs |-> [run[s] EXCEPT !.aborted = f[s]]]
      BY <2>10 DEF Heartbeat
    <3> QED
      <4> HIDE DEF f
      <4> QED  BY <3>2, <3>3, AbortedRuns
  <2>11. CASE BatchEnds(r)
    <3>1. (run[r].failed \/ (run[r].bad /\ run[r].mode = "recover")) \in BOOLEAN
      OBVIOUS
    <3> QED  BY <2>11, <2>f, <2>p, <3>1 DEF BatchEnds
  <2>12. CASE Thrown(r) \/ Finish(r)
    BY <2>12, <2>l DEF Thrown, Finish
  <2>13. CASE ReadStats(r)
    <3>1. /\ (ItemsIn(run[r].job, Open) # {}) \in BOOLEAN
          /\ (IF run[r].mode = "recover" THEN run[r].failed
              ELSE ItemsIn(run[r].job, {"failed"}) # {}) \in BOOLEAN
      BY <2>t
    <3> QED  BY <2>13, <2>l, <2>f, <2>p, <3>1 DEF ReadStats
  <2>14. ASSUME NEW i \in Items, Work(r, i)
         PROVE  Tame(run')
    <3>1. CASE Commit(r, i)
      BY <3>1, DealtRuns DEF Commit
    <3>2. ASSUME NEW st \in {"failed", "skipped"}, SettleAs(r, i, st)
          PROVE  Tame(run')
      <4>1. PICK b \in BOOLEAN : run' = [Dealt(r, i) EXCEPT ![r].bad = b]
        <5>1. run' = [Dealt(r, i) EXCEPT ![r].bad = Dealt(r, i)[r].bad \/ st = "failed"]
          BY <3>2 DEF SettleAs
        <5> QED  BY <5>1
      <4> QED  BY <4>1, DealtRuns
    <3>3. CASE Fail(r, i) \/ Skip(r, i)
      BY <3>2, <3>3 DEF Fail, Skip
    <3>4. CASE LeaveItem(r, i)
      <4>1. run[r].left \cup {i} \in SUBSET Items
        BY <2>t
      <4> QED  BY <3>4, <2>f, <4>1 DEF LeaveItem
    <3>5. CASE Lose(r, i)
      BY <3>5, LostRuns
    <3> QED  BY <2>14, <3>1, <3>3, <3>4, <3>5 DEF Work
  <2>15. CASE Flood(r) \/ QuotaError(r) \/ AccountError(r)
    BY <2>15, <2>f, <2>p DEF Flood, QuotaError, AccountError
  <2>16. CASE BatchError(r)
    BY <2>16, <2>g, <2>p DEF BatchError
  <2> QED
    BY <1>1, <2>1, <2>2, <2>3, <2>4, <2>5, <2>6, <2>7, <2>8, <2>9, <2>10, <2>11, <2>12, <2>13,
       <2>14, <2>15, <2>16 DEF RunStep, ErrorStep
<1>2. CASE RecoveryStep
  <2> DEFINE r == Recovery
  <2>r. r \in Runs
    BY DEF Runs
  <2>g. \A a \in Places : Goto(r, a) => Tame(run')
    BY <2>r, RunForms DEF Goto
  <2>p. {"uncool", "expired", "list", "next", "wait", "rehydrate", "look", "start"} \subseteq Places
    BY DEF Places
  <2>1. CASE Repair \/ Uncool \/ ResetExpired \/ ListJobs
    BY <2>1, <2>g, <2>p DEF Repair, Uncool, ResetExpired, ListJobs
  <2>2. CASE TakeJob
    <3>1. /\ Idle("recover") \in RunType /\ \A i \in Items : Idle("recover").claim[i] = 0
          /\ Idle("segmented") \in RunType /\ \A i \in Items : Idle("segmented").claim[i] = 0
      BY RunsAtRest DEF Idle
    <3>2. ASSUME NEW row \in RunType, \A i \in Items : row.claim[i] = 0
          PROVE  Tame([run EXCEPT ![r] = row])
      BY <3>2, <2>r, ReplacedRun
    <3>3. ASSUME NEW row \in RunType, \A i \in Items : row.claim[i] = 0, NEW j \in Jobs
          PROVE  /\ [row EXCEPT !.at = "look", !.job = j, !.drain = TRUE] \in RunType
                 /\ [row EXCEPT !.at = "start", !.job = j] \in RunType
                 /\ \A i \in Items : [row EXCEPT !.at = "look", !.job = j, !.drain = TRUE].claim[i] = 0
                 /\ \A i \in Items : [row EXCEPT !.at = "start", !.job = j].claim[i] = 0
      BY <3>3, <2>p DEF RunType
    <3>4. CASE todo = {}
      BY <3>4, <3>1, <3>2, <2>2 DEF TakeJob
    <3>5. ASSUME NEW j \in todo,
                 run' = [run EXCEPT ![r] =
                           IF job[j].scanned
                           THEN [Idle("recover") EXCEPT !.at = "look", !.job = j, !.drain = TRUE]
                           ELSE [Idle("segmented") EXCEPT !.at = "start", !.job = j]]
          PROVE  Tame(run')
      <4>1. j \in Jobs
        BY DEF TypeOK
      <4> QED  BY <3>1, <3>2, <3>3, <3>5, <4>1
    <3> QED  BY <2>2, <3>4, <3>5 DEF TakeJob
  <2>3. CASE Look
    <3>1. Leave(r) => Tame(run')
      BY <2>r, Leaving
    <3>2. {i \in ItemsIn(run[r].job, {"pending"}) : ~item[i].meta} \in SUBSET Items
      BY DEF ItemsIn, ItemsOf
    <3>3. \A a \in Places, h \in SUBSET Items : Tame([run EXCEPT ![r].at = a, ![r].hydrating = h])
      BY <2>r, RunForms
    <3> DEFINE bare == {i \in ItemsIn(run[r].job, {"pending"}) : ~item[i].meta}
    <3>4. \/ Leave(r) \/ Goto(r, "wait")
          \/ run' = [run EXCEPT ![r].at = "rehydrate", ![r].hydrating = bare]
      BY <2>3 DEF Look
    <3> HIDE DEF bare
    <3>5. bare \in SUBSET Items
      BY <3>2 DEF bare
    <3> QED  BY <2>g, <2>p, <3>1, <3>3, <3>4, <3>5
  <2> QED  BY <1>2, <2>1, <2>2, <2>3 DEF RecoveryStep
<1>3. ASSUME NEW j \in Jobs, UserStep(j) \/ CooldownEnds(j)
      PROVE  Tame(run')
  <2>1. CASE SkipPending(j)
    <3> DEFINE f == [s \in Runs |-> run[s].aborted \/ Abort(j, s)]
    <3>1. f \in [Runs -> BOOLEAN]
      BY DEF TypeOK, RunType
    <3>2. run' = [s \in Runs |-> [run[s] EXCEPT !.aborted = f[s]]]
      BY <2>1 DEF SkipPending
    <3> QED
      <4> HIDE DEF f
      <4> QED  BY <3>1, <3>2, AbortedRuns
  <2> QED  BY <1>3, <1>s, <2>1 DEF UserStep, Pause, Resume, Cancel, Retry, CooldownEnds, Quiet
<1>4. CASE QuotaEnds \/ \E i \in Items : LeaseExpires(i)
  BY <1>4, <1>s DEF QuotaEnds, LeaseExpires
<1>5. CASE Crash
  <2>1. \A m \in {"segmented", "recover"} : Idle(m) \in RunType /\ \A i \in Items : Idle(m).claim[i] = 0
    BY RunsAtRest DEF Idle
  <2> QED  BY <1>5, <2>1 DEF Crash, Tame
<1> QED  BY <1>1, <1>2, <1>3, <1>4, <1>5 DEF Next
-----------------------------------------------------------------------------
(* Rows of items                                                            *)

\* The rows that may be while n tokens have been given.
ItemRows(n) == {it \in ItemType : it.token <= n /\ (it.st = "downloading" => it.token # 0)}

\* An item that is put back is pending.
LEMMA PendingRow ==
  ASSUME NEW n \in 0..MaxClaims, NEW it \in ItemRows(n)
  PROVE  /\ BackToPending(it) \in ItemRows(n) /\ BackToPending(it).st = "pending"
         /\ [BackToPending(it) EXCEPT !.attempts = 0] \in ItemRows(n)
<1>1. it \in ItemType /\ it.token <= n
  BY DEF ItemRows
<1>2. BackToPending(it) \in ItemRows(n) /\ BackToPending(it).st = "pending"
  BY <1>1, StatusNames DEF BackToPending, ItemRows, ItemType
<1>3. ASSUME NEW row \in ItemRows(n)
      PROVE  [row EXCEPT !.attempts = 0] \in ItemRows(n)
  BY DEF ItemRows, ItemType
<1> QED  BY <1>2, <1>3

\* An item that is given back or settled has no token.
LEMMA ReturnedRow ==
  ASSUME NEW n \in 0..MaxClaims, NEW it \in ItemRows(n),
         NEW st \in {"success", "failed", "skipped", "pending"}
  PROVE  /\ Returned(it, st) \in ItemRows(n)
         /\ \A k \in Nat, q \in BOOLEAN :
              [Returned(it, st) EXCEPT !.attempts = k, !.quotaError = q] \in ItemRows(n)
<1>1. it \in ItemType /\ 0 <= n /\ 0 \in 0..MaxClaims
  BY JobsAssumption DEF ItemRows
<1>2. Returned(it, st) \in ItemRows(n)
  BY <1>1, StatusNames DEF Returned, ItemRows, ItemType
<1>3. ASSUME NEW row \in ItemRows(n), NEW k \in Nat, NEW q \in BOOLEAN
      PROVE  [row EXCEPT !.attempts = k, !.quotaError = q] \in ItemRows(n)
  BY DEF ItemRows, ItemType
<1> QED  BY <1>2, <1>3

\* The other updates of an item.
LEMMA OtherRows ==
  ASSUME NEW n \in 0..MaxClaims, NEW it \in ItemRows(n)
  PROVE  /\ [it EXCEPT !.meta = TRUE] \in ItemRows(n)
         /\ \A k \in Nat : [it EXCEPT !.st = "failed", !.attempts = k, !.quotaError = FALSE] \in ItemRows(n)
         /\ [it EXCEPT !.st = "skipped"] \in ItemRows(n)
         /\ \A b \in BOOLEAN : [it EXCEPT !.leased = b] \in ItemRows(n) /\ [it EXCEPT !.leased = b].st = it.st
<1>1. it \in ItemType /\ it.token <= n /\ (it.st = "downloading" => it.token # 0)
  BY DEF ItemRows
<1>2. [it EXCEPT !.meta = TRUE] \in ItemRows(n)
  BY <1>1 DEF ItemRows, ItemType
<1>3. \A k \in Nat : [it EXCEPT !.st = "failed", !.attempts = k, !.quotaError = FALSE] \in ItemRows(n)
  BY <1>1, StatusNames DEF ItemRows, ItemType
<1>4. [it EXCEPT !.st = "skipped"] \in ItemRows(n)
  BY <1>1, StatusNames DEF ItemRows, ItemType
<1>5. \A b \in BOOLEAN : [it EXCEPT !.leased = b] \in ItemRows(n) /\ [it EXCEPT !.leased = b].st = it.st
  BY <1>1 DEF ItemRows, ItemType
<1> QED  BY <1>2, <1>3, <1>4, <1>5

\* A claim writes the next token.
LEMMA ClaimedRow ==
  ASSUME NEW n \in 0..MaxClaims, n < MaxClaims, NEW it \in ItemRows(n)
  PROVE  /\ it \in ItemRows(n + 1)
         /\ [it EXCEPT !.st = "downloading", !.token = n + 1, !.leased = TRUE] \in ItemRows(n + 1)
<1>1. it \in ItemType /\ it.token <= n /\ (it.st = "downloading" => it.token # 0) /\ it.token \in 0..MaxClaims
  BY DEF ItemRows, ItemType
<1>2. n + 1 \in 0..MaxClaims /\ n + 1 # 0
  BY JobsAssumption
<1>3. it.token <= n + 1
  BY <1>1
<1>4. it \in ItemRows(n + 1)
  BY <1>1, <1>3 DEF ItemRows
<1>5. [it EXCEPT !.st = "downloading", !.token = n + 1, !.leased = TRUE] \in ItemRows(n + 1)
  <2>1. \A t \in 0..MaxClaims :
           LET new == [it EXCEPT !.st = "downloading", !.token = t, !.leased = TRUE]
           IN  new \in ItemType /\ new.token = t
    BY <1>1, StatusNames DEF ItemType
  <2>2. n + 1 <= n + 1
    OBVIOUS
  <2> QED  BY <1>2, <2>1, <2>2 DEF ItemRows
<1> QED  BY <1>4, <1>5

\* What the invariant says of the rows of items.
LEMMA ItemsOfJobs ==
  ASSUME JobsInv
  PROVE  item \in [Items -> ItemRows(fresh)] /\ fresh \in 0..MaxClaims
  BY DEF JobsInv, TypeOK, LeasesAreUnique, ItemRows

\* Rows of items that nobody settles and that keep what was downloaded.
Harmless(new) ==
    /\ new \in [Items -> ItemRows(fresh)]
    /\ \A i \in Items : /\ item[i].st = "success" => new[i].st = "success"
                        /\ item[i].st = "downloading" => new[i].st \notin Terminal

\* The updates of items that are no settlement: cooldown, scan, recovery, heartbeat,
\* expiry of a lease, cancellation and retry.
LEMMA HarmlessForms ==
  ASSUME JobsInv
  PROVE  /\ Harmless(item)
         /\ \A j \in Jobs : Harmless(CooledItems(j))
         /\ \A S \in SUBSET Items : (\A i \in S : item[i].st # "success")
              => Harmless([i \in Items |-> IF i \in S THEN BackToPending(item[i]) ELSE item[i]])
         /\ \A S \in SUBSET Items, b \in BOOLEAN :
              Harmless([i \in Items |-> IF i \in S THEN [item[i] EXCEPT !.leased = b] ELSE item[i]])
         /\ \A S \in SUBSET Items : (\A i \in S : item[i].st = "pending")
              => Harmless([i \in Items |-> IF i \in S THEN [item[i] EXCEPT !.st = "skipped"] ELSE item[i]])
         /\ \A S \in SUBSET Items : (\A i \in S : item[i].st = "failed")
              => Harmless([i \in Items |-> IF i \in S THEN [BackToPending(item[i]) EXCEPT !.attempts = 0]
                                           ELSE item[i]])
<1>1. /\ item \in [Items -> ItemRows(fresh)] /\ fresh \in 0..MaxClaims
      /\ {"pending", "downloading"} \cap Terminal = {}
  BY ItemsOfJobs DEF Terminal
<1>2. Harmless(item)
  BY <1>1 DEF Harmless
<1>3. ASSUME NEW S \in SUBSET Items, \A i \in S : item[i].st # "success"
      PROVE  Harmless([i \in Items |-> IF i \in S THEN BackToPending(item[i]) ELSE item[i]])
  <2>1. ASSUME NEW i \in Items
        PROVE  BackToPending(item[i]) \in ItemRows(fresh) /\ BackToPending(item[i]).st = "pending"
    <3>1. item[i] \in ItemRows(fresh)
      BY <1>1
    <3> QED  BY <1>1, <3>1, PendingRow
  <2> QED  BY <1>1, <1>3, <2>1 DEF Harmless
<1>4. ASSUME NEW j \in Jobs
      PROVE  Harmless(CooledItems(j))
  <2> DEFINE S == {i \in Items : /\ JobOf[i] = j
                                 /\ item[i].st = "downloading" \/ (item[i].st = "failed" /\ item[i].quotaError)}
  <2>1. CooledItems(j) = [i \in Items |-> IF i \in S THEN BackToPending(item[i]) ELSE item[i]]
    BY DEF CooledItems
  <2>2. S \in SUBSET Items /\ \A i \in S : item[i].st # "success"
    OBVIOUS
  <2> HIDE DEF S
  <2> QED  BY <2>1, <2>2, <1>3
<1>5. ASSUME NEW S \in SUBSET Items, NEW b \in BOOLEAN
      PROVE  Harmless([i \in Items |-> IF i \in S THEN [item[i] EXCEPT !.leased = b] ELSE item[i]])
  <2>1. ASSUME NEW i \in Items
        PROVE  /\ [item[i] EXCEPT !.leased = b] \in ItemRows(fresh)
               /\ [item[i] EXCEPT !.leased = b].st = item[i].st
    <3>1. item[i] \in ItemRows(fresh)
      BY <1>1
    <3> QED  BY <1>1, <3>1, OtherRows
  <2> QED  BY <1>1, <2>1 DEF Harmless
<1>6. ASSUME NEW S \in SUBSET Items, \A i \in S : item[i].st = "pending"
      PROVE  Harmless([i \in Items |-> IF i \in S THEN [item[i] EXCEPT !.st = "skipped"] ELSE item[i]])
  <2>1. \A i \in Items : [item[i] EXCEPT !.st = "skipped"] \in ItemRows(fresh)
    BY <1>1, OtherRows
  <2> QED  BY <1>1, <1>6, <2>1 DEF Harmless
<1>7. ASSUME NEW S \in SUBSET Items, \A i \in S : item[i].st = "failed"
      PROVE  Harmless([i \in Items |-> IF i \in S THEN [BackToPending(item[i]) EXCEPT !.attempts = 0]
                                       ELSE item[i]])
  <2>1. \A i \in Items : [BackToPending(item[i]) EXCEPT !.attempts = 0] \in ItemRows(fresh)
    BY <1>1, PendingRow
  <2> QED  BY <1>1, <1>7, <2>1 DEF Harmless
<1> QED  BY <1>2, <1>3, <1>4, <1>5, <1>6, <1>7

\* What a step may do with an item: the bodies of the two action properties.
Settles(i) ==
    item[i].st = "downloading" /\ item'[i].st \in Terminal
      => \/ \E r \in Runs : run[r].claim[i] = item[i].token /\ run'[r].claim[i] = 0
         \/ Completing(i)
Keeps(i) == item[i].st = "success" => item'[i].st = "success" \/ Completing(i)

\* Harmless rows respect both action properties.
LEMMA HarmlessIsLawful ==
  ASSUME Harmless(item')
  PROVE  item' \in [Items -> ItemRows(fresh)] /\ \A i \in Items : Settles(i) /\ Keeps(i)
  BY DEF Harmless, Settles, Keeps

\* One item is settled by the run that holds its lease.
LEMMA SettledByHolder ==
  ASSUME JobsInv, NEW r \in Runs, NEW i \in Items, Holds(r, i), run'[r].claim[i] = 0,
         NEW new \in ItemRows(fresh), item' = [item EXCEPT ![i] = new]
  PROVE  item' \in [Items -> ItemRows(fresh)] /\ \A k \in Items : Settles(k) /\ Keeps(k)
<1>1. item \in [Items -> ItemRows(fresh)]
  BY ItemsOfJobs
<1>2. Settles(i) /\ Keeps(i)
  BY DEF Settles, Keeps, Holds
<1>3. \A k \in Items \ {i} : Settles(k) /\ Keeps(k)
  BY <1>1 DEF Settles, Keeps, Terminal
<1> QED  BY <1>1, <1>2, <1>3

\* The settlements of a batch: each needs the lease, and gives it up.
LEMMA WorkOnItems ==
  ASSUME JobsInv, NEW r \in Runs, NEW i \in Items, Work(r, i)
  PROVE  item' \in [Items -> ItemRows(fresh)] /\ \A k \in Items : Settles(k) /\ Keeps(k)
<1>t. TypeOK /\ item \in [Items -> ItemRows(fresh)] /\ item[i] \in ItemRows(fresh) /\ fresh \in 0..MaxClaims
  BY ItemsOfJobs DEF JobsInv
<1>0. run[r].job \in Jobs
  BY RunsHaveJobs
<1>1. CASE Commit(r, i)
  <2>1. Holds(r, i) /\ run' = Dealt(r, i) /\ item' = [item EXCEPT ![i] = Returned(item[i], "success")]
    BY <1>1 DEF Commit
  <2>2. Returned(item[i], "success") \in ItemRows(fresh)
    BY <1>t, ReturnedRow
  <2>3. run'[r].claim[i] = 0
    BY <1>t, <2>1, DealtRuns
  <2> QED  BY <2>1, <2>2, <2>3, SettledByHolder
<1>2. ASSUME NEW st \in {"failed", "skipped"}, SettleAs(r, i, st)
      PROVE  item' \in [Items -> ItemRows(fresh)] /\ \A k \in Items : Settles(k) /\ Keeps(k)
  <2>1. PICK q \in {FALSE, st = "failed"} :
          item' = [item EXCEPT ![i] = [Returned(item[i], st) EXCEPT
                     !.attempts = item[i].attempts + (IF st = "failed" THEN 1 ELSE 0), !.quotaError = q]]
    BY <1>2 DEF SettleAs
  <2>2. q \in BOOLEAN /\ item[i].attempts + (IF st = "failed" THEN 1 ELSE 0) \in Nat
    <3>1. item[i].attempts \in Nat
      BY <1>t DEF ItemRows, ItemType
    <3>2. item[i].attempts + (IF st = "failed" THEN 1 ELSE 0) \in Nat
      BY <3>1
    <3>3. q \in BOOLEAN
      OBVIOUS
    <3> QED  BY <3>2, <3>3
  <2>3. [Returned(item[i], st) EXCEPT
           !.attempts = item[i].attempts + (IF st = "failed" THEN 1 ELSE 0), !.quotaError = q] \in ItemRows(fresh)
    BY <1>t, <2>2, ReturnedRow
  <2>4. PICK b \in BOOLEAN : run' = [Dealt(r, i) EXCEPT ![r].bad = b]
    <3>1. run' = [Dealt(r, i) EXCEPT ![r].bad = Dealt(r, i)[r].bad \/ st = "failed"]
      BY <1>2 DEF SettleAs
    <3> QED  BY <3>1
  <2>5. run'[r].claim[i] = 0
    BY <1>t, <2>4, DealtRuns
  <2>6. Holds(r, i)
    BY <1>2 DEF SettleAs
  <2> QED  BY <2>1, <2>3, <2>5, <2>6, SettledByHolder
<1>3. CASE Fail(r, i) \/ Skip(r, i)
  BY <1>2, <1>3 DEF Fail, Skip
<1>4. CASE LeaveItem(r, i)
  <2>1. item' = item \/ item' = CooledItems(run[r].job)
    BY <1>4 DEF LeaveItem, Checked, PutCooldown
  <2> QED  BY <1>0, <2>1, HarmlessForms, HarmlessIsLawful
<1>5. CASE Lose(r, i)
  BY <1>5, HarmlessForms, HarmlessIsLawful DEF Lose
<1> QED  BY <1>1, <1>3, <1>4, <1>5 DEF Work

\* The metadata of a row is completed, or cannot be.
LEMMA HydrateItems ==
  ASSUME JobsInv, NEW r \in Runs, Hydrate(r)
  PROVE  item' \in [Items -> ItemRows(fresh)] /\ \A k \in Items : Settles(k) /\ Keeps(k)
<1>t. TypeOK /\ item \in [Items -> ItemRows(fresh)] /\ fresh \in 0..MaxClaims
  BY ItemsOfJobs DEF JobsInv
<1>1. PICK i \in run[r].hydrating :
        \/ item' = [item EXCEPT ![i].meta = TRUE]
        \/ item' = [item EXCEPT ![i].st = "failed", ![i].attempts = item[i].attempts + 1, ![i].quotaError = FALSE]
        \/ item' = [item EXCEPT ![i].st = "skipped"]
        \/ item' = item
  BY <1>t DEF Hydrate
<1>2. i \in Items /\ item[i] \in ItemRows(fresh)
  BY <1>t DEF TypeOK, RunType
<1>3. item[i].attempts + 1 \in Nat
  BY <1>2 DEF ItemRows, ItemType
<1> DEFINE failed == [item[i] EXCEPT !.st = "failed", !.attempts = item[i].attempts + 1, !.quotaError = FALSE]
<1>4. /\ [item[i] EXCEPT !.meta = TRUE] \in ItemRows(fresh)
      /\ failed \in ItemRows(fresh)
      /\ [item[i] EXCEPT !.st = "skipped"] \in ItemRows(fresh)
  BY <1>t, <1>2, <1>3, OtherRows
<1>5. \/ item' = [item EXCEPT ![i] = [item[i] EXCEPT !.meta = TRUE]]
      \/ item' = [item EXCEPT ![i] = failed]
      \/ item' = [item EXCEPT ![i] = [item[i] EXCEPT !.st = "skipped"]]
      \/ item' = item
  BY <1>t, <1>1, <1>2
<1>6. PICK new \in ItemRows(fresh) : item' = [item EXCEPT ![i] = new]
  <2> HIDE DEF failed
  <2>1. item = [item EXCEPT ![i] = item[i]]
    BY <1>t
  <2> QED  BY <1>2, <1>4, <1>5, <2>1
<1>7. Completing(i)
  BY DEF Completing
<1>8. \A k \in Items \ {i} : Settles(k) /\ Keeps(k)
  BY <1>t, <1>6 DEF Settles, Keeps, Terminal
<1> QED  BY <1>t, <1>2, <1>6, <1>7, <1>8 DEF Settles, Keeps

\* A claim is given back: what its token still owns.
LEMMA RestoreItems ==
  ASSUME JobsInv, NEW r \in Runs, Restore(r)
  PROVE  item' \in [Items -> ItemRows(fresh)] /\ \A k \in Items : Settles(k) /\ Keeps(k)
<1>t. TypeOK /\ item \in [Items -> ItemRows(fresh)] /\ fresh \in 0..MaxClaims
  BY ItemsOfJobs DEF JobsInv
<1>1. run[r].back \in {"success", "failed", "skipped", "pending"}
  BY <1>t DEF TypeOK, RunType
<1>2. \A i \in Items : run'[r].claim[i] = 0
  BY <1>t, BatchesEnd DEF Restore
<1>3. \A i \in Items : Returned(item[i], run[r].back) \in ItemRows(fresh)
  BY <1>t, <1>1, ReturnedRow
<1>4. \A i \in Items : item'[i] = item[i] \/ (Holds(r, i) /\ item'[i] = Returned(item[i], run[r].back))
  BY DEF Restore
<1>5. item' \in [Items -> ItemRows(fresh)]
  BY <1>t, <1>3 DEF Restore
<1>6. \A i \in Items : Settles(i) /\ Keeps(i)
  BY <1>2, <1>4 DEF Settles, Keeps, Holds, Terminal
<1> QED  BY <1>5, <1>6

\* A claim takes items that are pending.
LEMMA ClaimItems ==
  ASSUME JobsInv, NEW r \in Runs, Claim(r)
  PROVE  /\ item' \in [Items -> ItemRows(fresh')] /\ fresh' \in 0..MaxClaims
         /\ \A k \in Items : Settles(k) /\ Keeps(k)
<1>t. item \in [Items -> ItemRows(fresh)] /\ fresh \in 0..MaxClaims /\ "downloading" \notin Terminal
  BY ItemsOfJobs DEF Terminal
<1>1. CASE item' = item /\ fresh' = fresh
  BY <1>t, <1>1 DEF Settles, Keeps
<1>2. ASSUME fresh < MaxClaims, fresh' = fresh + 1,
             NEW S \in SUBSET Claimable(run[r].job),
             item' = [i \in Items |->
                        IF i \in S THEN [item[i] EXCEPT !.st = "downloading",
                                                        !.token = fresh + 1, !.leased = TRUE]
                        ELSE item[i]]
      PROVE  /\ item' \in [Items -> ItemRows(fresh')] /\ fresh' \in 0..MaxClaims
             /\ \A k \in Items : Settles(k) /\ Keeps(k)
  <2>1. fresh' \in 0..MaxClaims
    <3>1. MaxClaims \in Nat /\ fresh \in Nat
      BY <1>t, JobsAssumption
    <3>2. fresh < MaxClaims /\ fresh' = fresh + 1
      BY <1>2
    <3> QED  BY <3>1, <3>2
  <2>2. \A i \in Items : /\ item[i] \in ItemRows(fresh + 1)
                         /\ [item[i] EXCEPT !.st = "downloading", !.token = fresh + 1, !.leased = TRUE]
                              \in ItemRows(fresh + 1)
    BY <1>t, <1>2, ClaimedRow
  <2>3. \A i \in S : item[i].st = "pending"
    BY DEF Claimable, ItemsIn
  <2>4. \A i \in Items : item'[i].st = "downloading" \/ i \notin S
    BY <1>t, <1>2 DEF ItemRows, ItemType
  <2>5. \A i \in Items \ S : item'[i] = item[i]
    BY <1>2
  <2>6. \A i \in Items : Settles(i) /\ Keeps(i)
    BY <1>t, <2>3, <2>4, <2>5 DEF Settles, Keeps
  <2> QED  BY <1>2, <2>1, <2>2, <2>6
<1> QED  BY <1>1, <1>2 DEF Claim

\* Every step leaves sound rows of items, and does with each what it may.
LEMMA ItemsStep ==
  ASSUME JobsInv, Next
  PROVE  /\ item' \in [Items -> ItemRows(fresh')] /\ fresh' \in 0..MaxClaims
         /\ \A k \in Items : Settles(k) /\ Keeps(k)
         /\ fresh' = fresh \/ \E r \in Runs : Claim(r)
<1> DEFINE Goal == /\ item' \in [Items -> ItemRows(fresh')] /\ fresh' \in 0..MaxClaims
                   /\ \A k \in Items : Settles(k) /\ Keeps(k)
<1>t. TypeOK /\ item \in [Items -> ItemRows(fresh)] /\ fresh \in 0..MaxClaims
  BY ItemsOfJobs DEF JobsInv
<1>h. Harmless(item') /\ fresh' = fresh => Goal
  BY <1>t, HarmlessIsLawful
<1>u. item' = item => Harmless(item')
  BY HarmlessForms
<1>c. \A j \in Jobs : Checked(j) \/ PutCooldown(j) => Harmless(item')
  BY <1>u, HarmlessForms DEF Checked, PutCooldown
<1>p. \A S \in SUBSET Items :
        /\ \A i \in S : item[i].st # "success"
        /\ item' = [i \in Items |-> IF i \in S THEN BackToPending(item[i]) ELSE item[i]]
        => Harmless(item')
  BY HarmlessForms
<1>l. \A S \in SUBSET Items, b \in BOOLEAN :
        item' = [i \in Items |-> IF i \in S THEN [item[i] EXCEPT !.leased = b] ELSE item[i]] => Harmless(item')
  BY HarmlessForms
<1>1. ASSUME NEW r \in Runs, RunStep(r) \/ ErrorStep(r)
      PROVE  Goal /\ (fresh' = fresh \/ Claim(r))
  <2>j. run[r].job \in Jobs
    BY RunsHaveJobs
  <2>1. CASE ScanEnds(r) \/ Wait(r) \/ Hydrated(r) \/ BatchEnds(r) \/ Thrown(r) \/ ReadStats(r) \/ Finish(r)
             \/ ScanFlood(r) \/ Flood(r) \/ AccountError(r) \/ BatchError(r)
    <3>1. item' = item /\ fresh' = fresh
      BY <2>1 DEF ScanEnds, Wait, Hydrated, BatchEnds, Thrown, ReadStats, Finish, ScanFlood, Flood,
         AccountError, BatchError, Quiet
    <3> QED  BY <3>1, <1>h, <1>u
  <2>2. CASE Start(r) \/ WaitCools(r) \/ Gate(r) \/ Judge(r) \/ QuotaError(r)
    <3>1. fresh' = fresh /\ (item' = item \/ Checked(run[r].job) \/ PutCooldown(run[r].job))
      BY <2>2 DEF Start, WaitCools, Gate, Judge, QuotaError, Quiet
    <3> QED  BY <3>1, <2>j, <1>h, <1>u, <1>c
  <2>3. CASE Scan(r)
    <3>1. fresh' = fresh
      BY <2>3 DEF Scan, Quiet
    <3>2. PICK S \in SUBSET ItemsIn(run[r].job, {"absent"}) :
            item' = [i \in Items |-> IF i \in S THEN BackToPending(item[i]) ELSE item[i]]
      BY <2>3 DEF Scan
    <3>3. S \in SUBSET Items /\ \A i \in S : item[i].st # "success"
      BY DEF ItemsIn, ItemsOf
    <3> QED  BY <3>1, <3>2, <3>3, <1>h, <1>p
  <2>4. CASE Hydrate(r)
    BY <2>4, <1>t, HydrateItems DEF Hydrate, Quiet
  <2>5. CASE Claim(r)
    BY <2>5, ClaimItems
  <2>6. CASE Restore(r)
    BY <2>6, <1>t, RestoreItems DEF Restore, Quiet
  <2>7. CASE Heartbeat(r)
    <3> DEFINE held == {i \in Claimed(r) : Holds(r, i)}
    <3>1. /\ fresh' = fresh
          /\ item' = [i \in Items |-> IF i \in held THEN [item[i] EXCEPT !.leased = TRUE] ELSE item[i]]
      BY <2>7 DEF Heartbeat, Quiet
    <3>2. held \in SUBSET Items
      BY DEF Claimed
    <3> HIDE DEF held
    <3> QED  BY <3>1, <3>2, <1>h, <1>l
  <2>8. ASSUME NEW i \in Items, Work(r, i)
        PROVE  Goal /\ fresh' = fresh
    <3>1. fresh' = fresh
      BY <2>8 DEF Work, Commit, Fail, Skip, LeaveItem, Lose, Quiet
    <3> QED  BY <2>8, <3>1, <1>t, WorkOnItems
  <2> QED
    BY <1>1, <2>1, <2>2, <2>3, <2>4, <2>5, <2>6, <2>7, <2>8, <1>t DEF RunStep, ErrorStep, Hydrate, Restore, Quiet
<1>2. CASE RecoveryStep
  <2>1. CASE Uncool \/ ListJobs \/ TakeJob \/ Look
    <3>1. item' = item /\ fresh' = fresh
      BY <2>1 DEF Uncool, ListJobs, TakeJob, Look, Quiet
    <3> QED  BY <3>1, <1>h, <1>u
  <2>2. CASE Repair
    <3>1. fresh' = fresh
      BY <2>2 DEF Repair, Quiet
    <3>2. PICK old \in SUBSET {i \in Items : item[i].st = "downloading" /\ ~item[i].leased} :
            item' = [i \in Items |-> IF i \in old /\ Unfinished(JobOf[i]) THEN BackToPending(item[i])
                                     ELSE item[i]]
      BY <2>2 DEF Repair
    <3> DEFINE S == {i \in old : Unfinished(JobOf[i])}
    <3>3. S \in SUBSET Items /\ \A i \in S : item[i].st # "success"
      OBVIOUS
    <3>4. item' = [i \in Items |-> IF i \in S THEN BackToPending(item[i]) ELSE item[i]]
      BY <3>2
    <3> HIDE DEF S
    <3> QED  BY <3>1, <3>3, <3>4, <1>h, <1>p
  <2>3. CASE ResetExpired
    <3>1. fresh' = fresh
      BY <2>3 DEF ResetExpired, Quiet
    <3> DEFINE S == {i \in Items : /\ item[i].st = "downloading" /\ ~item[i].leased
                                   /\ ~job[JobOf[i]].finished
                                   /\ Persisted(JobOf[i]) \notin {"cancelled", "paused"}}
    <3>2. S \in SUBSET Items /\ \A i \in S : item[i].st # "success"
      OBVIOUS
    <3>3. item' = [i \in Items |-> IF i \in S THEN BackToPending(item[i]) ELSE item[i]]
      BY <2>3 DEF ResetExpired
    <3> HIDE DEF S
    <3> QED  BY <3>1, <3>2, <3>3, <1>h, <1>p
  <2> QED  BY <1>2, <2>1, <2>2, <2>3 DEF RecoveryStep
<1>3. ASSUME NEW j \in Jobs, UserStep(j) \/ CooldownEnds(j)
      PROVE  Goal /\ fresh' = fresh
  <2>0. fresh' = fresh
    BY <1>3 DEF UserStep, Pause, Resume, Cancel, SkipPending, Retry, CooldownEnds, Quiet
  <2>1. CASE Pause(j) \/ Resume(j) \/ Cancel(j) \/ CooldownEnds(j)
    <3>1. item' = item
      BY <2>1 DEF Pause, Resume, Cancel, CooldownEnds
    <3> QED  BY <3>1, <2>0, <1>h, <1>u
  <2>2. CASE SkipPending(j)
    <3> DEFINE S == {i \in Items : JobOf[i] = j /\ item[i].st = "pending"}
    <3>1. S \in SUBSET Items /\ \A i \in S : item[i].st = "pending"
      OBVIOUS
    <3>2. item' = [i \in Items |-> IF i \in S THEN [item[i] EXCEPT !.st = "skipped"] ELSE item[i]]
      BY <2>2 DEF SkipPending
    <3> HIDE DEF S
    <3> QED  BY <3>1, <3>2, <2>0, <1>h, HarmlessForms
  <2>3. CASE Retry(j)
    <3> DEFINE S == {i \in Items : JobOf[i] = j /\ item[i].st = "failed"}
    <3>1. S \in SUBSET Items /\ \A i \in S : item[i].st = "failed"
      OBVIOUS
    <3>2. item' = [i \in Items |-> IF i \in S THEN [BackToPending(item[i]) EXCEPT !.attempts = 0] ELSE item[i]]
      BY <2>3 DEF Retry
    <3> HIDE DEF S
    <3> QED  BY <3>1, <3>2, <2>0, <1>h, HarmlessForms
  <2> QED  BY <1>3, <2>0, <2>1, <2>2, <2>3 DEF UserStep
<1>4. ASSUME NEW i \in Items, LeaseExpires(i)
      PROVE  Goal /\ fresh' = fresh
  <2>1. fresh' = fresh /\ item' = [item EXCEPT ![i].leased = FALSE]
    BY <1>4 DEF LeaseExpires
  <2>2. item' = [k \in Items |-> IF k \in {i} THEN [item[k] EXCEPT !.leased = FALSE] ELSE item[k]]
    BY <1>t, <2>1
  <2> QED  BY <2>1, <2>2, <1>h, <1>l
<1>5. CASE QuotaEnds \/ Crash
  <2>1. item' = item /\ fresh' = fresh
    BY <1>5 DEF QuotaEnds, Crash
  <2> QED  BY <2>1, <1>h, <1>u
<1> QED  BY <1>1, <1>2, <1>3, <1>4, <1>5 DEF Next, RecoveryStep, Repair, Uncool, ResetExpired, ListJobs,
         TakeJob, Look, Quiet, QuotaEnds, Crash
-----------------------------------------------------------------------------
(* Leases                                                                   *)

\* A claim gives the items it takes a token that nothing has held.
LEMMA ClaimRuns ==
  ASSUME JobsInv, NEW r \in Runs, Claim(r)
  PROVE  /\ run' \in [Runs -> RunType]
         /\ \/ Tame(run') /\ fresh' = fresh
            \/ /\ fresh' = fresh + 1
               /\ \A i \in Items : run'[r].claim[i] \in {0, fresh + 1}
               /\ \A s \in Runs \ {r} : run'[s] = run[s]
<1>t. /\ TypeOK /\ run \in [Runs -> RunType] /\ run[r] \in RunType
      /\ fresh \in 0..MaxClaims /\ MaxClaims \in Nat
  BY JobsAssumption DEF JobsInv, TypeOK
<1>1. CASE Goto(r, AfterLoop(r)) /\ fresh' = fresh
  <2>1. AfterLoop(r) \in Places
    BY DEF AfterLoop, Places
  <2>2. Tame([run EXCEPT ![r].at = AfterLoop(r)])
    BY <1>t, <2>1, RunForms
  <2> QED  BY <1>1, <2>2 DEF Goto, Tame
<1>2. ASSUME fresh < MaxClaims, fresh' = fresh + 1, NEW S \in SUBSET Claimable(run[r].job),
             run' = [run EXCEPT ![r].at = "gate",
                                ![r].claim = [i \in Items |-> IF i \in S THEN fresh + 1 ELSE 0]]
      PROVE  /\ run' \in [Runs -> RunType]
             /\ \A i \in Items : run'[r].claim[i] \in {0, fresh + 1}
             /\ \A s \in Runs \ {r} : run'[s] = run[s]
  <2> DEFINE c == [i \in Items |-> IF i \in S THEN fresh + 1 ELSE 0]
  <2>1. fresh + 1 \in 0..MaxClaims /\ 0 \in 0..MaxClaims
    <3>1. fresh < MaxClaims
      BY <1>2
    <3> QED  BY <1>t, <3>1
  <2>2. c \in [Items -> 0..MaxClaims] /\ \A i \in Items : c[i] \in {0, fresh + 1}
    BY <2>1
  <2>3. \A z \in [Items -> 0..MaxClaims] :
          LET row == [run[r] EXCEPT !.at = "gate", !.claim = z]
          IN  /\ row \in RunType /\ row.claim = z
              /\ [run EXCEPT ![r].at = "gate", ![r].claim = z] = [run EXCEPT ![r] = row]
    BY <1>t DEF RunType, Places
  <2>4. run' = [run EXCEPT ![r].at = "gate", ![r].claim = c]
    BY <1>2
  <2> HIDE DEF c
  <2>5. PICK row \in RunType : row.claim = c /\ run' = [run EXCEPT ![r] = row]
    BY <2>2, <2>3, <2>4
  <2> QED  BY <1>t, <2>2, <2>5
<1> QED  BY <1>1, <1>2 DEF Claim

\* The lease of an item stays with one run.
LEMMA LeasesStep ==
  ASSUME JobsInv, Next
  PROVE  run' \in [Runs -> RunType] /\ LeasesAreUnique'
<1>t. /\ TypeOK /\ LeasesAreUnique /\ fresh \in Nat
      /\ \A r \in Runs, i \in Items : run[r].claim[i] \in Nat
  BY JobsAssumption DEF JobsInv, TypeOK, RunType
<1>i. /\ item' \in [Items -> ItemRows(fresh')] /\ fresh' \in 0..MaxClaims
      /\ fresh' = fresh \/ \E r \in Runs : Claim(r)
  BY ItemsStep
<1>r. Tame(run') \/ \E r \in Runs : Claim(r)
  BY <1>t, RunsStep
<1>1. \A i \in Items : item'[i].token <= fresh' /\ (item'[i].st = "downloading" => item'[i].token # 0)
  BY <1>i DEF ItemRows
<1>2. CASE Tame(run') /\ fresh' = fresh
  <2>1. \A r \in Runs, i \in Items : run'[r].claim[i] \in {0, run[r].claim[i]}
    BY <1>2 DEF Tame
  <2>2. \A i \in Items, r \in Runs : run'[r].claim[i] <= fresh'
    BY <1>t, <1>2, <2>1 DEF LeasesAreUnique
  <2>3. \A i \in Items, r, s \in Runs :
          run'[r].claim[i] # 0 /\ run'[r].claim[i] = run'[s].claim[i] => r = s
    BY <1>t, <2>1 DEF LeasesAreUnique
  <2> QED  BY <1>1, <1>2, <2>2, <2>3 DEF Tame, LeasesAreUnique
<1>3. ASSUME NEW r \in Runs, Claim(r)
      PROVE  run' \in [Runs -> RunType] /\ LeasesAreUnique'
  <2>1. /\ run' \in [Runs -> RunType]
        /\ \/ Tame(run') /\ fresh' = fresh
           \/ /\ fresh' = fresh + 1
              /\ \A i \in Items : run'[r].claim[i] \in {0, fresh + 1}
              /\ \A s \in Runs \ {r} : run'[s] = run[s]
    BY <1>3, ClaimRuns
  <2>2. ASSUME fresh' = fresh + 1,
               \A i \in Items : run'[r].claim[i] \in {0, fresh + 1},
               \A s \in Runs \ {r} : run'[s] = run[s]
        PROVE  LeasesAreUnique'
    <3>1. \A i \in Items, s \in Runs \ {r} : run'[s].claim[i] <= fresh
      BY <1>t, <2>2 DEF LeasesAreUnique
    <3>2. \A i \in Items, s \in Runs : run'[s].claim[i] <= fresh'
      BY <1>t, <2>2, <3>1
    <3>3. \A i \in Items, s, u \in Runs :
            run'[s].claim[i] # 0 /\ run'[s].claim[i] = run'[u].claim[i] => s = u
      <4>1. SUFFICES ASSUME NEW i \in Items, NEW s \in Runs, NEW u \in Runs,
                            run'[s].claim[i] # 0, run'[s].claim[i] = run'[u].claim[i], s # u
                     PROVE  FALSE
        OBVIOUS
      <4>2. CASE s = r
        BY <1>t, <2>2, <3>1, <4>1, <4>2
      <4>3. CASE u = r
        BY <1>t, <2>2, <3>1, <4>1, <4>3
      <4>4. CASE s # r /\ u # r
        BY <1>t, <2>2, <4>1, <4>4 DEF LeasesAreUnique
      <4> QED  BY <4>2, <4>3, <4>4
    <3> QED  BY <1>1, <3>2, <3>3 DEF LeasesAreUnique
  <2> QED  BY <1>2, <2>1, <2>2
<1> QED  BY <1>i, <1>r, <1>2, <1>3
-----------------------------------------------------------------------------
(* The invariant                                                            *)

\* The counters, the flags and the lists of jobs keep their types.
LEMMA OtherTypes ==
  ASSUME TypeOK, Next
  PROVE  /\ todo' \subseteq Jobs /\ quota' \in BOOLEAN /\ skipDue' \subseteq Jobs
         /\ faults' \in 0..MaxFaults /\ crashes' \in 0..MaxCrashes /\ commands' \in 0..MaxCommands
<1> DEFINE Goal == /\ todo' \subseteq Jobs /\ quota' \in BOOLEAN /\ skipDue' \subseteq Jobs
                   /\ faults' \in 0..MaxFaults /\ crashes' \in 0..MaxCrashes
                   /\ commands' \in 0..MaxCommands
<1>t. /\ todo \subseteq Jobs /\ quota \in BOOLEAN /\ skipDue \subseteq Jobs
      /\ faults \in 0..MaxFaults /\ crashes \in 0..MaxCrashes /\ commands \in 0..MaxCommands
  BY DEF TypeOK
<1>n. MaxFaults \in Nat /\ MaxCrashes \in Nat /\ MaxCommands \in Nat
  BY JobsAssumption
<1>q. Quiet => Goal
  BY <1>t DEF Quiet
<1>f. Fault \/ UNCHANGED faults => faults' \in 0..MaxFaults
  BY <1>t, <1>n DEF Fault
<1>c. Command => commands' \in 0..MaxCommands
  BY <1>t, <1>n DEF Command
<1>1. ASSUME NEW r \in Runs, RunStep(r) \/ ErrorStep(r)
      PROVE  Goal
  <2>1. CASE \/ Start(r) \/ Scan(r) \/ ScanEnds(r) \/ Wait(r) \/ WaitCools(r) \/ Hydrate(r) \/ Hydrated(r)
             \/ Gate(r) \/ Judge(r) \/ Restore(r) \/ Heartbeat(r) \/ BatchEnds(r) \/ Thrown(r)
             \/ ReadStats(r) \/ Finish(r)
    <3>1. Quiet
      BY <2>1 DEF Start, Scan, ScanEnds, Wait, WaitCools, Hydrate, Hydrated, Gate, Judge, Restore,
         Heartbeat, BatchEnds, Thrown, ReadStats, Finish
    <3> QED  BY <3>1, <1>q
  <2>2. CASE Claim(r)
    BY <2>2, <1>t DEF Claim
  <2>3. ASSUME NEW i \in Items, Work(r, i)
        PROVE  Goal
    <3>1. CASE Fail(r, i)
      BY <3>1, <1>t, <1>f DEF Fail
    <3>2. CASE Commit(r, i) \/ Skip(r, i) \/ LeaveItem(r, i) \/ Lose(r, i)
      BY <3>2, <1>q DEF Commit, Skip, LeaveItem, Lose
    <3> QED  BY <2>3, <3>1, <3>2 DEF Work
  <2>4. CASE ScanFlood(r) \/ Flood(r) \/ AccountError(r) \/ BatchError(r)
    BY <2>4, <1>t, <1>f DEF ScanFlood, Flood, AccountError, BatchError
  <2>5. CASE QuotaError(r)
    BY <2>5, <1>t, <1>f DEF QuotaError
  <2> QED  BY <1>1, <2>1, <2>2, <2>3, <2>4, <2>5 DEF RunStep, ErrorStep
<1>2. CASE RecoveryStep
  <2>1. CASE Repair \/ Uncool \/ ResetExpired \/ Look
    BY <2>1, <1>q DEF Repair, Uncool, ResetExpired, Look
  <2>2. CASE ListJobs
    BY <2>2, <1>t DEF ListJobs
  <2>3. CASE TakeJob
    BY <2>3, <1>t DEF TakeJob
  <2> QED  BY <1>2, <2>1, <2>2, <2>3 DEF RecoveryStep
<1>3. ASSUME NEW j \in Jobs, UserStep(j) \/ CooldownEnds(j)
      PROVE  Goal
  <2>1. CASE Pause(j) \/ Cancel(j) \/ Retry(j)
    BY <2>1, <1>t, <1>c DEF Pause, Cancel, Retry
  <2>2. CASE Resume(j) \/ SkipPending(j)
    BY <2>2, <1>t DEF Resume, SkipPending
  <2>3. CASE CooldownEnds(j)
    BY <2>3, <1>q DEF CooldownEnds
  <2> QED  BY <1>3, <2>1, <2>2, <2>3 DEF UserStep
<1>4. CASE QuotaEnds
  BY <1>4, <1>t DEF QuotaEnds
<1>5. ASSUME NEW i \in Items, LeaseExpires(i)
      PROVE  Goal
  BY <1>5, <1>t, <1>f DEF LeaseExpires
<1>6. CASE Crash
  BY <1>6, <1>t, <1>n DEF Crash
<1> QED  BY <1>1, <1>2, <1>3, <1>4, <1>5, <1>6 DEF Next

\* The invariant holds at the start.
LEMMA InitJobs == Init => JobsInv
<1> SUFFICES ASSUME Init
             PROVE  JobsInv
  OBVIOUS
<1>0. /\ 0 \in 0..MaxClaims /\ 0 \in 0..MaxFaults /\ 0 \in 0..MaxCrashes /\ 0 \in 0..MaxCommands
      /\ 0 \in Nat
  BY JobsAssumption
<1>1. job \in [Jobs -> JobRow]
  BY StatusNames DEF Init, JobRow, JobType, SoundRow
<1>2. item \in [Items -> ItemRows(0)]
  <2>1. "absent" \in ItemStatus /\ "absent" # "downloading" /\ 0 <= 0
    BY StatusNames
  <2>2. \A b \in BOOLEAN : [st |-> "absent", attempts |-> 0, token |-> 0, leased |-> FALSE,
                            quotaError |-> FALSE, meta |-> b] \in ItemRows(0)
    BY <1>0, <2>1 DEF ItemRows, ItemType
  <2>3. \A i \in Items : (i \notin Legacy) \in BOOLEAN
    OBVIOUS
  <2> QED  BY <2>2, <2>3 DEF Init
<1>3. run \in [Runs -> RunType] /\ \A r \in Runs, i \in Items : run[r].claim[i] = 0
  <2>1. \A mode \in {"segmented", "recover"} : Idle(mode) \in RunType
    BY RunsAtRest
  <2>2. \A r \in Jobs : [Idle("segmented") EXCEPT !.at = "start", !.job = r] \in RunType
    BY <2>1 DEF RunType, Places
  <2>3. run \in [Runs -> RunType]
    BY <2>1, <2>2 DEF Init, Runs
  <2>4. \A r \in Runs, i \in Items : run[r].claim[i] = 0
    BY DEF Init, Runs, Idle
  <2> QED  BY <2>3, <2>4
<1>4. TypeOK
  BY <1>0, <1>1, <1>2, <1>3 DEF Init, TypeOK, JobRow, ItemRows
<1>5. CancelledIsFinished
  BY <1>1 DEF CancelledIsFinished, JobRow
<1>6. LeasesAreUnique
  BY <1>0, <1>2, <1>3 DEF Init, LeasesAreUnique, ItemRows
<1> QED  BY <1>4, <1>5, <1>6 DEF JobsInv

\* Every step keeps the invariant.
LEMMA KeepsJobs ==
  ASSUME JobsInv, [Next]_vars
  PROVE  JobsInv'
<1>1. CASE Next
  <2>1. job' \in [Jobs -> JobRow]
    BY <1>1, JobsStep
  <2>2. item' \in [Items -> ItemRows(fresh')] /\ fresh' \in 0..MaxClaims
    BY <1>1, ItemsStep
  <2>3. run' \in [Runs -> RunType] /\ LeasesAreUnique'
    BY <1>1, LeasesStep
  <2>4. /\ todo' \subseteq Jobs /\ quota' \in BOOLEAN /\ skipDue' \subseteq Jobs
        /\ faults' \in 0..MaxFaults /\ crashes' \in 0..MaxCrashes /\ commands' \in 0..MaxCommands
    BY <1>1, OtherTypes DEF JobsInv
  <2>5. job' \in [Jobs -> JobType] /\ CancelledIsFinished'
    BY <2>1 DEF JobRow, CancelledIsFinished
  <2>6. item' \in [Items -> ItemType]
    BY <2>2 DEF ItemRows
  <2> QED  BY <2>2, <2>3, <2>4, <2>5, <2>6 DEF JobsInv, TypeOK
<1>2. CASE UNCHANGED vars
  BY <1>2 DEF JobsInv, TypeOK, CancelledIsFinished, LeasesAreUnique, vars
<1> QED  BY <1>1, <1>2
-----------------------------------------------------------------------------
\* The invariant behind the theorems: rows and runs have their types, a cancelled job is
\* finished, and the lease of an item is held by one run at most.
THEOREM JobsInvariant == Spec => []JobsInv
  BY InitJobs, KeepsJobs, PTL DEF Spec

\* The rows and the runs keep their types: no step writes a status the code does not know.
THEOREM TypeCorrect == Spec => []TypeOK
<1>1. JobsInv => TypeOK
  BY DEF JobsInv
<1> QED  BY <1>1, JobsInvariant, PTL

\* A cancelled job never runs or completes again, whoever was about to write its status.
THEOREM CancelledStays == Spec => []CancelledNeverRuns
<1>1. JobsInv => CancelledNeverRuns
  BY DEF JobsInv, CancelledIsFinished, SoundRow, CancelledNeverRuns
<1> QED  BY <1>1, JobsInvariant, PTL

\* Two runs never hold the same download: a claim gives a token nothing else has.
THEOREM LeaseHeldOnce == Spec => []OneHolder
<1>1. JobsInv => OneHolder
  BY DEF JobsInv, LeasesAreUnique, OneHolder, Holds
<1> QED  BY <1>1, JobsInvariant, PTL

\* A download is settled only by the run that holds its present lease, or by the completion
\* of its metadata.
THEOREM HolderSettles == Spec => OnlyHolderSettles
<1>1. ASSUME JobsInv, [Next]_vars
      PROVE  [\A i \in Items :
                item[i].st = "downloading" /\ item'[i].st \in Terminal
                  => \/ \E r \in Runs : run[r].claim[i] = item[i].token /\ run'[r].claim[i] = 0
                     \/ Completing(i)]_vars
  BY <1>1, ItemsStep DEF Settles
<1> QED  BY <1>1, JobsInvariant, PTL DEF Spec, OnlyHolderSettles

\* A file that was saved is never downloaded again, unless its metadata was being completed.
THEOREM SuccessStays == Spec => SuccessIsFinal
<1>1. ASSUME JobsInv, [Next]_vars
      PROVE  [\A i \in Items : item[i].st = "success" => item'[i].st = "success" \/ Completing(i)]_vars
  BY <1>1, ItemsStep DEF Keeps
<1> QED  BY <1>1, JobsInvariant, PTL DEF Spec, SuccessIsFinal
-----------------------------------------------------------------------------
(* The task centre of the bot (TaskCards)                                   *)

CONSTANTS Memory, Channel, Users, OwnerOf, Cards, Handlers, MaxOps, MaxEvents
VARIABLES taskJob, exec, taskCard, pending, press, bulk, overlapped, left, omitted, cardOps, cardEvents
Centre == INSTANCE TaskCards WITH
    job <- taskJob, card <- taskCard, handler <- press, met <- overlapped, idle <- omitted,
    ops <- cardOps, events <- cardEvents

Statuses == {"queued", "running", "paused", "ended", "cancelled"}
Groups == {"none", "open", "paused", "cancelled"}
Stages == {"free", "find", "draw", "operate", "row", "group", "shown"}
Views == {"none", "list", "detail", "prompt"}
Operations == {"start", "pause", "resume", "confirm"}
Tasks == Memory \cup Channel
Buttons == {b \in (Views \cup Operations) \X (Tasks \cup {"none"}) : b[1] \in Operations => b[2] \in Tasks}
ListedRow == [status : Statuses, busy : BOOLEAN]
CardType == [owner : Users \cup {"none"}, buttons : SUBSET Buttons]
PressType ==
    [at : Stages, user : Users \cup {"none"}, card : Cards \cup {"none"},
     action : Views \cup Operations, item : Tasks \cup {"none"}, buttons : SUBSET Buttons]
BulkType ==
    [at : {"free", "asked", "next", "group"}, user : Users \cup {"none"}, todo : SUBSET Channel,
     job : Channel \cup {"none"}, all : SUBSET Tasks]

CentreTypes ==
    /\ Memory \cap Channel = {}
    /\ taskJob \in [Channel -> ListedRow] /\ exec \in [Tasks -> Groups]
    /\ taskCard \in [Cards -> CardType] /\ pending \in [Cards -> Tasks \cup {"none"}]
    /\ press \in [Handlers -> PressType] /\ bulk \in BulkType

\* A callback that operates has a task, and one that changes a row or a group a channel job.
Fits(r) ==
    /\ r.action \in Operations => r.item \in Tasks
    /\ r.at \in {"operate", "row", "group", "shown"} => r.action \in Operations
    /\ r.at \in {"row", "group"} => r.item \in Channel
PressFits == \A h \in Handlers : Fits(press[h])

\* Of a job whose commands did not overlap and that no cancellation omitted: one command at
\* a time is between row and group, the row has what it asks for, and without such a command
\* row and group agree.  A cancelled group has a job that is over.
AtGroup(h, j) == press[h].at = "group" /\ press[h].item = j
BulkGroup(j) == bulk.at = "group" /\ bulk.job = j
RowIs(action, status) ==
    /\ action = "pause" => status = "paused"
    /\ action \in {"start", "resume"} => status \in {"running", "ended"}
    /\ action = "confirm" => status = "cancelled"
JobFits(j) ==
    /\ (\A h \in Handlers : ~AtGroup(h, j)) /\ ~BulkGroup(j) => Centre!Match(j)
    /\ \A h \in Handlers : AtGroup(h, j) => ~BulkGroup(j) /\ RowIs(press[h].action, taskJob[j].status)
    /\ \A h, o \in Handlers : AtGroup(h, j) /\ AtGroup(o, j) => h = o
    /\ BulkGroup(j) => taskJob[j].status = "cancelled"
    /\ exec[j] = "cancelled" => taskJob[j].status \in {"ended", "cancelled"}
JobsFit == \A j \in Channel \ (overlapped \cup omitted) : JobFits(j)

\* While everything of a user is being cancelled, what was not yet taken is listed.
BulkFits ==
    /\ bulk.at = "group" => bulk.job \in Channel
    /\ bulk.at \in {"next", "group"} =>
        /\ \A i \in bulk.all : OwnerOf[i] = bulk.user
        /\ \A j \in Channel \ omitted : OwnerOf[j] = bulk.user /\ Centre!Open(j) => j \in bulk.todo
LeftFits == left \subseteq Tasks /\ Centre!StopsAllUnlessIdle

CentreInv == CentreTypes /\ PressFits /\ JobsFit /\ BulkFits /\ LeftFits

\* The buttons of the cards.
LEMMA TasksAre == Centre!Items = Tasks
BY DEF Centre!Items, Tasks

LEMMA ListIs == \A u : Centre!ListButtons(u) \in SUBSET Buttons
<1> SUFFICES ASSUME NEW u, NEW b \in Centre!ListButtons(u)  PROVE b \in Buttons
  OBVIOUS
<1>1. CASE b = << "list", "none" >>
  BY <1>1 DEF Buttons, Views, Operations
<1>2. CASE \E i \in Tasks : b = << "detail", i >>
  BY <1>2 DEF Buttons, Views, Operations
<1> QED
  BY <1>1, <1>2, TasksAre DEF Centre!ListButtons

LEMMA TaskButtons ==
  ASSUME NEW i \in Tasks, NEW x \in {"detail", "prompt", "start", "pause", "resume", "confirm"}
  PROVE  << x, i >> \in Buttons
BY DEF Buttons, Views, Operations

LEMMA DetailIs ==
  ASSUME NEW i \in Tasks
  PROVE  Centre!DetailButtons(i) \in SUBSET Buttons /\ Centre!ConfirmButtons(i) \in SUBSET Buttons
<1>1. << "list", "none" >> \in Buttons
  BY DEF Buttons, Views, Operations
<1>2. Centre!Shown(i) \in {"waiting", "running", "paused"}
  BY DEF Centre!Shown
<1> QED
  BY <1>1, <1>2, TaskButtons DEF Centre!DetailButtons, Centre!ConfirmButtons

\* A job that nothing happens to.
SameCommands(j) ==
    /\ BulkGroup(j)' <=> BulkGroup(j)
    /\ \A h \in Handlers : /\ AtGroup(h, j)' <=> AtGroup(h, j)
                           /\ AtGroup(h, j) => press'[h].action = press[h].action
LEMMA JobStands ==
  ASSUME NEW j \in Channel, JobFits(j), taskJob'[j] = taskJob[j], exec'[j] = exec[j], SameCommands(j)
  PROVE  JobFits(j)'
<1>1. Centre!Match(j)' <=> Centre!Match(j)
  BY DEF Centre!Match
<1> QED
  BY <1>1 DEF JobFits, SameCommands, RowIs

LEMMA JobsStand ==
  ASSUME JobsFit, taskJob' = taskJob, \A j \in Channel : exec'[j] = exec[j],
         overlapped \subseteq overlapped', omitted \subseteq omitted', \A j \in Channel : SameCommands(j)
  PROVE  JobsFit'
BY JobStands DEF JobsFit

\* A callback goes on outside of the group.
LEMMA PressIs ==
  ASSUME CentreTypes, PressFits, NEW h \in Handlers, NEW r \in PressType, Fits(r),
         press' = [press EXCEPT ![h] = r]
  PROVE  /\ press' \in [Handlers -> PressType] /\ PressFits' /\ press'[h] = r
         /\ \A o \in Handlers \ {h} : press'[o] = press[o]
<1>1. /\ press' \in [Handlers -> PressType] /\ press'[h] = r
      /\ \A o \in Handlers \ {h} : press'[o] = press[o]
  BY DEF CentreTypes
<1>2. \A o \in Handlers : Fits(press'[o])
  BY <1>1 DEF PressFits
<1> QED
  BY <1>1, <1>2 DEF PressFits, Fits

LEMMA PressMoves ==
  ASSUME CentreInv, NEW h \in Handlers, NEW r \in PressType, Fits(r), press' = [press EXCEPT ![h] = r],
         press[h].at # "group", r.at # "group", bulk' = bulk
  PROVE  /\ press' \in [Handlers -> PressType] /\ PressFits'
         /\ \A j \in Channel : SameCommands(j)
<1>1. /\ press' \in [Handlers -> PressType] /\ PressFits' /\ press'[h] = r
      /\ \A o \in Handlers \ {h} : press'[o] = press[o]
  BY PressIs DEF CentreInv
<1> QED
  BY <1>1 DEF SameCommands, AtGroup, BulkGroup

\* Nothing happens to rows and groups.
RowsStay == taskJob' = taskJob /\ exec' = exec /\ bulk' = bulk /\ left' = left /\ omitted' = omitted
CardsTyped == taskCard' \in [Cards -> CardType] /\ pending' \in [Cards -> Tasks \cup {"none"}]
LEMMA BulkStands ==
  ASSUME CentreInv, taskJob' = taskJob, bulk' = bulk, left' = left, omitted' = omitted,
         \A i \in Tasks : Centre!Open(i)' => Centre!Open(i)
  PROVE  BulkFits' /\ LeftFits'
<1>1. BulkFits'
  BY DEF CentreInv, BulkFits, Tasks
<1>2. LeftFits'
  BY DEF CentreInv, LeftFits, Centre!StopsAllUnlessIdle
<1> QED
  BY <1>1, <1>2

LEMMA CallbackKeeps ==
  ASSUME CentreInv, NEW h \in Handlers, NEW r \in PressType, Fits(r), press' = [press EXCEPT ![h] = r],
         press[h].at # "group", r.at # "group", RowsStay, CardsTyped, overlapped' = overlapped
  PROVE  CentreInv'
<1>1. press' \in [Handlers -> PressType] /\ PressFits' /\ \A j \in Channel : SameCommands(j)
  BY PressMoves DEF RowsStay
<1>2. JobsFit'
  BY <1>1, JobsStand DEF CentreInv, RowsStay
<1>3. BulkFits' /\ LeftFits'
  <2>1. \A i \in Tasks : Centre!Open(i)' => Centre!Open(i)
    BY DEF RowsStay, Centre!Open
  <2> QED
    BY <2>1, BulkStands DEF RowsStay
<1>4. CentreTypes'
  BY <1>1 DEF CentreInv, CentreTypes, RowsStay, CardsTyped
<1> QED
  BY <1>1, <1>2, <1>3, <1>4 DEF CentreInv

LEMMA CardsChange ==
  ASSUME CentreInv, press' = press, RowsStay, CardsTyped, overlapped' = overlapped
  PROVE  CentreInv'
<1>1. CentreTypes' /\ PressFits'
  BY DEF CentreInv, CentreTypes, PressFits, Fits, RowsStay, CardsTyped
<1>2. JobsFit'
  <2>1. \A j \in Channel : SameCommands(j)
    BY DEF SameCommands, AtGroup, BulkGroup, RowsStay
  <2> QED
    BY <2>1, JobsStand DEF CentreInv, RowsStay
<1>3. BulkFits' /\ LeftFits'
  <2>1. \A i \in Tasks : Centre!Open(i)' => Centre!Open(i)
    BY DEF RowsStay, Centre!Open
  <2> QED
    BY <2>1, BulkStands DEF RowsStay
<1> QED
  BY <1>1, <1>2, <1>3 DEF CentreInv

\* The records that the callbacks get.
LEMMA FreeIs == Centre!Free \in PressType /\ Fits(Centre!Free) /\ Centre!Free.at = "free"
BY DEF Centre!Free, PressType, Fits, Stages, Views, Operations

LEMMA PlaceIs ==
  ASSUME NEW r \in PressType, NEW p \in Stages
  PROVE  LET q == [r EXCEPT !.at = p] IN
         /\ q \in PressType /\ q.at = p /\ q.action = r.action /\ q.item = r.item
BY DEF PressType

LEMMA DrawnIs ==
  ASSUME NEW r \in PressType, NEW bs \in SUBSET Buttons, Fits(r)
  PROVE  LET q == [r EXCEPT !.at = "draw", !.buttons = bs] IN
         /\ q \in PressType /\ Fits(q) /\ q.at = "draw"
<1> DEFINE p == [r EXCEPT !.at = "draw"]
           q == [p EXCEPT !.buttons = bs]
<1>1. p \in PressType /\ p.at = "draw" /\ p.action = r.action /\ p.item = r.item
  BY PlaceIs DEF Stages
<1>2. [r EXCEPT !.at = "draw", !.buttons = bs] = q
  BY DEF PressType
<1> HIDE DEF p
<1>3. q \in PressType /\ q.at = p.at /\ q.action = p.action /\ q.item = p.item
  BY <1>1 DEF PressType
<1> HIDE DEF q
<1> QED
  BY <1>1, <1>2, <1>3 DEF Fits

LEMMA DrawingKeeps ==
  ASSUME CentreInv, NEW h \in Handlers, NEW bs \in SUBSET Buttons, Centre!Drawing(h, bs),
         press[h].at # "group", RowsStay, CardsTyped, overlapped' = overlapped
  PROVE  CentreInv'
<1> DEFINE r == press[h]
           q == [r EXCEPT !.at = "draw", !.buttons = bs]
<1>1. r \in PressType /\ Fits(r)
  BY DEF CentreInv, CentreTypes, PressFits
<1>2. press' = [press EXCEPT ![h] = q]
  BY DEF Centre!Drawing, Centre!Step
<1> HIDE DEF r
<1>3. q \in PressType /\ Fits(q) /\ q.at = "draw"
  BY <1>1, DrawnIs
<1> HIDE DEF q
<1> QED
  BY <1>2, <1>3, CallbackKeeps

LEMMA PlaceKeeps ==
  ASSUME CentreInv, NEW h \in Handlers, NEW p \in Stages, p # "group", press[h].at # "group",
         Centre!Step(h, [press[h] EXCEPT !.at = p]),
         p \in {"operate", "row", "shown"} => press[h].action \in Operations,
         p = "row" => press[h].item \in Channel,
         RowsStay, CardsTyped, overlapped' = overlapped
  PROVE  CentreInv'
<1> DEFINE r == press[h]
           q == [r EXCEPT !.at = p]
<1>1. r \in PressType /\ Fits(r)
  BY DEF CentreInv, CentreTypes, PressFits
<1>2. press' = [press EXCEPT ![h] = q]
  BY DEF Centre!Step
<1>3. q \in PressType /\ q.at = p /\ q.action = r.action /\ q.item = r.item
  BY <1>1, PlaceIs
<1>4. Fits(q)
  BY <1>1, <1>3 DEF Fits
<1> HIDE DEF q
<1> QED
  BY <1>2, <1>3, <1>4, CallbackKeeps

LEMMA FreeKeeps ==
  ASSUME CentreInv, NEW h \in Handlers, press[h].at # "group", Centre!Step(h, Centre!Free),
         RowsStay, CardsTyped, overlapped' = overlapped
  PROVE  CentreInv'
BY FreeIs, CallbackKeeps DEF Centre!Step

\* A new callback or command.
Pressed(u, k, a, i) == [Centre!Free EXCEPT !.at = "find", !.user = u, !.card = k, !.action = a, !.item = i]
Called(p, u, a, i) == [Centre!Free EXCEPT !.at = p, !.user = u, !.action = a, !.item = i]
LEMMA BegunIs ==
  ASSUME NEW p, NEW u, NEW k, NEW a, NEW i
  PROVE  /\ Called(p, u, a, i) = [at |-> p, user |-> u, card |-> "none", action |-> a, item |-> i, buttons |-> {}]
         /\ Pressed(u, k, a, i) = [at |-> "find", user |-> u, card |-> k, action |-> a, item |-> i, buttons |-> {}]
<1> DEFINE f == Centre!Free
           x == [f EXCEPT !.at = p]
           y == [x EXCEPT !.user = u]
           v == [y EXCEPT !.action = a]
           r == [f EXCEPT !.at = "find"]
           s == [r EXCEPT !.user = u]
           z == [s EXCEPT !.card = k]
           w == [z EXCEPT !.action = a]
<1>1. /\ x = [at |-> p, user |-> "none", card |-> "none", action |-> "none", item |-> "none", buttons |-> {}]
      /\ r = [at |-> "find", user |-> "none", card |-> "none", action |-> "none", item |-> "none", buttons |-> {}]
  BY DEF Centre!Free
<1>2. Called(p, u, a, i) = [v EXCEPT !.item = i] /\ Pressed(u, k, a, i) = [w EXCEPT !.item = i]
  BY DEF Called, Pressed
<1> HIDE DEF f, x, r
<1>3. /\ y = [at |-> p, user |-> u, card |-> "none", action |-> "none", item |-> "none", buttons |-> {}]
      /\ s = [at |-> "find", user |-> u, card |-> "none", action |-> "none", item |-> "none", buttons |-> {}]
  BY <1>1
<1> HIDE DEF y, s
<1>4. z = [at |-> "find", user |-> u, card |-> k, action |-> "none", item |-> "none", buttons |-> {}]
  BY <1>3
<1> HIDE DEF z
<1>5. w = [at |-> "find", user |-> u, card |-> k, action |-> a, item |-> "none", buttons |-> {}]
  BY <1>4
<1>6. v = [at |-> p, user |-> u, card |-> "none", action |-> a, item |-> "none", buttons |-> {}]
  BY <1>3
<1> HIDE DEF w, v
<1>7. [w EXCEPT !.item = i] = [at |-> "find", user |-> u, card |-> k, action |-> a, item |-> i, buttons |-> {}]
  BY <1>5
<1>8. [v EXCEPT !.item = i] = [at |-> p, user |-> u, card |-> "none", action |-> a, item |-> i, buttons |-> {}]
  BY <1>6
<1> QED
  BY <1>2, <1>7, <1>8

LEMMA CalledIs ==
  ASSUME NEW p, NEW u, NEW a, NEW i
  PROVE  Called(p, u, a, i) = [at |-> p, user |-> u, card |-> "none", action |-> a, item |-> i, buttons |-> {}]
<1>1. \A k : /\ Called(p, u, a, i) = [at |-> p, user |-> u, card |-> "none", action |-> a, item |-> i, buttons |-> {}]
             /\ Pressed(u, k, a, i) = [at |-> "find", user |-> u, card |-> k, action |-> a, item |-> i, buttons |-> {}]
  BY BegunIs
<1> QED
  BY <1>1

LEMMA BegunKeeps ==
  ASSUME CentreInv, NEW h \in Handlers, press[h] = Centre!Free,
         NEW p \in {"find", "operate", "row"}, NEW u \in Users, NEW k \in Cards \cup {"none"},
         NEW b \in Buttons, NEW q, q = [at |-> p, user |-> u, card |-> k, action |-> b[1],
                                        item |-> b[2], buttons |-> {}],
         p # "find" => b[1] \in Operations, p = "row" => b[2] \in Channel,
         Centre!Step(h, q), RowsStay, CardsTyped, overlapped' = overlapped
  PROVE  CentreInv'
<1>1. b[1] \in Views \cup Operations /\ b[2] \in Tasks \cup {"none"} /\ (b[1] \in Operations => b[2] \in Tasks)
  BY DEF Buttons
<1>2. q \in PressType
  BY <1>1 DEF PressType, Stages
<1>3. Fits(q) /\ q.at # "group"
  BY <1>1 DEF Fits
<1>4. press[h].at # "group"
  BY FreeIs
<1>5. press' = [press EXCEPT ![h] = q]
  BY DEF Centre!Step
<1> QED
  BY <1>2, <1>3, <1>4, <1>5, CallbackKeeps

LEMMA FrameIs ==
  ASSUME CentreInv
  PROVE  /\ UNCHANGED << taskJob, exec, bulk, left, omitted >> => RowsStay
         /\ UNCHANGED << taskCard, pending >> => CardsTyped
BY DEF CentreInv, CentreTypes, RowsStay, CardsTyped

LEMMA SendCardKeeps ==
  ASSUME CentreInv, NEW k \in Cards, NEW u \in Users, Centre!SendCard(k, u)
  PROVE  CentreInv'
<1> DEFINE c == [owner |-> u, buttons |-> Centre!ListButtons(u)]
<1>1. RowsStay /\ overlapped' = overlapped /\ press' = press
  BY DEF Centre!SendCard, Centre!bulkVars, RowsStay
<1>2. taskCard' = [taskCard EXCEPT ![k] = c] /\ pending' = pending
  BY DEF Centre!SendCard
<1>3. c \in CardType
  BY ListIs DEF CardType
<1> HIDE DEF c
<1>4. CardsTyped
  BY <1>2, <1>3 DEF CentreInv, CentreTypes, CardsTyped
<1> QED
  BY <1>1, <1>4, CardsChange

LEMMA PressKeeps ==
  ASSUME CentreInv, NEW h \in Handlers, NEW u \in Users, NEW k \in Cards, Centre!Press(h, u, k)
  PROVE  CentreInv'
<1>1. /\ press[h] = Centre!Free /\ RowsStay /\ CardsTyped /\ overlapped' = overlapped
  BY FrameIs DEF Centre!Press, Centre!bulkVars
<1>2. PICK b \in taskCard[k].buttons :
        Centre!Step(h, [Centre!Free EXCEPT !.at = "find", !.user = u, !.card = k, !.action = b[1], !.item = b[2]])
  BY DEF Centre!Press
<1>3. b \in Buttons
  BY DEF CentreInv, CentreTypes, CardType
<1> DEFINE q == [at |-> "find", user |-> u, card |-> k, action |-> b[1], item |-> b[2], buttons |-> {}]
<1>4. Centre!Step(h, q)
  <2>1. Pressed(u, k, b[1], b[2]) = [at |-> "find", user |-> u, card |-> k, action |-> b[1], item |-> b[2], buttons |-> {}]
    BY BegunIs
  <2>2. Centre!Step(h, Pressed(u, k, b[1], b[2]))
    BY <1>2 DEF Called, Pressed
  <2> QED
    BY <2>1, <2>2 DEF Centre!Step
<1> HIDE DEF q
<1>5. q = [at |-> "find", user |-> u, card |-> k, action |-> b[1], item |-> b[2], buttons |-> {}]
  BY DEF q
<1> QED
  BY <1>1, <1>3, <1>4, <1>5, BegunKeeps

LEMMA CommandKeeps ==
  ASSUME CentreInv, NEW h \in Handlers, NEW u \in Users, NEW a \in {"pause", "resume", "confirm"},
         Centre!Command(h, u, a)
  PROVE  CentreInv'
<1>1. /\ press[h] = Centre!Free /\ RowsStay /\ CardsTyped /\ overlapped' = overlapped
  BY FrameIs DEF Centre!Command, Centre!bulkVars
<1>2. PICK i \in Tasks : Centre!Step(h, [Centre!Free EXCEPT !.at = IF i \in Memory THEN "operate" ELSE "row",
                                                            !.user = u, !.action = a, !.item = i])
  BY TasksAre DEF Centre!Command
<1> DEFINE p == IF i \in Memory THEN "operate" ELSE "row"
           b == << a, i >>
           q == [at |-> p, user |-> u, card |-> "none", action |-> b[1], item |-> b[2], buttons |-> {}]
<1>3. b \in Buttons /\ b[1] = a /\ b[2] = i /\ a \in Operations
  BY TaskButtons DEF Operations
<1>4. Centre!Step(h, q)
  <2>1. Called(p, u, a, i) = [at |-> p, user |-> u, card |-> "none", action |-> a, item |-> i, buttons |-> {}]
    BY CalledIs
  <2>2. Centre!Step(h, Called(p, u, a, i))
    BY <1>2 DEF Called, Pressed
  <2> QED
    BY <2>1, <2>2 DEF Centre!Step
<1>5. p \in {"find", "operate", "row"} /\ (p = "row" => i \in Channel)
  BY DEF Tasks
<1>6. q = [at |-> p, user |-> u, card |-> "none", action |-> b[1], item |-> b[2], buttons |-> {}]
  OBVIOUS
<1> HIDE DEF p, b, q
<1> QED
  BY <1>1, <1>3, <1>4, <1>5, <1>6, BegunKeeps

LEMMA OldButtonKeeps ==
  ASSUME CentreInv, NEW h \in Handlers, NEW u \in Users, Centre!OldButton(h, u)
  PROVE  CentreInv'
<1>1. /\ press[h] = Centre!Free /\ RowsStay /\ CardsTyped /\ overlapped' = overlapped
  BY FrameIs DEF Centre!OldButton, Centre!bulkVars
<1>2. PICK j \in Channel, a \in {"pause", "resume"} :
        Centre!Step(h, [Centre!Free EXCEPT !.at = "operate", !.user = u, !.action = a, !.item = j])
  BY DEF Centre!OldButton
<1> DEFINE b == << a, j >>
           q == [at |-> "operate", user |-> u, card |-> "none", action |-> b[1], item |-> b[2], buttons |-> {}]
<1>3. b \in Buttons /\ b[1] = a /\ b[2] = j /\ a \in Operations
  BY TaskButtons DEF Operations, Tasks
<1>4. Centre!Step(h, q)
  <2>1. Called("operate", u, a, j) = [at |-> "operate", user |-> u, card |-> "none", action |-> a, item |-> j, buttons |-> {}]
    BY CalledIs
  <2>2. Centre!Step(h, Called("operate", u, a, j))
    BY <1>2 DEF Called, Pressed
  <2> QED
    BY <2>1, <2>2 DEF Centre!Step
<1>5. q = [at |-> "operate", user |-> u, card |-> "none", action |-> b[1], item |-> b[2], buttons |-> {}]
  OBVIOUS
<1> HIDE DEF b, q
<1> QED
  BY <1>1, <1>3, <1>4, <1>5, BegunKeeps

LEMMA DrawKeeps ==
  ASSUME CentreInv, NEW h \in Handlers, Centre!Draw(h)
  PROVE  CentreInv'
<1> DEFINE c == taskCard[press[h].card]
           d == [c EXCEPT !.buttons = press[h].buttons]
           e == IF c = Centre!NoCard THEN c ELSE d
<1>1. /\ press[h].at = "draw" /\ RowsStay /\ overlapped' = overlapped /\ Centre!Step(h, Centre!Free)
      /\ taskCard' = [taskCard EXCEPT ![press[h].card] = e] /\ pending' = pending
  BY FrameIs DEF Centre!Draw, Centre!bulkVars
<1>2. taskCard \in [Cards -> CardType] /\ press[h].buttons \in SUBSET Buttons
  BY DEF CentreInv, CentreTypes, PressType
<1>3. press[h].card \in Cards => e \in CardType
  BY <1>2 DEF CardType
<1> HIDE DEF e
<1>4. CardsTyped
  BY <1>1, <1>2, <1>3 DEF CardsTyped, CentreInv, CentreTypes
<1> QED
  BY <1>1, <1>4, FreeKeeps

LEMMA ExpireKeeps ==
  ASSUME CentreInv, NEW k \in Cards, Centre!Expire(k)
  PROVE  CentreInv'
<1>1. /\ RowsStay /\ overlapped' = overlapped /\ press' = press
      /\ pending' = [pending EXCEPT ![k] = "none"] /\ taskCard' = taskCard
  BY FrameIs DEF Centre!Expire, Centre!bulkVars
<1>2. CardsTyped
  BY <1>1 DEF CentreInv, CentreTypes, CardsTyped
<1> QED
  BY <1>1, <1>2, CardsChange

LEMMA FindKeeps ==
  ASSUME CentreInv, NEW h \in Handlers, Centre!Find(h)
  PROVE  CentreInv'
<1> DEFINE found == press[h].item \in Tasks /\ Centre!Listed(press[h].item) /\ OwnerOf[press[h].item] = press[h].user
<1>1. /\ press[h].at = "find" /\ RowsStay /\ overlapped' = overlapped /\ taskCard' = taskCard
  BY FrameIs DEF Centre!Find, Centre!bulkVars
<1>2. press[h] \in PressType /\ pending \in [Cards -> Tasks \cup {"none"}] /\ taskCard \in [Cards -> CardType]
  BY DEF CentreInv, CentreTypes
<1>3. CASE pending' = pending /\ Centre!Drawing(h, Centre!ListButtons(press[h].user))
  BY <1>1, <1>2, <1>3, ListIs, DrawingKeeps DEF CardsTyped
<1>4. CASE pending' = pending /\ found /\ Centre!Drawing(h, Centre!DetailButtons(press[h].item))
  BY <1>1, <1>2, <1>4, DetailIs, DrawingKeeps DEF CardsTyped
<1>5. CASE /\ found /\ pending' = [pending EXCEPT ![press[h].card] = press[h].item]
           /\ Centre!Drawing(h, Centre!ConfirmButtons(press[h].item))
  <2>1. CardsTyped
    BY <1>1, <1>2, <1>5 DEF CardsTyped
  <2> QED
    BY <1>1, <1>5, <2>1, DetailIs, DrawingKeeps
<1>6. CASE /\ press[h].action \in {"start", "pause", "resume"} /\ pending' = pending
           /\ Centre!Step(h, [press[h] EXCEPT !.at = "operate"])
  <2>1. CardsTyped /\ press[h].action \in Operations /\ "operate" \in Stages
    BY <1>1, <1>2, <1>6 DEF CardsTyped, Operations, Stages
  <2> QED
    BY <1>1, <1>6, <2>1, PlaceKeeps
<1>7. CASE /\ press[h].action = "confirm" /\ pending' = [pending EXCEPT ![press[h].card] = "none"]
           /\ \/ Centre!Step(h, [press[h] EXCEPT !.at = "operate"])
              \/ Centre!Step(h, Centre!Free)
  <2>1. CardsTyped
    BY <1>1, <1>2, <1>7 DEF CardsTyped
  <2>2. press[h].action \in Operations /\ "operate" \in Stages
    BY <1>7 DEF Operations, Stages
  <2> QED
    BY <1>1, <1>7, <2>1, <2>2, PlaceKeeps, FreeKeeps
<1> QED
  BY <1>3, <1>4, <1>5, <1>6, <1>7, TasksAre DEF Centre!Find

LEMMA LookKeeps ==
  ASSUME CentreInv, NEW h \in Handlers, Centre!Look(h)
  PROVE  CentreInv'
<1>1. /\ press[h].at = "operate" /\ press[h].item \in Channel /\ RowsStay /\ CardsTyped
      /\ overlapped' = overlapped
      /\ \/ Centre!Step(h, [press[h] EXCEPT !.at = "shown"])
         \/ Centre!Step(h, [press[h] EXCEPT !.at = "row"])
  BY FrameIs DEF Centre!Look, Centre!bulkVars
<1>2. press[h].action \in Operations /\ {"shown", "row"} \subseteq Stages
  BY <1>1 DEF CentreInv, PressFits, Fits, Stages
<1>3. CASE Centre!Step(h, [press[h] EXCEPT !.at = "shown"])
  BY <1>1, <1>2, <1>3, PlaceKeeps
<1>4. CASE Centre!Step(h, [press[h] EXCEPT !.at = "row"])
  BY <1>1, <1>2, <1>4, PlaceKeeps
<1> QED
  BY <1>1, <1>3, <1>4

LEMMA ShowAgainKeeps ==
  ASSUME CentreInv, NEW h \in Handlers, Centre!ShowAgain(h)
  PROVE  CentreInv'
<1>1. /\ press[h].at = "shown" /\ RowsStay /\ CardsTyped /\ overlapped' = overlapped
      /\ \/ Centre!Listed(press[h].item) /\ press[h].action # "confirm"
            /\ Centre!Drawing(h, Centre!DetailButtons(press[h].item))
         \/ Centre!Drawing(h, Centre!ListButtons(press[h].user))
  BY FrameIs DEF Centre!ShowAgain, Centre!bulkVars
<1>2. press[h].item \in Tasks
  BY <1>1 DEF CentreInv, PressFits, Fits
<1> QED
  BY <1>1, <1>2, ListIs, DetailIs, DrawingKeeps

LEMMA ReplyKeeps ==
  ASSUME CentreInv, NEW h \in Handlers, Centre!Reply(h)
  PROVE  CentreInv'
BY FrameIs, FreeKeeps DEF Centre!Reply, Centre!bulkVars

\* What is over stays so.
Over(i) == ~Centre!Open(i)
LEMMA OperateMemoryKeeps ==
  ASSUME CentreInv, NEW h \in Handlers, Centre!OperateMemory(h)
  PROVE  CentreInv'
<1> DEFINE i == press[h].item
           a == press[h].action
           g == CASE a = "pause" -> "paused" [] a = "resume" -> "open" [] a = "confirm" -> "cancelled"
                  [] OTHER -> exec[i]
           q == [press[h] EXCEPT !.at = "shown"]
<1>1. /\ CentreTypes /\ PressFits /\ JobsFit /\ press[h] \in PressType
  BY DEF CentreInv, CentreTypes
<1>2. /\ press[h].at = "operate" /\ i \in Memory /\ press' = [press EXCEPT ![h] = q]
      /\ exec' = IF exec[i] \in {"open", "paused"} THEN [exec EXCEPT ![i] = g] ELSE exec
      /\ taskJob' = taskJob /\ taskCard' = taskCard /\ pending' = pending /\ overlapped' = overlapped
      /\ bulk' = bulk /\ left' = left /\ omitted' = omitted
  BY DEF Centre!OperateMemory, Centre!Step, Centre!bulkVars
<1>3. i \in Tasks /\ i \notin Channel /\ g \in Groups
  BY <1>1, <1>2 DEF CentreTypes, Tasks, Groups
<1>4. q \in PressType /\ Fits(q) /\ q.at = "shown"
  <2>1. "shown" \in Stages /\ Fits(press[h])
    BY <1>1 DEF Stages, PressFits
  <2>2. q \in PressType /\ q.at = "shown" /\ q.action = press[h].action /\ q.item = press[h].item
    BY <1>1, <2>1, PlaceIs
  <2> HIDE DEF q
  <2> QED
    BY <1>2, <2>1, <2>2 DEF Fits
<1> HIDE DEF g, q
<1>5. /\ exec' \in [Tasks -> Groups] /\ \A j \in Tasks \ {i} : exec'[j] = exec[j]
      /\ exec[i] \notin {"open", "paused"} => exec' = exec
  BY <1>1, <1>2, <1>3 DEF CentreTypes
<1>6. press' \in [Handlers -> PressType] /\ PressFits' /\ \A j \in Channel : SameCommands(j)
  BY <1>2, <1>4, PressMoves
<1>7. JobsFit'
  <2>1. \A j \in Channel : exec'[j] = exec[j]
    BY <1>3, <1>5 DEF Tasks
  <2> QED
    BY <1>1, <1>2, <1>6, <2>1, JobsStand
<1>8. BulkFits' /\ LeftFits'
  <2>1. \A j \in Tasks : Centre!Open(j)' => Centre!Open(j)
    BY <1>2, <1>3, <1>5 DEF Centre!Open
  <2> QED
    BY <1>2, <2>1, BulkStands
<1>9. CentreTypes'
  BY <1>1, <1>2, <1>5, <1>6 DEF CentreTypes
<1> QED
  BY <1>6, <1>7, <1>8, <1>9 DEF CentreInv

\* The row of a channel job changes, whatever is open stays or is over.
LEMMA RowIsSet ==
  ASSUME CentreTypes, NEW j \in Channel, NEW st \in Statuses, taskJob' = [taskJob EXCEPT ![j].status = st]
  PROVE  /\ taskJob' \in [Channel -> ListedRow] /\ taskJob'[j].status = st
         /\ \A i \in Channel \ {j} : taskJob'[i] = taskJob[i]
<1> DEFINE x == [taskJob[j] EXCEPT !.status = st]
<1>1. taskJob[j] \in ListedRow /\ taskJob' = [taskJob EXCEPT ![j] = x]
  BY DEF CentreTypes
<1>2. x \in ListedRow /\ x.status = st
  BY <1>1 DEF ListedRow
<1> HIDE DEF x
<1> QED
  BY <1>1, <1>2 DEF CentreTypes

LEMMA RowMoves ==
  ASSUME CentreInv, NEW j \in Channel, taskJob' \in [Channel -> ListedRow], exec' = exec,
         \A i \in Channel \ {j} : taskJob'[i] = taskJob[i], Centre!Open(j)' => Centre!Open(j),
         bulk' = bulk, left' = left, omitted' = omitted
  PROVE  BulkFits' /\ LeftFits'
<1>1. \A i \in Tasks : Centre!Open(i)' => Centre!Open(i)
  BY DEF Centre!Open
<1>2. BulkFits'
  BY <1>1 DEF CentreInv, BulkFits, Tasks
<1>3. LeftFits'
  BY <1>1 DEF CentreInv, LeftFits, Centre!StopsAllUnlessIdle
<1> QED
  BY <1>2, <1>3

LEMMA ChangeRowKeeps ==
  ASSUME CentreInv, NEW h \in Handlers, Centre!ChangeRow(h)
  PROVE  CentreInv'
<1>0. press[h].item \in Channel /\ press[h].action \in Operations
  BY DEF Centre!ChangeRow, Centre!ChangeGroup, CentreInv, PressFits, Fits
<1> PICK j \in Channel, a \in Operations : j = press[h].item /\ a = press[h].action
  BY <1>0
<1> DEFINE ok == Centre!Takes(a, taskJob[j].status)
           q == [press[h] EXCEPT !.at = IF ok THEN "group" ELSE "shown"]
<1>1. /\ CentreTypes /\ PressFits /\ JobsFit /\ press[h] \in PressType /\ Fits(press[h])
  BY DEF CentreInv, CentreTypes, PressFits
<1>2. /\ press[h].at = "row" /\ press' = [press EXCEPT ![h] = q]
      /\ taskJob' = IF ok THEN [taskJob EXCEPT ![j].status = Centre!Becomes(a)] ELSE taskJob
      /\ overlapped' = IF Centre!Others(h, j) \/ Centre!BulkAt(j) THEN overlapped \cup {j} ELSE overlapped
      /\ exec' = exec /\ taskCard' = taskCard /\ pending' = pending
      /\ bulk' = bulk /\ left' = left /\ omitted' = omitted
  BY DEF Centre!ChangeRow, Centre!Step, Centre!bulkVars
<1>3. j \in Channel /\ a \in Operations
  BY <1>1, <1>2 DEF Fits
<1>4. q \in PressType /\ q.at = (IF ok THEN "group" ELSE "shown") /\ q.action = a /\ q.item = j
  <2>1. {"group", "shown"} \subseteq Stages
    BY DEF Stages
  <2> QED
    BY <1>1, <2>1, PlaceIs
<1> HIDE DEF q
<1>5. Fits(q)
  BY <1>1, <1>3, <1>4 DEF Fits
<1>6. CASE ~ok
  <2>1. press' \in [Handlers -> PressType] /\ PressFits' /\ \A i \in Channel : SameCommands(i)
    BY <1>2, <1>4, <1>5, <1>6, PressMoves
  <2>2. taskJob' = taskJob /\ overlapped \subseteq overlapped'
    BY <1>2, <1>6
  <2>3. JobsFit'
    BY <1>1, <1>2, <2>1, <2>2, JobsStand
  <2>4. BulkFits' /\ LeftFits'
    <3>1. \A i \in Tasks : Centre!Open(i)' => Centre!Open(i)
      BY <1>2, <2>2 DEF Centre!Open
    <3> QED
      BY <1>2, <2>2, <3>1, BulkStands
  <2>5. CentreTypes'
    BY <1>1, <1>2, <2>1, <2>2 DEF CentreTypes
  <2> QED
    BY <2>1, <2>3, <2>4, <2>5 DEF CentreInv
<1>7. CASE ok
  <2> DEFINE st == Centre!Becomes(a)
  <2>1. st \in Statuses /\ RowIs(a, st) /\ taskJob[j].status \in {"queued", "running", "paused"}
    <3>1. /\ a = "pause" => st = "paused"
          /\ a \in {"start", "resume"} => st = "running"
          /\ a = "confirm" => st = "cancelled"
      BY DEF Centre!Becomes
    <3>2. taskJob[j].status \in {"queued", "running", "paused"}
      BY <1>3, <1>7 DEF Centre!Takes, Operations
    <3> HIDE DEF st
    <3> QED
      BY <1>3, <3>1, <3>2 DEF Statuses, RowIs, Operations
  <2>2. taskJob' = [taskJob EXCEPT ![j].status = st]
    BY <1>2, <1>7
  <2> HIDE DEF st
  <2>3. /\ taskJob' \in [Channel -> ListedRow] /\ taskJob'[j].status = st
        /\ \A i \in Channel \ {j} : taskJob'[i] = taskJob[i]
    BY <1>1, <1>3, <2>1, <2>2, RowIsSet
  <2>4. /\ press' \in [Handlers -> PressType] /\ PressFits' /\ press'[h] = q
        /\ \A o \in Handlers \ {h} : press'[o] = press[o]
    BY <1>1, <1>2, <1>4, <1>5, PressIs
  <2>5. \A i \in Channel \ {j} : SameCommands(i)
    BY <1>2, <1>4, <2>4 DEF SameCommands, AtGroup, BulkGroup
  <2>6. ASSUME j \notin overlapped' \cup omitted'
        PROVE  JobFits(j)'
    <3>1. ~Centre!Others(h, j) /\ ~Centre!BulkAt(j) /\ JobFits(j)
      BY <1>1, <1>2, <1>3, <2>6 DEF JobsFit
    <3>2. \A o \in Handlers \ {h} : ~AtGroup(o, j)'
      BY <2>4, <3>1 DEF Centre!Others, AtGroup
    <3>3. ~BulkGroup(j)'
      BY <1>2, <3>1 DEF Centre!BulkAt, BulkGroup
    <3>4. AtGroup(h, j)' /\ press'[h].action = a
      BY <1>4, <1>7, <2>4 DEF AtGroup
    <3>5. exec'[j] # "cancelled"
      BY <1>2, <2>1, <3>1 DEF JobFits
    <3> QED
      BY <2>1, <2>3, <3>2, <3>3, <3>4, <3>5 DEF JobFits, RowIs
  <2>7. JobsFit'
    <3>1. \A i \in Channel \ {j} : i \notin overlapped' => i \notin overlapped
      BY <1>2
    <3>2. \A i \in Channel \ {j} : JobFits(i) => JobFits(i)'
      BY <1>2, <2>3, <2>5, JobStands
    <3> QED
      BY <1>1, <1>2, <2>6, <3>1, <3>2 DEF JobsFit
  <2>8. BulkFits' /\ LeftFits'
    <3>1. Centre!Open(j)
      BY <1>3, <2>1 DEF Centre!Open
    <3> QED
      BY <1>2, <1>3, <2>3, <3>1, RowMoves
  <2>9. CentreTypes'
    BY <1>1, <1>2, <2>3, <2>4 DEF CentreTypes
  <2> QED
    BY <2>4, <2>7, <2>8, <2>9 DEF CentreInv
<1> QED
  BY <1>6, <1>7

\* A group is changed; it does not open again.
LEMMA GroupIsSet ==
  ASSUME CentreTypes, NEW j \in Tasks, NEW a \in Operations, exec' = [exec EXCEPT ![j] = Centre!GroupAfter(a, exec[j])]
  PROVE  /\ exec' \in [Tasks -> Groups] /\ \A i \in Tasks \ {j} : exec'[i] = exec[i]
         /\ exec[j] \notin {"open", "paused"} => exec'[j] = exec[j]
         /\ exec[j] \in {"open", "paused"} =>
              /\ a = "pause" => exec'[j] = "paused"
              /\ a \in {"start", "resume"} => exec'[j] = "open"
              /\ a = "confirm" => exec'[j] = "cancelled"
<1> DEFINE g == Centre!GroupAfter(a, exec[j])
<1>1. exec' = [exec EXCEPT ![j] = g] /\ exec[j] \in Groups
  BY DEF CentreTypes
<1>2. /\ exec[j] \notin {"open", "paused"} => g = exec[j]
      /\ exec[j] \in {"open", "paused"} => /\ a = "pause" => g = "paused"
                                           /\ a \in {"start", "resume"} => g = "open"
                                           /\ a = "confirm" => g = "cancelled"
  BY DEF Centre!GroupAfter
<1> HIDE DEF g
<1>3. g \in Groups
  BY <1>1, <1>2 DEF Groups, Operations
<1> QED
  BY <1>1, <1>2, <1>3 DEF CentreTypes

LEMMA GroupMoves ==
  ASSUME CentreInv, NEW j \in Channel, exec' \in [Tasks -> Groups],
         \A i \in Tasks \ {j} : exec'[i] = exec[i], taskJob' = taskJob
  PROVE  \A i \in Tasks : Centre!Open(i)' <=> Centre!Open(i)
BY DEF Centre!Open, CentreInv, CentreTypes

LEMMA ChangeGroupKeeps ==
  ASSUME CentreInv, NEW h \in Handlers, Centre!ChangeGroup(h)
  PROVE  CentreInv'
<1>0. press[h].item \in Channel /\ press[h].action \in Operations
  BY DEF Centre!ChangeRow, Centre!ChangeGroup, CentreInv, PressFits, Fits
<1>p. PICK j \in Channel, a \in Operations : j = press[h].item /\ a = press[h].action
  BY <1>0
<1> DEFINE q == [press[h] EXCEPT !.at = "shown"]
<1>1. /\ CentreTypes /\ PressFits /\ JobsFit /\ press[h] \in PressType /\ Fits(press[h])
  BY DEF CentreInv, CentreTypes, PressFits
<1>2. /\ press[h].at = "group" /\ press' = [press EXCEPT ![h] = q]
      /\ exec' = [exec EXCEPT ![j] = Centre!GroupAfter(a, exec[j])] /\ taskJob' = taskJob
      /\ overlapped' = overlapped /\ taskCard' = taskCard /\ pending' = pending
      /\ bulk' = bulk /\ left' = left /\ omitted' = omitted
  BY <1>p DEF Centre!ChangeGroup, Centre!Step, Centre!bulkVars
<1>3. j \in Channel /\ a \in Operations /\ j \in Tasks
  BY <1>p DEF Tasks
<1>4. q \in PressType /\ q.at = "shown" /\ q.action = a /\ q.item = j
  <2>1. "shown" \in Stages
    BY DEF Stages
  <2> QED
    BY <1>p, <1>1, <2>1, PlaceIs
<1> HIDE DEF q
<1>5. Fits(q)
  BY <1>1, <1>3, <1>4 DEF Fits
<1>6. /\ exec' \in [Tasks -> Groups] /\ \A i \in Tasks \ {j} : exec'[i] = exec[i]
      /\ exec[j] \notin {"open", "paused"} => exec'[j] = exec[j]
      /\ exec[j] \in {"open", "paused"} =>
           /\ a = "pause" => exec'[j] = "paused"
           /\ a \in {"start", "resume"} => exec'[j] = "open"
           /\ a = "confirm" => exec'[j] = "cancelled"
  <2>1. exec' = [exec EXCEPT ![j] = Centre!GroupAfter(a, exec[j])]
    BY <1>2
  <2> QED
    BY <1>1, <1>3, <2>1, GroupIsSet
<1>7. /\ press' \in [Handlers -> PressType] /\ PressFits' /\ press'[h] = q
      /\ \A o \in Handlers \ {h} : press'[o] = press[o]
  BY <1>1, <1>2, <1>4, <1>5, PressIs
<1>8. \A i \in Channel \ {j} : SameCommands(i)
  BY <1>p, <1>2, <1>4, <1>7 DEF SameCommands, AtGroup, BulkGroup
<1>9. ASSUME j \notin overlapped \cup omitted
      PROVE  JobFits(j)'
  <2>1. JobFits(j) /\ AtGroup(h, j)
    BY <1>p, <1>1, <1>2, <1>3, <1>9 DEF JobsFit, AtGroup
  <2>2. ~BulkGroup(j) /\ RowIs(a, taskJob[j].status) /\ \A o \in Handlers \ {h} : ~AtGroup(o, j)
    BY <1>p, <2>1 DEF JobFits
  <2>3. ~BulkGroup(j)' /\ \A o \in Handlers : ~AtGroup(o, j)'
    BY <1>2, <1>4, <1>7, <2>2 DEF AtGroup, BulkGroup
  <2>4. exec[j] = "cancelled" => taskJob[j].status \in {"ended", "cancelled"}
    BY <2>1 DEF JobFits
  <2>5. exec[j] \in Groups
    BY <1>1, <1>3 DEF CentreTypes
  <2>6. a \in {"pause", "start", "resume", "confirm"}
    BY <1>3 DEF Operations
  <2>7. Centre!Match(j)'
    BY <1>2, <1>6, <2>2, <2>4, <2>5, <2>6 DEF Centre!Match, RowIs, Groups
  <2>8. exec'[j] = "cancelled" => taskJob'[j].status \in {"ended", "cancelled"}
    BY <1>2, <1>6, <2>2, <2>4, <2>5, <2>6 DEF RowIs, Groups
  <2> QED
    BY <2>3, <2>7, <2>8 DEF JobFits
<1>10. JobsFit'
  <2>1. \A i \in Channel \ {j} : JobFits(i) => JobFits(i)'
    BY <1>2, <1>6, <1>8, JobStands DEF Tasks
  <2> QED
    BY <1>1, <1>2, <1>9, <2>1 DEF JobsFit
<1>11. BulkFits' /\ LeftFits'
  BY <1>2, <1>3, <1>6, GroupMoves, BulkStands
<1>12. CentreTypes'
  BY <1>1, <1>2, <1>6, <1>7 DEF CentreTypes
<1> QED
  BY <1>7, <1>10, <1>11, <1>12 DEF CentreInv

LEMMA JobMovesKeeps ==
  ASSUME CentreInv, NEW j \in Channel, Centre!JobMoves(j)
  PROVE  CentreInv'
<1>1. /\ CentreTypes /\ PressFits /\ JobsFit /\ taskJob \in [Channel -> ListedRow] /\ taskJob[j] \in ListedRow
  BY DEF CentreInv, CentreTypes
<1>2. /\ exec' = exec /\ taskCard' = taskCard /\ pending' = pending /\ press' = press
      /\ overlapped' = overlapped /\ bulk' = bulk /\ left' = left /\ omitted' = omitted
  BY DEF Centre!JobMoves, Centre!cardVars, Centre!bulkVars
<1>3. /\ taskJob' \in [Channel -> ListedRow] /\ \A i \in Channel \ {j} : taskJob'[i] = taskJob[i]
      /\ \/ taskJob[j].status = "queued" /\ taskJob'[j].status = "running"
         \/ taskJob[j].status = "running" /\ taskJob'[j].status = "ended"
         \/ taskJob[j].status \in {"running", "paused"} /\ taskJob'[j].status = taskJob[j].status
  <2>1. CASE taskJob[j].status = "queued" /\ taskJob' = [taskJob EXCEPT ![j].status = "running"]
    <3>1. "running" \in Statuses
      BY DEF Statuses
    <3> QED
      BY <1>1, <2>1, <3>1, RowIsSet
  <2>2. CASE taskJob[j].status = "running" /\ taskJob' = [taskJob EXCEPT ![j].status = "ended"]
    <3>1. "ended" \in Statuses
      BY DEF Statuses
    <3> QED
      BY <1>1, <2>2, <3>1, RowIsSet
  <2>3. CASE taskJob[j].status \in {"running", "paused"} /\ taskJob' = [taskJob EXCEPT ![j].busy = ~@]
    <3> DEFINE b == ~taskJob[j].busy
               x == [taskJob[j] EXCEPT !.busy = b]
    <3>1. b \in BOOLEAN
      BY Zenon
    <3>2. taskJob' = [taskJob EXCEPT ![j] = x]
      BY <1>1, <2>3
    <3> HIDE DEF b
    <3>3. x \in ListedRow /\ x.status = taskJob[j].status
      BY <1>1, <3>1 DEF ListedRow
    <3> HIDE DEF x
    <3> QED
      BY <1>1, <2>3, <3>2, <3>3
  <2> QED
    BY <2>1, <2>2, <2>3 DEF Centre!JobMoves
<1>4. \A i \in Channel : SameCommands(i)
  BY <1>2 DEF SameCommands, AtGroup, BulkGroup
<1>5. ASSUME j \notin overlapped \cup omitted
      PROVE  JobFits(j)'
  <2>1. JobFits(j)
    BY <1>1, <1>5 DEF JobsFit
  <2>2. Centre!Match(j) => Centre!Match(j)'
    BY <1>2, <1>3 DEF Centre!Match
  <2>3. \A a : RowIs(a, taskJob[j].status) => RowIs(a, taskJob'[j].status)
    BY <1>3 DEF RowIs
  <2>4. ~BulkGroup(j) \/ taskJob[j].status = "cancelled"
    BY <2>1 DEF JobFits
  <2>5. ~BulkGroup(j)' /\ ~BulkGroup(j)
    BY <1>3, <1>4, <2>4 DEF SameCommands
  <2>6. (\A h \in Handlers : ~AtGroup(h, j)) /\ ~BulkGroup(j) => Centre!Match(j)
    BY <2>1 DEF JobFits
  <2>7. /\ \A h \in Handlers : AtGroup(h, j)' => RowIs(press[h].action, taskJob[j].status)
        /\ \A h, o \in Handlers : AtGroup(h, j)' /\ AtGroup(o, j)' => h = o
    BY <1>4, <2>1 DEF JobFits, SameCommands
  <2>8. \A h \in Handlers : AtGroup(h, j)' => RowIs(press'[h].action, taskJob'[j].status)
    BY <1>2, <2>3, <2>7
  <2>9. exec[j] = "cancelled" => taskJob[j].status \in {"ended", "cancelled"}
    BY <2>1 DEF JobFits
  <2> QED
    BY <1>2, <1>3, <1>4, <2>2, <2>5, <2>6, <2>7, <2>8, <2>9 DEF JobFits, SameCommands, RowIs
<1>6. JobsFit'
  <2>1. \A i \in Channel \ {j} : JobFits(i) => JobFits(i)'
    BY <1>2, <1>3, <1>4, JobStands
  <2> QED
    BY <1>1, <1>2, <1>5, <2>1 DEF JobsFit
<1>7. BulkFits' /\ LeftFits'
  <2>1. Centre!Open(j)' => Centre!Open(j)
    BY <1>3 DEF Centre!Open
  <2> QED
    BY <1>2, <1>3, <2>1, RowMoves
<1>8. CentreTypes' /\ PressFits'
  BY <1>1, <1>2, <1>3 DEF CentreTypes, PressFits, Fits
<1> QED
  BY <1>6, <1>7, <1>8 DEF CentreInv

LEMMA DownloadEndsKeeps ==
  ASSUME CentreInv, NEW i \in Tasks, Centre!DownloadEnds(i)
  PROVE  CentreInv'
<1>1. /\ exec[i] = "open" /\ exec' = [exec EXCEPT ![i] = "none"] /\ taskJob' = taskJob
      /\ taskCard' = taskCard /\ pending' = pending /\ press' = press
      /\ overlapped' = overlapped /\ bulk' = bulk /\ left' = left /\ omitted' = omitted
  BY DEF Centre!DownloadEnds, Centre!cardVars, Centre!bulkVars
<1>2. exec \in [Tasks -> Groups]
  BY DEF CentreInv, CentreTypes
<1>3. exec' \in [Tasks -> Groups] /\ exec'[i] = "none" /\ \A j \in Tasks \ {i} : exec'[j] = exec[j]
  BY <1>1, <1>2 DEF Groups
<1>4. CentreTypes' /\ PressFits'
  BY <1>1, <1>3 DEF CentreInv, CentreTypes, PressFits, Fits
<1>5. JobsFit'
  <2>1. \A j \in Channel : SameCommands(j)
    BY <1>1 DEF SameCommands, AtGroup, BulkGroup
  <2>2. ASSUME NEW j \in Channel, JobFits(j)
        PROVE  JobFits(j)'
    <3>1. CASE j # i
      BY <1>1, <1>3, <2>1, <2>2, <3>1, JobStands DEF Tasks
    <3>2. CASE j = i
      <4>1. Centre!Match(j)' /\ exec'[j] # "cancelled"
        BY <1>3, <3>2 DEF Centre!Match
      <4> QED
        BY <1>1, <2>1, <2>2, <4>1 DEF JobFits, SameCommands, RowIs
    <3> QED
      BY <3>1, <3>2
  <2> QED
    BY <1>1, <2>2 DEF CentreInv, JobsFit
<1>6. BulkFits' /\ LeftFits'
  <2>1. \A j \in Tasks : Centre!Open(j)' => Centre!Open(j)
    BY <1>1, <1>3 DEF Centre!Open
  <2> QED
    BY <1>1, <2>1, BulkStands
<1> QED
  BY <1>4, <1>5, <1>6 DEF CentreInv

\* The cancellation of everything.
LEMMA BulkIs ==
  ASSUME NEW u \in Users \cup {"none"}
  PROVE  LET b == [Centre!NoBulk EXCEPT !.at = "asked", !.user = u] IN
         /\ Centre!NoBulk \in BulkType /\ Centre!NoBulk.at = "free"
         /\ b \in BulkType /\ b.at = "asked"
<1> DEFINE a == [Centre!NoBulk EXCEPT !.at = "asked"]
           b == [a EXCEPT !.user = u]
<1>1. Centre!NoBulk \in BulkType /\ Centre!NoBulk.at = "free"
  BY DEF Centre!NoBulk, BulkType
<1>2. a \in BulkType /\ a.at = "asked"
  BY <1>1 DEF BulkType
<1>3. [Centre!NoBulk EXCEPT !.at = "asked", !.user = u] = b
  OBVIOUS
<1> HIDE DEF a
<1>4. b \in BulkType /\ b.at = "asked"
  BY <1>2 DEF BulkType
<1> HIDE DEF b
<1> QED
  BY <1>1, <1>3, <1>4

LEMMA BulkRests ==
  ASSUME CentreInv, bulk' \in BulkType, bulk'.at \in {"free", "asked"}, bulk.at # "group",
         press' = press, taskJob' = taskJob, taskCard' = taskCard, pending' = pending,
         exec' = exec, overlapped' = overlapped, left' = left, omitted' = omitted
  PROVE  CentreInv'
<1>1. CentreTypes' /\ PressFits'
  BY DEF CentreInv, CentreTypes, PressFits, Fits
<1>2. JobsFit'
  <2>1. \A j \in Channel : SameCommands(j)
    BY DEF SameCommands, AtGroup, BulkGroup
  <2> QED
    BY <2>1, JobsStand DEF CentreInv
<1>3. BulkFits'
  BY DEF BulkFits
<1>4. LeftFits'
  BY DEF CentreInv, LeftFits, Centre!StopsAllUnlessIdle, Centre!Open
<1> QED
  BY <1>1, <1>2, <1>3, <1>4 DEF CentreInv

LEMMA AskKeeps ==
  ASSUME CentreInv, NEW u \in Users, Centre!AskAll(u)
  PROVE  CentreInv'
<1>1. /\ bulk.at = "free" /\ bulk' = [Centre!NoBulk EXCEPT !.at = "asked", !.user = u]
      /\ press' = press /\ taskJob' = taskJob /\ taskCard' = taskCard /\ pending' = pending
      /\ exec' = exec /\ overlapped' = overlapped /\ left' = left /\ omitted' = omitted
  BY DEF Centre!AskAll, Centre!cardVars
<1> DEFINE b == [Centre!NoBulk EXCEPT !.at = "asked", !.user = u]
<1>2. b \in BulkType /\ b.at = "asked"
  BY BulkIs
<1> HIDE DEF b
<1>3. bulk' = b
  BY <1>1 DEF b
<1> QED
  BY <1>1, <1>2, <1>3, BulkRests

LEMMA NoKeeps ==
  ASSUME CentreInv, Centre!AnswerNo
  PROVE  CentreInv'
<1>1. Centre!NoBulk \in BulkType /\ Centre!NoBulk.at = "free"
  BY BulkIs
<1> QED
  BY <1>1, BulkRests DEF Centre!AnswerNo, Centre!cardVars

\* The jobs to cancel are listed; what is open and not among them is omitted.
LEMMA YesKeeps ==
  ASSUME CentreInv, Centre!AnswerYes
  PROVE  CentreInv'
<1> DEFINE mine == {j \in Channel : OwnerOf[j] = bulk.user}
           rest == {j \in mine : Centre!ListedJob(j)}
           all == {i \in Tasks : OwnerOf[i] = bulk.user /\ Centre!Open(i)}
           x == [bulk EXCEPT !.at = "next"]
           y == [x EXCEPT !.todo = rest]
           z == [y EXCEPT !.all = all]
<1>1. /\ bulk.at = "asked" /\ bulk' = z
      /\ omitted' = omitted \cup {j \in mine : Centre!Open(j) /\ ~Centre!ListedJob(j)}
      /\ press' = press /\ taskJob' = taskJob /\ taskCard' = taskCard /\ pending' = pending
      /\ exec' = exec /\ overlapped' = overlapped /\ left' = left
  BY TasksAre DEF Centre!AnswerYes, Centre!cardVars
<1>2. rest \in SUBSET Channel /\ all \in SUBSET Tasks
  OBVIOUS
<1>3. \A i \in all : OwnerOf[i] = bulk.user
  OBVIOUS
<1>4. \A j \in Channel \ omitted' : OwnerOf[j] = bulk.user /\ Centre!Open(j) => j \in rest
  BY <1>1
<1> HIDE DEF rest, all
<1>5. bulk \in BulkType
  BY DEF CentreInv, CentreTypes
<1>6. x \in BulkType /\ x.at = "next" /\ x.user = bulk.user
  BY <1>5 DEF BulkType
<1> HIDE DEF x
<1>7. y \in BulkType /\ y.at = "next" /\ y.user = bulk.user /\ y.todo = rest
  BY <1>2, <1>6 DEF BulkType
<1> HIDE DEF y
<1>8. z \in BulkType /\ z.at = "next" /\ z.user = bulk.user /\ z.todo = rest /\ z.all = all
  BY <1>2, <1>7 DEF BulkType
<1> HIDE DEF z
<1>9. CentreTypes' /\ PressFits'
  BY <1>1, <1>8 DEF CentreInv, CentreTypes, PressFits, Fits
<1>10. JobsFit'
  <2>1. \A j \in Channel : SameCommands(j)
    BY <1>1, <1>8 DEF SameCommands, AtGroup, BulkGroup
  <2> QED
    BY <1>1, <2>1, JobsStand DEF CentreInv
<1>11. BulkFits'
  <2>1. \A j \in Channel : Centre!Open(j)' <=> Centre!Open(j)
    BY <1>1 DEF Centre!Open
  <2> QED
    BY <1>1, <1>3, <1>4, <1>8, <2>1 DEF BulkFits
<1>12. LeftFits'
  BY <1>1 DEF CentreInv, LeftFits, Centre!StopsAllUnlessIdle, Centre!Open
<1> QED
  BY <1>9, <1>10, <1>11, <1>12 DEF CentreInv

LEMMA CancelNextKeeps ==
  ASSUME CentreInv, Centre!CancelNext
  PROVE  CentreInv'
<1>1. PICK j \in bulk.todo :
        /\ taskJob' = IF Centre!Open(j) THEN [taskJob EXCEPT ![j].status = "cancelled"] ELSE taskJob
        /\ bulk' = [bulk EXCEPT !.todo = IF Centre!Open(j) THEN @ \ {j} ELSE Centre!Remaining(@, j),
                                !.job = j, !.at = IF Centre!Open(j) THEN "group" ELSE "next"]
        /\ overlapped' = IF \E h \in Handlers : press[h].at \in {"row", "group"} /\ press[h].item = j
                         THEN overlapped \cup {j} ELSE overlapped
  BY DEF Centre!CancelNext
<1>2. /\ bulk.at = "next" /\ press' = press /\ taskCard' = taskCard /\ pending' = pending
      /\ exec' = exec /\ left' = left /\ omitted' = omitted /\ overlapped \subseteq overlapped'
  BY <1>1 DEF Centre!CancelNext, Centre!cardVars
<1>3. bulk \in BulkType /\ taskJob \in [Channel -> ListedRow] /\ CentreTypes
  BY DEF CentreInv, CentreTypes
<1>4. j \in Channel /\ j \in Tasks
  BY <1>3 DEF BulkType, Tasks
<1> DEFINE rest == bulk.todo \ {j}
           st == IF Centre!Open(j) THEN "group" ELSE "next"
           x == [bulk EXCEPT !.todo = rest]
           y == [x EXCEPT !.job = j]
           z == [y EXCEPT !.at = st]
<1>5. bulk' = z
  BY <1>1, <1>3 DEF Centre!Remaining, BulkType
<1>6. rest \in SUBSET Channel /\ st \in {"next", "group"} /\ bulk.all \in SUBSET Tasks
  BY <1>3 DEF BulkType
<1>7. Centre!Open(j) <=> st = "group"
  OBVIOUS
<1>8. \A i \in Channel : i \in bulk.todo => i \in rest \/ i = j
  OBVIOUS
<1> HIDE DEF rest, st
<1>9. x \in BulkType /\ x.user = bulk.user /\ x.todo = rest /\ x.all = bulk.all
  BY <1>3, <1>6 DEF BulkType
<1> HIDE DEF x
<1>10. y \in BulkType /\ y.user = bulk.user /\ y.todo = rest /\ y.all = bulk.all /\ y.job = j
  BY <1>4, <1>9 DEF BulkType
<1> HIDE DEF y
<1>11. z \in BulkType /\ z.at = st /\ z.user = bulk.user /\ z.todo = rest /\ z.all = bulk.all /\ z.job = j
  BY <1>6, <1>10 DEF BulkType
<1> HIDE DEF z
<1>12. /\ taskJob' \in [Channel -> ListedRow] /\ \A i \in Channel \ {j} : taskJob'[i] = taskJob[i]
       /\ Centre!Open(j) => taskJob'[j].status = "cancelled"
       /\ ~Centre!Open(j) => taskJob'[j] = taskJob[j]
  <2>1. CASE Centre!Open(j)
    <3>1. taskJob' = [taskJob EXCEPT ![j].status = "cancelled"] /\ "cancelled" \in Statuses
      BY <1>1, <2>1 DEF Statuses
    <3> QED
      BY <1>3, <1>4, <2>1, <3>1, RowIsSet
  <2>2. CASE ~Centre!Open(j)
    BY <1>1, <1>3, <2>2
  <2> QED
    BY <2>1, <2>2
<1>13. CentreTypes' /\ PressFits'
  BY <1>2, <1>3, <1>5, <1>11, <1>12 DEF CentreInv, CentreTypes, PressFits, Fits
<1>14. ~Centre!Open(j)' /\ \A i \in Tasks : Centre!Open(i)' => Centre!Open(i)
  BY <1>2, <1>4, <1>12 DEF Centre!Open
<1>15. \A i \in Channel \ {j} : SameCommands(i)
  BY <1>2, <1>5, <1>11 DEF SameCommands, AtGroup, BulkGroup
<1>16. ASSUME j \notin overlapped' \cup omitted'
       PROVE  JobFits(j)'
  <2>1. JobFits(j)
    BY <1>2, <1>4, <1>16 DEF CentreInv, JobsFit
  <2>2. \A h \in Handlers : ~AtGroup(h, j)'
    BY <1>1, <1>2, <1>16 DEF AtGroup
  <2>3. CASE Centre!Open(j)
    <3>1. BulkGroup(j)' /\ taskJob'[j].status = "cancelled"
      BY <1>5, <1>7, <1>11, <1>12, <2>3 DEF BulkGroup
    <3> QED
      BY <2>2, <3>1 DEF JobFits
  <2>4. CASE ~Centre!Open(j)
    <3>1. SameCommands(j)
      BY <1>2, <1>5, <1>7, <1>11, <2>4 DEF SameCommands, AtGroup, BulkGroup
    <3> QED
      BY <1>2, <1>4, <1>12, <2>1, <2>4, <3>1, JobStands
  <2> QED
    BY <2>3, <2>4
<1>17. JobsFit'
  <2>1. \A i \in Channel \ {j} : JobFits(i) => JobFits(i)'
    BY <1>2, <1>12, <1>15, JobStands
  <2> QED
    BY <1>2, <1>16, <2>1 DEF CentreInv, JobsFit
<1>18. BulkFits'
  <2>1. \A i \in Channel \ omitted : OwnerOf[i] = bulk.user /\ Centre!Open(i) => i \in bulk.todo
    BY <1>2 DEF CentreInv, BulkFits
  <2>2. \A i \in bulk.all : OwnerOf[i] = bulk.user
    BY <1>2 DEF CentreInv, BulkFits
  <2>3. \A i \in Channel \ omitted' : OwnerOf[i] = bulk'.user /\ Centre!Open(i)' => i \in bulk'.todo
    BY <1>2, <1>5, <1>8, <1>11, <1>14, <2>1 DEF Tasks
  <2> QED
    BY <1>4, <1>5, <1>11, <2>2, <2>3 DEF BulkFits
<1>19. LeftFits'
  BY <1>2, <1>14 DEF CentreInv, LeftFits, Centre!StopsAllUnlessIdle
<1> QED
  BY <1>13, <1>17, <1>18, <1>19 DEF CentreInv

LEMMA CancelGroupKeeps ==
  ASSUME CentreInv, Centre!CancelGroupNext
  PROVE  CentreInv'
<1>0. bulk.at = "group" /\ bulk.job \in Channel
  BY DEF Centre!CancelGroupNext, CentreInv, BulkFits
<1> PICK j \in Channel : j = bulk.job
  BY <1>0
<1> DEFINE z == [bulk EXCEPT !.at = "next"]
<1>1. /\ exec' = [exec EXCEPT ![j] = Centre!GroupAfter("confirm", exec[j])] /\ bulk' = z
      /\ taskJob' = taskJob /\ taskCard' = taskCard /\ pending' = pending /\ press' = press
      /\ overlapped' = overlapped /\ left' = left /\ omitted' = omitted
  BY DEF Centre!CancelGroupNext, Centre!cardVars
<1>2. j \in Tasks /\ "confirm" \in Operations /\ CentreTypes /\ bulk \in BulkType
  BY DEF Tasks, Operations, CentreInv, CentreTypes
<1>3. /\ exec' \in [Tasks -> Groups] /\ \A i \in Tasks \ {j} : exec'[i] = exec[i]
      /\ exec[j] \notin {"open", "paused"} => exec'[j] = exec[j]
      /\ exec[j] \in {"open", "paused"} => exec'[j] = "cancelled"
  BY <1>1, <1>2, GroupIsSet
<1>4. z \in BulkType /\ z.at = "next" /\ z.user = bulk.user /\ z.todo = bulk.todo /\ z.all = bulk.all
  BY <1>2 DEF BulkType
<1> HIDE DEF z
<1>5. CentreTypes' /\ PressFits'
  BY <1>1, <1>2, <1>3, <1>4 DEF CentreInv, CentreTypes, PressFits, Fits
<1>6. \A i \in Channel \ {j} : SameCommands(i)
  BY <1>0, <1>1, <1>4 DEF SameCommands, AtGroup, BulkGroup
<1>7. ASSUME j \notin overlapped \cup omitted
      PROVE  JobFits(j)'
  <2>1. JobFits(j) /\ BulkGroup(j)
    BY <1>0, <1>7 DEF CentreInv, JobsFit, BulkGroup
  <2>2. taskJob[j].status = "cancelled" /\ \A h \in Handlers : ~AtGroup(h, j)
    BY <2>1 DEF JobFits
  <2>3. \A h \in Handlers : ~AtGroup(h, j)'
    BY <1>1, <2>2 DEF AtGroup
  <2>4. exec'[j] \in {"none", "cancelled"}
    BY <1>2, <1>3 DEF CentreTypes, Groups
  <2>5. Centre!Match(j)' /\ ~BulkGroup(j)'
    BY <1>1, <1>4, <2>2, <2>4 DEF Centre!Match, BulkGroup
  <2> QED
    BY <1>1, <2>2, <2>3, <2>5 DEF JobFits
<1>8. JobsFit'
  <2>1. \A i \in Channel \ {j} : JobFits(i) => JobFits(i)'
    BY <1>1, <1>3, <1>6, JobStands DEF Tasks
  <2> QED
    BY <1>1, <1>7, <2>1 DEF CentreInv, JobsFit
<1>9. \A i \in Tasks : Centre!Open(i)' <=> Centre!Open(i)
  BY <1>1, <1>3, GroupMoves
<1>10. BulkFits'
  BY <1>0, <1>1, <1>4, <1>9 DEF CentreInv, BulkFits, Tasks
<1>11. LeftFits'
  BY <1>1, <1>9 DEF CentreInv, LeftFits, Centre!StopsAllUnlessIdle
<1> QED
  BY <1>5, <1>8, <1>10, <1>11 DEF CentreInv

LEMMA StopKeeps ==
  ASSUME CentreInv, Centre!StopOrdinary
  PROVE  CentreInv'
<1>1. /\ bulk.at = "next" /\ bulk.todo = {} /\ exec' = Centre!ForceStop(bulk.user)
      /\ left' = left \cup bulk.all /\ bulk' = Centre!NoBulk
      /\ taskJob' = taskJob /\ taskCard' = taskCard /\ pending' = pending /\ press' = press
      /\ overlapped' = overlapped /\ omitted' = omitted
  BY DEF Centre!StopOrdinary, Centre!cardVars
<1>2. exec \in [Tasks -> Groups] /\ bulk.all \in SUBSET Tasks /\ CentreTypes
  BY DEF CentreInv, CentreTypes, BulkType
<1>3. exec' = [i \in Tasks |-> IF OwnerOf[i] = bulk.user /\ exec[i] \in {"open", "paused"}
                               THEN "cancelled" ELSE exec[i]]
  BY <1>1, TasksAre DEF Centre!ForceStop
<1>4. /\ exec' \in [Tasks -> Groups]
      /\ \A i \in Tasks : exec'[i] = exec[i] \/ (OwnerOf[i] = bulk.user /\ exec'[i] = "cancelled")
      /\ \A i \in Tasks : OwnerOf[i] = bulk.user => exec'[i] \notin {"open", "paused"}
  BY <1>2, <1>3 DEF Groups
<1>5. Centre!NoBulk \in BulkType /\ Centre!NoBulk.at = "free"
  BY BulkIs
<1>6. CentreTypes' /\ PressFits'
  BY <1>1, <1>2, <1>4, <1>5 DEF CentreInv, CentreTypes, PressFits, Fits
<1>7. \A j \in Channel \ omitted : OwnerOf[j] = bulk.user => ~Centre!Open(j)
  BY <1>1 DEF CentreInv, BulkFits
<1>8. \A j \in Channel : SameCommands(j)
  BY <1>1, <1>5 DEF SameCommands, AtGroup, BulkGroup
<1>9. ASSUME NEW j \in Channel \ (overlapped \cup omitted)
      PROVE  JobFits(j)'
  <2>1. JobFits(j) /\ j \in Tasks
    BY DEF CentreInv, JobsFit, Tasks
  <2>2. CASE exec'[j] = exec[j]
    BY <1>1, <1>8, <2>1, <2>2, JobStands
  <2>3. CASE OwnerOf[j] = bulk.user /\ exec'[j] = "cancelled"
    <3>1. taskJob[j] \in ListedRow /\ taskJob[j].status \notin {"queued", "running", "paused"}
      BY <1>2, <1>7, <2>3 DEF Centre!Open, CentreTypes
    <3>2. taskJob[j].status \in {"ended", "cancelled"}
      BY <3>1 DEF ListedRow, Statuses
    <3>3. Centre!Match(j)' /\ exec'[j] = "cancelled" /\ taskJob' = taskJob
      BY <1>1, <2>3, <3>2 DEF Centre!Match
    <3> QED
      BY <1>8, <2>1, <3>2, <3>3 DEF JobFits, SameCommands, RowIs
  <2> QED
    BY <1>4, <2>1, <2>2, <2>3
<1>10. JobsFit'
  BY <1>1, <1>9 DEF JobsFit
<1>11. BulkFits'
  BY <1>1, <1>5 DEF BulkFits
<1>12. LeftFits'
  <2>1. \A i \in Tasks : Centre!Open(i)' => Centre!Open(i)
    BY <1>1, <1>4 DEF Centre!Open
  <2>2. \A i \in left \ omitted : ~Centre!Open(i)' /\ i \in Tasks
    BY <2>1 DEF CentreInv, LeftFits, Centre!StopsAllUnlessIdle
  <2>3. ASSUME NEW i \in bulk.all \ omitted
        PROVE  ~Centre!Open(i)' /\ i \in Tasks
    <3>1. OwnerOf[i] = bulk.user /\ i \in Tasks
      BY <1>1, <1>2 DEF CentreInv, BulkFits
    <3>2. CASE i \in Channel
      BY <1>7, <2>1, <3>1, <3>2
    <3>3. CASE i \notin Channel
      BY <1>4, <3>1, <3>3 DEF Centre!Open
    <3> QED
      BY <3>1, <3>2, <3>3
  <2> QED
    BY <1>1, <1>2, <2>2, <2>3 DEF LeftFits, Centre!StopsAllUnlessIdle, CentreInv
<1> QED
  BY <1>6, <1>10, <1>11, <1>12 DEF CentreInv

LEMMA RestartKeeps ==
  ASSUME CentreInv, Centre!Restart
  PROVE  CentreInv'
<1>1. /\ exec' = [i \in Tasks |-> "none"] /\ taskCard' = [k \in Cards |-> Centre!NoCard]
      /\ pending' = [k \in Cards |-> "none"] /\ press' = [h \in Handlers |-> Centre!Free]
      /\ bulk' = Centre!NoBulk /\ taskJob' = taskJob
      /\ overlapped' = overlapped /\ left' = left /\ omitted' = omitted
  BY TasksAre DEF Centre!Restart
<1>2. Centre!NoBulk \in BulkType /\ Centre!NoBulk.at = "free"
  BY BulkIs
<1>3. Centre!NoCard \in CardType
  BY DEF Centre!NoCard, CardType
<1>4. CentreTypes' /\ PressFits'
  BY <1>1, <1>2, <1>3, FreeIs DEF CentreInv, CentreTypes, PressFits, Groups
<1>5. JobsFit'
  <2> SUFFICES ASSUME NEW j \in Channel  PROVE JobFits(j)'
    BY DEF JobsFit
  <2>1. exec'[j] = "none" /\ ~BulkGroup(j)' /\ \A h \in Handlers : ~AtGroup(h, j)'
    BY <1>1, <1>2, FreeIs DEF BulkGroup, AtGroup, Tasks
  <2>2. Centre!Match(j)'
    BY <2>1 DEF Centre!Match
  <2> QED
    BY <2>1, <2>2 DEF JobFits
<1>6. BulkFits'
  BY <1>1, <1>2 DEF BulkFits
<1>7. LeftFits'
  <2>1. \A i \in Tasks : Centre!Open(i)' => Centre!Open(i)
    BY <1>1 DEF Centre!Open
  <2> QED
    BY <1>1, <2>1 DEF CentreInv, LeftFits, Centre!StopsAllUnlessIdle
<1> QED
  BY <1>4, <1>5, <1>6, <1>7 DEF CentreInv

LEMMA CentreStarts ==
  ASSUME Centre!CardsAssumption, Centre!Init
  PROVE  CentreInv
<1>1. /\ taskJob \in [Channel -> [status : {"queued", "running"}, busy : {TRUE}]]
      /\ exec = [i \in Tasks |-> "open"] /\ taskCard = [k \in Cards |-> Centre!NoCard]
      /\ pending = [k \in Cards |-> "none"] /\ press = [h \in Handlers |-> Centre!Free]
      /\ bulk = Centre!NoBulk /\ left = {}
  BY TasksAre DEF Centre!Init
<1>2. Memory \cap Channel = {}
  BY DEF Centre!CardsAssumption
<1>3. Centre!NoBulk \in BulkType /\ Centre!NoBulk.at = "free"
  BY BulkIs
<1>4. Centre!NoCard \in CardType
  BY DEF Centre!NoCard, CardType
<1>5. taskJob \in [Channel -> ListedRow] /\ \A j \in Channel : taskJob[j].status \in {"queued", "running"}
  BY <1>1 DEF ListedRow, Statuses
<1>6. CentreTypes /\ PressFits
  BY <1>1, <1>2, <1>3, <1>4, <1>5, FreeIs DEF CentreTypes, PressFits, Groups
<1>7. JobsFit
  <2> SUFFICES ASSUME NEW j \in Channel  PROVE JobFits(j)
    BY DEF JobsFit
  <2>1. exec[j] = "open" /\ ~BulkGroup(j) /\ \A h \in Handlers : ~AtGroup(h, j)
    BY <1>1, <1>3, FreeIs DEF BulkGroup, AtGroup, Tasks
  <2>2. Centre!Match(j)
    BY <1>5, <2>1 DEF Centre!Match
  <2> QED
    BY <2>1, <2>2 DEF JobFits
<1>8. BulkFits /\ LeftFits
  BY <1>1, <1>3 DEF BulkFits, LeftFits, Centre!StopsAllUnlessIdle
<1> QED
  BY <1>6, <1>7, <1>8 DEF CentreInv

LEMMA CentreRests ==
  ASSUME CentreInv, UNCHANGED Centre!vars
  PROVE  CentreInv'
<1>1. /\ taskJob' = taskJob /\ exec' = exec /\ taskCard' = taskCard /\ pending' = pending
      /\ press' = press /\ bulk' = bulk /\ overlapped' = overlapped /\ left' = left /\ omitted' = omitted
  BY DEF Centre!vars
<1>2. CentreTypes' /\ PressFits'
  BY <1>1 DEF CentreInv, CentreTypes, PressFits, Fits
<1>3. JobsFit'
  <2>1. \A j \in Channel : SameCommands(j)
    BY <1>1 DEF SameCommands, AtGroup, BulkGroup
  <2> QED
    BY <1>1, <2>1, JobsStand DEF CentreInv
<1>4. BulkFits' /\ LeftFits'
  <2>1. \A i \in Tasks : Centre!Open(i)' => Centre!Open(i)
    BY <1>1 DEF Centre!Open
  <2> QED
    BY <1>1, <2>1, BulkStands
<1> QED
  BY <1>2, <1>3, <1>4 DEF CentreInv

LEMMA CentreStep ==
  ASSUME CentreInv, Centre!Next
  PROVE  CentreInv'
<1>1. ASSUME NEW k \in Cards, NEW u \in Users, Centre!SendCard(k, u)  PROVE CentreInv'
  BY <1>1, SendCardKeeps
<1>2. ASSUME NEW k \in Cards, NEW u \in Users, NEW h \in Handlers, Centre!Press(h, u, k)  PROVE CentreInv'
  BY <1>2, PressKeeps
<1>3. ASSUME NEW h \in Handlers,
             \/ Centre!Find(h) \/ Centre!Draw(h) \/ Centre!OperateMemory(h) \/ Centre!Look(h)
             \/ Centre!ChangeRow(h) \/ Centre!ChangeGroup(h) \/ Centre!ShowAgain(h) \/ Centre!Reply(h)
      PROVE  CentreInv'
  BY <1>3, FindKeeps, DrawKeeps, OperateMemoryKeeps, LookKeeps, ChangeRowKeeps, ChangeGroupKeeps,
     ShowAgainKeeps, ReplyKeeps
<1>4. ASSUME NEW h \in Handlers, NEW u \in Users,
             \/ Centre!PauseCommand(h, u) \/ Centre!ResumeCommand(h, u) \/ Centre!CancelCommand(h, u)
             \/ Centre!OldButton(h, u)
      PROVE  CentreInv'
  <2>1. ASSUME NEW a \in {"pause", "resume", "confirm"}, Centre!Command(h, u, a)  PROVE CentreInv'
    BY <2>1, CommandKeeps
  <2> QED
    BY <1>4, <2>1, OldButtonKeeps DEF Centre!PauseCommand, Centre!ResumeCommand, Centre!CancelCommand
<1>5. ASSUME NEW k \in Cards, Centre!Expire(k)  PROVE CentreInv'
  BY <1>5, ExpireKeeps
<1>6. ASSUME NEW u \in Users, Centre!AskAll(u)  PROVE CentreInv'
  BY <1>6, AskKeeps
<1>7. CASE \/ Centre!AnswerNo \/ Centre!AnswerYes \/ Centre!CancelNext \/ Centre!CancelGroupNext
           \/ Centre!StopOrdinary \/ Centre!Restart
  BY <1>7, NoKeeps, YesKeeps, CancelNextKeeps, CancelGroupKeeps, StopKeeps, RestartKeeps
<1>8. ASSUME NEW j \in Channel, Centre!JobMoves(j)  PROVE CentreInv'
  BY <1>8, JobMovesKeeps
<1>9. ASSUME NEW i \in Tasks, Centre!DownloadEnds(i)  PROVE CentreInv'
  BY <1>9, DownloadEndsKeeps
<1> QED
  BY <1>1, <1>2, <1>3, <1>4, <1>5, <1>6, <1>7, <1>8, <1>9, TasksAre DEF Centre!Next

\* What is asked of the cards and what happens to the jobs is counted.
CentreCounts == cardOps \in 0..MaxOps /\ cardEvents \in 0..MaxEvents
LEMMA CentreCounted ==
  ASSUME Centre!CardsAssumption, CentreCounts, [Centre!Next]_Centre!vars
  PROVE  CentreCounts'
<1>1. MaxOps \in Nat /\ MaxEvents \in Nat
  BY DEF Centre!CardsAssumption
<1>2. CASE Centre!Op \/ Centre!Event \/ Centre!Goes
  BY <1>1, <1>2 DEF CentreCounts, Centre!Op, Centre!Event, Centre!Goes
<1>3. CASE UNCHANGED Centre!vars
  BY <1>3 DEF CentreCounts, Centre!vars
<1>4. CASE Centre!Next
  BY <1>2, <1>4, Zenon
     DEF Centre!Next, Centre!SendCard, Centre!Press, Centre!Find, Centre!Draw, Centre!OperateMemory,
         Centre!Look, Centre!ChangeRow, Centre!ChangeGroup, Centre!ShowAgain, Centre!Reply,
         Centre!PauseCommand, Centre!ResumeCommand, Centre!CancelCommand, Centre!Command,
         Centre!OldButton, Centre!Expire, Centre!AskAll, Centre!AnswerNo, Centre!AnswerYes,
         Centre!CancelNext, Centre!CancelGroupNext, Centre!StopOrdinary, Centre!JobMoves,
         Centre!DownloadEnds, Centre!Restart
<1> QED
  BY <1>3, <1>4

(* The strengthening of the three properties below: one command at a time  *)
(* is between the row of a job and its group, and while everything of a    *)
(* user is being cancelled, what is still open is listed.                  *)
THEOREM CentreInvariant == Centre!CardsAssumption /\ Centre!Spec => [](CentreInv /\ CentreCounts)
<1> SUFFICES ASSUME Centre!CardsAssumption  PROVE Centre!Spec => [](CentreInv /\ CentreCounts)
  OBVIOUS
<1>1. Centre!Init => CentreInv /\ CentreCounts
  <2>1. Centre!Init => CentreCounts
    BY DEF CentreCounts, Centre!Init, Centre!CardsAssumption
  <2> QED
    BY <2>1, CentreStarts
<1>2. CentreInv /\ CentreCounts /\ [Centre!Next]_Centre!vars => (CentreInv /\ CentreCounts)'
  BY CentreStep, CentreRests, CentreCounted
<1> QED
  BY <1>1, <1>2, PTL DEF Centre!Spec

(* The rows, groups, cards and callbacks of the task centre keep their     *)
(* types.                                                                  *)
THEOREM CentreTypeCorrect == Centre!CardsAssumption /\ Centre!Spec => []Centre!TypeOK
<1>1. CentreInv /\ CentreCounts => Centre!TypeOK
  BY TasksAre DEF CentreInv, CentreTypes, CentreCounts, Centre!TypeOK, ListedRow, Statuses, Groups, PressType,
                  Stages, BulkType
<1> QED
  BY <1>1, CentreInvariant, PTL

(* When no command is under way the row of a channel job and its group     *)
(* in the queue agree: a paused job starts no file, a running one is not   *)
(* held back, a cancelled one is gone (operateChannelTaskCenterItem), but  *)
(* for commands that overlapped and jobs that /stop omitted.               *)
THEOREM CommandsAgree == Centre!CardsAssumption /\ Centre!Spec => []Centre!AgreeUnlessOverlapped
<1>1. CentreInv => Centre!AgreeUnlessOverlapped
  <2> SUFFICES ASSUME CentreInv, NEW j \in Channel \ (overlapped \cup omitted), Centre!Quiet(j)
               PROVE  Centre!Match(j)
    BY DEF Centre!AgreeUnlessOverlapped
  <2>1. ~BulkGroup(j) /\ \A h \in Handlers : ~AtGroup(h, j)
    BY DEF Centre!Quiet, Centre!BulkAt, BulkGroup, AtGroup
  <2> QED
    BY <2>1 DEF CentreInv, JobsFit, JobFits
<1> QED
  BY <1>1, CentreInvariant, PTL

(* A confirmed cancellation of everything stops all that ran in the chat   *)
(* when it was confirmed (handleBulkTaskCancelCallback), but for the jobs  *)
(* without a running file at that moment.                                  *)
THEOREM AllIsStopped == Centre!CardsAssumption /\ Centre!Spec => []Centre!StopsAllUnlessIdle
<1>1. CentreInv => Centre!StopsAllUnlessIdle
  BY DEF CentreInv, LeftFits
<1> QED
  BY <1>1, CentreInvariant, PTL
=============================================================================
