----------------------- MODULE SubscriptionCursorProofs -----------------------
(***************************************************************************)
(* Proofs about SubscriptionCursor, for every channel, page size and number*)
(* of jobs, errors and crashes: the cursor passes no message with a file   *)
(* that was not looked at, only "from now" takes it back, and a released   *)
(* message is in a job.                                                    *)
(***************************************************************************)
EXTENDS SubscriptionCursor, TLAPS, WellFoundedInduction

Item(j, i) == job[j].item[i]
Queued(i) == \E j \in Known : Item(j, i) # "absent"

\* The filter held the message back, or a user has looked at it.
Passed(i) == decision[i].st = "blocked" \/ decision[i].label = "normal"

\* A decision says what the classifier or a user said, and a job it names has
\* the message.
DecisionsFit ==
    \A i \in Ids :
        /\ decision[i].label = "ad" => decision[i].st = "blocked"
        /\ decision[i].label = "none" =>
             /\ decision[i].st = "blocked" => i \in Ads
             /\ decision[i].st = "allow" => i \notin Ads
        /\ decision[i].job # 0 => Item(decision[i].job, i) # "absent"
        /\ i \in Ads /\ decision[i].label = "normal" => Queued(i)

\* A review has created the job it goes on with.
ReviewFits ==
    review.at # "idle" =>
        /\ review.id \in Ids /\ review.label # "none" /\ decision[review.id].st # "none"
        /\ review.at \in {"items", "restored"} =>
             review.job \in Known /\ job[review.job].decision = review.id
        /\ review.at = "restored" => Item(review.job, review.id) # "absent"
        /\ review.at = "mark" /\ review.label = "normal" /\ review.id \in Ads =>
             Queued(review.id)

\* A job of the scan has no items yet, or all of its page but what was passed.
WholePage(j) ==
    \A i \in Media \cap (job[j].from..job[j].hi) : Item(j, i) # "absent" \/ Passed(i)
Empty(j) == \A i \in Ids : Item(j, i) = "absent"
JobsFit ==
    \A j \in Jobs :
        /\ job[j].st = "none" => Empty(j)
        /\ job[j].st # "none" /\ job[j].decision = 0 =>
             /\ job[j].from # 0 /\ job[j].to # 0
             /\ Empty(j) \/ WholePage(j)
        /\ job[j].decision # 0 => job[j].to = 0

\* What the scan holds in memory is in the database, up to what the recovery
\* worker did with the same job.
ScanFits ==
    LET r == run["scan"] IN
    /\ r.at # "start"
    /\ r.at \in {"idle", "latest"} => r.job = 0
    /\ r.at # "work" => r.ok = {}
    /\ r.at \in {"filter", "persist", "work"} =>
         /\ r.job \in Known /\ job[r.job].decision = 0
         /\ job[r.job].from = r.last + 1 /\ job[r.job].hi = r.hi
    /\ r.at \in {"filter", "persist"} => Empty(r.job)
    /\ r.at \in {"persist", "work"} =>
         /\ r.page \subseteq Media \cap ((r.last + 1)..r.hi)
         /\ \A i \in (Media \cap ((r.last + 1)..r.hi)) \ r.page : Passed(i)
    /\ r.at = "work" =>
         /\ \A i \in r.page : Item(r.job, i) # "absent"
         /\ \A i \in r.ok : Item(r.job, i) \in {"success", "skipped"}
         /\ r.job \in history.shared \/ \A i \in Ids : Item(r.job, i) = "failed" => i \in r.bad

RecoveryFits ==
    LET r == run["recovery"] IN
    /\ r.at \in {"idle", "start", "work"}
    /\ r.at # "idle" => r.job \in Known /\ ~Empty(r.job)
    /\ r.at = "work" /\ run["scan"].job = r.job => r.job \in history.shared

\* A worker that downloads has claimed the message, and no other has.
ClaimsFit ==
    /\ \A w \in Workers : run[w].claim # 0 =>
         run[w].at = "work" /\ Item(run[w].job, run[w].claim) = "downloading"
    /\ run["scan"].claim # 0 /\ run["recovery"].claim # 0 /\ run["scan"].job = run["recovery"].job =>
         run["scan"].claim # run["recovery"].claim

\* A job that ended with a failure which nobody tries again: the scan closed it
\* by its own results, and recovery had seen the failure.
ClosedWith(j, i) ==
    /\ job[j].st = "completed" /\ job[j].decision = 0 /\ Item(j, i) = "failed"
    /\ \A k \in Ids : Item(j, k) \notin {"pending", "downloading"}

Covered(i) ==
    \/ Tried(i) \/ Passed(i)
    \/ i \in history.jumped \cup history.overshot
    \/ \E j \in history.shared : ClosedWith(j, i)
CoveredTo(n) == \A i \in Media \cap (1..n) : Covered(i)

\* The cursor, the cursor a scan started from, and those its jobs started from.
StartsAreCovered ==
    /\ CoveredTo(sub.cursor)
    /\ run["scan"].at # "idle" => CoveredTo(run["scan"].last)
    /\ \A j \in Known : job[j].decision = 0 => CoveredTo(job[j].from - 1)

CursorInv ==
    /\ TypeOK /\ DecisionsFit /\ ReviewFits /\ JobsFit
    /\ ScanFits /\ RecoveryFits /\ ClaimsFit /\ StartsAreCovered
-----------------------------------------------------------------------------
(* What a step does to the jobs                                             *)

JobTypes == job \in [Jobs -> JobType]
Kept(j) ==
    /\ job'[j].decision = job[j].decision /\ job'[j].from = job[j].from
    /\ job'[j].to = job[j].to /\ job'[j].hi = job[j].hi
Others(j) == \A k \in Jobs \ {j} : job'[k] = job[k]

\* The items in S become v and the job s; everything else stays.
JobStep(j, S, v, s) ==
    /\ Others(j) /\ Kept(j) /\ job'[j].st = s
    /\ \A i \in Ids : job'[j].item[i] = IF i \in S THEN v ELSE job[j].item[i]

\* A new job, without items.
JobNew(j, d, from, to, hi) ==
    /\ j \in Jobs \ Known /\ Others(j)
    /\ job'[j].st = "pending" /\ job'[j].decision = d
    /\ job'[j].from = from /\ job'[j].to = to /\ job'[j].hi = hi
    /\ \A i \in Ids : job'[j].item[i] = "absent"

LEMMA UpdateJob ==
  ASSUME JobTypes, NEW j \in Jobs, NEW rec \in JobType, job' = [job EXCEPT ![j] = rec]
  PROVE  Others(j) /\ job'[j] = rec /\ JobTypes'
BY DEF JobTypes, Others

LEMMA UpdatedJob ==
  ASSUME NEW j \in Jobs, NEW S, NEW v, NEW s, Others(j),
         job'[j].decision = job[j].decision, job'[j].from = job[j].from, job'[j].to = job[j].to,
         job'[j].hi = job[j].hi, job'[j].st = s,
         \A i \in Ids : job'[j].item[i] = IF i \in S THEN v ELSE job[j].item[i]
  PROVE  JobStep(j, S, v, s)
BY DEF JobStep, Kept, Item

\* The forms of an update: the items of a set and the status, one item and the
\* status, one item, the status.
LEMMA UpdateItems ==
  ASSUME JobTypes, NEW j \in Jobs, NEW S, NEW v \in ItemStatus, NEW s \in JobStatus,
         job' = [job EXCEPT ![j] = [job[j] EXCEPT !.item = Put(job[j].item, S, v), !.st = s]]
  PROVE  JobStep(j, S, v, s) /\ JobTypes'
<1> DEFINE f == Put(job[j].item, S, v)
           rec == [job[j] EXCEPT !.item = f, !.st = s]
<1>1. job[j] \in JobType
  BY DEF JobTypes
<1>2. job[j].item \in [Ids -> ItemStatus]
  BY <1>1 DEF JobType
<1>3. f \in [Ids -> ItemStatus] /\ \A i \in Ids : f[i] = IF i \in S THEN v ELSE job[j].item[i]
  BY <1>2 DEF Put
<1> HIDE DEF f
<1>4. /\ rec \in JobType /\ rec.st = s /\ rec.item = f
      /\ rec.decision = job[j].decision /\ rec.from = job[j].from /\ rec.to = job[j].to
      /\ rec.hi = job[j].hi
  BY <1>1, <1>3 DEF JobType
<1>5. job' = [job EXCEPT ![j] = rec]
  BY DEF f
<1> HIDE DEF rec
<1>6. Others(j) /\ job'[j] = rec /\ JobTypes'
  BY <1>4, <1>5, UpdateJob
<1> QED
  BY <1>3, <1>4, <1>6, UpdatedJob

LEMMA UpdateItem ==
  ASSUME JobTypes, NEW j \in Jobs, NEW i \in Ids, NEW v \in ItemStatus, NEW s \in JobStatus,
         job' = [job EXCEPT ![j] = [job[j] EXCEPT !.st = s, !.item = [job[j].item EXCEPT ![i] = v]]]
  PROVE  JobStep(j, {i}, v, s) /\ JobTypes'
<1> DEFINE f == [job[j].item EXCEPT ![i] = v]
           rec == [job[j] EXCEPT !.st = s, !.item = f]
<1>1. job[j] \in JobType
  BY DEF JobTypes
<1>2. job[j].item \in [Ids -> ItemStatus]
  BY <1>1 DEF JobType
<1>3. f \in [Ids -> ItemStatus] /\ \A k \in Ids : f[k] = IF k \in {i} THEN v ELSE job[j].item[k]
  BY <1>2
<1> HIDE DEF f
<1>4. /\ rec \in JobType /\ rec.st = s /\ rec.item = f
      /\ rec.decision = job[j].decision /\ rec.from = job[j].from /\ rec.to = job[j].to
      /\ rec.hi = job[j].hi
  BY <1>1, <1>3 DEF JobType
<1>5. job' = [job EXCEPT ![j] = rec]
  BY DEF f
<1> HIDE DEF rec
<1>6. Others(j) /\ job'[j] = rec /\ JobTypes'
  BY <1>4, <1>5, UpdateJob
<1> QED
  BY <1>3, <1>4, <1>6, UpdatedJob

LEMMA UpdateOne ==
  ASSUME JobTypes, NEW j \in Jobs, NEW i \in Ids, NEW v \in ItemStatus,
         job' = [job EXCEPT ![j].item[i] = v]
  PROVE  JobStep(j, {i}, v, job[j].st) /\ JobTypes'
<1> DEFINE f == [job[j].item EXCEPT ![i] = v]
           rec == [job[j] EXCEPT !.item = f]
<1>1. job[j] \in JobType
  BY DEF JobTypes
<1>2. job[j].item \in [Ids -> ItemStatus]
  BY <1>1 DEF JobType
<1>3. f \in [Ids -> ItemStatus] /\ \A k \in Ids : f[k] = IF k \in {i} THEN v ELSE job[j].item[k]
  BY <1>2
<1> HIDE DEF f
<1>4. /\ rec \in JobType /\ rec.st = job[j].st /\ rec.item = f
      /\ rec.decision = job[j].decision /\ rec.from = job[j].from /\ rec.to = job[j].to
      /\ rec.hi = job[j].hi
  BY <1>1, <1>3 DEF JobType
<1>5. job' = [job EXCEPT ![j] = rec]
  BY DEF f
<1> HIDE DEF rec
<1>6. Others(j) /\ job'[j] = rec /\ JobTypes'
  BY <1>4, <1>5, UpdateJob
<1> QED
  BY <1>3, <1>4, <1>6, UpdatedJob

LEMMA UpdateStatus ==
  ASSUME JobTypes, NEW j \in Jobs, NEW s \in JobStatus, job' = [job EXCEPT ![j].st = s]
  PROVE  JobStep(j, {}, "absent", s) /\ JobTypes'
<1> DEFINE rec == [job[j] EXCEPT !.st = s]
<1>1. job[j] \in JobType
  BY DEF JobTypes
<1>2. /\ rec \in JobType /\ rec.st = s /\ rec.item = job[j].item
      /\ rec.decision = job[j].decision /\ rec.from = job[j].from /\ rec.to = job[j].to
      /\ rec.hi = job[j].hi
  BY <1>1 DEF JobType
<1>3. job' = [job EXCEPT ![j] = rec]
  OBVIOUS
<1> HIDE DEF rec
<1>4. Others(j) /\ job'[j] = rec /\ JobTypes'
  BY <1>2, <1>3, UpdateJob
<1> QED
  BY <1>2, <1>4, UpdatedJob

LEMMA CreateJob ==
  ASSUME JobTypes, NEW j \in Jobs, NEW d \in 0..MaxId, NEW from \in 0..MaxId, NEW to \in 0..MaxId,
         NEW hi \in 0..MaxId, Created(j, d, from, to, hi), 0 \in 0..MaxId
  PROVE  JobNew(j, d, from, to, hi) /\ JobTypes'
<1> DEFINE f == [i \in Ids |-> "absent"]
           rec == [NoJob EXCEPT !.st = "pending", !.decision = d, !.from = from,
                                !.to = to, !.hi = hi]
<1>1. f \in [Ids -> ItemStatus] /\ \A i \in Ids : f[i] = "absent"
  BY DEF ItemStatus
<1>2. NoJob = [st |-> "none", decision |-> 0, from |-> 0, to |-> 0, hi |-> 0, item |-> f]
  BY DEF NoJob
<1> HIDE DEF f
<1>3. /\ rec \in JobType /\ rec.st = "pending" /\ rec.item = f
      /\ rec.decision = d /\ rec.from = from /\ rec.to = to /\ rec.hi = hi
  BY <1>1, <1>2 DEF JobType, JobStatus
<1>4. j \in Jobs \ Known /\ job' = [job EXCEPT ![j] = rec]
  BY DEF Created
<1> HIDE DEF rec
<1>5. JobTypes' /\ job'[j] = rec /\ Others(j)
  BY <1>3, <1>4 DEF JobTypes, Others
<1> QED
  BY <1>1, <1>3, <1>4, <1>5 DEF JobNew, Item
-----------------------------------------------------------------------------
(* Numbers                                                                  *)

\* Every set of numbers that is not empty has a least one.
LEMMA LeastNumber ==
  ASSUME NEW N \in SUBSET Nat, N # {}
  PROVE  \E m \in N : \A k \in N : m <= k
<1>1. PICK m \in N : \A k \in N : <<k, m>> \notin OpToRel(<, Nat)
  BY WFMin, NatLessThanWellFounded, Zenon
<1>2. \A k \in N : ~(k < m)
  BY <1>1, Zenon DEF OpToRel
<1> QED  BY <1>2

\* The cursor a scan reaches: every message up to it was processed.
LEMMA ContiguousHolds ==
  ASSUME CursorAssumption, NEW start \in 0..MaxId, NEW P, NEW F, P \ F \subseteq Ids
  PROVE  /\ Contiguous(start, P, F) \in start..MaxId
         /\ \A i \in (start + 1)..Contiguous(start, P, F) : i \in P \ F
<1> DEFINE N == {c \in start..MaxId : c + 1 \notin P \ F}
<1>1. MaxId \in Nat
  BY DEF CursorAssumption
<1>2. MaxId \in N /\ N \in SUBSET Nat
  BY <1>1 DEF Ids
<1>3. PICK m \in N : \A k \in N : m <= k
  BY <1>2, LeastNumber
<1>4. \A i \in (start + 1)..m : i \in P \ F
  <2> SUFFICES ASSUME NEW i \in (start + 1)..m, i \notin P \ F PROVE FALSE
    OBVIOUS
  <2>1. i - 1 \in start..MaxId /\ (i - 1) + 1 = i /\ i - 1 < m
    BY <1>1
  <2>2. i - 1 \in N
    BY <2>1
  <2> QED  BY <1>1, <1>3, <2>1, <2>2
<1>5. \E c \in start..MaxId :
        /\ \A i \in (start + 1)..c : i \in P \ F
        /\ c + 1 \notin P \ F
  BY <1>3, <1>4
<1> QED  BY <1>5 DEF Contiguous

\* The first message of a job that failed.
LEMMA FirstFailedHolds ==
  ASSUME CursorAssumption, NEW j \in Jobs, ItemsIn(j, {"failed"}) # {}
  PROVE  /\ FirstFailed(j) \in ItemsIn(j, {"failed"})
         /\ \A k \in ItemsIn(j, {"failed"}) : FirstFailed(j) <= k
<1>1. ItemsIn(j, {"failed"}) \in SUBSET Nat
  BY DEF ItemsIn, Ids, CursorAssumption
<1>2. \E i \in ItemsIn(j, {"failed"}) : \A k \in ItemsIn(j, {"failed"}) : i <= k
  BY <1>1, LeastNumber
<1> QED  BY <1>2 DEF FirstFailed
-----------------------------------------------------------------------------
(* What a step does to the memory of the workers                            *)

RunTypes == run \in [Workers -> RunType]
Other(w) == IF w = "scan" THEN "recovery" ELSE "scan"

LEMMA TheWorkers ==
  /\ "scan" \in Workers /\ "recovery" \in Workers
  /\ \A w \in Workers : w \in {"scan", "recovery"} /\ Other(w) \in Workers /\ Other(w) # w
  /\ \A w, v \in Workers : v = w \/ v = Other(w)
BY DEF Workers, Other

\* The memory of a worker, field by field, after a step of its own.
RunStep(w, at, j, last, hi, page, claim, ok, bad) ==
    /\ run'[w].at = at /\ run'[w].job = j /\ run'[w].last = last /\ run'[w].hi = hi
    /\ run'[w].page = page /\ run'[w].claim = claim /\ run'[w].ok = ok /\ run'[w].bad = bad
    /\ run'[Other(w)] = run[Other(w)]

LEMMA UpdateRun ==
  ASSUME RunTypes, NEW w \in Workers, NEW rec \in RunType, run' = [run EXCEPT ![w] = rec]
  PROVE  run'[w] = rec /\ run'[Other(w)] = run[Other(w)] /\ RunTypes'
BY TheWorkers DEF RunTypes

LEMMA IdleTypes ==
  ASSUME CursorAssumption
  PROVE  /\ IdleRun \in RunType /\ IdleReview \in ReviewType
         /\ IdleRun.at = "idle" /\ IdleRun.job = 0 /\ IdleRun.claim = 0
         /\ IdleRun.ok = {} /\ IdleRun.bad = {} /\ IdleRun.page = {} /\ IdleRun.last = 0
         /\ IdleRun.hi = 0
BY DEF CursorAssumption, IdleRun, RunType, IdleReview, ReviewType

LEMMA LeaveRun ==
  ASSUME CursorAssumption, RunTypes, NEW w \in Workers, Leave(w)
  PROVE  run'[w] = IdleRun /\ run'[Other(w)] = run[Other(w)] /\ RunTypes'
BY IdleTypes, UpdateRun DEF Leave

LEMMA GotoRun ==
  ASSUME RunTypes, NEW w \in Workers,
         NEW at \in {"idle", "latest", "filter", "persist", "start", "work"}, Goto(w, at)
  PROVE  /\ RunTypes'
         /\ RunStep(w, at, run[w].job, run[w].last, run[w].hi, run[w].page, run[w].claim,
                    run[w].ok, run[w].bad)
<1> DEFINE rec == [run[w] EXCEPT !.at = at]
<1>1. run[w] \in RunType
  BY DEF RunTypes
<1>2. /\ rec \in RunType /\ rec.at = at /\ rec.job = run[w].job /\ rec.last = run[w].last
      /\ rec.hi = run[w].hi /\ rec.page = run[w].page /\ rec.claim = run[w].claim
      /\ rec.ok = run[w].ok /\ rec.bad = run[w].bad
  BY <1>1 DEF RunType
<1>3. run' = [run EXCEPT ![w] = rec]
  BY DEF Goto
<1> HIDE DEF rec
<1>4. run'[w] = rec /\ run'[Other(w)] = run[Other(w)] /\ RunTypes'
  BY <1>2, <1>3, UpdateRun
<1> QED
  BY <1>2, <1>4 DEF RunStep

LEMMA SelectRun ==
  ASSUME RunTypes, NEW n \in 0..MaxId,
         run' = [run EXCEPT !["scan"].at = "latest", !["scan"].last = n]
  PROVE  /\ RunTypes'
         /\ RunStep("scan", "latest", run["scan"].job, n, run["scan"].hi,
                    run["scan"].page, run["scan"].claim, run["scan"].ok, run["scan"].bad)
<1> DEFINE rec == [run["scan"] EXCEPT !.at = "latest", !.last = n]
<1>1. run["scan"] \in RunType /\ "scan" \in Workers
  BY TheWorkers DEF RunTypes
<1>2. /\ rec \in RunType /\ rec.at = "latest" /\ rec.job = run["scan"].job /\ rec.last = n
      /\ rec.hi = run["scan"].hi /\ rec.page = run["scan"].page /\ rec.claim = run["scan"].claim
      /\ rec.ok = run["scan"].ok
      /\ rec.bad = run["scan"].bad
  BY <1>1 DEF RunType
<1>3. run' = [run EXCEPT !["scan"] = rec]
  OBVIOUS
<1> HIDE DEF rec
<1>4. run'["scan"] = rec /\ run'[Other("scan")] = run[Other("scan")] /\ RunTypes'
  BY <1>1, <1>2, <1>3, UpdateRun
<1> QED
  BY <1>2, <1>4 DEF RunStep

LEMMA LatestRun ==
  ASSUME RunTypes, NEW j \in 0..MaxJobs, NEW n \in 0..MaxId,
         run' = [run EXCEPT !["scan"] = [run["scan"] EXCEPT !.at = "filter", !.job = j, !.hi = n]]
  PROVE  /\ RunTypes'
         /\ RunStep("scan", "filter", j, run["scan"].last, n,
                    run["scan"].page, run["scan"].claim, run["scan"].ok, run["scan"].bad)
<1> DEFINE rec == [run["scan"] EXCEPT !.at = "filter", !.job = j, !.hi = n]
<1>1. run["scan"] \in RunType /\ "scan" \in Workers
  BY TheWorkers DEF RunTypes
<1>2. /\ rec \in RunType /\ rec.at = "filter" /\ rec.job = j /\ rec.last = run["scan"].last
      /\ rec.hi = n /\ rec.page = run["scan"].page /\ rec.claim = run["scan"].claim
      /\ rec.ok = run["scan"].ok
      /\ rec.bad = run["scan"].bad
  BY <1>1 DEF RunType
<1>3. run' = [run EXCEPT !["scan"] = rec]
  OBVIOUS
<1> HIDE DEF rec
<1>4. run'["scan"] = rec /\ run'[Other("scan")] = run[Other("scan")] /\ RunTypes'
  BY <1>1, <1>2, <1>3, UpdateRun
<1> QED
  BY <1>2, <1>4 DEF RunStep

LEMMA FilterRun ==
  ASSUME RunTypes, NEW P \in SUBSET Ids,
         run' = [run EXCEPT !["scan"] = [run["scan"] EXCEPT !.at = "persist", !.page = P]]
  PROVE  /\ RunTypes'
         /\ RunStep("scan", "persist", run["scan"].job, run["scan"].last, run["scan"].hi,
                    P, run["scan"].claim, run["scan"].ok, run["scan"].bad)
<1> DEFINE rec == [run["scan"] EXCEPT !.at = "persist", !.page = P]
<1>1. run["scan"] \in RunType /\ "scan" \in Workers
  BY TheWorkers DEF RunTypes
<1>2. /\ rec \in RunType /\ rec.at = "persist" /\ rec.job = run["scan"].job /\ rec.last = run["scan"].last
      /\ rec.hi = run["scan"].hi /\ rec.page = P /\ rec.claim = run["scan"].claim
      /\ rec.ok = run["scan"].ok
      /\ rec.bad = run["scan"].bad
  BY <1>1 DEF RunType
<1>3. run' = [run EXCEPT !["scan"] = rec]
  OBVIOUS
<1> HIDE DEF rec
<1>4. run'["scan"] = rec /\ run'[Other("scan")] = run[Other("scan")] /\ RunTypes'
  BY <1>1, <1>2, <1>3, UpdateRun
<1> QED
  BY <1>2, <1>4 DEF RunStep

LEMMA ClaimRun ==
  ASSUME RunTypes, NEW w \in Workers, NEW i \in 0..MaxId,
         run' = [run EXCEPT ![w].claim = i]
  PROVE  /\ RunTypes'
         /\ RunStep(w, run[w].at, run[w].job, run[w].last, run[w].hi,
                    run[w].page, i, run[w].ok, run[w].bad)
<1> DEFINE rec == [run[w] EXCEPT !.claim = i]
<1>1. run[w] \in RunType /\ w \in Workers
  BY TheWorkers DEF RunTypes
<1>2. /\ rec \in RunType /\ rec.at = run[w].at /\ rec.job = run[w].job /\ rec.last = run[w].last
      /\ rec.hi = run[w].hi /\ rec.page = run[w].page /\ rec.claim = i
      /\ rec.ok = run[w].ok
      /\ rec.bad = run[w].bad
  BY <1>1 DEF RunType
<1>3. run' = [run EXCEPT ![w] = rec]
  OBVIOUS
<1> HIDE DEF rec
<1>4. run'[w] = rec /\ run'[Other(w)] = run[Other(w)] /\ RunTypes'
  BY <1>1, <1>2, <1>3, UpdateRun
<1> QED
  BY <1>2, <1>4 DEF RunStep

LEMMA SettleRun ==
  ASSUME RunTypes, NEW w \in Workers, NEW G \in SUBSET Ids, NEW B \in SUBSET Ids, 0 \in 0..MaxId,
         run' = [run EXCEPT ![w] = [run[w] EXCEPT !.claim = 0, !.ok = G, !.bad = B]]
  PROVE  /\ RunTypes'
         /\ RunStep(w, run[w].at, run[w].job, run[w].last, run[w].hi,
                    run[w].page, 0, G, B)
<1> DEFINE rec == [run[w] EXCEPT !.claim = 0, !.ok = G, !.bad = B]
<1>1. run[w] \in RunType /\ w \in Workers
  BY TheWorkers DEF RunTypes
<1>2. /\ rec \in RunType /\ rec.at = run[w].at /\ rec.job = run[w].job /\ rec.last = run[w].last
      /\ rec.hi = run[w].hi /\ rec.page = run[w].page /\ rec.claim = 0
      /\ rec.ok = G
      /\ rec.bad = B
  BY <1>1 DEF RunType
<1>3. run' = [run EXCEPT ![w] = rec]
  OBVIOUS
<1> HIDE DEF rec
<1>4. run'[w] = rec /\ run'[Other(w)] = run[Other(w)] /\ RunTypes'
  BY <1>1, <1>2, <1>3, UpdateRun
<1> QED
  BY <1>2, <1>4 DEF RunStep

LEMMA TakeRun ==
  ASSUME CursorAssumption, RunTypes, NEW j \in Jobs,
         run' = [run EXCEPT !["recovery"] = [IdleRun EXCEPT !.at = "start", !.job = j]]
  PROVE  RunTypes' /\ RunStep("recovery", "start", j, 0, 0, {}, 0, {}, {})
<1> DEFINE rec == [IdleRun EXCEPT !.at = "start", !.job = j]
<1>1. j \in 0..MaxJobs
  BY DEF Jobs, CursorAssumption
<1>2. /\ rec \in RunType /\ rec.at = "start" /\ rec.job = j /\ rec.last = 0 /\ rec.hi = 0
      /\ rec.page = {} /\ rec.claim = 0 /\ rec.ok = {} /\ rec.bad = {}
  BY <1>1, IdleTypes DEF RunType
<1>3. run' = [run EXCEPT !["recovery"] = rec]
  OBVIOUS
<1> HIDE DEF rec
<1>4. run'["recovery"] = rec /\ run'[Other("recovery")] = run[Other("recovery")] /\ RunTypes'
  BY <1>2, <1>3, UpdateRun, TheWorkers
<1> QED
  BY <1>2, <1>4 DEF RunStep
-----------------------------------------------------------------------------
(* What each action does, and that it keeps the types                       *)

SR == run["scan"]
RR == run["recovery"]

LEMMA Basics ==
  ASSUME CursorAssumption
  PROVE  /\ MaxId \in Nat \ {0} /\ MaxJobs \in Nat \ {0} /\ Limit \in Nat \ {0} /\ MaxEvents \in Nat
         /\ 0 \in 0..MaxId /\ 0 \in 0..MaxJobs /\ Ids \subseteq 1..MaxId /\ Ids = 1..MaxId
         /\ Jobs = 1..MaxJobs /\ Jobs \subseteq 0..MaxJobs /\ Ids \subseteq 0..MaxId
         /\ Media \subseteq Ids /\ Ads \subseteq Media /\ 0 \notin Ids /\ 0 \notin Jobs
         /\ "scan" \in Workers /\ "recovery" \in Workers
BY DEF CursorAssumption, Ids, Jobs, Workers

LEMMA EventTypes ==
  ASSUME CursorAssumption, events \in 0..MaxEvents, Event \/ UNCHANGED events
  PROVE  events' \in 0..MaxEvents
BY Basics DEF Event

\* The parts of the types.
LEMMA Typing ==
  ASSUME TypeOK
  PROVE  /\ RunTypes /\ JobTypes
         /\ \A w \in Workers : run[w] \in RunType
         /\ \A j \in Jobs : job[j] \in JobType /\ job[j].item \in [Ids -> ItemStatus]
                            /\ job[j].st \in JobStatus /\ job[j].from \in 0..MaxId
                            /\ job[j].to \in 0..MaxId /\ job[j].hi \in 0..MaxId
                            /\ job[j].decision \in 0..MaxId
         /\ \A j \in Jobs : \A i \in Ids : Item(j, i) \in ItemStatus
         /\ \A i \in Ids : decision[i] \in DecisionType
         /\ sub \in SubType /\ sub.cursor \in 0..MaxId
<1>1. \A j \in Jobs : job[j] \in JobType
  BY DEF TypeOK
<1>2. \A j \in Jobs : job[j].item \in [Ids -> ItemStatus]
                            /\ job[j].st \in JobStatus /\ job[j].from \in 0..MaxId
                            /\ job[j].to \in 0..MaxId /\ job[j].hi \in 0..MaxId
                            /\ job[j].decision \in 0..MaxId
  BY <1>1 DEF JobType
<1>3. \A j \in Jobs : \A i \in Ids : Item(j, i) \in ItemStatus
  BY <1>2 DEF Item
<1>4. sub.cursor \in 0..MaxId
  BY DEF TypeOK, SubType
<1> QED  BY <1>1, <1>2, <1>3, <1>4 DEF TypeOK, RunTypes, JobTypes

LEMMA RunTyping ==
  ASSUME TypeOK, NEW w \in Workers
  PROVE  /\ run[w].at \in {"idle", "latest", "filter", "persist", "start", "work"}
         /\ run[w].job \in 0..MaxJobs /\ run[w].last \in 0..MaxId /\ run[w].hi \in 0..MaxId
         /\ run[w].page \in SUBSET Ids /\ run[w].claim \in 0..MaxId
         /\ run[w].ok \in SUBSET Ids /\ run[w].bad \in SUBSET Ids
BY Typing DEF RunType

LEMMA ScanSelectDoes ==
  ASSUME CursorAssumption, TypeOK, ScanSelect
  PROVE  /\ TypeOK' /\ SR.at = "idle"
         /\ RunStep("scan", "latest", SR.job, sub.cursor, SR.hi, SR.page, SR.claim, SR.ok, SR.bad)
<1>1. RunTypes' /\ RunStep("scan", "latest", SR.job, sub.cursor, SR.hi, SR.page, SR.claim, SR.ok, SR.bad)
  BY Typing, SelectRun DEF ScanSelect, SR
<1> QED  BY <1>1 DEF ScanSelect, TypeOK, RunTypes, SR

\* The end of a page is a message.
LEMMA PageEnd ==
  ASSUME NEW m \in Nat, NEW n \in 0..m, NEW k \in 0..m, NEW limit \in Nat, ~(k <= n)
  PROVE  (IF k - n > limit THEN n + limit ELSE k) \in 0..m /\ n + 1 \in 0..m /\ k # 0
OBVIOUS

LEMMA ScanLatestDoes ==
  ASSUME CursorAssumption, TypeOK, ScanLatest
  PROVE  /\ TypeOK' /\ SR.at = "latest" /\ sub'.cursor = sub.cursor
         /\ \/ run'["scan"] = IdleRun /\ run'["recovery"] = RR /\ UNCHANGED job
            \/ \E j \in Jobs, hi \in 0..MaxId :
                 /\ SR.last + 1 \in 0..MaxId
                 /\ JobNew(j, 0, SR.last + 1, latest, hi) /\ latest # 0
                 /\ RunStep("scan", "filter", j, SR.last, hi, SR.page, SR.claim, SR.ok, SR.bad)
<1> USE DEF SR, RR
<1>1. SR.last \in 0..MaxId /\ latest \in 0..MaxId /\ "scan" \in Workers
  BY Basics, RunTyping DEF TypeOK
<1>2. sub' \in SubType /\ sub'.cursor = sub.cursor
  BY DEF ScanLatest, TypeOK, SubType
<1>3. CASE latest <= SR.last
  <2>1. Leave("scan") /\ UNCHANGED job
    BY <1>3 DEF ScanLatest
  <2>2. RunTypes' /\ run'["scan"] = IdleRun /\ run'["recovery"] = run["recovery"]
    BY <2>1, <1>1, LeaveRun, Typing DEF Other
  <2> QED  BY <1>2, <2>1, <2>2 DEF ScanLatest, TypeOK, RunTypes
<1>4. CASE ~(latest <= SR.last)
  <2> DEFINE hi == IF latest - SR.last > Limit THEN SR.last + Limit ELSE latest
  <2>1. hi \in 0..MaxId /\ SR.last + 1 \in 0..MaxId /\ latest # 0
    BY <1>1, <1>4, Basics, PageEnd
  <2>2. PICK j \in Jobs :
          /\ Created(j, 0, SR.last + 1, latest, hi)
          /\ run' = [run EXCEPT !["scan"] = [run["scan"] EXCEPT !.at = "filter", !.job = j, !.hi = hi]]
    BY <1>4 DEF ScanLatest
  <2> HIDE DEF hi
  <2>3. RunTypes' /\ RunStep("scan", "filter", j, SR.last, hi, SR.page, SR.claim, SR.ok, SR.bad)
    BY <2>1, <2>2, Basics, Typing, LatestRun
  <2>4. JobTypes' /\ JobNew(j, 0, SR.last + 1, latest, hi)
    BY <1>1, <2>1, <2>2, Basics, Typing, CreateJob
  <2>5. TypeOK'
    BY <1>2, <2>3, <2>4 DEF ScanLatest, TypeOK, RunTypes, JobTypes
  <2> QED  BY <1>2, <2>1, <2>3, <2>4, <2>5 DEF ScanLatest
<1> QED  BY <1>3, <1>4

\* The decision of message i is set; the others stay.
DecisionStep(i, st, label, restore, j) ==
    /\ decision'[i].st = st /\ decision'[i].label = label
    /\ decision'[i].restore = restore /\ decision'[i].job = j
    /\ \A k \in Ids \ {i} : decision'[k] = decision[k]

DecisionTypes == decision \in [Ids -> DecisionType]

LEMMA UpdateDecision ==
  ASSUME DecisionTypes, NEW i \in Ids, NEW rec \in DecisionType,
         decision' = [decision EXCEPT ![i] = rec]
  PROVE  DecisionTypes' /\ DecisionStep(i, rec.st, rec.label, rec.restore, rec.job)
BY DEF DecisionTypes, DecisionStep

\* What the filter records of a page.
Recorded(i) == sub.filter /\ i \in Media \cap ((SR.last + 1)..SR.hi) /\ decision[i].label = "none"
Filtered ==
    \A i \in Ids :
        /\ decision'[i].label = decision[i].label /\ decision'[i].restore = decision[i].restore
        /\ decision'[i].job = decision[i].job
        /\ Recorded(i) => decision'[i].st = IF Blocked(i) THEN "blocked" ELSE "allow"
        /\ ~Recorded(i) => decision'[i] = decision[i]

LEMMA ScanFilterDoes ==
  ASSUME CursorAssumption, TypeOK, ScanFilter
  PROVE  /\ TypeOK' /\ SR.at = "filter" /\ Filtered
         /\ LET page == Media \cap ((SR.last + 1)..SR.hi) IN
            RunStep("scan", "persist", SR.job, SR.last, SR.hi, {i \in page : ~Blocked(i)},
                    SR.claim, SR.ok, SR.bad)
<1> DEFINE page == Media \cap ((SR.last + 1)..SR.hi)
           kept == {i \in page : ~Blocked(i)}
           st(i) == IF Blocked(i) THEN "blocked" ELSE "allow"
<1>1. kept \in SUBSET Ids /\ page \in SUBSET Ids
  BY Basics
<1>2. run' = [run EXCEPT !["scan"] = [run["scan"] EXCEPT !.at = "persist", !.page = kept]]
  BY DEF ScanFilter, SR
<1>3. decision' = [i \in Ids |-> IF sub.filter /\ i \in page /\ decision[i].label = "none"
                                 THEN [decision[i] EXCEPT !.st = st(i)] ELSE decision[i]]
  BY DEF ScanFilter, SR
<1>4. \A i \in Ids : decision'[i] = IF Recorded(i) THEN [decision[i] EXCEPT !.st = st(i)]
                                    ELSE decision[i]
  BY <1>3 DEF Recorded
<1> HIDE DEF kept
<1>5. RunTypes' /\ RunStep("scan", "persist", SR.job, SR.last, SR.hi, kept, SR.claim, SR.ok, SR.bad)
  BY <1>1, <1>2, Typing, FilterRun DEF SR
<1>6. \A i \in Ids : st(i) \in {"blocked", "allow"} /\ decision[i] \in DecisionType
  BY Typing
<1> HIDE DEF st
<1>7. ASSUME NEW i \in Ids
      PROVE  /\ decision'[i] \in DecisionType
             /\ decision'[i].label = decision[i].label /\ decision'[i].restore = decision[i].restore
             /\ decision'[i].job = decision[i].job
             /\ Recorded(i) => decision'[i].st = st(i)
             /\ ~Recorded(i) => decision'[i] = decision[i]
  <2>1. decision[i] \in DecisionType /\ st(i) \in {"blocked", "allow"}
    BY <1>6
  <2>2. CASE Recorded(i)
    <3>1. decision'[i] = [decision[i] EXCEPT !.st = st(i)]
      BY <1>4, <2>2
    <3> QED  BY <2>1, <2>2, <3>1 DEF DecisionType
  <2>3. CASE ~Recorded(i)
    BY <1>4, <2>1, <2>3
  <2> QED  BY <2>2, <2>3
<1>8. decision' \in [Ids -> DecisionType]
  BY <1>3, <1>7
<1>9. Filtered
  BY <1>7 DEF Filtered, st
<1> QED
  BY <1>5, <1>8, <1>9 DEF ScanFilter, TypeOK, RunTypes, SR, kept

LEMMA ScanPersistDoes ==
  ASSUME CursorAssumption, TypeOK, ScanPersist, SR.job \in Jobs
  PROVE  /\ TypeOK' /\ SR.at = "persist"
         /\ RunStep("scan", "work", SR.job, SR.last, SR.hi, SR.page, SR.claim, SR.ok, SR.bad)
         /\ JobStep(SR.job, SR.page, "pending",
                    IF Movable(SR.job) THEN "running" ELSE job[SR.job].st)
<1> DEFINE s == IF Movable(SR.job) THEN "running" ELSE job[SR.job].st
<1>1. RunTypes' /\ RunStep("scan", "work", SR.job, SR.last, SR.hi, SR.page, SR.claim, SR.ok, SR.bad)
  BY Typing, GotoRun, Basics DEF ScanPersist, SR
<1>2. s \in JobStatus /\ "pending" \in ItemStatus
  BY Typing DEF JobStatus, ItemStatus
<1>3. job' = [job EXCEPT ![SR.job] = [job[SR.job] EXCEPT !.item = Put(job[SR.job].item, SR.page, "pending"),
                                                         !.st = s]]
  <2>1. job[SR.job] \in JobType
    BY Typing
  <2> DEFINE A == Put(job[SR.job].item, SR.page, "pending")
  <2>2. [job[SR.job] EXCEPT !.item = A, !.st = s]
          = [job[SR.job] EXCEPT !.item = A, !.st = IF Movable(SR.job) THEN "running" ELSE @]
    BY <2>1 DEF JobType
  <2> QED  BY <2>2 DEF ScanPersist, SR
<1> HIDE DEF s
<1>4. JobTypes' /\ JobStep(SR.job, SR.page, "pending", s)
  BY <1>2, <1>3, Typing, UpdateItems
<1> QED
  BY <1>1, <1>4 DEF ScanPersist, TypeOK, RunTypes, JobTypes, SR, s

LEMMA ScanThrowsDoes ==
  ASSUME CursorAssumption, TypeOK, ScanThrows
  PROVE  /\ TypeOK' /\ sub'.cursor = sub.cursor
         /\ run'["scan"] = IdleRun /\ run'["recovery"] = RR
<1>1. RunTypes' /\ run'["scan"] = IdleRun /\ run'["recovery"] = RR
  BY Typing, LeaveRun, Basics DEF ScanThrows, Other, RR
<1>2. PICK gone \in BOOLEAN : sub' = [sub EXCEPT !.enabled = sub.enabled /\ ~gone]
  BY DEF ScanThrows
<1>3. sub' \in SubType /\ sub'.cursor = sub.cursor
  <2>1. (sub.enabled /\ ~gone) \in BOOLEAN
    OBVIOUS
  <2> HIDE DEF ScanThrows
  <2>2. sub \in SubType
    BY Typing
  <2> DEFINE e == sub.enabled /\ ~gone
  <2> HIDE DEF e
  <2>3. e \in BOOLEAN
    BY <2>1 DEF e
  <2>4. sub' = [sub EXCEPT !.enabled = e]
    BY <1>2 DEF e
  <2> QED  BY <2>2, <2>3, <2>4 DEF SubType
<1>4. events' \in 0..MaxEvents
  BY EventTypes DEF ScanThrows, TypeOK
<1> QED
  BY <1>1, <1>3, <1>4 DEF ScanThrows, TypeOK, RunTypes

LEMMA ClaimDoes ==
  ASSUME CursorAssumption, TypeOK, NEW w \in Workers, Claim(w), run[w].job \in Jobs
  PROVE  /\ TypeOK' /\ run[w].at = "work" /\ run[w].claim = 0 /\ Runnable(run[w].job)
         /\ \E i \in Ids :
              /\ Item(run[w].job, i) = "pending"
              /\ JobStep(run[w].job, {i}, "downloading", job[run[w].job].st)
              /\ RunStep(w, "work", run[w].job, run[w].last, run[w].hi, run[w].page, i,
                         run[w].ok, run[w].bad)
<1>1. PICK i \in ItemsIn(run[w].job, {"pending"}) :
         /\ job' = [job EXCEPT ![run[w].job].item[i] = "downloading"]
         /\ run' = [run EXCEPT ![w].claim = i]
  BY DEF Claim
<1>2. i \in Ids /\ Item(run[w].job, i) = "pending" /\ i \in 0..MaxId /\ "downloading" \in ItemStatus
  BY Basics DEF ItemsIn, Item, ItemStatus
<1>3. /\ RunTypes'
      /\ RunStep(w, run[w].at, run[w].job, run[w].last, run[w].hi, run[w].page, i,
                 run[w].ok, run[w].bad)
  BY <1>1, <1>2, Typing, ClaimRun
<1>4. JobTypes' /\ JobStep(run[w].job, {i}, "downloading", job[run[w].job].st)
  BY <1>1, <1>2, Typing, UpdateOne
<1>5. TypeOK'
  BY <1>3, <1>4 DEF Claim, TypeOK, RunTypes, JobTypes
<1>6. run[w].at = "work" /\ run[w].claim = 0 /\ Runnable(run[w].job)
  BY DEF Claim
<1> QED
  BY <1>2, <1>3, <1>4, <1>5, <1>6

LEMMA SettleDoes ==
  ASSUME CursorAssumption, TypeOK, NEW w \in Workers, Settle(w), run[w].job \in Jobs
  PROVE  /\ TypeOK' /\ run[w].claim \in Ids
         /\ \E out \in {"success", "failed", "skipped"} :
              /\ JobStep(run[w].job, {run[w].claim}, out, job[run[w].job].st)
              /\ RunStep(w, run[w].at, run[w].job, run[w].last, run[w].hi, run[w].page, 0,
                         IF out = "failed" THEN run[w].ok ELSE run[w].ok \cup {run[w].claim},
                         IF out = "failed" THEN run[w].bad \cup {run[w].claim} ELSE run[w].bad)
<1> DEFINE G(out) == IF out = "failed" THEN run[w].ok ELSE run[w].ok \cup {run[w].claim}
           B(out) == IF out = "failed" THEN run[w].bad \cup {run[w].claim} ELSE run[w].bad
<1>1. PICK out \in {"success", "failed", "skipped"} :
         /\ IF out = "failed" THEN Event ELSE UNCHANGED events
         /\ job' = [job EXCEPT ![run[w].job].item[run[w].claim] = out]
         /\ run' = [run EXCEPT ![w] =
               [run[w] EXCEPT !.claim = 0,
                              !.ok = IF out = "failed" THEN @ ELSE @ \cup {run[w].claim},
                              !.bad = IF out = "failed" THEN @ \cup {run[w].claim} ELSE @]]
  BY DEF Settle
<1>2. run[w].claim \in Ids /\ out \in ItemStatus /\ run[w] \in RunType
  <2>1. run[w].claim \in 0..MaxId /\ run[w].claim # 0
    BY RunTyping DEF Settle
  <2> QED  BY <2>1, Basics, Typing DEF ItemStatus
<1>3. G(out) \in SUBSET Ids /\ B(out) \in SUBSET Ids
  BY <1>2, RunTyping
<1>4. run' = [run EXCEPT ![w] = [run[w] EXCEPT !.claim = 0, !.ok = G(out), !.bad = B(out)]]
  BY <1>1, <1>2 DEF RunType
<1> HIDE DEF G, B
<1>5. /\ RunTypes'
      /\ RunStep(w, run[w].at, run[w].job, run[w].last, run[w].hi, run[w].page, 0, G(out), B(out))
  BY <1>3, <1>4, Typing, SettleRun, Basics
<1>6. JobTypes' /\ JobStep(run[w].job, {run[w].claim}, out, job[run[w].job].st)
  BY <1>1, <1>2, Typing, UpdateOne
<1>7. events' \in 0..MaxEvents
  BY <1>1, EventTypes DEF TypeOK
<1>8. TypeOK'
  BY <1>5, <1>6, <1>7 DEF Settle, TypeOK, RunTypes, JobTypes
<1> QED
  BY <1>2, <1>5, <1>6, <1>8 DEF G, B

\* The cursor is raised to n, and a job is closed.
Raised(n) ==
    /\ sub'.cursor = (IF sub.cursor > n THEN sub.cursor ELSE n) /\ sub' \in SubType

LEMMA AdvanceRaises ==
  ASSUME CursorAssumption, sub \in SubType, NEW n \in 0..MaxId, Advance(n)
  PROVE  Raised(n)
<1>1. sub.cursor \in 0..MaxId
  BY DEF SubType
<1>2. Larger(sub.cursor, n) \in 0..MaxId
  BY <1>1 DEF Larger
<1>3. sub' = [sub EXCEPT !.cursor = Larger(sub.cursor, n)]
  BY DEF Advance
<1>4. sub' \in SubType /\ sub'.cursor = Larger(sub.cursor, n)
  BY <1>2, <1>3 DEF SubType
<1> QED  BY <1>4 DEF Raised, Larger

LEMMA ClosedDoes ==
  ASSUME JobTypes, NEW j \in Jobs, NEW failed \in BOOLEAN, Closed(j, failed)
  PROVE  JobTypes' /\ JobStep(j, {}, "absent", IF failed THEN "errors" ELSE "completed")
BY UpdateStatus DEF Closed, JobStatus, Finals

ScanSafe ==
    IF SR.bad = {} THEN SR.hi
    ELSE Contiguous(SR.last, SR.ok \cup (((SR.last + 1)..SR.hi) \ SR.page), SR.bad)

LEMMA ScanSafeHolds ==
  ASSUME CursorAssumption, TypeOK
  PROVE  /\ ScanSafe \in 0..MaxId
         /\ SR.bad # {} => \A i \in (SR.last + 1)..ScanSafe :
                i \notin SR.bad /\ (i \in SR.ok \/ i \in ((SR.last + 1)..SR.hi) \ SR.page)
<1>1. /\ SR.last \in 0..MaxId /\ SR.hi \in 0..MaxId /\ SR.ok \in SUBSET Ids /\ SR.bad \in SUBSET Ids
  BY RunTyping, Basics DEF SR
<1> DEFINE P == SR.ok \cup (((SR.last + 1)..SR.hi) \ SR.page)
<1>2. P \ SR.bad \subseteq Ids
  BY <1>1, Basics
<1>3. /\ Contiguous(SR.last, P, SR.bad) \in SR.last..MaxId
      /\ \A i \in (SR.last + 1)..Contiguous(SR.last, P, SR.bad) : i \in P \ SR.bad
  <2> HIDE DEF P
  <2> QED  BY <1>1, <1>2, ContiguousHolds
<1>4. CASE SR.bad = {}
  BY <1>1, <1>4 DEF ScanSafe
<1>5. CASE SR.bad # {}
  <2>1. ScanSafe = Contiguous(SR.last, P, SR.bad)
    BY <1>5 DEF ScanSafe
  <2>2. ScanSafe \in 0..MaxId
    BY <1>1, <1>3, <2>1, Basics
  <2>3. \A i \in (SR.last + 1)..ScanSafe : i \in P \ SR.bad
    BY <1>3, <2>1
  <2> QED  BY <2>2, <2>3
<1> QED  BY <1>4, <1>5

LEMMA ScanFinishDoes ==
  ASSUME CursorAssumption, TypeOK, ScanFinish, SR.job \in Jobs
  PROVE  /\ TypeOK' /\ SR.at = "work"
         /\ run'["scan"] = IdleRun /\ run'["recovery"] = RR
         /\ \/ /\ Closable(SR.job)
               /\ JobStep(SR.job, {}, "absent", IF SR.bad # {} THEN "errors" ELSE "completed")
               /\ Raised(ScanSafe)
            \/ UNCHANGED << job, sub >>
<1>1. RunTypes' /\ run'["scan"] = IdleRun /\ run'["recovery"] = RR
  BY Typing, LeaveRun, Basics DEF ScanFinish, Other, RR
<1>2. CASE Closable(SR.job) /\ Closed(SR.job, SR.bad # {}) /\ Advance(ScanSafe)
  <2>1. JobTypes' /\ JobStep(SR.job, {}, "absent", IF SR.bad # {} THEN "errors" ELSE "completed")
    BY <1>2, ClosedDoes, Typing
  <2>2. Raised(ScanSafe)
    BY <1>2, AdvanceRaises, ScanSafeHolds, Typing
  <2>3. TypeOK'
    BY <1>1, <2>1, <2>2 DEF ScanFinish, TypeOK, RunTypes, JobTypes, Raised
  <2> QED  BY <1>1, <1>2, <2>1, <2>2, <2>3 DEF ScanFinish, Drained, SR
<1>3. CASE UNCHANGED << job, sub >>
  BY <1>1, <1>3 DEF ScanFinish, Drained, SR, TypeOK, RunTypes
<1> QED
  BY <1>2, <1>3 DEF ScanFinish, ScanSafe, SR

\* What the repair does to the jobs: items that no worker holds are pending
\* again, and a job that ended while items of it wait runs again.
Repairs ==
    \A j \in Jobs :
        /\ Kept(j)
        /\ job'[j].st # job[j].st => job[j].st \in Finals /\ job'[j].st = "running"
        /\ \A i \in Ids :
             \/ Item(j, i)' = Item(j, i)
             \/ Item(j, i) = "downloading" /\ <<j, i>> \notin Held /\ Item(j, i)' = "pending"
        /\ job[j].st = "none" => job'[j] = job[j]
        /\ job[j].st \in Finals /\ (\A i \in Ids : Item(j, i) # "pending") => job'[j] = job[j]

LEMMA RepairedJob ==
  ASSUME TypeOK, NEW j \in Jobs
  PROVE  /\ Repaired(j) \in JobType
         /\ Repaired(j).decision = job[j].decision /\ Repaired(j).from = job[j].from
         /\ Repaired(j).to = job[j].to /\ Repaired(j).hi = job[j].hi
         /\ Repaired(j).st # job[j].st => job[j].st \in Finals /\ Repaired(j).st = "running"
         /\ \A i \in Ids :
             \/ Repaired(j).item[i] = job[j].item[i]
             \/ /\ job[j].item[i] = "downloading" /\ <<j, i>> \notin Held
                /\ Repaired(j).item[i] = "pending"
         /\ job[j].st = "none" => Repaired(j) = job[j]
         /\ job[j].st \in Finals /\ (\A i \in Ids : job[j].item[i] # "pending") =>
              Repaired(j) = job[j]
<1> DEFINE lost == {i \in ItemsIn(j, {"downloading"}) : <<j, i>> \notin Held}
           f == Put(job[j].item, lost, "pending")
<1>1. job[j] \in JobType /\ job[j].item \in [Ids -> ItemStatus] /\ job[j].st \in JobStatus
  BY Typing
<1>2. /\ f \in [Ids -> ItemStatus]
      /\ \A i \in Ids : \/ f[i] = job[j].item[i]
                        \/ job[j].item[i] = "downloading" /\ <<j, i>> \notin Held /\ f[i] = "pending"
  BY <1>1 DEF Put, ItemStatus, ItemsIn
<1>3. Repaired(j) = IF Unfinished(j) THEN [job[j] EXCEPT !.item = f]
                    ELSE IF job[j].st \in Finals /\ ItemsIn(j, {"pending"}) # {}
                    THEN [job[j] EXCEPT !.st = "running", !.item = f]
                    ELSE job[j]
  BY <1>1 DEF Repaired, JobType
<1> HIDE DEF f
<1>4. CASE Unfinished(j)
  <2>1. Repaired(j) = [job[j] EXCEPT !.item = f]
    BY <1>3, <1>4
  <2>2. job[j].st \notin Finals /\ job[j].st # "none"
    BY <1>4 DEF Unfinished, Finals
  <2> QED  BY <1>1, <1>2, <2>1, <2>2 DEF JobType
<1>5. CASE ~Unfinished(j) /\ job[j].st \in Finals /\ ItemsIn(j, {"pending"}) # {}
  <2>1. Repaired(j) = [job[j] EXCEPT !.st = "running", !.item = f]
    BY <1>3, <1>5
  <2>2. job[j].st \in Finals /\ job[j].st # "none" /\ \E i \in Ids : job[j].item[i] = "pending"
    BY <1>5 DEF ItemsIn, Finals
  <2> QED  BY <1>1, <1>2, <2>1, <2>2 DEF JobType, JobStatus
<1>6. CASE ~Unfinished(j) /\ ~(job[j].st \in Finals /\ ItemsIn(j, {"pending"}) # {})
  BY <1>1, <1>3, <1>6
<1> QED  BY <1>4, <1>5, <1>6

LEMMA RecoveryTakeDoes ==
  ASSUME CursorAssumption, TypeOK, RecoveryTake
  PROVE  /\ TypeOK' /\ Repairs /\ RR.at = "idle"
         /\ \E j \in Jobs :
              /\ job'[j].st \in {"pending", "running"} /\ \E i \in Ids : Item(j, i)' = "pending"
              /\ RunStep("recovery", "start", j, 0, 0, {}, 0, {}, {})
<1>1. \A j \in Jobs : job'[j] = Repaired(j)
  BY DEF RecoveryTake
<1>2. JobTypes'
  BY RepairedJob DEF RecoveryTake, JobTypes
<1>3. Repairs
  <2> SUFFICES ASSUME NEW j \in Jobs
      PROVE  /\ Kept(j)
             /\ job'[j].st # job[j].st => job[j].st \in Finals /\ job'[j].st = "running"
             /\ \A i \in Ids :
                  \/ Item(j, i)' = Item(j, i)
                  \/ Item(j, i) = "downloading" /\ <<j, i>> \notin Held /\ Item(j, i)' = "pending"
             /\ job[j].st = "none" => job'[j] = job[j]
             /\ job[j].st \in Finals /\ (\A i \in Ids : Item(j, i) # "pending") => job'[j] = job[j]
    BY DEF Repairs
  <2>1. job'[j] = Repaired(j)
    BY <1>1
  <2> QED  BY <2>1, RepairedJob DEF Kept, Item
<1>4. PICK j \in Jobs :
         /\ job'[j].st \in {"pending", "running"}
         /\ \E i \in Ids : job'[j].item[i] = "pending"
         /\ run' = [run EXCEPT !["recovery"] = [IdleRun EXCEPT !.at = "start", !.job = j]]
  BY DEF RecoveryTake
<1>5. RunTypes' /\ RunStep("recovery", "start", j, 0, 0, {}, 0, {}, {})
  BY <1>4, TakeRun, Typing
<1>6. TypeOK'
  BY <1>2, <1>5 DEF RecoveryTake, TypeOK, RunTypes, JobTypes
<1> QED
  BY <1>3, <1>4, <1>5, <1>6 DEF RecoveryTake, RR, Item

LEMMA RecoveryStartDoes ==
  ASSUME CursorAssumption, TypeOK, RecoveryStart, RR.job \in Jobs
  PROVE  /\ TypeOK' /\ RR.at = "start" /\ history'.jumped = history.jumped
         /\ history'.overshot = history.overshot
         /\ \/ /\ run'["recovery"] = IdleRun /\ run'["scan"] = SR /\ UNCHANGED << job, history >>
            \/ /\ job[RR.job].st \notin {"cancelled", "paused"}
               /\ \E i \in Ids : Item(RR.job, i) = "pending"
               /\ JobStep(RR.job, {}, "absent", "running")
               /\ RunStep("recovery", "work", RR.job, RR.last, RR.hi, RR.page, RR.claim, RR.ok, RR.bad)
               /\ history'.shared = history.shared \cup {k \in {RR.job} : SR.job = k}
<1>1. history \in HistoryType
  BY DEF TypeOK
<1>2. CASE Leave("recovery") /\ UNCHANGED << job, history >>
  <2>1. RunTypes' /\ run'["recovery"] = IdleRun /\ run'["scan"] = SR
    BY <1>2, Typing, LeaveRun, Basics DEF Other, SR
  <2> QED  BY <1>1, <1>2, <2>1 DEF RecoveryStart, TypeOK, RunTypes, RR
<1>3. CASE /\ ~(job[RR.job].st \in {"cancelled", "paused"} \/ ItemsIn(RR.job, {"pending"}) = {})
           /\ job' = [job EXCEPT ![RR.job].st = "running"]
           /\ Goto("recovery", "work")
           /\ history' = [history EXCEPT !.shared =
                 IF run["scan"].job = RR.job THEN @ \cup {RR.job} ELSE @]
  <2>1. /\ RunTypes'
        /\ RunStep("recovery", "work", RR.job, RR.last, RR.hi, RR.page, RR.claim, RR.ok, RR.bad)
    BY <1>3, Typing, GotoRun, Basics DEF RR
  <2>2. JobTypes' /\ JobStep(RR.job, {}, "absent", "running")
    BY <1>3, Typing, UpdateStatus DEF JobStatus
  <2> DEFINE H == history.shared \cup {k \in {RR.job} : SR.job = k}
  <2>3. H = IF SR.job = RR.job THEN history.shared \cup {RR.job} ELSE history.shared
    OBVIOUS
  <2>4. H \in SUBSET Jobs
    BY <1>1 DEF HistoryType
  <2>5. history' = [history EXCEPT !.shared = H]
    BY <1>3, <2>3 DEF SR
  <2> HIDE DEF H
  <2>6. /\ history' \in HistoryType /\ history'.jumped = history.jumped
        /\ history'.overshot = history.overshot /\ history'.shared = H
    BY <1>1, <2>4, <2>5 DEF HistoryType
  <2>7. \E i \in Ids : Item(RR.job, i) = "pending"
    BY <1>3 DEF ItemsIn, Item
  <2>8. TypeOK'
    BY <2>1, <2>2, <2>6 DEF RecoveryStart, TypeOK, RunTypes, JobTypes
  <2> QED  BY <1>3, <2>1, <2>2, <2>6, <2>7, <2>8 DEF RecoveryStart, RR, H
<1> QED
  BY <1>2, <1>3 DEF RecoveryStart, RR

LEMMA RecoveredHolds ==
  ASSUME CursorAssumption, TypeOK, NEW j \in Jobs, job[j].from # 0
  PROVE  /\ Recovered(j) \in 0..MaxId
         /\ (\A i \in Ids : Item(j, i) # "failed") => Recovered(j) = job[j].to
         /\ (\E i \in Ids : Item(j, i) = "failed") =>
              \A i \in job[j].from..Recovered(j) : i \in Ids => Item(j, i) # "failed"
<1>1. job[j].from \in 1..MaxId /\ job[j].to \in 0..MaxId
  BY Typing, Basics
<1>2. CASE ItemsIn(j, {"failed"}) = {}
  BY <1>1, <1>2 DEF Recovered, ItemsIn, Item
<1>3. CASE ItemsIn(j, {"failed"}) # {}
  <2> DEFINE m == FirstFailed(j)
  <2>1. m \in ItemsIn(j, {"failed"}) /\ \A k \in ItemsIn(j, {"failed"}) : m <= k
    BY <1>3, FirstFailedHolds
  <2>2. m \in Ids /\ Item(j, m) = "failed"
    BY <2>1 DEF ItemsIn, Item
  <2>3. \A k \in Ids : Item(j, k) = "failed" => m <= k
    BY <2>1 DEF ItemsIn, Item
  <2>4. Recovered(j) = Larger(job[j].from - 1, m - 1)
    BY <1>3 DEF Recovered
  <2> HIDE DEF m
  <2>5. m \in 1..MaxId
    BY <2>2, Basics
  <2>6. Recovered(j) \in 0..MaxId /\ (Recovered(j) < m \/ Recovered(j) < job[j].from)
    BY <1>1, <2>4, <2>5, Basics DEF Larger
  <2>7. \A i \in job[j].from..Recovered(j) : i \in Ids => Item(j, i) # "failed"
    BY <1>1, <2>3, <2>5, <2>6, Basics
  <2> QED  BY <2>2, <2>6, <2>7
<1> QED  BY <1>2, <1>3

NoWork(j) == \A i \in Ids : Item(j, i) \notin {"pending", "downloading"}

LEMMA RecoveryFinishDoes ==
  ASSUME CursorAssumption, TypeOK, RecoveryFinish, RR.job \in Jobs,
         Runnable(RR.job) => job[RR.job].to = 0 \/ job[RR.job].from # 0
  PROVE  /\ TypeOK' /\ RR.at = "work"
         /\ run'["recovery"] = IdleRun /\ run'["scan"] = SR
         /\ history'.jumped = history.jumped /\ history'.shared = history.shared
         /\ \/ /\ NoWork(RR.job) /\ (Runnable(RR.job) \/ job[RR.job].to = 0)
               /\ JobStep(RR.job, {}, "absent", "failed")
               /\ UNCHANGED << sub, history >>
            \/ /\ NoWork(RR.job) /\ Runnable(RR.job) /\ job[RR.job].to # 0
               /\ \/ JobStep(RR.job, {}, "absent", "errors")
                  \/ /\ JobStep(RR.job, {}, "absent", "completed")
                     /\ \A i \in Ids : Item(RR.job, i) # "failed"
               /\ Raised(Recovered(RR.job))
               /\ history'.overshot = history.overshot \cup
                                      ((job[RR.job].hi + 1)..Recovered(RR.job))
            \/ UNCHANGED << job, sub, history >>
<1> DEFINE j == RR.job
<1>1. RunTypes' /\ run'["recovery"] = IdleRun /\ run'["scan"] = SR /\ RR.at = "work"
  BY Typing, LeaveRun, Basics DEF RecoveryFinish, Drained, Other, SR, RR
<1>2. history \in HistoryType
  BY DEF TypeOK
<1>3. Closable(j) \/ (job[j].st \in Finals /\ ItemsIn(j, {"pending", "downloading"}) = {}) => NoWork(j)
  BY DEF Closable, NoWork, ItemsIn, Item
<1>4. CASE /\ Closable(j) \/ (job[j].st \in Finals /\ ItemsIn(j, {"pending", "downloading"}) = {})
           /\ job[j].to = 0 \/ (Runnable(j) /\ ~sub.enabled)
           /\ job' = [job EXCEPT ![j].st = "failed"] /\ UNCHANGED << sub, history >>
  <2>1. JobTypes' /\ JobStep(j, {}, "absent", "failed")
    BY <1>4, Typing, UpdateStatus DEF JobStatus, Finals
  <2>2. TypeOK'
    BY <1>1, <1>4, <2>1 DEF RecoveryFinish, TypeOK, RunTypes, JobTypes
  <2> QED  BY <1>1, <1>3, <1>4, <2>1, <2>2
<1>5. CASE /\ Closable(j) \/ (job[j].st \in Finals /\ ItemsIn(j, {"pending", "downloading"}) = {})
           /\ job[j].to # 0 /\ Runnable(j)
           /\ Closed(j, ItemsIn(j, {"failed"}) # {}) /\ Advance(Recovered(j))
           /\ history' = [history EXCEPT !.overshot =
                 history.overshot \cup ((job[j].hi + 1)..Recovered(j))]
  <2> DEFINE H == history.overshot \cup ((job[j].hi + 1)..Recovered(j))
  <2>1. /\ JobTypes'
        /\ JobStep(j, {}, "absent", IF ItemsIn(j, {"failed"}) # {} THEN "errors" ELSE "completed")
    BY <1>5, Typing, ClosedDoes
  <2>2. Recovered(j) \in 0..MaxId
    BY <1>5, RecoveredHolds
  <2>3. Raised(Recovered(j))
    BY <1>5, <2>2, AdvanceRaises, Typing
  <2>4. H \in SUBSET Ids
    <3>1. job[j].hi \in 0..MaxId
      BY Typing
    <3>2. (job[j].hi + 1)..Recovered(j) \subseteq Ids
      BY <2>2, <3>1, Basics
    <3> QED  BY <1>2, <3>2 DEF HistoryType
  <2>5. history' = [history EXCEPT !.overshot = H]
    BY <1>5
  <2> HIDE DEF H
  <2>6. /\ history' \in HistoryType /\ history'.jumped = history.jumped
        /\ history'.overshot = H /\ history'.shared = history.shared
    BY <1>2, <2>4, <2>5 DEF HistoryType
  <2>7. TypeOK'
    BY <1>1, <2>1, <2>3, <2>6 DEF RecoveryFinish, TypeOK, RunTypes, JobTypes, Raised
  <2>8. ItemsIn(j, {"failed"}) = {} => \A i \in Ids : Item(j, i) # "failed"
    BY DEF ItemsIn, Item
  <2> QED  BY <1>1, <1>3, <1>5, <2>1, <2>3, <2>6, <2>7, <2>8 DEF H
<1>6. CASE UNCHANGED << job, sub, history >>
  BY <1>1, <1>6 DEF RecoveryFinish, TypeOK, RunTypes
<1> QED
  BY <1>4, <1>5, <1>6 DEF RecoveryFinish, RR

\* A command leaves the workers, the decisions and the history alone, or the jobs.
LEMMA SwitchDoes ==
  ASSUME CursorAssumption, TypeOK, Publish \/ DueAgain \/ Enable \/ Disable \/ SetFilter \/ FromNowRead
  PROVE  /\ TypeOK' /\ sub'.cursor = sub.cursor
         /\ UNCHANGED << job, run, decision, review, history >>
<1>1. sub \in SubType
  BY DEF TypeOK
<1>2. CASE Publish
  BY <1>2, Basics DEF Publish, TypeOK
<1>3. CASE DueAgain
  <2>1. sub' \in SubType /\ sub'.cursor = sub.cursor
    BY <1>1, <1>3 DEF DueAgain, SubType
  <2> QED  BY <1>3, <2>1 DEF DueAgain, TypeOK
<1>4. CASE Enable
  <2>1. PICK due \in {sub.due, TRUE} : sub' = [sub EXCEPT !.enabled = TRUE, !.due = due]
    BY <1>4 DEF Enable
  <2>2. due \in BOOLEAN
    BY <1>1, <2>1 DEF SubType
  <2>3. sub' \in SubType /\ sub'.cursor = sub.cursor
    BY <1>1, <2>1, <2>2 DEF SubType
  <2>4. events' \in 0..MaxEvents
    BY <1>4, EventTypes DEF Enable, TypeOK
  <2> QED  BY <1>4, <2>3, <2>4 DEF Enable, TypeOK
<1>5. CASE Disable
  <2>1. sub' \in SubType /\ sub'.cursor = sub.cursor
    BY <1>1, <1>5 DEF Disable, SubType
  <2>2. events' \in 0..MaxEvents
    BY <1>5, EventTypes DEF Disable, TypeOK
  <2> QED  BY <1>5, <2>1, <2>2 DEF Disable, TypeOK
<1>6. CASE SetFilter
  <2>1. sub' \in SubType /\ sub'.cursor = sub.cursor
    BY <1>1, <1>6 DEF SetFilter, SubType
  <2>2. events' \in 0..MaxEvents
    BY <1>6, EventTypes DEF SetFilter, TypeOK
  <2> QED  BY <1>6, <2>1, <2>2 DEF SetFilter, TypeOK
<1>7. CASE FromNowRead
  <2>1. events' \in 0..MaxEvents /\ now' \in -1..MaxId
    BY <1>7, EventTypes, Basics DEF FromNowRead, TypeOK
  <2> QED  BY <1>7, <2>1 DEF FromNowRead, TypeOK
<1> QED  BY <1>2, <1>3, <1>4, <1>5, <1>6, <1>7

LEMMA FromNowDoes ==
  ASSUME CursorAssumption, TypeOK, FromNow
  PROVE  /\ TypeOK' /\ sub'.cursor = now /\ now \in 0..MaxId
         /\ history'.jumped = history.jumped \cup ((sub.cursor + 1)..now)
         /\ history'.overshot = history.overshot /\ history'.shared = history.shared
         /\ UNCHANGED << job, run, decision, review >>
<1>1. sub \in SubType /\ history \in HistoryType /\ sub.cursor \in 0..MaxId /\ now \in 0..MaxId
  BY Typing, Basics DEF TypeOK, FromNow
<1>2. sub' \in SubType /\ sub'.cursor = now
  BY <1>1 DEF FromNow, SubType
<1> DEFINE H == history.jumped \cup ((sub.cursor + 1)..now)
<1>3. H \in SUBSET Ids
  <2>1. (sub.cursor + 1)..now \subseteq Ids
    BY <1>1, Basics
  <2> QED  BY <1>1, <2>1 DEF HistoryType
<1>4. history' = [history EXCEPT !.jumped = H]
  BY DEF FromNow
<1> HIDE DEF H
<1>5. /\ history' \in HistoryType /\ history'.jumped = H
      /\ history'.overshot = history.overshot /\ history'.shared = history.shared
  BY <1>1, <1>3, <1>4 DEF HistoryType
<1>6. now' \in -1..MaxId
  BY Basics DEF FromNow
<1> QED  BY <1>1, <1>2, <1>5, <1>6 DEF FromNow, TypeOK, H

\* The commands about a job.
LEMMA CommandDoes ==
  ASSUME CursorAssumption, TypeOK, NEW j \in Jobs, Pause(j) \/ Resume(j) \/ Cancel(j) \/ Retry(j)
  PROVE  /\ TypeOK' /\ UNCHANGED << sub, decision, run, review, history >>
         /\ job[j].st # "none"
         /\ \/ job[j].st # "completed" /\ \E s \in JobStatus \ {"none"} : JobStep(j, {}, "absent", s)
            \/ job[j].st # "completed" /\ JobStep(j, ItemsIn(j, {"pending"}), "skipped", "cancelled")
            \/ job[j].st # "completed" /\ JobStep(j, ItemsIn(j, {"failed"}), "pending", "running")
<1>1. events' \in 0..MaxEvents
  BY EventTypes DEF Pause, Resume, Cancel, Retry, TypeOK
<1>2. {"paused", "running", "cancelled"} \subseteq JobStatus \ {"none"}
      /\ {"skipped", "pending"} \subseteq ItemStatus
  BY DEF JobStatus, ItemStatus, Finals
<1>3. job[j].st \notin {"none", "completed"}
  BY DEF Pause, Resume, Cancel, Retry, Runnable
<1>4. CASE Pause(j)
  <2>1. JobTypes' /\ JobStep(j, {}, "absent", "paused")
    BY <1>2, <1>4, UpdateStatus, Typing DEF Pause
  <2> QED  BY <1>1, <1>2, <1>3, <1>4, <2>1 DEF Pause, TypeOK, JobTypes
<1>5. CASE Resume(j)
  <2>1. JobTypes' /\ JobStep(j, {}, "absent", "running")
    BY <1>2, <1>5, UpdateStatus, Typing DEF Resume
  <2> QED  BY <1>1, <1>2, <1>3, <1>5, <2>1 DEF Resume, TypeOK, JobTypes
<1>6. CASE Cancel(j)
  <2> DEFINE S == ItemsIn(j, {"pending"})
             f == Put(job[j].item, S, "skipped")
  <2>1. [job[j] EXCEPT !.st = "cancelled", !.item = f] = [job[j] EXCEPT !.item = f, !.st = "cancelled"]
    BY Typing DEF JobType
  <2>2. job' = [job EXCEPT ![j] = [job[j] EXCEPT !.st = "cancelled", !.item = Put(@, S, "skipped")]]
    BY <1>6 DEF Cancel
  <2>3. [job[j] EXCEPT !.st = "cancelled", !.item = Put(@, S, "skipped")]
          = [job[j] EXCEPT !.st = "cancelled", !.item = f]
    BY Typing DEF JobType
  <2>4. job' = [job EXCEPT ![j] = [job[j] EXCEPT !.item = f, !.st = "cancelled"]]
    BY <2>1, <2>2, <2>3
  <2>5. JobTypes' /\ JobStep(j, S, "skipped", "cancelled")
    BY <1>2, <2>4, UpdateItems, Typing
  <2> QED  BY <1>1, <1>3, <1>6, <2>5 DEF Cancel, TypeOK, JobTypes
<1>7. CASE Retry(j)
  <2> DEFINE S == ItemsIn(j, {"failed"})
             f == Put(job[j].item, S, "pending")
  <2>1. [job[j] EXCEPT !.st = "running", !.item = f] = [job[j] EXCEPT !.item = f, !.st = "running"]
    BY Typing DEF JobType
  <2>2. job' = [job EXCEPT ![j] = [job[j] EXCEPT !.st = "running", !.item = Put(@, S, "pending")]]
    BY <1>7 DEF Retry
  <2>3. [job[j] EXCEPT !.st = "running", !.item = Put(@, S, "pending")]
          = [job[j] EXCEPT !.st = "running", !.item = f]
    BY Typing DEF JobType
  <2>4. job' = [job EXCEPT ![j] = [job[j] EXCEPT !.item = f, !.st = "running"]]
    BY <2>1, <2>2, <2>3
  <2>5. JobTypes' /\ JobStep(j, S, "pending", "running")
    BY <1>2, <2>4, UpdateItems, Typing
  <2> QED  BY <1>1, <1>3, <1>7, <2>5 DEF Retry, TypeOK, JobTypes
<1> QED  BY <1>4, <1>5, <1>6, <1>7

\* The review, field by field.
ReviewStepTo(at, i, label, j) ==
    /\ review'.at = at /\ review'.id = i /\ review'.label = label /\ review'.job = j

LEMMA ReviewTyping ==
  ASSUME TypeOK
  PROVE  /\ review \in ReviewType /\ review.job \in 0..MaxJobs /\ review.id \in 0..MaxId
         /\ review.label \in {"none", "ad", "normal"} /\ DecisionTypes
         /\ \A i \in Ids : decision[i].job \in 0..MaxJobs
BY DEF TypeOK, ReviewType, DecisionTypes, DecisionType

LEMMA ReviewClaimDoes ==
  ASSUME CursorAssumption, TypeOK, NEW i \in Ids, NEW label \in {"ad", "normal"},
         ReviewClaim(i, label)
  PROVE  /\ TypeOK' /\ UNCHANGED << sub, job, run, history >>
         /\ decision[i].st # "none"
         /\ \/ /\ DecisionStep(i, decision[i].st, decision[i].label, "restoring", decision[i].job)
               /\ ReviewStepTo(IF decision[i].st = "blocked" THEN "job" ELSE "mark", i, label, 0)
            \/ /\ UNCHANGED decision /\ (label = "normal" => decision[i].job # 0)
               /\ ReviewStepTo("mark", i, label, 0)
<1>1. events' \in 0..MaxEvents
  BY EventTypes DEF ReviewClaim, TypeOK
<1>2. i \in 0..MaxId /\ 0 \in 0..MaxJobs
  BY Basics
<1>3. CASE label = "normal" /\ decision[i].job = 0
  <2> DEFINE rec == [decision[i] EXCEPT !.restore = "restoring"]
             at == IF decision[i].st = "blocked" THEN "job" ELSE "mark"
  <2>1. decision' = [decision EXCEPT ![i] = rec]
    BY <1>3 DEF ReviewClaim
  <2>2. review' = [at |-> at, id |-> i, label |-> label, job |-> 0]
    BY <1>3 DEF ReviewClaim
  <2>3. /\ rec \in DecisionType /\ rec.st = decision[i].st /\ rec.label = decision[i].label
        /\ rec.restore = "restoring" /\ rec.job = decision[i].job
    BY Typing DEF DecisionType
  <2>4. at \in {"job", "mark"}
    OBVIOUS
  <2> HIDE DEF rec, at
  <2>5. DecisionTypes' /\ DecisionStep(i, decision[i].st, decision[i].label, "restoring", decision[i].job)
    BY <2>1, <2>3, UpdateDecision, ReviewTyping
  <2>6. review' \in ReviewType /\ ReviewStepTo(at, i, label, 0)
    BY <1>2, <2>2, <2>4 DEF ReviewType, ReviewStepTo
  <2> QED  BY <1>1, <2>5, <2>6 DEF ReviewClaim, TypeOK, DecisionTypes, at
<1>4. CASE ~(label = "normal" /\ decision[i].job = 0)
  <2>1. review' = [at |-> "mark", id |-> i, label |-> label, job |-> 0] /\ UNCHANGED decision
    BY <1>4 DEF ReviewClaim
  <2>2. review' \in ReviewType /\ ReviewStepTo("mark", i, label, 0)
    BY <1>2, <2>1 DEF ReviewType, ReviewStepTo
  <2> QED  BY <1>1, <1>4, <2>1, <2>2 DEF ReviewClaim, TypeOK
<1> QED  BY <1>3, <1>4

LEMMA RestoreStaleDoes ==
  ASSUME CursorAssumption, TypeOK, NEW i \in Ids, RestoreStale(i)
  PROVE  /\ TypeOK' /\ UNCHANGED << sub, job, run, review, history >>
         /\ DecisionStep(i, decision[i].st, decision[i].label, "stale", decision[i].job)
<1> DEFINE rec == [decision[i] EXCEPT !.restore = "stale"]
<1>1. decision' = [decision EXCEPT ![i] = rec]
  BY DEF RestoreStale
<1>2. /\ rec \in DecisionType /\ rec.st = decision[i].st /\ rec.label = decision[i].label
      /\ rec.restore = "stale" /\ rec.job = decision[i].job
  BY Typing DEF DecisionType
<1> HIDE DEF rec
<1>3. DecisionTypes' /\ DecisionStep(i, decision[i].st, decision[i].label, "stale", decision[i].job)
  BY <1>1, <1>2, UpdateDecision, ReviewTyping
<1> QED  BY <1>3 DEF RestoreStale, TypeOK, DecisionTypes

LEMMA ReviewJobDoes ==
  ASSUME CursorAssumption, TypeOK, ReviewJob, review.id \in Ids
  PROVE  /\ TypeOK' /\ UNCHANGED << sub, decision, run, history >> /\ review.at = "job"
         /\ \E j \in Jobs :
              /\ ReviewStepTo("items", review.id, review.label, j)
              /\ \/ job[j].st # "none" /\ job[j].decision = review.id /\ UNCHANGED job
                 \/ JobNew(j, review.id, 0, 0, 0)
<1>1. review \in ReviewType
  BY ReviewTyping
<1>2. ASSUME NEW j \in Jobs, review' = [review EXCEPT !.at = "items", !.job = j]
      PROVE  review' \in ReviewType /\ ReviewStepTo("items", review.id, review.label, j)
  <2>1. j \in 0..MaxJobs
    BY Basics
  <2> QED  BY <1>1, <1>2, <2>1 DEF ReviewType, ReviewStepTo
<1>3. ASSUME NEW j \in Known, job[j].decision = review.id,
             review' = [review EXCEPT !.at = "items", !.job = j], UNCHANGED job
      PROVE  /\ TypeOK' /\ j \in Jobs /\ job[j].st # "none"
             /\ ReviewStepTo("items", review.id, review.label, j)
  <2>1. j \in Jobs /\ job[j].st # "none"
    BY DEF Known
  <2> QED  BY <1>2, <1>3, <2>1 DEF ReviewJob, TypeOK
<1>4. ASSUME NEW j \in Jobs, Created(j, review.id, 0, 0, 0),
             review' = [review EXCEPT !.at = "items", !.job = j]
      PROVE  /\ TypeOK' /\ JobNew(j, review.id, 0, 0, 0)
             /\ ReviewStepTo("items", review.id, review.label, j)
  <2>1. JobTypes' /\ JobNew(j, review.id, 0, 0, 0)
    BY <1>4, CreateJob, Basics, Typing, ReviewTyping
  <2> QED  BY <1>2, <1>4, <2>1 DEF ReviewJob, TypeOK, JobTypes
<1> QED  BY <1>3, <1>4 DEF ReviewJob

LEMMA ReviewItemsDoes ==
  ASSUME CursorAssumption, TypeOK, ReviewItems, review.id \in Ids, review.job \in Jobs
  PROVE  /\ TypeOK' /\ UNCHANGED << sub, decision, run, history >> /\ review.at = "items"
         /\ ReviewStepTo("restored", review.id, review.label, review.job)
         /\ \E v \in ItemStatus \ {"absent"}, s \in JobStatus :
              /\ JobStep(review.job, {review.id}, v, s)
              /\ \/ Item(review.job, review.id) = "absent" /\ v = "pending"
                 \/ Item(review.job, review.id) = v
              /\ s = job[review.job].st \/ s = "pending"
<1> DEFINE j == review.job
           s == IF Movable(j) THEN "pending" ELSE job[j].st
           v == IF job[j].item[review.id] = "absent" THEN "pending" ELSE job[j].item[review.id]
<1>1. job[j] \in JobType /\ job[j].item \in [Ids -> ItemStatus] /\ job[j].st \in JobStatus
  BY Typing
<1>2. s \in JobStatus /\ v \in ItemStatus \ {"absent"}
  BY <1>1 DEF JobStatus, ItemStatus
<1>3. job' = [job EXCEPT ![j] = [job[j] EXCEPT !.st = s, !.item = [job[j].item EXCEPT ![review.id] = v]]]
  BY <1>1 DEF ReviewItems, JobType
<1>4. (Item(j, review.id) = "absent" /\ v = "pending") \/ Item(j, review.id) = v
  BY DEF Item
<1>5. s = job[j].st \/ s = "pending"
  OBVIOUS
<1> HIDE DEF s, v
<1>6. JobTypes' /\ JobStep(j, {review.id}, v, s)
  BY <1>2, <1>3, UpdateItem, Typing
<1>7. review' \in ReviewType /\ ReviewStepTo("restored", review.id, review.label, j)
  BY ReviewTyping DEF ReviewItems, ReviewType, ReviewStepTo
<1>8. TypeOK'
  BY <1>6, <1>7 DEF ReviewItems, TypeOK, JobTypes
<1> QED  BY <1>2, <1>4, <1>5, <1>6, <1>7, <1>8 DEF ReviewItems

LEMMA ReviewRestoredDoes ==
  ASSUME CursorAssumption, TypeOK, ReviewRestored, review.id \in Ids
  PROVE  /\ TypeOK' /\ UNCHANGED << sub, job, run, history >> /\ review.at = "restored"
         /\ ReviewStepTo("mark", review.id, review.label, review.job)
         /\ DecisionStep(review.id, decision[review.id].st, decision[review.id].label,
                         "restored", review.job)
<1> DEFINE i == review.id
           rec == [decision[i] EXCEPT !.job = review.job, !.restore = "restored"]
<1>1. decision' = [decision EXCEPT ![i] = rec]
  BY DEF ReviewRestored
<1>2. /\ rec \in DecisionType /\ rec.st = decision[i].st /\ rec.label = decision[i].label
      /\ rec.restore = "restored" /\ rec.job = review.job
  <2>1. decision[i] \in DecisionType /\ review.job \in 0..MaxJobs
    BY Typing, ReviewTyping
  <2> QED  BY <2>1 DEF DecisionType
<1> HIDE DEF rec
<1>3. DecisionTypes' /\ DecisionStep(i, decision[i].st, decision[i].label, "restored", review.job)
  BY <1>1, <1>2, UpdateDecision, ReviewTyping
<1>4. review' \in ReviewType /\ ReviewStepTo("mark", review.id, review.label, review.job)
  BY ReviewTyping DEF ReviewRestored, ReviewType, ReviewStepTo
<1> QED  BY <1>3, <1>4 DEF ReviewRestored, TypeOK, DecisionTypes

LEMMA ReviewMarkDoes ==
  ASSUME CursorAssumption, TypeOK, ReviewMark, review.id \in Ids
  PROVE  /\ TypeOK' /\ UNCHANGED << sub, job, run, history >> /\ review.at = "mark"
         /\ review' = IdleReview
         /\ DecisionStep(review.id, IF review.label = "ad" THEN "blocked" ELSE "allow", review.label,
                         decision[review.id].restore, decision[review.id].job)
<1> DEFINE i == review.id
           st == IF review.label = "ad" THEN "blocked" ELSE "allow"
           rec == [decision[i] EXCEPT !.label = review.label, !.st = st]
<1>1. decision' = [decision EXCEPT ![i] = rec]
  BY DEF ReviewMark
<1>2. st \in {"blocked", "allow"}
  OBVIOUS
<1> HIDE DEF st
<1>3. /\ rec \in DecisionType /\ rec.st = st /\ rec.label = review.label
      /\ rec.restore = decision[i].restore /\ rec.job = decision[i].job
  BY <1>2, Typing, ReviewTyping DEF DecisionType
<1> HIDE DEF rec
<1>4. DecisionTypes' /\ DecisionStep(i, st, review.label, decision[i].restore, decision[i].job)
  BY <1>1, <1>3, UpdateDecision, ReviewTyping
<1> QED  BY <1>4, IdleTypes DEF ReviewMark, TypeOK, DecisionTypes, st

LEMMA ReviewFailsDoes ==
  ASSUME CursorAssumption, TypeOK, ReviewFails, review.id \in Ids
  PROVE  /\ TypeOK' /\ UNCHANGED << sub, job, run, history >> /\ review' = IdleReview
         /\ DecisionStep(review.id, decision[review.id].st, decision[review.id].label, "failed",
                         decision[review.id].job)
<1> DEFINE i == review.id
           rec == [decision[i] EXCEPT !.restore = "failed"]
<1>1. decision' = [decision EXCEPT ![i] = rec]
  BY DEF ReviewFails
<1>2. /\ rec \in DecisionType /\ rec.st = decision[i].st /\ rec.label = decision[i].label
      /\ rec.restore = "failed" /\ rec.job = decision[i].job
  BY Typing DEF DecisionType
<1> HIDE DEF rec
<1>3. DecisionTypes' /\ DecisionStep(i, decision[i].st, decision[i].label, "failed", decision[i].job)
  BY <1>1, <1>2, UpdateDecision, ReviewTyping
<1>4. events' \in 0..MaxEvents
  BY EventTypes DEF ReviewFails, TypeOK
<1> QED  BY <1>3, <1>4, IdleTypes DEF ReviewFails, TypeOK, DecisionTypes

LEMMA CrashDoes ==
  ASSUME CursorAssumption, TypeOK, Crash
  PROVE  /\ TypeOK' /\ UNCHANGED << sub, decision, job, history >> /\ review' = IdleReview
         /\ run'["scan"] = IdleRun /\ run'["recovery"] = IdleRun
<1>1. run' \in [Workers -> RunType] /\ run'["scan"] = IdleRun /\ run'["recovery"] = IdleRun
  BY IdleTypes, Basics DEF Crash
<1>2. events' \in 0..MaxEvents /\ now' \in -1..MaxId
  BY EventTypes, Basics DEF Crash, TypeOK
<1> QED  BY <1>1, <1>2, IdleTypes DEF Crash, TypeOK
-----------------------------------------------------------------------------
(* What no step undoes                                                      *)

Sealed(j) == \E i \in Ids : ClosedWith(j, i)

JobsStay ==
    \A j \in Jobs : job[j].st # "none" =>
        /\ job'[j].st # "none" /\ Kept(j)
        /\ \A i \in Ids : Item(j, i) # "absent" => Item(j, i)' # "absent"
        /\ \A i \in Ids : Item(j, i) \in {"success", "skipped"} => Item(j, i)' = Item(j, i)
        /\ Sealed(j) => job'[j] = job[j]
DecisionsStay ==
    \A i \in Ids :
        /\ Passed(i) => Passed(i)'
        /\ decision[i].st # "none" => decision'[i].st # "none"
HistoryGrows ==
    /\ history.jumped \subseteq history'.jumped /\ history.overshot \subseteq history'.overshot
    /\ history.shared \subseteq history'.shared

LEMMA SameJobsStay == ASSUME UNCHANGED job PROVE JobsStay
BY DEF JobsStay, Kept, Item

LEMMA NewJobStays ==
  ASSUME NEW j, NEW d, NEW from, NEW to, NEW hi, JobNew(j, d, from, to, hi)
  PROVE  JobsStay
BY DEF JobNew, Others, Known, JobsStay, Kept, Item

LEMMA JobStepStays ==
  ASSUME NEW j \in Jobs, NEW S, NEW v, NEW s, JobStep(j, S, v, s), s # "none",
         v # "absent" \/ S = {}, \A i \in S : Item(j, i) \notin {"success", "skipped"} \/ Item(j, i) = v,
         ~Sealed(j)
  PROVE  JobsStay
<1> SUFFICES ASSUME NEW k \in Jobs, job[k].st # "none"
    PROVE  /\ job'[k].st # "none" /\ Kept(k)
           /\ \A i \in Ids : Item(k, i) # "absent" => Item(k, i)' # "absent"
           /\ \A i \in Ids : Item(k, i) \in {"success", "skipped"} => Item(k, i)' = Item(k, i)
           /\ Sealed(k) => job'[k] = job[k]
  BY DEF JobsStay
<1>1. CASE k = j
  BY <1>1 DEF JobStep, Item
<1>2. CASE k # j
  BY <1>2 DEF JobStep, Others, Kept, Item
<1> QED  BY <1>1, <1>2

LEMMA RepairsStay == ASSUME TypeOK, Repairs PROVE JobsStay
<1> SUFFICES ASSUME NEW k \in Jobs, job[k].st # "none"
    PROVE  /\ job'[k].st # "none" /\ Kept(k)
           /\ \A i \in Ids : Item(k, i) # "absent" => Item(k, i)' # "absent"
           /\ \A i \in Ids : Item(k, i) \in {"success", "skipped"} => Item(k, i)' = Item(k, i)
           /\ Sealed(k) => job'[k] = job[k]
  BY DEF JobsStay
<1>1. Sealed(k) => job[k].st \in Finals /\ \A i \in Ids : Item(k, i) # "pending"
  BY DEF Sealed, ClosedWith, Finals
<1> QED  BY <1>1 DEF Repairs

LEMMA SameDecisionsStay == ASSUME UNCHANGED decision PROVE DecisionsStay
BY DEF DecisionsStay, Passed

LEMMA DecisionStepStays ==
  ASSUME NEW i \in Ids, NEW st, NEW label, NEW restore, NEW j,
         DecisionStep(i, st, label, restore, j), decision[i].st # "none" => st # "none",
         Passed(i) => st = "blocked" \/ label = "normal"
  PROVE  DecisionsStay
BY DEF DecisionStep, DecisionsStay, Passed

LEMMA FilteredStays == ASSUME DecisionsFit, Filtered PROVE DecisionsStay
<1> SUFFICES ASSUME NEW i \in Ids
    PROVE  /\ Passed(i) => Passed(i)'
           /\ decision[i].st # "none" => decision'[i].st # "none"
  BY DEF DecisionsStay
<1>1. CASE ~Recorded(i)
  BY <1>1 DEF Filtered, Passed
<1>2. CASE Recorded(i)
  <2>1. decision'[i].st = IF Blocked(i) THEN "blocked" ELSE "allow"
    BY <1>2 DEF Filtered
  <2>2. Passed(i) => Blocked(i)
    BY <1>2 DEF Recorded, Passed, DecisionsFit, Blocked
  <2> QED  BY <2>1, <2>2 DEF Passed
<1> QED  BY <1>1, <1>2

LEMMA SameHistoryGrows == ASSUME UNCHANGED history PROVE HistoryGrows
BY DEF HistoryGrows

\* A message that is covered stays so, and one that is in a job.
LEMMA CoveredStays ==
  ASSUME TypeOK, JobsFit, JobsStay, DecisionsStay, HistoryGrows
  PROVE  /\ \A i \in Ids : Covered(i) => Covered(i)'
         /\ \A i \in Ids : Queued(i) => Queued(i)'
<1>1. ASSUME NEW i \in Ids, Tried(i) PROVE Tried(i)'
  <2>1. PICK j \in Jobs : Item(j, i) \in {"success", "skipped"}
    BY <1>1 DEF Tried, Item
  <2>2. job[j].st # "none"
    BY <2>1 DEF JobsFit, Empty
  <2>3. Item(j, i)' \in {"success", "skipped"}
    BY <2>1, <2>2 DEF JobsStay
  <2> QED  BY <2>3 DEF Tried, Item
<1>2. ASSUME NEW i \in Ids, NEW j \in history.shared, ClosedWith(j, i)
      PROVE  j \in history'.shared /\ ClosedWith(j, i)'
  <2>1. j \in Jobs
    BY DEF TypeOK, HistoryType
  <2>2. job[j].st # "none" /\ Sealed(j)
    BY <1>2 DEF ClosedWith, Sealed
  <2>3. job'[j] = job[j]
    BY <2>1, <2>2 DEF JobsStay
  <2> QED  BY <1>2, <2>3 DEF ClosedWith, Item, HistoryGrows
<1>3. ASSUME NEW i \in Ids, Covered(i) PROVE Covered(i)'
  <2>1. CASE Tried(i)
    BY <1>1, <2>1 DEF Covered
  <2>2. CASE Passed(i)
    BY <2>2 DEF Covered, DecisionsStay
  <2>3. CASE i \in history.jumped \cup history.overshot
    BY <2>3 DEF Covered, HistoryGrows
  <2>4. CASE \E j \in history.shared : ClosedWith(j, i)
    <3>1. PICK j \in history.shared : ClosedWith(j, i)
      BY <2>4
    <3>2. j \in history'.shared /\ ClosedWith(j, i)'
      BY <1>2, <3>1
    <3> QED  BY <3>2 DEF Covered
  <2> QED  BY <1>3, <2>1, <2>2, <2>3, <2>4 DEF Covered
<1>4. ASSUME NEW i \in Ids, Queued(i) PROVE Queued(i)'
  <2>1. PICK j \in Jobs : job[j].st # "none" /\ Item(j, i) # "absent"
    BY <1>4 DEF Queued, Known
  <2>2. job'[j].st # "none" /\ Item(j, i)' # "absent"
    BY <2>1 DEF JobsStay
  <2> QED  BY <2>2 DEF Queued, Known
<1> QED  BY <1>3, <1>4
-----------------------------------------------------------------------------
(* The parts of the invariant after a step that does not concern them       *)

LEMMA SameDecisionsFit ==
  ASSUME TypeOK, JobsFit, DecisionsFit, UNCHANGED decision, JobsStay,
         \A i \in Ids : Queued(i) => Queued(i)'
  PROVE  DecisionsFit'
<1> SUFFICES ASSUME NEW i \in Ids
    PROVE  /\ decision'[i].label = "ad" => decision'[i].st = "blocked"
           /\ decision'[i].label = "none" =>
                /\ decision'[i].st = "blocked" => i \in Ads
                /\ decision'[i].st = "allow" => i \notin Ads
           /\ decision'[i].job # 0 => job'[decision'[i].job].item[i] # "absent"
           /\ i \in Ads /\ decision'[i].label = "normal" => Queued(i)'
  BY DEF DecisionsFit, Item
<1>1. decision'[i] = decision[i]
  OBVIOUS
<1>2. ASSUME decision[i].job # 0 PROVE job'[decision[i].job].item[i] # "absent"
  <2>1. Item(decision[i].job, i) # "absent"
    BY <1>2 DEF DecisionsFit
  <2>2. decision[i].job \in Jobs
    BY <1>2, ReviewTyping DEF Jobs
  <2>3. job[decision[i].job].st # "none"
    BY <2>1, <2>2 DEF JobsFit, Empty
  <2> QED  BY <2>1, <2>2, <2>3 DEF JobsStay, Item
<1> QED  BY <1>1, <1>2 DEF DecisionsFit

LEMMA SameReviewFits ==
  ASSUME TypeOK, ReviewFits, UNCHANGED review, JobsStay, DecisionsStay,
         \A i \in Ids : Queued(i) => Queued(i)'
  PROVE  ReviewFits'
<1> SUFFICES ASSUME review.at # "idle"
    PROVE  /\ review.id \in Ids /\ review.label # "none" /\ decision'[review.id].st # "none"
           /\ review.at \in {"items", "restored"} =>
                review.job \in Known' /\ job'[review.job].decision = review.id
           /\ review.at = "restored" => job'[review.job].item[review.id] # "absent"
           /\ review.at = "mark" /\ review.label = "normal" /\ review.id \in Ads =>
                Queued(review.id)'
  BY DEF ReviewFits, Item, Queued
<1>1. review.id \in Ids /\ review.label # "none" /\ decision'[review.id].st # "none"
  BY DEF ReviewFits, DecisionsStay
<1>2. ASSUME review.at \in {"items", "restored"}
      PROVE  /\ review.job \in Known' /\ job'[review.job].decision = review.id
             /\ review.at = "restored" => job'[review.job].item[review.id] # "absent"
  <2>1. review.job \in Jobs /\ job[review.job].st # "none" /\ job[review.job].decision = review.id
    BY <1>2 DEF ReviewFits, Known
  <2>2. job'[review.job].st # "none" /\ Kept(review.job)
    BY <2>1 DEF JobsStay
  <2>3. review.at = "restored" => Item(review.job, review.id)' # "absent"
    BY <1>1, <2>1 DEF JobsStay, ReviewFits
  <2> QED  BY <2>1, <2>2, <2>3 DEF Known, Kept, Item
<1>3. ASSUME review.at = "mark", review.label = "normal", review.id \in Ads PROVE Queued(review.id)'
  BY <1>1, <1>3 DEF ReviewFits
<1> QED  BY <1>1, <1>2, <1>3

LEMMA NoReviewFits == ASSUME review' = IdleReview PROVE ReviewFits'
BY DEF ReviewFits, IdleReview

LEMMA SameJobsFit ==
  ASSUME JobsFit, UNCHANGED job, DecisionsStay, CursorAssumption
  PROVE  JobsFit'
BY Basics DEF JobsFit, Empty, WholePage, Item, DecisionsStay

LEMMA NewJobFits ==
  ASSUME JobsFit, DecisionsStay, CursorAssumption, NEW j, NEW d, NEW from, NEW to, NEW hi,
         JobNew(j, d, from, to, hi), IF d = 0 THEN from # 0 /\ to # 0 ELSE to = 0
  PROVE  JobsFit'
<1> SUFFICES ASSUME NEW k \in Jobs
    PROVE  /\ job'[k].st = "none" => Empty(k)'
           /\ job'[k].st # "none" /\ job'[k].decision = 0 =>
                /\ job'[k].from # 0 /\ job'[k].to # 0
                /\ Empty(k)' \/ WholePage(k)'
           /\ job'[k].decision # 0 => job'[k].to = 0
  BY DEF JobsFit
<1>1. CASE k = j
  BY <1>1 DEF JobNew, Empty, Item
<1>2. CASE k # j
  <2>1. job'[k] = job[k]
    BY <1>2 DEF JobNew, Others
  <2>2. Empty(k)' <=> Empty(k)
    BY <2>1 DEF Empty, Item
  <2>3. WholePage(k) => WholePage(k)'
    BY <2>1, Basics DEF WholePage, Item, DecisionsStay
  <2> QED  BY <2>1, <2>2, <2>3 DEF JobsFit
<1> QED  BY <1>1, <1>2

LEMMA JobStepFits ==
  ASSUME JobsFit, DecisionsStay, CursorAssumption,
         NEW j \in Jobs, NEW S, NEW v, NEW s, JobStep(j, S, v, s),
         job[j].st # "none", s # "none", v # "absent" \/ S = {},
         job[j].decision = 0 /\ Empty(j) =>
           \/ S \cap Ids = {}
           \/ \A i \in Media \cap (job[j].from..job[j].hi) : i \in S \/ Passed(i)
  PROVE  JobsFit'
<1> SUFFICES ASSUME NEW k \in Jobs
    PROVE  /\ job'[k].st = "none" => Empty(k)'
           /\ job'[k].st # "none" /\ job'[k].decision = 0 =>
                /\ job'[k].from # 0 /\ job'[k].to # 0
                /\ Empty(k)' \/ WholePage(k)'
           /\ job'[k].decision # 0 => job'[k].to = 0
  BY DEF JobsFit
<1>1. CASE k = j
  <2>1. /\ job'[j].decision = job[j].decision /\ job'[j].from = job[j].from
        /\ job'[j].to = job[j].to /\ job'[j].hi = job[j].hi /\ job'[j].st = s
    BY DEF JobStep, Kept
  <2>2. ASSUME job[j].decision = 0 PROVE Empty(j)' \/ WholePage(j)'
    <3>1. CASE WholePage(j)
      <4>1. \A i \in Ids : Item(j, i) # "absent" => Item(j, i)' # "absent"
        BY DEF JobStep, Item
      <4> QED  BY <3>1, <4>1, <2>1, Basics DEF WholePage, DecisionsStay
    <3>2. CASE Empty(j) /\ S \cap Ids = {}
      BY <3>2 DEF Empty, JobStep, Item
    <3>3. CASE \A i \in Media \cap (job[j].from..job[j].hi) : i \in S \/ Passed(i)
      <4>1. \A i \in Ids \cap S : Item(j, i)' # "absent" \/ S = {}
        BY DEF JobStep, Item
      <4> QED  BY <3>3, <4>1, <2>1, Basics DEF WholePage, DecisionsStay
    <3> QED  BY <2>2, <3>1, <3>2, <3>3 DEF JobsFit
  <2> QED  BY <1>1, <2>1, <2>2 DEF JobsFit
<1>2. CASE k # j
  <2>1. job'[k] = job[k]
    BY <1>2 DEF JobStep, Others
  <2>2. Empty(k)' <=> Empty(k)
    BY <2>1 DEF Empty, Item
  <2>3. WholePage(k) => WholePage(k)'
    BY <2>1, Basics DEF WholePage, Item, DecisionsStay
  <2> QED  BY <2>1, <2>2, <2>3 DEF JobsFit
<1> QED  BY <1>1, <1>2

LEMMA RepairsFit ==
  ASSUME JobsFit, DecisionsStay, CursorAssumption, Repairs
  PROVE  JobsFit'
<1> SUFFICES ASSUME NEW k \in Jobs
    PROVE  /\ job'[k].st = "none" => Empty(k)'
           /\ job'[k].st # "none" /\ job'[k].decision = 0 =>
                /\ job'[k].from # 0 /\ job'[k].to # 0
                /\ Empty(k)' \/ WholePage(k)'
           /\ job'[k].decision # 0 => job'[k].to = 0
  BY DEF JobsFit
<1>1. /\ job'[k].decision = job[k].decision /\ job'[k].from = job[k].from
      /\ job'[k].to = job[k].to /\ job'[k].hi = job[k].hi
      /\ job'[k].st = "none" <=> job[k].st = "none"
  BY DEF Repairs, Kept, Finals
<1>2. \A i \in Ids : Item(k, i)' = "absent" <=> Item(k, i) = "absent"
  BY DEF Repairs
<1>3. Empty(k)' <=> Empty(k)
  BY <1>2 DEF Empty
<1>4. WholePage(k) => WholePage(k)'
  BY <1>1, <1>2, Basics DEF WholePage, DecisionsStay
<1> QED  BY <1>1, <1>3, <1>4 DEF JobsFit

\* The scan stays where it is; what it has settled itself it remembers.
ScanStays ==
    /\ run'["scan"].at = SR.at /\ run'["scan"].job = SR.job /\ run'["scan"].last = SR.last
    /\ run'["scan"].hi = SR.hi /\ run'["scan"].page = SR.page
    /\ SR.at # "work" => run'["scan"].ok = SR.ok
    /\ SR.at = "work" => \A i \in run'["scan"].ok \ SR.ok :
         i \in Ids /\ job'[SR.job].item[i] \in {"success", "skipped"}
    /\ SR.bad \subseteq run'["scan"].bad

LEMMA SameScanFits ==
  ASSUME CursorAssumption, TypeOK, ScanFits, ScanStays,
         JobsStay, DecisionsStay, HistoryGrows,
         SR.at \in {"filter", "persist"} => \A i \in Ids : job'[SR.job].item[i] = "absent",
         SR.at = "work" =>
           \/ SR.job \in history'.shared
           \/ \A i \in Ids : job'[SR.job].item[i] = "failed" =>
                job[SR.job].item[i] = "failed" \/ i \in run'["scan"].bad
  PROVE  ScanFits'
<1> SUFFICES
      /\ SR.at # "start"
      /\ SR.at \in {"idle", "latest"} => SR.job = 0
      /\ SR.at # "work" => run'["scan"].ok = {}
      /\ SR.at \in {"filter", "persist", "work"} =>
           /\ SR.job \in Known' /\ job'[SR.job].decision = 0
           /\ job'[SR.job].from = SR.last + 1 /\ job'[SR.job].hi = SR.hi
      /\ SR.at \in {"filter", "persist"} => \A i \in Ids : job'[SR.job].item[i] = "absent"
      /\ SR.at \in {"persist", "work"} =>
           /\ SR.page \subseteq Media \cap ((SR.last + 1)..SR.hi)
           /\ \A i \in (Media \cap ((SR.last + 1)..SR.hi)) \ SR.page : Passed(i)'
      /\ SR.at = "work" =>
           /\ \A i \in SR.page : job'[SR.job].item[i] # "absent"
           /\ \A i \in run'["scan"].ok : job'[SR.job].item[i] \in {"success", "skipped"}
           /\ \/ SR.job \in history'.shared
              \/ \A i \in Ids : job'[SR.job].item[i] = "failed" => i \in run'["scan"].bad
  BY DEF ScanFits, ScanStays, Empty, Item
<1>1. ASSUME SR.at \in {"filter", "persist", "work"}
      PROVE  SR.job \in Jobs /\ job[SR.job].st # "none" /\ job'[SR.job].st # "none" /\ Kept(SR.job)
  BY <1>1 DEF ScanFits, SR, Known, JobsStay
<1>2. SR.at \in {"filter", "persist", "work"} =>
           /\ SR.job \in Known' /\ job'[SR.job].decision = 0
           /\ job'[SR.job].from = SR.last + 1 /\ job'[SR.job].hi = SR.hi
  BY <1>1 DEF ScanFits, SR, Known, Kept
<1>3. SR.at \in {"persist", "work"} =>
           /\ SR.page \subseteq Media \cap ((SR.last + 1)..SR.hi)
           /\ \A i \in (Media \cap ((SR.last + 1)..SR.hi)) \ SR.page : Passed(i)'
  BY Basics DEF ScanFits, SR, DecisionsStay
<1>4. ASSUME SR.at = "work"
      PROVE  /\ \A i \in SR.page : job'[SR.job].item[i] # "absent"
             /\ \A i \in run'["scan"].ok : job'[SR.job].item[i] \in {"success", "skipped"}
             /\ \/ SR.job \in history'.shared
                \/ \A i \in Ids : job'[SR.job].item[i] = "failed" => i \in run'["scan"].bad
  <2>1. SR.job \in Jobs /\ job[SR.job].st # "none" /\ SR.page \subseteq Ids /\ SR.ok \subseteq Ids
    BY <1>1, <1>4, RunTyping, Basics DEF SR
  <2>2. \A i \in SR.page : job'[SR.job].item[i] # "absent"
    BY <1>4, <2>1 DEF ScanFits, SR, JobsStay, Item
  <2>3. \A i \in SR.ok : job'[SR.job].item[i] \in {"success", "skipped"}
    BY <1>4, <2>1 DEF ScanFits, SR, JobsStay, Item
  <2>4. SR.job \in history.shared \/ \A i \in Ids : job[SR.job].item[i] = "failed" => i \in SR.bad
    BY <1>4 DEF ScanFits, SR, Item
  <2> QED  BY <1>4, <2>2, <2>3, <2>4 DEF HistoryGrows, ScanStays
<1>5. /\ SR.at # "start" /\ (SR.at \in {"idle", "latest"} => SR.job = 0)
      /\ SR.at # "work" => run'["scan"].ok = {}
  BY DEF ScanFits, SR, ScanStays
<1> QED  BY <1>2, <1>3, <1>4, <1>5

LEMMA SameScanStays == ASSUME run'["scan"] = run["scan"] PROVE ScanStays
BY DEF ScanStays, SR

LEMMA IdleScanFits == ASSUME CursorAssumption, run'["scan"] = IdleRun PROVE ScanFits'
BY IdleTypes DEF ScanFits

LEMMA SameRecoveryFits ==
  ASSUME TypeOK, RecoveryFits, JobsStay, HistoryGrows,
         run'["recovery"].at = RR.at, run'["recovery"].job = RR.job,
         RR.at = "work" /\ run'["scan"].job = RR.job => SR.job = RR.job
  PROVE  RecoveryFits'
<1> SUFFICES
      /\ RR.at \in {"idle", "start", "work"}
      /\ RR.at # "idle" =>
           RR.job \in Known' /\ \E i \in Ids : job'[RR.job].item[i] # "absent"
      /\ RR.at = "work" /\ run'["scan"].job = RR.job => RR.job \in history'.shared
  BY DEF RecoveryFits, RR, Empty, Item
<1>1. ASSUME RR.at # "idle"
      PROVE  RR.job \in Known' /\ \E i \in Ids : job'[RR.job].item[i] # "absent"
  <2>1. RR.job \in Jobs /\ job[RR.job].st # "none" /\ ~Empty(RR.job)
    BY <1>1 DEF RecoveryFits, RR, Known
  <2> QED  BY <2>1 DEF JobsStay, Empty, Item, Known
<1> QED  BY <1>1 DEF RecoveryFits, RR, SR, HistoryGrows

LEMMA IdleRecoveryFits == ASSUME CursorAssumption, run'["recovery"] = IdleRun PROVE RecoveryFits'
BY IdleTypes DEF RecoveryFits

\* A claim stays as long as its worker and its item do.
ClaimStays(w) ==
    \/ run'[w].claim = 0
    \/ /\ run'[w].claim = run[w].claim /\ run'[w].job = run[w].job /\ run'[w].at = run[w].at
       /\ run[w].claim # 0 => job'[run[w].job].item[run[w].claim] = "downloading"

LEMMA ClaimsStay ==
  ASSUME ClaimsFit, ClaimStays("scan"), ClaimStays("recovery")
  PROVE  ClaimsFit'
<1>1. \A w \in Workers : w = "scan" \/ w = "recovery"
  BY DEF Workers
<1>2. "scan" \in Workers /\ "recovery" \in Workers
  BY DEF Workers
<1> QED  BY <1>1, <1>2 DEF ClaimsFit, ClaimStays, Item
-----------------------------------------------------------------------------
(* The parts of the invariant after each action                             *)

Parts ==
    TypeOK /\ DecisionsFit /\ ReviewFits /\ JobsFit /\ ScanFits /\ RecoveryFits /\ ClaimsFit
Keeps ==
    /\ DecisionsFit' /\ ReviewFits' /\ JobsFit' /\ ScanFits' /\ RecoveryFits' /\ ClaimsFit'
    /\ JobsStay /\ DecisionsStay /\ HistoryGrows

LEMMA Holding ==
  ASSUME CursorAssumption, Parts
  PROVE  /\ SR.at \in {"filter", "persist", "work"} =>
              SR.job \in Jobs /\ job[SR.job].st # "none" /\ job[SR.job].decision = 0
         /\ SR.at \notin {"filter", "persist", "work"} => SR.job = 0 /\ SR.at \in {"idle", "latest"}
         /\ RR.at # "idle" => RR.job \in Jobs /\ job[RR.job].st # "none" /\ ~Empty(RR.job)
         /\ RR.at \in {"idle", "start", "work"}
         /\ \A w \in Workers : run[w].at = "work" => run[w].job \in Jobs /\ job[run[w].job].st # "none"
         /\ \A w \in Workers : run[w].claim # 0 =>
              /\ run[w].at = "work" /\ run[w].claim \in Ids
              /\ job[run[w].job].item[run[w].claim] = "downloading"
         /\ review.at # "idle" => review.id \in Ids
<1>1. SR.at \in {"filter", "persist", "work"} =>
         SR.job \in Jobs /\ job[SR.job].st # "none" /\ job[SR.job].decision = 0
  BY DEF Parts, ScanFits, SR, Known
<1>2. SR.at \notin {"filter", "persist", "work"} => SR.job = 0 /\ SR.at \in {"idle", "latest"}
  BY RunTyping, Basics DEF Parts, ScanFits, SR
<1>3. /\ RR.at # "idle" => RR.job \in Jobs /\ job[RR.job].st # "none" /\ ~Empty(RR.job)
      /\ RR.at \in {"idle", "start", "work"}
  BY DEF Parts, RecoveryFits, RR, Known
<1>4. \A w \in Workers : w = "scan" \/ w = "recovery"
  BY DEF Workers
<1>5. \A w \in Workers : run[w].claim # 0 =>
              /\ run[w].at = "work" /\ run[w].claim \in Ids
              /\ job[run[w].job].item[run[w].claim] = "downloading"
  BY RunTyping, Basics DEF Parts, ClaimsFit, Item
<1>6. \A w \in Workers : run[w].at = "work" => run[w].job \in Jobs /\ job[run[w].job].st # "none"
  BY <1>1, <1>3, <1>4 DEF SR, RR
<1>7. review.at # "idle" => review.id \in Ids
  BY DEF Parts, ReviewFits
<1> QED  BY <1>1, <1>2, <1>3, <1>5, <1>6, <1>7

\* A step that leaves the jobs alone leaves the claims alone, unless it drops them.
LEMMA ClaimsOfSameJobs ==
  ASSUME CursorAssumption, Parts, UNCHANGED job,
         \A w \in Workers :
            \/ run'[w].claim = 0
            \/ run'[w].claim = run[w].claim /\ run'[w].job = run[w].job /\ run'[w].at = run[w].at
  PROVE  ClaimsFit'
<1>1. \A w \in Workers : ClaimStays(w)
  BY Holding DEF ClaimStays
<1> QED  BY <1>1, ClaimsStay, Basics DEF Parts

LEMMA QuietKeeps ==
  ASSUME CursorAssumption, Parts, UNCHANGED << job, run, decision, review >>, HistoryGrows
  PROVE  Keeps
<1>1. JobsStay /\ DecisionsStay
  BY SameJobsStay, SameDecisionsStay
<1>2. \A i \in Ids : Queued(i) => Queued(i)'
  BY <1>1, CoveredStays DEF Parts
<1>3. DecisionsFit' /\ ReviewFits' /\ JobsFit'
  BY <1>1, <1>2, SameDecisionsFit, SameReviewFits, SameJobsFit DEF Parts
<1>4. ScanFits'
  BY <1>1, SameScanFits, SameScanStays DEF Parts, ScanFits, SR, Empty, Item
<1>5. RecoveryFits'
  BY <1>1, SameRecoveryFits DEF Parts, SR, RR
<1>6. ClaimsFit'
  BY ClaimsOfSameJobs
<1> QED  BY <1>1, <1>3, <1>4, <1>5, <1>6 DEF Keeps

\* A step of a worker that concerns neither decisions nor reviews.
LEMMA WorkerKeeps ==
  ASSUME CursorAssumption, Parts, UNCHANGED << decision, review >>, JobsStay, HistoryGrows,
         JobsFit', ScanFits', RecoveryFits', ClaimsFit'
  PROVE  Keeps
<1>1. DecisionsStay
  BY SameDecisionsStay
<1>2. \A i \in Ids : Queued(i) => Queued(i)'
  BY <1>1, CoveredStays DEF Parts
<1>3. DecisionsFit' /\ ReviewFits'
  BY <1>1, <1>2, SameDecisionsFit, SameReviewFits DEF Parts
<1> QED  BY <1>1, <1>3 DEF Keeps

LEMMA ScanSelectKeeps ==
  ASSUME CursorAssumption, Parts, ScanSelect
  PROVE  TypeOK' /\ Keeps
<1>1. /\ TypeOK' /\ SR.at = "idle"
      /\ RunStep("scan", "latest", SR.job, sub.cursor, SR.hi, SR.page, SR.claim, SR.ok, SR.bad)
  BY ScanSelectDoes DEF Parts
<1>2. /\ UNCHANGED << job, decision, review, history >> /\ run'["recovery"] = run["recovery"]
      /\ run'["scan"].at = "latest" /\ run'["scan"].job = SR.job /\ run'["scan"].claim = SR.claim
  BY <1>1 DEF ScanSelect, RunStep, Other
<1>3. SR.job = 0 /\ SR.claim = 0
  BY <1>1, Holding, Basics DEF SR
<1>4. JobsStay /\ HistoryGrows /\ DecisionsStay
  BY <1>2, SameJobsStay, SameHistoryGrows, SameDecisionsStay
<1>5. JobsFit'
  BY <1>2, <1>4, SameJobsFit DEF Parts
<1>6. ScanFits'
  <2>1. run'["scan"].ok = {}
    BY <1>1 DEF RunStep, Parts, ScanFits, SR
  <2> QED  BY <1>2, <1>3, <2>1 DEF ScanFits
<1>7. RecoveryFits'
  BY <1>2, <1>4, SameRecoveryFits DEF Parts, RR
<1>8. ClaimsFit'
  <2>1. \A w \in Workers : w = "scan" \/ w = "recovery"
    BY DEF Workers
  <2> QED  BY <2>1, <1>2, <1>3, ClaimsOfSameJobs
<1> QED  BY <1>1, <1>2, <1>4, <1>5, <1>6, <1>7, <1>8, WorkerKeeps

LEMMA ScanLatestKeeps ==
  ASSUME CursorAssumption, Parts, ScanLatest
  PROVE  TypeOK' /\ Keeps
<1>1. TypeOK' /\ SR.at = "latest" /\ UNCHANGED << decision, review, history >>
  BY ScanLatestDoes DEF Parts, ScanLatest
<1>2. SR.claim = 0 /\ HistoryGrows /\ DecisionsStay /\ \A w \in Workers : w = "scan" \/ w = "recovery"
  BY <1>1, Holding, Basics, SameHistoryGrows, SameDecisionsStay DEF SR, Workers
<1>3. CASE run'["scan"] = IdleRun /\ run'["recovery"] = RR /\ UNCHANGED job
  <2>1. JobsStay /\ JobsFit'
    BY <1>2, <1>3, SameJobsStay, SameJobsFit DEF Parts
  <2>2. RecoveryFits'
    BY <1>2, <1>3, <2>1, SameRecoveryFits, Holding, IdleTypes, Basics DEF Parts, RR
  <2>3. ClaimsFit'
    BY <1>2, <1>3, ClaimsOfSameJobs, IdleTypes DEF RR
  <2>4. ScanFits'
    BY <1>3, IdleScanFits
  <2> QED  BY <1>1, <1>2, <2>1, <2>2, <2>3, <2>4, WorkerKeeps
<1>4. ASSUME NEW j \in Jobs, NEW hi \in 0..MaxId, SR.last + 1 \in 0..MaxId,
             JobNew(j, 0, SR.last + 1, latest, hi), latest # 0,
             RunStep("scan", "filter", j, SR.last, hi, SR.page, SR.claim, SR.ok, SR.bad)
      PROVE  TypeOK' /\ Keeps
  <2>1. SR.last + 1 # 0
    BY RunTyping, Basics DEF SR, Parts
  <2>2. JobsStay /\ JobsFit'
    BY <1>2, <1>4, <2>1, NewJobStays, NewJobFits DEF Parts
  <2>3. /\ run'["recovery"] = run["recovery"] /\ run'["scan"].at = "filter"
        /\ run'["scan"].job = j /\ run'["scan"].last = SR.last /\ run'["scan"].hi = hi
        /\ run'["scan"].claim = 0
    BY <1>2, <1>4 DEF RunStep, Other
  <2>4. /\ j \in Known' /\ job'[j].decision = 0 /\ job'[j].from = SR.last + 1 /\ job'[j].hi = hi
        /\ Empty(j)' /\ j \notin Known
    BY <1>4 DEF JobNew, Known, Empty, Item
  <2>5. ScanFits'
    <3>1. run'["scan"].ok = {}
      BY <1>1, <1>4 DEF RunStep, Parts, ScanFits, SR
    <3> QED  BY <2>3, <2>4, <3>1 DEF ScanFits
  <2>6. RR.at = "work" => RR.job \in Known
    BY DEF Parts, RecoveryFits, RR
  <2>7. RecoveryFits'
    BY <1>2, <2>2, <2>3, <2>4, <2>6, SameRecoveryFits DEF Parts, RR
  <2>8. run[ "recovery"].claim # 0 =>
            job'[run["recovery"].job].item[run["recovery"].claim] = "downloading"
    <3>1. run["recovery"].claim # 0 => run["recovery"].job # j
      BY <2>4, <2>6, Holding, Basics DEF RR
    <3> QED  BY <1>4, <3>1, Holding, Basics DEF JobNew, Others
  <2>9. ClaimsFit'
    BY <2>3, <2>8, ClaimsStay DEF ClaimStays, Parts
  <2> QED  BY <1>1, <1>2, <2>2, <2>5, <2>7, <2>9, WorkerKeeps
<1> QED  BY <1>3, <1>4, ScanLatestDoes DEF Parts

LEMMA ScanFilterKeeps ==
  ASSUME CursorAssumption, Parts, ScanFilter
  PROVE  TypeOK' /\ Keeps
<1> DEFINE page == Media \cap ((SR.last + 1)..SR.hi)
           kept == {i \in page : ~Blocked(i)}
<1>1. /\ TypeOK' /\ SR.at = "filter" /\ Filtered
      /\ RunStep("scan", "persist", SR.job, SR.last, SR.hi, kept, SR.claim, SR.ok, SR.bad)
      /\ UNCHANGED << job, review, history >>
  BY ScanFilterDoes DEF Parts, ScanFilter
<1>2. JobsStay /\ HistoryGrows /\ DecisionsStay
  BY <1>1, SameJobsStay, SameHistoryGrows, FilteredStays DEF Parts
<1>3. \A i \in Ids : Queued(i) => Queued(i)'
  BY <1>2, CoveredStays DEF Parts
<1>4. ReviewFits' /\ JobsFit'
  BY <1>1, <1>2, <1>3, SameReviewFits, SameJobsFit DEF Parts
<1>5. ASSUME NEW i \in Ids
      PROVE  /\ decision'[i].label = "ad" => decision'[i].st = "blocked"
             /\ decision'[i].label = "none" =>
                /\ decision'[i].st = "blocked" => i \in Ads
                /\ decision'[i].st = "allow" => i \notin Ads
             /\ decision'[i].job # 0 => job'[decision'[i].job].item[i] # "absent"
             /\ i \in Ads /\ decision'[i].label = "normal" => Queued(i)'
             /\ i \in page \ kept => Passed(i)'
  <2>1. /\ decision[i].label = "ad" => decision[i].st = "blocked"
        /\ decision[i].label = "none" =>
             /\ decision[i].st = "blocked" => i \in Ads
             /\ decision[i].st = "allow" => i \notin Ads
        /\ decision[i].job # 0 => job[decision[i].job].item[i] # "absent"
        /\ i \in Ads /\ decision[i].label = "normal" => Queued(i)
    BY DEF Parts, DecisionsFit, Item
  <2>2. /\ decision'[i].label = decision[i].label /\ decision'[i].job = decision[i].job
        /\ Recorded(i) => decision'[i].st = IF Blocked(i) THEN "blocked" ELSE "allow"
        /\ ~Recorded(i) => decision'[i] = decision[i]
    BY <1>1 DEF Filtered
  <2>3. Recorded(i) => decision[i].label = "none" /\ sub.filter
    BY DEF Recorded
  <2>4. decision[i].label = "none" /\ sub.filter => (Blocked(i) <=> i \in Ads)
    BY DEF Blocked
  <2>5. i \in page \ kept => Blocked(i) /\ sub.filter /\ decision[i].label # "normal"
    BY DEF Blocked
  <2>6. i \in page /\ sub.filter => (Recorded(i) <=> decision[i].label = "none")
    BY DEF Recorded
  <2>7. decision[i].label \in {"none", "ad", "normal"}
    BY Typing DEF Parts, DecisionType
  <2>8. i \in page \ kept => Passed(i)'
    BY <2>1, <2>2, <2>5, <2>6, <2>7 DEF Passed
  <2> QED  BY <1>1, <1>3, <2>1, <2>2, <2>3, <2>4, <2>8
<1>6. DecisionsFit'
  BY <1>5 DEF DecisionsFit, Item
<1>7. /\ run'["scan"].at = "persist" /\ run'["scan"].job = SR.job /\ run'["scan"].last = SR.last
      /\ run'["scan"].hi = SR.hi /\ run'["scan"].page = kept /\ run'["scan"].claim = SR.claim
      /\ run'["scan"].ok = {} /\ run'["recovery"] = run["recovery"] /\ SR.claim = 0
  BY <1>1, Holding, Basics DEF RunStep, Other, Parts, ScanFits, SR
<1>8. ScanFits'
  <2>1. /\ SR.job \in Known /\ job[SR.job].decision = 0
        /\ job[SR.job].from = SR.last + 1 /\ job[SR.job].hi = SR.hi
        /\ \A i \in Ids : job[SR.job].item[i] = "absent"
    BY <1>1 DEF Parts, ScanFits, SR, Empty, Item
  <2>2. SR.job \in Known'
    BY <1>1, <2>1 DEF Known
  <2>3. kept \subseteq page /\ \A i \in page \ kept : Passed(i)'
    BY <1>5, Basics
  <2> HIDE DEF kept
  <2> QED  BY <1>1, <1>7, <2>1, <2>2, <2>3 DEF ScanFits, Empty, Item
<1>9. RecoveryFits'
  BY <1>2, <1>7, SameRecoveryFits DEF Parts, RR
<1>10. ClaimsFit'
  <2>1. \A w \in Workers : w = "scan" \/ w = "recovery"
    BY DEF Workers
  <2> QED  BY <2>1, <1>1, <1>7, ClaimsOfSameJobs
<1> QED  BY <1>1, <1>2, <1>4, <1>6, <1>8, <1>9, <1>10 DEF Keeps

\* A claim on an item that a step of a job leaves alone.
LEMMA ClaimOfOther ==
  ASSUME CursorAssumption, Parts, NEW j \in Jobs, NEW S, NEW v, NEW s, JobStep(j, S, v, s),
         NEW w \in Workers, run[w].claim # 0, run[w].job # j \/ run[w].claim \notin S
  PROVE  job'[run[w].job].item[run[w].claim] = "downloading"
<1>1. /\ run[w].claim \in Ids /\ run[w].job \in Jobs
      /\ job[run[w].job].item[run[w].claim] = "downloading"
  BY Holding
<1>2. CASE run[w].job # j
  BY <1>1, <1>2 DEF JobStep, Others
<1>3. CASE run[w].job = j /\ run[w].claim \notin S
  BY <1>1, <1>3 DEF JobStep
<1> QED  BY <1>2, <1>3

LEMMA ScanPersistKeeps ==
  ASSUME CursorAssumption, Parts, ScanPersist
  PROVE  TypeOK' /\ Keeps
<1>1. SR.at = "persist"
  BY DEF ScanPersist, SR
<1>2. SR.job \in Jobs /\ job[SR.job].st # "none" /\ job[SR.job].decision = 0
  BY <1>1, Holding
<1>3. /\ SR.job \in Known /\ job[SR.job].from = SR.last + 1 /\ job[SR.job].hi = SR.hi
      /\ \A i \in Ids : job[SR.job].item[i] = "absent"
      /\ SR.page \subseteq Media \cap ((SR.last + 1)..SR.hi)
      /\ \A i \in (Media \cap ((SR.last + 1)..SR.hi)) \ SR.page : Passed(i)
      /\ SR.ok = {}
  BY <1>1 DEF Parts, ScanFits, SR, Empty, Item
<1> DEFINE s == IF Movable(SR.job) THEN "running" ELSE job[SR.job].st
<1>4. /\ TypeOK' /\ UNCHANGED << decision, review, history >>
      /\ RunStep("scan", "work", SR.job, SR.last, SR.hi, SR.page, SR.claim, SR.ok, SR.bad)
      /\ JobStep(SR.job, SR.page, "pending", s)
  BY <1>2, ScanPersistDoes DEF Parts, ScanPersist
<1>5. s # "none"
  BY <1>2
<1> HIDE DEF s
<1>6. ~Sealed(SR.job)
  BY <1>3 DEF Sealed, ClosedWith, Item
<1>7. JobsStay /\ HistoryGrows /\ DecisionsStay
  <2>1. \A i \in SR.page : Item(SR.job, i) \notin {"success", "skipped"}
    BY <1>3, Basics DEF Item
  <2> QED  BY <1>2, <1>4, <1>5, <1>6, <2>1, JobStepStays, SameHistoryGrows, SameDecisionsStay
<1>8. JobsFit'
  <2>1. \A i \in Media \cap (job[SR.job].from..job[SR.job].hi) : i \in SR.page \/ Passed(i)
    BY <1>3
  <2> QED  BY <1>2, <1>4, <1>5, <1>7, <2>1, JobStepFits DEF Parts
<1>9. /\ run'["scan"].at = "work" /\ run'["scan"].job = SR.job /\ run'["scan"].last = SR.last
      /\ run'["scan"].hi = SR.hi /\ run'["scan"].page = SR.page /\ run'["scan"].claim = SR.claim
      /\ run'["scan"].ok = {} /\ run'["recovery"] = run["recovery"] /\ SR.claim = 0
  BY <1>1, <1>3, <1>4, Holding, Basics DEF RunStep, Other, SR
<1>10. /\ SR.job \in Known' /\ job'[SR.job].decision = 0
       /\ job'[SR.job].from = SR.last + 1 /\ job'[SR.job].hi = SR.hi
       /\ \A i \in SR.page : job'[SR.job].item[i] = "pending"
       /\ \A i \in Ids : job'[SR.job].item[i] # "failed"
  BY <1>2, <1>3, <1>4, <1>5, Basics DEF JobStep, Kept, Known
<1>11. ScanFits'
  <2>1. \A i \in (Media \cap ((SR.last + 1)..SR.hi)) \ SR.page : Passed(i)'
    BY <1>3, <1>7, Basics DEF DecisionsStay
  <2> QED  BY <1>3, <1>9, <1>10, <2>1 DEF ScanFits, Item
<1>12. RecoveryFits'
  BY <1>7, <1>9, SameRecoveryFits DEF Parts, RR
<1>13. ClaimsFit'
  <2>1. ASSUME run["recovery"].claim # 0
        PROVE  job'[run["recovery"].job].item[run["recovery"].claim] = "downloading"
    <3>1. run["recovery"].claim \in Ids /\ job[run["recovery"].job].item[run["recovery"].claim] = "downloading"
      BY <2>1, Holding, Basics
    <3>2. run["recovery"].job # SR.job
      BY <1>3, <3>1
    <3> QED  BY <1>2, <1>4, <2>1, <3>2, ClaimOfOther, Basics
  <2>2. ClaimStays("scan") /\ ClaimStays("recovery")
    BY <1>9, <2>1 DEF ClaimStays
  <2> QED  BY <2>2, ClaimsStay DEF Parts
<1> QED  BY <1>4, <1>7, <1>8, <1>11, <1>12, <1>13, WorkerKeeps

LEMMA ScanThrowsKeeps ==
  ASSUME CursorAssumption, Parts, ScanThrows
  PROVE  TypeOK' /\ Keeps
<1>1. /\ TypeOK' /\ run'["scan"] = IdleRun /\ run'["recovery"] = RR
      /\ UNCHANGED << job, decision, review, history >>
  BY ScanThrowsDoes DEF Parts, ScanThrows
<1>2. JobsStay /\ HistoryGrows /\ DecisionsStay
  BY <1>1, SameJobsStay, SameHistoryGrows, SameDecisionsStay
<1>3. JobsFit'
  BY <1>1, <1>2, SameJobsFit DEF Parts
<1>4. ScanFits'
  BY <1>1, IdleScanFits
<1>5. RecoveryFits'
  BY <1>1, <1>2, SameRecoveryFits, Holding, IdleTypes, Basics DEF Parts
<1>6. ClaimsFit'
  <2>1. \A w \in Workers : w = "scan" \/ w = "recovery"
    BY DEF Workers
  <2> QED  BY <1>1, <2>1, ClaimsOfSameJobs, IdleTypes DEF RR
<1> QED  BY <1>1, <1>2, <1>3, <1>4, <1>5, <1>6, WorkerKeeps

\* A worker downloads for a job that is not sealed, and that the scan only
\* shares after it has told so.
LEMMA ClaimKeeps ==
  ASSUME CursorAssumption, Parts, NEW w \in Workers, Claim(w)
  PROVE  TypeOK' /\ Keeps
<1>1. run[w].at = "work" /\ run[w].claim = 0
  BY DEF Claim
<1>2. run[w].job \in Jobs /\ job[run[w].job].st # "none"
  BY <1>1, Holding
<1>3. PICK i \in Ids :
         /\ Item(run[w].job, i) = "pending"
         /\ JobStep(run[w].job, {i}, "downloading", job[run[w].job].st)
         /\ RunStep(w, "work", run[w].job, run[w].last, run[w].hi, run[w].page, i,
                    run[w].ok, run[w].bad)
  BY <1>2, ClaimDoes DEF Parts
<1>4. TypeOK' /\ UNCHANGED << decision, review, history >>
  BY <1>2, ClaimDoes DEF Parts, Claim
<1>5. job[run[w].job].item[i] = "pending" /\ ~Sealed(run[w].job) /\ ~Empty(run[w].job)
  BY <1>3 DEF Item, Sealed, ClosedWith, Empty
<1>6. JobsStay /\ HistoryGrows /\ DecisionsStay
  BY <1>2, <1>3, <1>4, <1>5, JobStepStays, SameHistoryGrows, SameDecisionsStay
<1>7. JobsFit'
  BY <1>2, <1>3, <1>5, <1>6, JobStepFits DEF Parts
<1>8. /\ run'[w].at = run[w].at /\ run'[w].job = run[w].job /\ run'[w].last = run[w].last
      /\ run'[w].hi = run[w].hi /\ run'[w].page = run[w].page /\ run'[w].claim = i
      /\ run'[w].ok = run[w].ok /\ run'[w].bad = run[w].bad
      /\ \A v \in Workers : v = w \/ run'[v] = run[v]
  BY <1>1, <1>3, TheWorkers DEF RunStep
<1>9. ScanStays /\ run'["recovery"].at = RR.at /\ run'["recovery"].job = RR.job
      /\ run'["scan"].job = SR.job /\ run'["scan"].bad = SR.bad
  BY <1>8, Basics DEF ScanStays, SR, RR
<1>10. ScanFits'
  <2>1. SR.at \in {"filter", "persist"} => \A k \in Ids : job'[SR.job].item[k] = "absent"
    <3> SUFFICES ASSUME SR.at \in {"filter", "persist"} PROVE \A k \in Ids : job'[SR.job].item[k] = "absent"
      OBVIOUS
    <3>1. SR.job \in Jobs /\ \A k \in Ids : job[SR.job].item[k] = "absent"
      BY Holding DEF Parts, ScanFits, SR, Empty, Item
    <3>2. SR.job # run[w].job
      BY <1>5, <3>1
    <3> QED  BY <1>3, <3>1, <3>2 DEF JobStep, Others
  <2>2. SR.at = "work" =>
          \A k \in Ids : job'[SR.job].item[k] = "failed" => job[SR.job].item[k] = "failed"
    BY <1>3, Holding DEF JobStep, Others
  <2> QED  BY <1>6, <1>9, <2>1, <2>2, SameScanFits DEF Parts
<1>11. RecoveryFits'
  BY <1>6, <1>9, SameRecoveryFits DEF Parts
<1>12. ClaimsFit'
  <2>1. job'[run[w].job].item[i] = "downloading" /\ i # 0
    BY <1>2, <1>3, Basics DEF JobStep
  <2>2. ASSUME NEW v \in Workers, v # w, run[v].claim # 0
        PROVE  /\ job'[run[v].job].item[run[v].claim] = "downloading"
               /\ run[v].at = "work"
               /\ run[v].job = run[w].job => run[v].claim # i
    <3>1. /\ run[v].at = "work" /\ run[v].claim \in Ids
          /\ job[run[v].job].item[run[v].claim] = "downloading"
      BY <2>2, Holding
    <3>2. run[v].job = run[w].job => run[v].claim # i
      BY <1>5, <3>1
    <3> QED  BY <1>2, <1>3, <2>2, <3>1, <3>2, ClaimOfOther
  <2>3. w = "scan" \/ w = "recovery"
    BY DEF Workers
  <2>4. \A v \in Workers : run'[v].claim # 0 =>
           run'[v].at = "work" /\ job'[run'[v].job].item[run'[v].claim] = "downloading"
    BY <1>1, <1>8, <2>1, <2>2
  <2>5. run'["scan"].claim # 0 /\ run'["recovery"].claim # 0
          /\ run'["scan"].job = run'["recovery"].job =>
            run'["scan"].claim # run'["recovery"].claim
    <3>1. CASE w = "scan"
      <4>1. run'["recovery"] = run["recovery"]
        BY <1>8, <3>1, Basics
      <4> QED  BY <1>8, <2>2, <3>1, <4>1, Basics
    <3>2. CASE w = "recovery"
      <4>1. run'["scan"] = run["scan"]
        BY <1>8, <3>2, Basics
      <4> QED  BY <1>8, <2>2, <3>2, <4>1, Basics
    <3> QED  BY <2>3, <3>1, <3>2
  <2> QED  BY <2>4, <2>5 DEF ClaimsFit, Item
<1> QED  BY <1>4, <1>6, <1>7, <1>10, <1>11, <1>12, WorkerKeeps

LEMMA SettleKeeps ==
  ASSUME CursorAssumption, Parts, NEW w \in Workers, Settle(w)
  PROVE  TypeOK' /\ Keeps
<1> DEFINE c == run[w].claim
<1>1. c # 0 /\ run[w].at = "work" /\ c \in Ids /\ job[run[w].job].item[c] = "downloading"
  BY Holding DEF Settle
<1>2. run[w].job \in Jobs /\ job[run[w].job].st # "none"
  BY <1>1, Holding
<1>3. PICK out \in {"success", "failed", "skipped"} :
         /\ JobStep(run[w].job, {c}, out, job[run[w].job].st)
         /\ RunStep(w, run[w].at, run[w].job, run[w].last, run[w].hi, run[w].page, 0,
                    IF out = "failed" THEN run[w].ok ELSE run[w].ok \cup {c},
                    IF out = "failed" THEN run[w].bad \cup {c} ELSE run[w].bad)
  BY <1>2, SettleDoes DEF Parts
<1>4. TypeOK' /\ UNCHANGED << decision, review, history >>
  BY <1>2, SettleDoes DEF Parts, Settle
<1>5. ~Sealed(run[w].job) /\ ~Empty(run[w].job)
  BY <1>1 DEF Item, Sealed, ClosedWith, Empty
<1>6. JobsStay /\ HistoryGrows /\ DecisionsStay
  BY <1>1, <1>2, <1>3, <1>4, <1>5, JobStepStays, SameHistoryGrows, SameDecisionsStay DEF Item
<1>7. JobsFit'
  BY <1>2, <1>3, <1>5, <1>6, JobStepFits DEF Parts
<1>8. /\ run'[w].at = run[w].at /\ run'[w].job = run[w].job /\ run'[w].last = run[w].last
      /\ run'[w].hi = run[w].hi /\ run'[w].page = run[w].page /\ run'[w].claim = 0
      /\ run[w].bad \subseteq run'[w].bad /\ (out = "failed" => c \in run'[w].bad)
      /\ \A i \in run'[w].ok \ run[w].ok : i = c /\ out # "failed"
      /\ \A v \in Workers : v = w \/ run'[v] = run[v]
  BY <1>3, TheWorkers DEF RunStep
<1>9. job'[run[w].job].item[c] = out
  BY <1>1, <1>3 DEF JobStep
<1>10. ScanStays
  BY <1>1, <1>8, <1>9, Basics DEF ScanStays, SR
<1>11. run'["recovery"].at = RR.at /\ run'["recovery"].job = RR.job /\ run'["scan"].job = SR.job
  BY <1>8, Basics DEF SR, RR
<1>12. ScanFits'
  <2>1. SR.at \in {"filter", "persist"} => \A k \in Ids : job'[SR.job].item[k] = "absent"
    <3> SUFFICES ASSUME SR.at \in {"filter", "persist"} PROVE \A k \in Ids : job'[SR.job].item[k] = "absent"
      OBVIOUS
    <3>1. SR.job \in Jobs /\ \A k \in Ids : job[SR.job].item[k] = "absent"
      BY Holding DEF Parts, ScanFits, SR, Empty, Item
    <3>2. SR.job # run[w].job
      BY <1>1, <3>1
    <3> QED  BY <1>3, <3>1, <3>2 DEF JobStep, Others
  <2>2. ASSUME SR.at = "work"
        PROVE  \/ SR.job \in history'.shared
               \/ \A k \in Ids : job'[SR.job].item[k] = "failed" =>
                    job[SR.job].item[k] = "failed" \/ k \in run'["scan"].bad
    <3>1. SR.job \in Jobs
      BY <2>2, Holding
    <3>2. CASE w = "scan"
      BY <1>3, <1>8, <1>9, <3>1, <3>2 DEF JobStep, SR
    <3>3. CASE w = "recovery" /\ SR.job = run[w].job
      BY <1>1, <1>4, <3>3 DEF Parts, RecoveryFits, SR
    <3>4. CASE SR.job # run[w].job
      BY <1>3, <3>1, <3>4 DEF JobStep, Others
    <3> QED  BY <3>2, <3>3, <3>4 DEF Workers
  <2> QED  BY <1>6, <1>10, <2>1, <2>2, SameScanFits DEF Parts
<1>13. RecoveryFits'
  BY <1>6, <1>11, SameRecoveryFits DEF Parts
<1>14. ClaimsFit'
  <2>1. ASSUME NEW v \in Workers PROVE ClaimStays(v)
    <3>1. CASE v = w
      BY <1>8, <3>1 DEF ClaimStays
    <3>2. CASE v # w
      <4>1. run'[v] = run[v]
        BY <1>8, <3>2
      <4>2. ASSUME run[v].claim # 0, run[v].job = run[w].job PROVE run[v].claim # c
        BY <1>1, <3>2, <4>2 DEF Parts, ClaimsFit, Workers
      <4>3. run[v].claim # 0 => job'[run[v].job].item[run[v].claim] = "downloading"
        BY <1>2, <1>3, <4>2, ClaimOfOther
      <4> QED  BY <4>1, <4>3 DEF ClaimStays
    <3> QED  BY <3>1, <3>2
  <2> QED  BY <2>1, ClaimsStay, Basics DEF Parts
<1> QED  BY <1>4, <1>6, <1>7, <1>12, <1>13, <1>14, WorkerKeeps

\* A step of a job that only sets its status.
LEMMA StatusKeeps ==
  ASSUME CursorAssumption, Parts, NEW j \in Jobs, NEW s, JobStep(j, {}, "absent", s),
         job[j].st # "none", s # "none", ~Sealed(j), HistoryGrows,
         UNCHANGED << decision, review >>
  PROVE  /\ JobsStay /\ JobsFit' /\ DecisionsStay
         /\ \A k \in Jobs : \A i \in Ids : job'[k].item[i] = job[k].item[i]
<1>1. JobsStay /\ DecisionsStay
  BY JobStepStays, SameDecisionsStay
<1>2. JobsFit'
  BY <1>1, JobStepFits DEF Parts
<1>3. \A k \in Jobs : \A i \in Ids : job'[k].item[i] = job[k].item[i]
  BY DEF JobStep, Others
<1> QED  BY <1>1, <1>2, <1>3

\* When no item changes, the claims stay with their workers.
LEMMA ClaimsOfSameItems ==
  ASSUME CursorAssumption, Parts,
         \A k \in Jobs : \A i \in Ids : job'[k].item[i] = job[k].item[i],
         \A w \in Workers :
            \/ run'[w].claim = 0
            \/ run'[w].claim = run[w].claim /\ run'[w].job = run[w].job /\ run'[w].at = run[w].at
  PROVE  ClaimsFit'
<1>1. \A w \in Workers : ClaimStays(w)
  BY Holding DEF ClaimStays
<1> QED  BY <1>1, ClaimsStay, Basics DEF Parts

LEMMA ScanFinishKeeps ==
  ASSUME CursorAssumption, Parts, ScanFinish
  PROVE  TypeOK' /\ Keeps
<1>1. SR.at = "work"
  BY DEF ScanFinish, Drained, SR
<1>2. SR.job \in Jobs /\ job[SR.job].st # "none"
  BY <1>1, Holding
<1>3. /\ TypeOK' /\ run'["scan"] = IdleRun /\ run'["recovery"] = RR
      /\ UNCHANGED << decision, review, history >>
  BY <1>2, ScanFinishDoes DEF Parts, ScanFinish
<1>4. HistoryGrows
  BY <1>3, SameHistoryGrows
<1>5. /\ JobsStay /\ JobsFit'
      /\ \A k \in Jobs : \A i \in Ids : job'[k].item[i] = job[k].item[i]
  <2>1. CASE UNCHANGED job
    BY <1>3, <2>1, SameJobsStay, SameDecisionsStay, SameJobsFit DEF Parts
  <2>2. CASE /\ Closable(SR.job)
             /\ JobStep(SR.job, {}, "absent", IF SR.bad # {} THEN "errors" ELSE "completed")
    <3>1. ~Sealed(SR.job)
      BY <2>2 DEF Closable, Runnable, Sealed, ClosedWith
    <3>2. (IF SR.bad # {} THEN "errors" ELSE "completed") # "none"
      OBVIOUS
    <3> QED  BY <1>2, <1>3, <1>4, <2>2, <3>1, <3>2, StatusKeeps
  <2> QED  BY <1>2, <2>1, <2>2, ScanFinishDoes DEF Parts
<1>6. ScanFits'
  BY <1>3, IdleScanFits
<1>7. RecoveryFits'
  BY <1>3, <1>4, <1>5, SameRecoveryFits, Holding, IdleTypes, Basics DEF Parts
<1>8. ClaimsFit'
  <2>1. \A w \in Workers : w = "scan" \/ w = "recovery"
    BY DEF Workers
  <2> QED  BY <1>3, <1>5, <2>1, ClaimsOfSameItems, IdleTypes DEF RR
<1> QED  BY <1>3, <1>4, <1>5, <1>6, <1>7, <1>8, WorkerKeeps

\* A taken item is never one that a worker holds.
LEMMA RecoveryTakeKeeps ==
  ASSUME CursorAssumption, Parts, RecoveryTake
  PROVE  TypeOK' /\ Keeps
<1>1. /\ TypeOK' /\ Repairs /\ RR.at = "idle"
      /\ UNCHANGED << decision, review, history >>
  BY RecoveryTakeDoes DEF Parts, RecoveryTake
<1>2. PICK j \in Jobs :
         /\ job'[j].st \in {"pending", "running"} /\ \E i \in Ids : Item(j, i)' = "pending"
         /\ RunStep("recovery", "start", j, 0, 0, {}, 0, {}, {})
  BY RecoveryTakeDoes DEF Parts
<1>3. /\ run'["recovery"].at = "start" /\ run'["recovery"].job = j /\ run'["recovery"].claim = 0
      /\ run'["scan"] = run["scan"]
  BY <1>2 DEF RunStep, Other
<1>4. JobsStay /\ HistoryGrows /\ DecisionsStay
  BY <1>1, RepairsStay, SameHistoryGrows, SameDecisionsStay DEF Parts
<1>5. JobsFit'
  BY <1>1, <1>4, RepairsFit DEF Parts
<1>6. ScanFits'
  <2>1. SR.at \in {"filter", "persist"} => \A i \in Ids : job'[SR.job].item[i] = "absent"
    <3> SUFFICES ASSUME SR.at \in {"filter", "persist"} PROVE \A i \in Ids : job'[SR.job].item[i] = "absent"
      OBVIOUS
    <3>1. SR.job \in Jobs /\ \A i \in Ids : job[SR.job].item[i] = "absent"
      BY Holding DEF Parts, ScanFits, SR, Empty, Item
    <3> QED  BY <1>1, <3>1 DEF Repairs, Item
  <2>2. SR.at = "work" =>
          \A i \in Ids : job'[SR.job].item[i] = "failed" => job[SR.job].item[i] = "failed"
    BY <1>1, Holding DEF Repairs, Item
  <2> QED  BY <1>3, <1>4, <2>1, <2>2, SameScanFits, SameScanStays DEF Parts
<1>7. RecoveryFits'
  BY <1>2, <1>3 DEF RecoveryFits, Known, Empty, Item
<1>8. ClaimsFit'
  <2>1. ASSUME run["scan"].claim # 0
        PROVE  job'[run["scan"].job].item[run["scan"].claim] = "downloading"
    <3>1. /\ run["scan"].claim \in Ids /\ run["scan"].job \in Jobs
          /\ job[run["scan"].job].item[run["scan"].claim] = "downloading"
      BY <2>1, Holding, Basics
    <3>2. <<run["scan"].job, run["scan"].claim>> \in Held
      BY Basics DEF Held
    <3> QED  BY <1>1, <3>1, <3>2 DEF Repairs, Item
  <2>2. ClaimStays("scan") /\ ClaimStays("recovery")
    BY <1>3, <2>1 DEF ClaimStays
  <2> QED  BY <2>2, ClaimsStay DEF Parts
<1> QED  BY <1>1, <1>4, <1>5, <1>6, <1>7, <1>8, WorkerKeeps

\* Recovery that joins the scan of a job is recorded.
LEMMA RecoveryStartKeeps ==
  ASSUME CursorAssumption, Parts, RecoveryStart
  PROVE  TypeOK' /\ Keeps
<1>1. RR.at = "start"
  BY DEF RecoveryStart, RR
<1>2. RR.job \in Jobs /\ job[RR.job].st # "none" /\ ~Empty(RR.job) /\ RR.claim = 0
  BY <1>1, Holding, Basics DEF RR
<1>3. TypeOK' /\ UNCHANGED << decision, review >>
  BY <1>2, RecoveryStartDoes DEF Parts, RecoveryStart
<1>4. ASSUME run'["recovery"] = IdleRun, run'["scan"] = SR, UNCHANGED << job, history >>
      PROVE  Keeps
  <2>1. JobsStay /\ HistoryGrows /\ DecisionsStay
    BY <1>3, <1>4, SameJobsStay, SameHistoryGrows, SameDecisionsStay
  <2>2. JobsFit'
    BY <1>4, <2>1, SameJobsFit DEF Parts
  <2>3. ScanFits'
    BY <1>4, <2>1, SameScanFits, SameScanStays DEF Parts, ScanFits, SR, Empty, Item
  <2>4. RecoveryFits'
    BY <1>4, IdleRecoveryFits
  <2>5. ClaimsFit'
    <3>1. \A w \in Workers : w = "scan" \/ w = "recovery"
      BY DEF Workers
    <3> QED  BY <1>4, <3>1, ClaimsOfSameJobs, IdleTypes DEF SR
  <2> QED  BY <1>3, <2>1, <2>2, <2>3, <2>4, <2>5, WorkerKeeps
<1>5. ASSUME \E i \in Ids : Item(RR.job, i) = "pending",
             JobStep(RR.job, {}, "absent", "running"),
             RunStep("recovery", "work", RR.job, RR.last, RR.hi, RR.page, RR.claim, RR.ok, RR.bad),
             history'.jumped = history.jumped, history'.overshot = history.overshot,
             history'.shared = history.shared \cup {k \in {RR.job} : SR.job = k}
      PROVE  Keeps
  <2>1. HistoryGrows
    BY <1>5 DEF HistoryGrows
  <2>2. ~Sealed(RR.job)
    BY <1>5 DEF Sealed, ClosedWith
  <2>3. /\ JobsStay /\ JobsFit' /\ DecisionsStay
        /\ \A k \in Jobs : \A i \in Ids : job'[k].item[i] = job[k].item[i]
    BY <1>2, <1>3, <1>5, <2>1, <2>2, StatusKeeps
  <2>4. /\ run'["recovery"].at = "work" /\ run'["recovery"].job = RR.job
        /\ run'["recovery"].claim = 0 /\ run'["scan"] = run["scan"]
    BY <1>2, <1>5 DEF RunStep, Other
  <2>5. ScanFits'
    <3>1. SR.at \in {"filter", "persist"} => \A i \in Ids : job'[SR.job].item[i] = "absent"
      BY <2>3, Holding DEF Parts, ScanFits, SR, Empty, Item
    <3>2. SR.at = "work" =>
            \A i \in Ids : job'[SR.job].item[i] = "failed" => job[SR.job].item[i] = "failed"
      BY <2>3, Holding
    <3> QED  BY <2>1, <2>3, <2>4, <3>1, <3>2, SameScanFits, SameScanStays DEF Parts
  <2>6. RecoveryFits'
    <3>1. RR.job \in Known' /\ ~Empty(RR.job)
      BY <1>2, <1>5 DEF JobStep, Known
    <3>2. \E i \in Ids : job'[RR.job].item[i] # "absent"
      BY <1>2, <2>3, <3>1 DEF Empty, Item
    <3>3. SR.job = RR.job => RR.job \in history'.shared
      BY <1>5
    <3> QED  BY <2>4, <3>1, <3>2, <3>3 DEF RecoveryFits, Empty, Item, SR
  <2>7. ClaimsFit'
    <3>1. \A w \in Workers : w = "scan" \/ w = "recovery"
      BY DEF Workers
    <3> QED  BY <2>3, <2>4, <3>1, ClaimsOfSameItems
  <2> QED  BY <1>3, <2>1, <2>3, <2>5, <2>6, <2>7, WorkerKeeps
<1> QED  BY <1>2, <1>3, <1>4, <1>5, RecoveryStartDoes DEF Parts

\* A job that has a range has a first message.
LEMMA RecoveryFinishKeeps ==
  ASSUME CursorAssumption, Parts, RecoveryFinish
  PROVE  TypeOK' /\ Keeps
<1>1. RR.at = "work"
  BY DEF RecoveryFinish, Drained, RR
<1>2. RR.job \in Jobs /\ job[RR.job].st # "none"
  BY <1>1, Holding
<1>3. Runnable(RR.job) => job[RR.job].to = 0 \/ job[RR.job].from # 0
  BY <1>2 DEF Parts, JobsFit
<1>4. /\ TypeOK' /\ run'["recovery"] = IdleRun /\ run'["scan"] = SR
      /\ history'.jumped = history.jumped /\ history'.shared = history.shared
      /\ UNCHANGED << decision, review >>
  BY <1>2, <1>3, RecoveryFinishDoes DEF Parts, RecoveryFinish
<1>5. HistoryGrows
  BY <1>2, <1>3, <1>4, RecoveryFinishDoes DEF Parts, HistoryGrows
<1>6. UNCHANGED job \/ (\E s \in {"failed", "errors", "completed"} : JobStep(RR.job, {}, "absent", s)
                           /\ (Runnable(RR.job) \/ job[RR.job].to = 0))
  BY <1>2, <1>3, RecoveryFinishDoes DEF Parts
<1>7. /\ JobsStay /\ JobsFit'
      /\ \A k \in Jobs : \A i \in Ids : job'[k].item[i] = job[k].item[i]
  <2>1. CASE UNCHANGED job
    BY <1>4, <2>1, SameJobsStay, SameDecisionsStay, SameJobsFit DEF Parts
  <2>2. ASSUME NEW s \in {"failed", "errors", "completed"}, JobStep(RR.job, {}, "absent", s),
               Runnable(RR.job) \/ job[RR.job].to = 0
        PROVE  /\ JobsStay /\ JobsFit'
               /\ \A k \in Jobs : \A i \in Ids : job'[k].item[i] = job[k].item[i]
    <3>1. ~Sealed(RR.job)
      <4>1. Sealed(RR.job) => job[RR.job].st = "completed" /\ job[RR.job].decision = 0
        BY DEF Sealed, ClosedWith
      <4>2. job[RR.job].st = "completed" => ~Runnable(RR.job)
        BY DEF Runnable
      <4>3. job[RR.job].decision = 0 => job[RR.job].to # 0
        BY <1>2 DEF Parts, JobsFit
      <4> QED  BY <2>2, <4>1, <4>2, <4>3
    <3> QED  BY <1>2, <1>4, <1>5, <2>2, <3>1, StatusKeeps
  <2> QED  BY <1>6, <2>1, <2>2
<1>8. ScanFits'
  <2>1. SR.at \in {"filter", "persist"} => \A i \in Ids : job'[SR.job].item[i] = "absent"
    BY <1>7, Holding DEF Parts, ScanFits, SR, Empty, Item
  <2>2. SR.at = "work" =>
          \A i \in Ids : job'[SR.job].item[i] = "failed" => job[SR.job].item[i] = "failed"
    BY <1>7, Holding
  <2>3. DecisionsStay /\ ScanStays
    BY <1>4, SameDecisionsStay, SameScanStays DEF SR
  <2> QED  BY <1>4, <1>5, <1>7, <2>1, <2>2, <2>3, SameScanFits DEF Parts
<1>9. RecoveryFits'
  BY <1>4, IdleRecoveryFits
<1>10. ClaimsFit'
  <2>1. \A w \in Workers : w = "scan" \/ w = "recovery"
    BY DEF Workers
  <2> QED  BY <1>4, <1>7, <2>1, ClaimsOfSameItems, IdleTypes DEF SR
<1> QED  BY <1>4, <1>5, <1>7, <1>8, <1>9, <1>10, WorkerKeeps

LEMMA SwitchKeeps ==
  ASSUME CursorAssumption, Parts, Publish \/ DueAgain \/ Enable \/ Disable \/ SetFilter \/ FromNowRead
  PROVE  TypeOK' /\ Keeps
BY SwitchDoes, SameHistoryGrows, QuietKeeps DEF Parts

LEMMA FromNowKeeps ==
  ASSUME CursorAssumption, Parts, FromNow
  PROVE  TypeOK' /\ Keeps
<1>1. HistoryGrows
  BY FromNowDoes DEF Parts, HistoryGrows
<1> QED  BY <1>1, FromNowDoes, QuietKeeps DEF Parts

\* A step of a job that no worker takes, and that touches nothing a worker holds.
LEMMA JobFrames ==
  ASSUME CursorAssumption, Parts, NEW j \in Jobs, NEW S, NEW v, NEW s, JobStep(j, S, v, s),
         job[j].st # "none", s # "none", ~Sealed(j), v # "absent" \/ S = {},
         \A i \in S \cap Ids : Item(j, i) \notin {"success", "skipped", "downloading"} \/ Item(j, i) = v,
         \A i \in S \cap Ids : v = "failed" => Item(j, i) = "failed", S \subseteq Ids,
         job[j].decision = 0 /\ Empty(j) => S = {},
         UNCHANGED << run, decision >>, HistoryGrows
  PROVE  JobsStay /\ DecisionsStay /\ JobsFit' /\ ScanFits' /\ RecoveryFits' /\ ClaimsFit'
<1>1. JobsStay /\ DecisionsStay
  <2>1. \A i \in S : Item(j, i) \notin {"success", "skipped"} \/ Item(j, i) = v
    OBVIOUS
  <2> QED  BY <2>1, JobStepStays, SameDecisionsStay
<1>2. JobsFit'
  BY <1>1, JobStepFits DEF Parts
<1>3. run'["scan"] = run["scan"] /\ run'["recovery"] = run["recovery"]
  OBVIOUS
<1>4. ScanFits'
  <2>1. SR.at \in {"filter", "persist"} => \A i \in Ids : job'[SR.job].item[i] = "absent"
    <3> SUFFICES ASSUME SR.at \in {"filter", "persist"} PROVE \A i \in Ids : job'[SR.job].item[i] = "absent"
      OBVIOUS
    <3>1. /\ SR.job \in Jobs /\ Empty(SR.job) /\ job[SR.job].decision = 0
          /\ \A i \in Ids : job[SR.job].item[i] = "absent"
      BY Holding DEF Parts, ScanFits, SR, Empty, Item
    <3>2. SR.job = j => S = {}
      BY <3>1
    <3>3. CASE SR.job = j
      BY <3>1, <3>2, <3>3 DEF JobStep
    <3>4. CASE SR.job # j
      BY <3>1, <3>4 DEF JobStep, Others
    <3> QED  BY <3>3, <3>4
  <2>2. SR.at = "work" =>
          \A i \in Ids : job'[SR.job].item[i] = "failed" => job[SR.job].item[i] = "failed"
    <3>1. SR.at = "work" => SR.job \in Jobs
      BY Holding
    <3>2. \A i \in Ids : job'[j].item[i] = "failed" => job[j].item[i] = "failed"
      BY DEF JobStep, Item
    <3> QED  BY <3>1, <3>2 DEF JobStep, Others
  <2> QED  BY <1>1, <1>3, <2>1, <2>2, SameScanFits, SameScanStays DEF Parts
<1>5. RecoveryFits'
  BY <1>1, <1>3, SameRecoveryFits DEF Parts, SR, RR
<1>6. ClaimsFit'
  <2>1. ASSUME NEW w \in Workers PROVE ClaimStays(w)
    <3>1. run[w].claim # 0 =>
            /\ run[w].claim \in Ids /\ run[w].job \in Jobs
            /\ job[run[w].job].item[run[w].claim] = "downloading"
      BY Holding
    <3>2. run[w].claim # 0 => job'[run[w].job].item[run[w].claim] = "downloading"
      <4>1. CASE run[w].job = j
        BY <3>1, <4>1 DEF JobStep, Item
      <4>2. CASE run[w].job # j
        BY <3>1, <4>2 DEF JobStep, Others
      <4> QED  BY <4>1, <4>2
    <3> QED  BY <3>2 DEF ClaimStays
  <2> QED  BY <2>1, ClaimsStay, Basics DEF Parts
<1> QED  BY <1>1, <1>2, <1>4, <1>5, <1>6

LEMMA CommandKeeps ==
  ASSUME CursorAssumption, Parts, NEW j \in Jobs, Pause(j) \/ Resume(j) \/ Cancel(j) \/ Retry(j)
  PROVE  TypeOK' /\ Keeps
<1>1. /\ TypeOK' /\ UNCHANGED << decision, run, review, history >> /\ job[j].st # "none"
      /\ job[j].st # "completed"
  BY CommandDoes DEF Parts
<1>2. ~Sealed(j) /\ HistoryGrows
  BY <1>1, SameHistoryGrows DEF Sealed, ClosedWith
<1>3. PICK S \in SUBSET Ids, v \in {"absent", "skipped", "pending"}, s \in JobStatus \ {"none"} :
         /\ JobStep(j, S, v, s) /\ (v # "absent" \/ S = {})
         /\ \A i \in S : Item(j, i) \in {"pending", "failed"}
  <2>1. ASSUME NEW s \in JobStatus \ {"none"}, JobStep(j, {}, "absent", s)
        PROVE  \E S \in SUBSET Ids, v \in {"absent", "skipped", "pending"}, t \in JobStatus \ {"none"} :
                  /\ JobStep(j, S, v, t) /\ (v # "absent" \/ S = {})
                  /\ \A i \in S : Item(j, i) \in {"pending", "failed"}
    BY <2>1
  <2> DEFINE P == ItemsIn(j, {"pending"})
             F == ItemsIn(j, {"failed"})
  <2>2. /\ P \in SUBSET Ids /\ \A i \in P : Item(j, i) \in {"pending", "failed"}
        /\ F \in SUBSET Ids /\ \A i \in F : Item(j, i) \in {"pending", "failed"}
        /\ {"cancelled", "running"} \subseteq JobStatus \ {"none"}
    BY DEF ItemsIn, Item, JobStatus
  <2>3. \/ \E s \in JobStatus \ {"none"} : JobStep(j, {}, "absent", s)
        \/ JobStep(j, P, "skipped", "cancelled")
        \/ JobStep(j, F, "pending", "running")
    BY CommandDoes DEF Parts
  <2> HIDE DEF P, F
  <2> QED  BY <2>1, <2>2, <2>3
<1>4. Empty(j) => S = {}
  BY <1>3 DEF Empty
<1>5. \A i \in S \cap Ids : Item(j, i) \notin {"success", "skipped", "downloading"}
  BY <1>3
<1>6. JobsStay /\ DecisionsStay /\ JobsFit' /\ ScanFits' /\ RecoveryFits' /\ ClaimsFit'
  <2>1. s # "none" /\ v # "failed"
    BY <1>3
  <2> QED  BY <1>1, <1>2, <1>3, <1>4, <1>5, <2>1, JobFrames
<1> QED  BY <1>1, <1>2, <1>6, WorkerKeeps

\* A decision that is set as one of the filter or of a user is.
LEMMA DecisionStepFits ==
  ASSUME Parts, NEW i \in Ids, NEW st, NEW label, NEW restore, NEW j,
         DecisionStep(i, st, label, restore, j), UNCHANGED job,
         label = "ad" => st = "blocked",
         label = "none" => (st = "blocked" => i \in Ads) /\ (st = "allow" => i \notin Ads),
         j # 0 => Item(j, i) # "absent", i \in Ads /\ label = "normal" => Queued(i)
  PROVE  DecisionsFit'
<1> SUFFICES ASSUME NEW k \in Ids
    PROVE  /\ decision'[k].label = "ad" => decision'[k].st = "blocked"
           /\ decision'[k].label = "none" =>
                /\ decision'[k].st = "blocked" => k \in Ads
                /\ decision'[k].st = "allow" => k \notin Ads
           /\ decision'[k].job # 0 => job[decision'[k].job].item[k] # "absent"
           /\ k \in Ads /\ decision'[k].label = "normal" => Queued(k)
  BY DEF DecisionsFit, Item, Queued, Known
<1>1. CASE k = i
  BY <1>1 DEF DecisionStep, Item
<1>2. CASE k # i
  <2>1. decision'[k] = decision[k]
    BY <1>2 DEF DecisionStep
  <2> QED  BY <2>1 DEF Parts, DecisionsFit, Item
<1> QED  BY <1>1, <1>2

\* The review of a decision leaves jobs and workers alone.
LEMMA DecisionFrames ==
  ASSUME CursorAssumption, Parts, UNCHANGED << job, run, history >>, DecisionsStay
  PROVE  /\ JobsStay /\ HistoryGrows /\ JobsFit' /\ ScanFits' /\ RecoveryFits' /\ ClaimsFit'
         /\ \A i \in Ids : Queued(i) => Queued(i)'
<1>1. JobsStay /\ HistoryGrows
  BY SameJobsStay, SameHistoryGrows
<1>2. \A i \in Ids : Queued(i) => Queued(i)'
  BY <1>1, CoveredStays DEF Parts
<1>3. JobsFit'
  BY SameJobsFit DEF Parts
<1>4. ScanFits'
  BY <1>1, SameScanFits, SameScanStays DEF Parts, ScanFits, SR, Empty, Item
<1>5. RecoveryFits'
  BY <1>1, SameRecoveryFits DEF Parts, SR, RR
<1>6. ClaimsFit'
  BY ClaimsOfSameJobs
<1> QED  BY <1>1, <1>2, <1>3, <1>4, <1>5, <1>6

\* A message a job has is queued.
LEMMA InJob ==
  ASSUME CursorAssumption, Parts, NEW i \in Ids, NEW j \in Jobs, Item(j, i) # "absent"
  PROVE  Queued(i)
BY DEF Parts, JobsFit, Empty, Queued, Known

LEMMA ReviewClaimKeeps ==
  ASSUME CursorAssumption, Parts, NEW i \in Ids, NEW label \in {"ad", "normal"},
         ReviewClaim(i, label)
  PROVE  TypeOK' /\ Keeps
<1>1. TypeOK' /\ UNCHANGED << job, run, history >> /\ decision[i].st # "none"
  BY ReviewClaimDoes DEF Parts
<1>2. decision[i].job # 0 => Item(decision[i].job, i) # "absent" /\ decision[i].job \in Jobs
  BY ReviewTyping, Basics DEF Parts, DecisionsFit, Jobs
<1>3. /\ decision[i].label = "ad" => decision[i].st = "blocked"
      /\ decision[i].label = "none" =>
           /\ decision[i].st = "blocked" => i \in Ads
           /\ decision[i].st = "allow" => i \notin Ads
      /\ i \in Ads /\ decision[i].label = "normal" => Queued(i)
      /\ decision[i].st \in {"blocked", "allow"} /\ decision[i].label \in {"none", "ad", "normal"}
  BY <1>1, Typing DEF Parts, DecisionsFit, DecisionType
<1>4. CASE /\ DecisionStep(i, decision[i].st, decision[i].label, "restoring", decision[i].job)
           /\ ReviewStepTo(IF decision[i].st = "blocked" THEN "job" ELSE "mark", i, label, 0)
  <2>1. DecisionsStay
    BY <1>4, DecisionStepStays DEF Passed
  <2>2. DecisionsFit'
    BY <1>1, <1>2, <1>3, <1>4, DecisionStepFits
  <2>3. /\ JobsStay /\ HistoryGrows /\ JobsFit' /\ ScanFits' /\ RecoveryFits' /\ ClaimsFit'
        /\ \A k \in Ids : Queued(k) => Queued(k)'
    BY <1>1, <2>1, DecisionFrames
  <2>4. /\ review'.at \in {"job", "mark"} /\ review'.id = i /\ review'.label = label
        /\ review'.at = "mark" => decision[i].st # "blocked"
    BY <1>4 DEF ReviewStepTo
  <2>5. review'.at = "mark" /\ i \in Ads => Queued(i)'
    BY <1>3, <2>3, <2>4
  <2>6. decision'[i].st # "none"
    BY <1>1, <1>4 DEF DecisionStep
  <2>7. ReviewFits'
    BY <2>4, <2>5, <2>6 DEF ReviewFits
  <2> QED  BY <1>1, <2>1, <2>2, <2>3, <2>7 DEF Keeps
<1>5. CASE /\ UNCHANGED decision /\ (label = "normal" => decision[i].job # 0)
           /\ ReviewStepTo("mark", i, label, 0)
  <2>1. DecisionsStay
    BY <1>5, SameDecisionsStay
  <2>2. /\ JobsStay /\ HistoryGrows /\ JobsFit' /\ ScanFits' /\ RecoveryFits' /\ ClaimsFit'
        /\ \A k \in Ids : Queued(k) => Queued(k)'
    BY <1>1, <2>1, DecisionFrames
  <2>3. DecisionsFit'
    BY <1>5, <2>2, SameDecisionsFit DEF Parts
  <2>4. label = "normal" => Queued(i)'
    BY <1>2, <1>5, <2>2, InJob
  <2>5. ReviewFits'
    BY <1>1, <1>5, <2>4 DEF ReviewFits, ReviewStepTo
  <2> QED  BY <1>1, <2>1, <2>2, <2>3, <2>5 DEF Keeps
<1> QED  BY <1>4, <1>5, ReviewClaimDoes DEF Parts

\* Only what is recorded of the restore changes.
LEMMA RestoreKeeps ==
  ASSUME CursorAssumption, Parts, NEW i \in Ids, NEW restore,
         DecisionStep(i, decision[i].st, decision[i].label, restore, decision[i].job),
         UNCHANGED << job, run, history >>, UNCHANGED review \/ review' = IdleReview
  PROVE  Keeps
<1>1. DecisionsStay
  BY DecisionStepStays DEF Passed
<1>2. DecisionsFit'
  BY DecisionStepFits DEF Parts, DecisionsFit
<1>3. /\ JobsStay /\ HistoryGrows /\ JobsFit' /\ ScanFits' /\ RecoveryFits' /\ ClaimsFit'
      /\ \A k \in Ids : Queued(k) => Queued(k)'
  BY <1>1, DecisionFrames
<1>4. ReviewFits'
  BY <1>1, <1>3, SameReviewFits, NoReviewFits DEF Parts
<1> QED  BY <1>1, <1>2, <1>3, <1>4 DEF Keeps

LEMMA RestoreStaleKeeps ==
  ASSUME CursorAssumption, Parts, NEW i \in Ids, RestoreStale(i)
  PROVE  TypeOK' /\ Keeps
BY RestoreStaleDoes, RestoreKeeps DEF Parts

LEMMA ReviewFailsKeeps ==
  ASSUME CursorAssumption, Parts, ReviewFails
  PROVE  TypeOK' /\ Keeps
<1>1. review.id \in Ids
  BY Holding DEF ReviewFails
<1> QED  BY <1>1, ReviewFailsDoes, RestoreKeeps DEF Parts

LEMMA ReviewJobKeeps ==
  ASSUME CursorAssumption, Parts, ReviewJob
  PROVE  TypeOK' /\ Keeps
<1>1. review.id \in Ids /\ review.at = "job" /\ review.label # "none" /\ decision[review.id].st # "none"
  BY Holding DEF ReviewJob, Parts, ReviewFits
<1>2. TypeOK' /\ UNCHANGED << decision, run, history >>
  BY <1>1, ReviewJobDoes DEF Parts
<1>3. DecisionsStay /\ HistoryGrows
  BY <1>2, SameDecisionsStay, SameHistoryGrows
<1>4. PICK j \in Jobs :
         /\ ReviewStepTo("items", review.id, review.label, j)
         /\ \/ job[j].st # "none" /\ job[j].decision = review.id /\ UNCHANGED job
            \/ JobNew(j, review.id, 0, 0, 0)
  BY <1>1, ReviewJobDoes DEF Parts
<1>5. ReviewFits'
  <2>1. j \in Known' /\ job'[j].decision = review.id
    BY <1>4 DEF JobNew, Known
  <2> QED  BY <1>1, <1>2, <1>4, <2>1 DEF ReviewFits, ReviewStepTo
<1>6. CASE UNCHANGED job
  <2>1. /\ JobsStay /\ HistoryGrows /\ JobsFit' /\ ScanFits' /\ RecoveryFits' /\ ClaimsFit'
        /\ \A k \in Ids : Queued(k) => Queued(k)'
    BY <1>2, <1>3, <1>6, DecisionFrames
  <2>2. DecisionsFit'
    BY <1>2, <2>1, SameDecisionsFit DEF Parts
  <2> QED  BY <1>2, <1>3, <1>5, <2>1, <2>2 DEF Keeps
<1>7. CASE JobNew(j, review.id, 0, 0, 0)
  <2>1. JobsStay
    BY <1>7, NewJobStays
  <2>2. JobsFit'
    BY <1>1, <1>3, <1>7, NewJobFits, Basics DEF Parts
  <2>3. \A k \in Jobs : job[k].st # "none" => job'[k] = job[k]
    BY <1>7 DEF JobNew, Others, Known
  <2>4. \A k \in Ids : Queued(k) => Queued(k)'
    BY <1>3, <2>1, CoveredStays DEF Parts
  <2>5. DecisionsFit'
    BY <1>2, <2>1, <2>4, SameDecisionsFit DEF Parts
  <2>6. ScanFits'
    <3>1. SR.at \in {"filter", "persist"} => \A i \in Ids : job'[SR.job].item[i] = "absent"
      BY <2>3, Holding DEF Parts, ScanFits, SR, Empty, Item
    <3>2. SR.at = "work" =>
            \A i \in Ids : job'[SR.job].item[i] = "failed" => job[SR.job].item[i] = "failed"
      BY <2>3, Holding
    <3> QED  BY <1>2, <1>3, <2>1, <3>1, <3>2, SameScanFits, SameScanStays DEF Parts
  <2>7. RecoveryFits'
    BY <1>2, <1>3, <2>1, SameRecoveryFits DEF Parts, SR, RR
  <2>8. ClaimsFit'
    <3>1. \A w \in Workers : ClaimStays(w)
      BY <1>2, <2>3, Holding DEF ClaimStays
    <3> QED  BY <3>1, ClaimsStay, Basics DEF Parts
  <2> QED  BY <1>2, <1>3, <1>5, <2>1, <2>2, <2>5, <2>6, <2>7, <2>8 DEF Keeps
<1> QED  BY <1>4, <1>6, <1>7

LEMMA ReviewItemsKeeps ==
  ASSUME CursorAssumption, Parts, ReviewItems
  PROVE  TypeOK' /\ Keeps
<1>1. /\ review.id \in Ids /\ review.at = "items" /\ review.label # "none"
      /\ decision[review.id].st # "none" /\ review.job \in Jobs /\ job[review.job].st # "none"
      /\ job[review.job].decision = review.id
  BY Holding DEF ReviewItems, Parts, ReviewFits, Known
<1>2. TypeOK' /\ UNCHANGED << decision, run, history >>
  BY <1>1, ReviewItemsDoes DEF Parts
<1>3. DecisionsStay /\ HistoryGrows
  BY <1>2, SameDecisionsStay, SameHistoryGrows
<1>4. PICK v \in ItemStatus \ {"absent"}, s \in JobStatus :
         /\ JobStep(review.job, {review.id}, v, s)
         /\ \/ Item(review.job, review.id) = "absent" /\ v = "pending"
            \/ Item(review.job, review.id) = v
         /\ s = job[review.job].st \/ s = "pending"
  BY <1>1, ReviewItemsDoes DEF Parts
<1>5. ReviewStepTo("restored", review.id, review.label, review.job)
  BY <1>1, ReviewItemsDoes DEF Parts
<1>6. job[review.job].decision # 0 /\ ~Sealed(review.job) /\ s # "none"
  BY <1>1, <1>4, Basics DEF Sealed, ClosedWith
<1>7. JobsStay /\ JobsFit' /\ ScanFits' /\ RecoveryFits' /\ ClaimsFit'
  <2>1. /\ Item(review.job, review.id) \notin {"success", "skipped", "downloading"}
              \/ Item(review.job, review.id) = v
        /\ v = "failed" => Item(review.job, review.id) = "failed"
    BY <1>4
  <2> QED  BY <1>1, <1>2, <1>3, <1>4, <1>6, <2>1, JobFrames
<1>8. \A k \in Ids : Queued(k) => Queued(k)'
  BY <1>3, <1>7, CoveredStays DEF Parts
<1>9. DecisionsFit'
  BY <1>2, <1>7, <1>8, SameDecisionsFit DEF Parts
<1>10. ReviewFits'
  <2>1. /\ job'[review.job].st # "none" /\ job'[review.job].decision = review.id
        /\ job'[review.job].item[review.id] # "absent"
    BY <1>1, <1>4, <1>6 DEF JobStep, Kept
  <2> QED  BY <1>1, <1>2, <1>5, <2>1 DEF ReviewFits, ReviewStepTo, Known, Item
<1> QED  BY <1>2, <1>3, <1>7, <1>9, <1>10 DEF Keeps

LEMMA ReviewRestoredKeeps ==
  ASSUME CursorAssumption, Parts, ReviewRestored
  PROVE  TypeOK' /\ Keeps
<1>1. /\ review.id \in Ids /\ review.at = "restored" /\ review.label # "none"
      /\ decision[review.id].st # "none" /\ review.job \in Jobs
      /\ Item(review.job, review.id) # "absent"
  BY Holding DEF ReviewRestored, Parts, ReviewFits, Known
<1>2. /\ TypeOK' /\ UNCHANGED << job, run, history >>
      /\ ReviewStepTo("mark", review.id, review.label, review.job)
      /\ DecisionStep(review.id, decision[review.id].st, decision[review.id].label,
                      "restored", review.job)
  BY <1>1, ReviewRestoredDoes DEF Parts
<1>3. DecisionsStay
  BY <1>1, <1>2, DecisionStepStays DEF Passed
<1>4. DecisionsFit'
  BY <1>1, <1>2, DecisionStepFits DEF Parts, DecisionsFit
<1>5. /\ JobsStay /\ HistoryGrows /\ JobsFit' /\ ScanFits' /\ RecoveryFits' /\ ClaimsFit'
      /\ \A k \in Ids : Queued(k) => Queued(k)'
  BY <1>2, <1>3, DecisionFrames
<1>6. ReviewFits'
  <2>1. \A k \in Ids : k = review.id => Queued(k)'
    BY <1>1, <1>5, InJob
  <2>2. decision'[review.id].st # "none"
    BY <1>1, <1>3 DEF DecisionsStay
  <2> QED  BY <1>1, <1>2, <2>1, <2>2 DEF ReviewFits, ReviewStepTo
<1> QED  BY <1>2, <1>3, <1>4, <1>5, <1>6 DEF Keeps

LEMMA ReviewMarkKeeps ==
  ASSUME CursorAssumption, Parts, ReviewMark
  PROVE  TypeOK' /\ Keeps
<1>1. /\ review.id \in Ids /\ review.at = "mark" /\ review.label # "none"
      /\ review.label = "normal" /\ review.id \in Ads => Queued(review.id)
  BY Holding DEF ReviewMark, Parts, ReviewFits
<1>2. /\ TypeOK' /\ UNCHANGED << job, run, history >> /\ review' = IdleReview
      /\ DecisionStep(review.id, IF review.label = "ad" THEN "blocked" ELSE "allow", review.label,
                      decision[review.id].restore, decision[review.id].job)
  BY <1>1, ReviewMarkDoes DEF Parts
<1> DEFINE st == IF review.label = "ad" THEN "blocked" ELSE "allow"
<1>3. st # "none" /\ (review.label = "ad" => st = "blocked") /\ (st = "blocked" \/ review.label = "normal")
  BY <1>1, ReviewTyping DEF Parts
<1> HIDE DEF st
<1>4. DecisionStep(review.id, st, review.label, decision[review.id].restore, decision[review.id].job)
  BY <1>2 DEF st
<1>5. DecisionsStay
  BY <1>1, <1>3, <1>4, DecisionStepStays
<1>6. DecisionsFit'
  BY <1>1, <1>2, <1>3, <1>4, DecisionStepFits DEF Parts, DecisionsFit
<1>7. /\ JobsStay /\ HistoryGrows /\ JobsFit' /\ ScanFits' /\ RecoveryFits' /\ ClaimsFit'
  BY <1>2, <1>5, DecisionFrames
<1> QED  BY <1>2, <1>5, <1>6, <1>7, NoReviewFits DEF Keeps

\* A crash loses what the workers and the review hold; the jobs have it.
LEMMA CrashKeeps ==
  ASSUME CursorAssumption, Parts, Crash
  PROVE  TypeOK' /\ Keeps
<1>1. /\ TypeOK' /\ UNCHANGED << decision, job, history >> /\ review' = IdleReview
      /\ run'["scan"] = IdleRun /\ run'["recovery"] = IdleRun
  BY CrashDoes DEF Parts
<1>2. JobsStay /\ DecisionsStay /\ HistoryGrows
  BY <1>1, SameJobsStay, SameDecisionsStay, SameHistoryGrows
<1>3. \A k \in Ids : Queued(k) => Queued(k)'
  BY <1>2, CoveredStays DEF Parts
<1>4. DecisionsFit' /\ ReviewFits' /\ JobsFit' /\ ScanFits' /\ RecoveryFits'
  BY <1>1, <1>2, <1>3, SameDecisionsFit, NoReviewFits, SameJobsFit, IdleScanFits,
     IdleRecoveryFits DEF Parts
<1>5. ClaimsFit'
  <2>1. \A w \in Workers : w = "scan" \/ w = "recovery"
    BY DEF Workers
  <2> QED  BY <1>1, <2>1, IdleTypes, ClaimsOfSameJobs
<1> QED  BY <1>1, <1>2, <1>4, <1>5 DEF Keeps

-----------------------------------------------------------------------------
(* What the cursor has passed                                               *)

\* A step covers what it moves the cursor over, and what a scan or a job that
\* it starts leaves behind.
LEMMA StartsStayCovered ==
  ASSUME CursorAssumption, Parts, StartsAreCovered, TypeOK', Keeps,
         \A i \in Media : i <= sub'.cursor => i <= sub.cursor \/ Covered(i)',
         run'["scan"].at # "idle" =>
            \/ run["scan"].at # "idle" /\ run'["scan"].last = run["scan"].last
            \/ run'["scan"].last = sub.cursor,
         \A j \in Jobs : job[j].st = "none" /\ job'[j].st # "none" /\ job'[j].decision = 0 =>
            run["scan"].at # "idle" /\ job'[j].from = run["scan"].last + 1
  PROVE  StartsAreCovered'
<1>1. \A i \in Ids : Covered(i) => Covered(i)'
  BY CoveredStays DEF Parts, Keeps
<1>2. /\ sub.cursor \in 0..MaxId /\ sub'.cursor \in 0..MaxId /\ run["scan"].last \in 0..MaxId
      /\ \A j \in Jobs : job'[j].from \in 0..MaxId /\ job[j].from \in 0..MaxId
  <2>1. sub.cursor \in 0..MaxId /\ run["scan"].last \in 0..MaxId
        /\ \A j \in Jobs : job[j].from \in 0..MaxId
    BY Typing, RunTyping, Basics DEF Parts
  <2>2. sub'.cursor \in 0..MaxId
    BY DEF TypeOK, SubType
  <2>3. \A j \in Jobs : job'[j] \in JobType
    BY DEF TypeOK
  <2>4. \A j \in Jobs : job'[j].from \in 0..MaxId
    BY <2>3 DEF JobType
  <2> QED  BY <2>1, <2>2, <2>4
<1>3. \A i \in Media : i <= sub.cursor => Covered(i)'
  BY <1>1, <1>2, Basics DEF StartsAreCovered, CoveredTo
<1>4. run["scan"].at # "idle" => \A i \in Media : i <= run["scan"].last => Covered(i)'
  BY <1>1, <1>2, Basics DEF StartsAreCovered, CoveredTo
<1>5. \A i \in Media : i <= sub'.cursor => Covered(i)'
  BY <1>3
<1>6. run'["scan"].at # "idle" => \A i \in Media : i <= run'["scan"].last => Covered(i)'
  BY <1>3, <1>4
<1>7. ASSUME NEW j \in Jobs, job'[j].st # "none", job'[j].decision = 0
      PROVE  \A i \in Media : i <= job'[j].from - 1 => Covered(i)'
  <2>1. CASE job[j].st # "none"
    <3>1. job'[j].decision = job[j].decision /\ job'[j].from = job[j].from
      BY <2>1 DEF Keeps, JobsStay, Kept
    <3>2. CoveredTo(job[j].from - 1)
      BY <1>7, <2>1, <3>1 DEF StartsAreCovered, Known
    <3> QED  BY <1>1, <1>2, <3>1, <3>2, Basics DEF CoveredTo
  <2>2. CASE job[j].st = "none"
    <3>1. run["scan"].at # "idle" /\ job'[j].from = run["scan"].last + 1
      BY <1>7, <2>2
    <3>2. job'[j].from - 1 = run["scan"].last
      BY <1>2, <3>1
    <3> QED  BY <1>4, <3>1, <3>2
  <2> QED  BY <2>1, <2>2
<1> QED  BY <1>5, <1>6, <1>7, Basics DEF StartsAreCovered, CoveredTo, Known

\* The steps that neither move the cursor nor start a scan or a job of the scan.
LEMMA QuietCovers ==
  ASSUME CursorAssumption, Parts, StartsAreCovered, TypeOK', Keeps,
         sub'.cursor = sub.cursor, run'["scan"] = SR \/ run'["scan"] = IdleRun,
         \A j \in Jobs : job[j].st = "none" => job'[j].st = "none" \/ job'[j].decision # 0
  PROVE  StartsAreCovered'
<1>1. run'["scan"].at # "idle" =>
         run["scan"].at # "idle" /\ run'["scan"].last = run["scan"].last
  BY IdleTypes DEF SR
<1> QED  BY <1>1, StartsStayCovered

LEMMA ScanCovers ==
  ASSUME CursorAssumption, Parts, StartsAreCovered, TypeOK', Keeps,
         ScanSelect \/ ScanLatest \/ ScanFilter \/ ScanPersist \/ ScanThrows
  PROVE  StartsAreCovered'
<1>1. CASE ScanSelect
  <2>1. run'["scan"].last = sub.cursor /\ UNCHANGED << job, sub >>
    BY <1>1, ScanSelectDoes DEF Parts, RunStep, ScanSelect
  <2> QED  BY <2>1, StartsStayCovered
<1>2. CASE ScanLatest
  <2>1. SR.at = "latest" /\ sub'.cursor = sub.cursor
    BY <1>2, ScanLatestDoes DEF Parts
  <2>2. CASE run'["scan"] = IdleRun /\ UNCHANGED job
    BY <2>1, <2>2, QuietCovers
  <2>3. ASSUME NEW j \in Jobs, NEW hi, JobNew(j, 0, SR.last + 1, latest, hi),
               RunStep("scan", "filter", j, SR.last, hi, SR.page, SR.claim, SR.ok, SR.bad)
        PROVE  StartsAreCovered'
    <3>1. run["scan"].at # "idle" /\ run'["scan"].last = run["scan"].last
      BY <2>1, <2>3 DEF RunStep, SR
    <3>2. \A k \in Jobs : job[k].st = "none" /\ job'[k].st # "none" =>
             job'[k].from = run["scan"].last + 1
      BY <2>3 DEF JobNew, Others, SR
    <3> QED  BY <2>1, <3>1, <3>2, StartsStayCovered
  <2> QED  BY <1>2, <2>2, <2>3, ScanLatestDoes DEF Parts
<1>3. CASE ScanFilter
  <2>1. run["scan"].at # "idle" /\ run'["scan"].last = run["scan"].last /\ UNCHANGED << job, sub >>
    BY <1>3, ScanFilterDoes DEF Parts, RunStep, ScanFilter, SR
  <2> QED  BY <2>1, StartsStayCovered
<1>4. CASE ScanPersist
  <2>1. SR.job \in Jobs /\ job[SR.job].st # "none"
    BY <1>4, Holding DEF ScanPersist, SR
  <2>2. /\ run["scan"].at # "idle" /\ run'["scan"].last = run["scan"].last /\ UNCHANGED sub
        /\ \A k \in Jobs \ {SR.job} : job'[k] = job[k]
    BY <1>4, <2>1, ScanPersistDoes DEF Parts, RunStep, ScanPersist, SR, JobStep, Others
  <2> QED  BY <2>1, <2>2, StartsStayCovered
<1>5. CASE ScanThrows
  <2>1. run'["scan"] = IdleRun /\ UNCHANGED job /\ sub'.cursor = sub.cursor
    BY <1>5, ScanThrowsDoes DEF Parts, ScanThrows
  <2> QED  BY <2>1, QuietCovers
<1> QED  BY <1>1, <1>2, <1>3, <1>4, <1>5

LEMMA WorkCovers ==
  ASSUME CursorAssumption, Parts, StartsAreCovered, TypeOK', Keeps, NEW w \in Workers,
         Claim(w) \/ Settle(w)
  PROVE  StartsAreCovered'
<1>1. run[w].at = "work" /\ run[w].job \in Jobs /\ job[run[w].job].st # "none"
  <2>1. run[w].at = "work"
    BY Holding DEF Claim, Settle
  <2> QED  BY <2>1, Holding
<1>2. /\ \A k \in Jobs \ {run[w].job} : job'[k] = job[k]
      /\ run'[w].at = run[w].at /\ run'[w].last = run[w].last
      /\ run'[Other(w)] = run[Other(w)] /\ UNCHANGED sub
  <2>1. CASE Claim(w)
    BY <1>1, <2>1, ClaimDoes DEF Parts, RunStep, JobStep, Others, Claim
  <2>2. CASE Settle(w)
    BY <1>1, <2>2, SettleDoes DEF Parts, RunStep, JobStep, Others, Settle
  <2> QED  BY <2>1, <2>2
<1>3. run'["scan"].at = run["scan"].at /\ run'["scan"].last = run["scan"].last
  BY <1>2, TheWorkers
<1> QED  BY <1>1, <1>2, <1>3, StartsStayCovered

\* The scan closes its job: what it has not downloaded itself was held back,
\* or is the failure of the recovery worker in a job of both.
LEMMA ScanFinishCovers ==
  ASSUME CursorAssumption, Parts, StartsAreCovered, TypeOK', Keeps, ScanFinish
  PROVE  StartsAreCovered'
<1>1. SR.at = "work" /\ SR.job \in Jobs /\ job[SR.job].st # "none" /\ job[SR.job].decision = 0
  BY Holding DEF ScanFinish, Drained, SR
<1>2. run'["scan"] = IdleRun /\ UNCHANGED history
  BY <1>1, ScanFinishDoes DEF Parts, ScanFinish
<1>3. CASE UNCHANGED << job, sub >>
  BY <1>2, <1>3, QuietCovers
<1>4. CASE /\ Closable(SR.job)
           /\ JobStep(SR.job, {}, "absent", IF SR.bad # {} THEN "errors" ELSE "completed")
           /\ Raised(ScanSafe)
  <2>1. \A i \in Ids : Covered(i) => Covered(i)'
    BY CoveredStays DEF Parts, Keeps
  <2>2. /\ SR.last \in 0..MaxId /\ SR.hi \in 0..MaxId /\ SR.page \subseteq Ids
        /\ sub.cursor \in 0..MaxId /\ ScanSafe \in 0..MaxId
    BY RunTyping, ScanSafeHolds, Basics, Typing DEF SR, Parts
  <2>3. \A i \in Media : i <= SR.last => Covered(i)'
    BY <1>1, <2>1, <2>2, Basics DEF StartsAreCovered, CoveredTo, SR
  <2>4. /\ \A i \in (Media \cap ((SR.last + 1)..SR.hi)) \ SR.page : Passed(i)
        /\ \A i \in SR.page : Item(SR.job, i) # "absent"
        /\ \A i \in SR.ok : Item(SR.job, i) \in {"success", "skipped"}
        /\ SR.job \in history.shared \/ \A i \in Ids : Item(SR.job, i) = "failed" => i \in SR.bad
    BY <1>1 DEF Parts, ScanFits, SR
  <2>5. \A k \in Ids : Item(SR.job, k) \notin {"pending", "downloading"}
    BY <1>4 DEF Closable, ItemsIn, Item
  <2>6. ASSUME NEW i \in Media, i > SR.last, i <= ScanSafe PROVE Covered(i)'
    <3>1. i \in Ids /\ i \in (SR.last + 1)..ScanSafe
      BY <2>2, <2>6, Basics
    <3>2. CASE SR.bad # {}
      <4>1. i \in SR.ok \/ i \in ((SR.last + 1)..SR.hi) \ SR.page
        BY <3>1, <3>2, ScanSafeHolds DEF Parts
      <4>2. CASE i \in SR.ok
        BY <1>1, <2>1, <2>4, <3>1, <4>2 DEF Covered, Tried, Item
      <4>3. CASE i \in ((SR.last + 1)..SR.hi) \ SR.page
        BY <2>1, <2>4, <3>1, <4>3 DEF Covered
      <4> QED  BY <4>1, <4>2, <4>3
    <3>3. CASE SR.bad = {}
      <4>1. i \in (SR.last + 1)..SR.hi
        BY <3>1, <3>3 DEF ScanSafe
      <4>2. CASE i \notin SR.page
        BY <2>1, <2>4, <3>1, <4>1, <4>2 DEF Covered
      <4>3. CASE Item(SR.job, i) \in {"success", "skipped"}
        BY <1>1, <2>1, <3>1, <4>3 DEF Covered, Tried, Item
      <4>4. CASE Item(SR.job, i) = "failed"
        <5>1. SR.job \in history.shared
          BY <2>4, <3>1, <3>3, <4>4
        <5>2. JobStep(SR.job, {}, "absent", "completed")
          BY <1>4, <3>3
        <5>3. \A j \in Jobs : j = SR.job => ClosedWith(j, i)'
          BY <1>1, <2>5, <3>1, <4>4, <5>2 DEF ClosedWith, JobStep, Kept, Item
        <5>4. \E j \in history.shared : ClosedWith(j, i)'
          BY <1>1, <5>1, <5>3
        <5> QED  BY <1>2, <5>4 DEF Covered
      <4> QED
        BY <1>1, <2>4, <2>5, <3>1, <4>2, <4>3, <4>4, Typing DEF ItemStatus, Parts
    <3> QED  BY <3>2, <3>3
  <2>7. \A i \in Media : i <= sub'.cursor => i <= sub.cursor \/ Covered(i)'
    <3> SUFFICES ASSUME NEW i \in Media, i <= sub'.cursor, ~(i <= sub.cursor) PROVE Covered(i)'
      OBVIOUS
    <3>1. i <= ScanSafe /\ i \in Nat
      BY <1>4, <2>2, Basics DEF Raised
    <3> QED  BY <2>2, <2>3, <2>6, <3>1
  <2>8. \A j \in Jobs : job[j].st = "none" => job'[j].st = "none"
    BY <1>1, <1>4 DEF JobStep, Others
  <2> QED  BY <1>2, <2>7, <2>8, StartsStayCovered, IdleTypes
<1> QED  BY <1>1, <1>3, <1>4, ScanFinishDoes DEF Parts

\* The recovery worker closes a job of the scan: it has the whole page of it,
\* and what the cursor moves over beyond that page is recorded.
LEMMA RecoveryFinishCovers ==
  ASSUME CursorAssumption, Parts, StartsAreCovered, TypeOK', Keeps, RecoveryFinish
  PROVE  StartsAreCovered'
<1>1. RR.at = "work" /\ RR.job \in Jobs /\ job[RR.job].st # "none" /\ ~Empty(RR.job)
  BY Holding DEF RecoveryFinish, Drained, RR
<1>2. Runnable(RR.job) => job[RR.job].to = 0 \/ job[RR.job].from # 0
  BY <1>1 DEF Parts, JobsFit
<1>3. run'["scan"] = SR
  BY <1>1, <1>2, RecoveryFinishDoes DEF Parts
<1>4. CASE UNCHANGED << job, sub >>
  BY <1>3, <1>4, QuietCovers
<1>5. CASE UNCHANGED sub /\ JobStep(RR.job, {}, "absent", "failed")
  <2>1. \A j \in Jobs : job[j].st = "none" => job'[j].st = "none"
    BY <1>1, <1>5 DEF JobStep, Others
  <2> QED  BY <1>3, <1>5, <2>1, QuietCovers
<1>6. CASE /\ NoWork(RR.job) /\ job[RR.job].to # 0
           /\ \E s : JobStep(RR.job, {}, "absent", s)
           /\ Raised(Recovered(RR.job))
           /\ history'.overshot = history.overshot \cup ((job[RR.job].hi + 1)..Recovered(RR.job))
  <2>1. \A i \in Ids : Covered(i) => Covered(i)'
    BY CoveredStays DEF Parts, Keeps
  <2>2. /\ job[RR.job].decision = 0 /\ job[RR.job].from # 0 /\ WholePage(RR.job)
    BY <1>1, <1>6 DEF Parts, JobsFit
  <2>3. /\ job[RR.job].from \in 0..MaxId /\ job[RR.job].hi \in 0..MaxId
        /\ sub.cursor \in 0..MaxId /\ Recovered(RR.job) \in 0..MaxId
    BY <1>1, <2>2, RecoveredHolds, Typing DEF Parts
  <2>4. \A i \in Media : i <= job[RR.job].from - 1 => Covered(i)'
    <3>1. CoveredTo(job[RR.job].from - 1)
      BY <1>1, <2>2 DEF StartsAreCovered, Known
    <3> QED  BY <2>1, <2>3, <3>1, Basics DEF CoveredTo
  <2>5. ASSUME NEW i \in Media, i >= job[RR.job].from, i <= Recovered(RR.job) PROVE Covered(i)'
    <3>1. i \in Ids /\ i \in job[RR.job].from..Recovered(RR.job)
      BY <2>3, <2>5, Basics
    <3>2. CASE i > job[RR.job].hi
      BY <1>6, <2>3, <3>1, <3>2 DEF Covered
    <3>3. CASE ~(i > job[RR.job].hi)
      <4>1. i \in job[RR.job].from..job[RR.job].hi
        BY <2>3, <3>1, <3>3
      <4>2. Item(RR.job, i) # "absent" \/ Passed(i)
        BY <2>2, <4>1 DEF WholePage
      <4>3. Item(RR.job, i) # "failed"
        BY <1>1, <2>2, <3>1, RecoveredHolds DEF Parts
      <4>4. Item(RR.job, i) \in {"success", "skipped"} \/ Passed(i)
        BY <1>1, <1>6, <3>1, <4>2, <4>3, Typing DEF NoWork, ItemStatus, Parts
      <4> QED  BY <1>1, <2>1, <3>1, <4>4 DEF Covered, Tried, Item
    <3> QED  BY <3>2, <3>3
  <2>6. \A i \in Media : i <= sub'.cursor => i <= sub.cursor \/ Covered(i)'
    <3> SUFFICES ASSUME NEW i \in Media, i <= sub'.cursor, ~(i <= sub.cursor) PROVE Covered(i)'
      OBVIOUS
    <3>1. i <= Recovered(RR.job) /\ i \in Nat
      BY <1>6, <2>3, Basics DEF Raised
    <3> QED  BY <2>3, <2>4, <2>5, <3>1
  <2>7. \A j \in Jobs : job[j].st = "none" => job'[j].st = "none"
    BY <1>1, <1>6 DEF JobStep, Others
  <2>8. run'["scan"] = run["scan"]
    BY <1>3 DEF SR
  <2> QED  BY <2>6, <2>7, <2>8, StartsStayCovered
<1> QED  BY <1>1, <1>2, <1>4, <1>5, <1>6, RecoveryFinishDoes DEF Parts

\* "From now" records what it moves the cursor over.
LEMMA FromNowCovers ==
  ASSUME CursorAssumption, Parts, StartsAreCovered, TypeOK', Keeps, FromNow
  PROVE  StartsAreCovered'
<1>1. /\ sub'.cursor = now /\ now \in 0..MaxId /\ sub.cursor \in 0..MaxId
      /\ history'.jumped = history.jumped \cup ((sub.cursor + 1)..now)
      /\ UNCHANGED << job, run >>
  BY FromNowDoes, Typing DEF Parts
<1>2. \A i \in Media : i <= sub'.cursor => i <= sub.cursor \/ Covered(i)'
  <2> SUFFICES ASSUME NEW i \in Media, i <= sub'.cursor, ~(i <= sub.cursor) PROVE Covered(i)'
    OBVIOUS
  <2>1. i \in (sub.cursor + 1)..now
    BY <1>1, Basics
  <2> QED  BY <1>1, <2>1 DEF Covered
<1> QED  BY <1>1, <1>2, StartsStayCovered

LEMMA RecoveryCovers ==
  ASSUME CursorAssumption, Parts, StartsAreCovered, TypeOK', Keeps, RecoveryTake \/ RecoveryStart
  PROVE  StartsAreCovered'
<1>1. CASE RecoveryTake
  <2>1. run'["scan"] = SR
    BY <1>1, RecoveryTakeDoes DEF Parts, RunStep, Other, SR
  <2>2. \A j \in Jobs : job[j].st = "none" => job'[j].st = "none"
    BY <1>1, RecoveryTakeDoes DEF Parts, Repairs
  <2> QED  BY <1>1, <2>1, <2>2, QuietCovers DEF RecoveryTake
<1>2. CASE RecoveryStart
  <2>1. RR.job \in Jobs /\ job[RR.job].st # "none"
    BY <1>2, Holding DEF RecoveryStart, RR
  <2>2. run'["scan"] = SR
    BY <1>2, <2>1, RecoveryStartDoes DEF Parts, RunStep, Other, SR
  <2>3. \A j \in Jobs : job[j].st = "none" => job'[j].st = "none"
    BY <1>2, <2>1, RecoveryStartDoes DEF Parts, JobStep, Others
  <2> QED  BY <1>2, <2>2, <2>3, QuietCovers DEF RecoveryStart
<1> QED  BY <1>1, <1>2

\* The commands and the review.
LEMMA CommandCovers ==
  ASSUME CursorAssumption, Parts, StartsAreCovered, TypeOK', Keeps,
         NEW j \in Jobs, Pause(j) \/ Resume(j) \/ Cancel(j) \/ Retry(j)
  PROVE  StartsAreCovered'
<1>1. UNCHANGED << sub, run >> /\ job[j].st # "none" /\ \A k \in Jobs \ {j} : job'[k] = job[k]
  BY CommandDoes DEF Parts, JobStep, Others
<1>2. \A k \in Jobs : job[k].st = "none" => job'[k].st = "none"
  BY <1>1
<1> QED  BY <1>1, <1>2, QuietCovers DEF SR

LEMMA QuietStepCovers ==
  ASSUME CursorAssumption, Parts, StartsAreCovered, TypeOK', Keeps,
         UNCHANGED << job, run >>, sub'.cursor = sub.cursor
  PROVE  StartsAreCovered'
BY QuietCovers DEF SR

LEMMA ReviewCovers ==
  ASSUME CursorAssumption, Parts, StartsAreCovered, TypeOK', Keeps,
         ReviewJob \/ ReviewItems \/ ReviewRestored \/ ReviewMark \/ ReviewFails
  PROVE  StartsAreCovered'
<1>1. review.id \in Ids
  BY Holding DEF ReviewJob, ReviewItems, ReviewRestored, ReviewMark, ReviewFails
<1>2. CASE ReviewJob
  <2>1. UNCHANGED << sub, run >>
    BY <1>2 DEF ReviewJob
  <2>2. \A k \in Jobs : job[k].st = "none" => job'[k].st = "none" \/ job'[k].decision # 0
    <3>1. PICK j \in Jobs : UNCHANGED job \/ JobNew(j, review.id, 0, 0, 0)
      BY <1>1, <1>2, ReviewJobDoes DEF Parts
    <3> QED  BY <1>1, <3>1, Basics DEF JobNew, Others
  <2> QED  BY <2>1, <2>2, QuietCovers DEF SR
<1>3. CASE ReviewItems
  <2>1. UNCHANGED << sub, run >>
    BY <1>3 DEF ReviewItems
  <2>2. review.job \in Jobs /\ job[review.job].st # "none"
    BY <1>3 DEF ReviewItems, Parts, ReviewFits, Known
  <2>3. \A k \in Jobs : job[k].st = "none" => job'[k].st = "none"
    BY <1>1, <1>3, <2>2, ReviewItemsDoes DEF Parts, JobStep, Others
  <2> QED  BY <2>1, <2>3, QuietCovers DEF SR
<1>4. CASE ReviewRestored \/ ReviewMark \/ ReviewFails
  BY <1>4, QuietStepCovers DEF ReviewRestored, ReviewMark, ReviewFails
<1> QED  BY <1>2, <1>3, <1>4
-----------------------------------------------------------------------------
(* The invariant                                                            *)

\* A step keeps the invariant when it keeps its parts and covers what it passes.
LEMMA Assembled ==
  ASSUME TypeOK', Keeps, StartsAreCovered'
  PROVE  CursorInv'
BY DEF CursorInv, Keeps

LEMMA InvParts == ASSUME CursorInv PROVE Parts /\ StartsAreCovered
BY DEF CursorInv, Parts

LEMMA ScanKeepsInv ==
  ASSUME CursorAssumption, CursorInv, ScanStep \/ ScanThrows
  PROVE  CursorInv'
<1>1. Parts /\ StartsAreCovered
  BY InvParts
<1>2. CASE ScanSelect
  BY <1>1, <1>2, ScanSelectKeeps, ScanCovers, Assembled
<1>3. CASE ScanLatest
  BY <1>1, <1>3, ScanLatestKeeps, ScanCovers, Assembled
<1>4. CASE ScanFilter
  BY <1>1, <1>4, ScanFilterKeeps, ScanCovers, Assembled
<1>5. CASE ScanPersist
  BY <1>1, <1>5, ScanPersistKeeps, ScanCovers, Assembled
<1>6. CASE ScanThrows
  BY <1>1, <1>6, ScanThrowsKeeps, ScanCovers, Assembled
<1>7. CASE ScanFinish
  BY <1>1, <1>7, ScanFinishKeeps, ScanFinishCovers, Assembled
<1> QED  BY <1>2, <1>3, <1>4, <1>5, <1>6, <1>7 DEF ScanStep

LEMMA WorkKeepsInv ==
  ASSUME CursorAssumption, CursorInv, NEW w \in Workers, WorkStep(w)
  PROVE  CursorInv'
<1>1. Parts /\ StartsAreCovered
  BY InvParts
<1>2. CASE Claim(w)
  BY <1>1, <1>2, ClaimKeeps, WorkCovers, Assembled
<1>3. CASE Settle(w)
  BY <1>1, <1>3, SettleKeeps, WorkCovers, Assembled
<1> QED  BY <1>2, <1>3 DEF WorkStep

LEMMA RecoveryKeepsInv ==
  ASSUME CursorAssumption, CursorInv, RecoveryStep
  PROVE  CursorInv'
<1>1. Parts /\ StartsAreCovered
  BY InvParts
<1>2. CASE RecoveryTake
  BY <1>1, <1>2, RecoveryTakeKeeps, RecoveryCovers, Assembled
<1>3. CASE RecoveryStart
  BY <1>1, <1>3, RecoveryStartKeeps, RecoveryCovers, Assembled
<1>4. CASE RecoveryFinish
  BY <1>1, <1>4, RecoveryFinishKeeps, RecoveryFinishCovers, Assembled
<1> QED  BY <1>2, <1>3, <1>4 DEF RecoveryStep

LEMMA SwitchKeepsInv ==
  ASSUME CursorAssumption, CursorInv,
         Publish \/ DueAgain \/ Enable \/ Disable \/ SetFilter \/ FromNowRead
  PROVE  CursorInv'
<1>1. Parts /\ StartsAreCovered
  BY InvParts
<1>2. TypeOK' /\ Keeps
  BY <1>1, SwitchKeeps
<1>3. UNCHANGED << job, run >> /\ sub'.cursor = sub.cursor
  BY <1>1, SwitchDoes DEF Parts
<1> QED  BY <1>1, <1>2, <1>3, QuietStepCovers, Assembled

LEMMA CommandKeepsInv ==
  ASSUME CursorAssumption, CursorInv,
         NEW j \in Jobs, Pause(j) \/ Resume(j) \/ Cancel(j) \/ Retry(j)
  PROVE  CursorInv'
<1>1. Parts /\ StartsAreCovered
  BY InvParts
<1>2. TypeOK' /\ Keeps
  BY <1>1, CommandKeeps
<1>3. StartsAreCovered'
  BY <1>1, <1>2, CommandCovers
<1> QED  BY <1>2, <1>3, Assembled

LEMMA ReviewClaimKeepsInv ==
  ASSUME CursorAssumption, CursorInv, NEW i \in Ids, NEW label \in {"ad", "normal"},
         ReviewClaim(i, label)
  PROVE  CursorInv'
<1>1. Parts /\ StartsAreCovered
  BY InvParts
<1>2. TypeOK' /\ Keeps /\ UNCHANGED << job, run, sub >>
  BY <1>1, ReviewClaimKeeps DEF ReviewClaim
<1> QED  BY <1>1, <1>2, QuietStepCovers, Assembled

LEMMA RestoreStaleKeepsInv ==
  ASSUME CursorAssumption, CursorInv, NEW i \in Ids, RestoreStale(i)
  PROVE  CursorInv'
<1>1. Parts /\ StartsAreCovered
  BY InvParts
<1>2. TypeOK' /\ Keeps /\ UNCHANGED << job, run, sub >>
  BY <1>1, RestoreStaleKeeps DEF RestoreStale
<1> QED  BY <1>1, <1>2, QuietStepCovers, Assembled

LEMMA ReviewKeepsInv ==
  ASSUME CursorAssumption, CursorInv, ReviewStep \/ ReviewFails
  PROVE  CursorInv'
<1>1. Parts /\ StartsAreCovered
  BY InvParts
<1>2. CASE ReviewJob
  BY <1>1, <1>2, ReviewJobKeeps, ReviewCovers, Assembled
<1>3. CASE ReviewItems
  BY <1>1, <1>3, ReviewItemsKeeps, ReviewCovers, Assembled
<1>4. CASE ReviewRestored
  BY <1>1, <1>4, ReviewRestoredKeeps, ReviewCovers, Assembled
<1>5. CASE ReviewMark
  BY <1>1, <1>5, ReviewMarkKeeps, ReviewCovers, Assembled
<1>6. CASE ReviewFails
  BY <1>1, <1>6, ReviewFailsKeeps, ReviewCovers, Assembled
<1> QED  BY <1>2, <1>3, <1>4, <1>5, <1>6 DEF ReviewStep

LEMMA CrashKeepsInv ==
  ASSUME CursorAssumption, CursorInv, Crash
  PROVE  CursorInv'
<1>1. Parts /\ StartsAreCovered
  BY InvParts
<1>2. TypeOK' /\ Keeps
  BY <1>1, CrashKeeps
<1>3. run'["scan"] = IdleRun /\ UNCHANGED << job, sub >>
  BY <1>1, CrashDoes DEF Parts
<1> QED  BY <1>1, <1>2, <1>3, QuietCovers, Assembled

LEMMA FromNowKeepsInv ==
  ASSUME CursorAssumption, CursorInv, FromNow
  PROVE  CursorInv'
<1>1. Parts /\ StartsAreCovered
  BY InvParts
<1> QED  BY <1>1, FromNowKeeps, FromNowCovers, Assembled

LEMMA NextKeepsInv == ASSUME CursorAssumption, CursorInv, Next PROVE CursorInv'
<1>1. CASE Publish \/ DueAgain \/ Enable \/ Disable \/ SetFilter \/ FromNowRead
  BY <1>1, SwitchKeepsInv
<1>2. CASE ScanStep \/ ScanThrows
  BY <1>2, ScanKeepsInv
<1>3. CASE \E w \in Workers : WorkStep(w)
  BY <1>3, WorkKeepsInv
<1>4. CASE RecoveryStep
  BY <1>4, RecoveryKeepsInv
<1>5. CASE FromNow
  BY <1>5, FromNowKeepsInv
<1>6. CASE \E j \in Jobs : Pause(j) \/ Resume(j) \/ Cancel(j) \/ Retry(j)
  BY <1>6, CommandKeepsInv
<1>7. CASE \E i \in Ids, label \in {"ad", "normal"} : ReviewClaim(i, label)
  BY <1>7, ReviewClaimKeepsInv
<1>8. CASE \E i \in Ids : RestoreStale(i)
  BY <1>8, RestoreStaleKeepsInv
<1>9. CASE ReviewStep \/ ReviewFails
  BY <1>9, ReviewKeepsInv
<1>10. CASE Crash
  BY <1>10, CrashKeepsInv
<1> QED
  BY <1>1, <1>2, <1>3, <1>4, <1>5, <1>6, <1>7, <1>8, <1>9, <1>10 DEF Next

LEMMA StutterKeepsInv == ASSUME CursorAssumption, CursorInv, UNCHANGED vars PROVE CursorInv'
<1>1. Parts /\ StartsAreCovered
  BY InvParts
<1>2. UNCHANGED << latest, sub, decision, job, run, review, now, history, events >>
  BY DEF vars
<1>3. TypeOK' /\ HistoryGrows
  BY <1>1, <1>2, SameHistoryGrows DEF Parts, TypeOK
<1>4. Keeps
  BY <1>1, <1>2, <1>3, QuietKeeps
<1> QED  BY <1>1, <1>2, <1>3, <1>4, QuietStepCovers, Assembled

LEMMA InitHolds == ASSUME CursorAssumption, Init PROVE CursorInv
<1>1. \A j \in Jobs : job[j] = NoJob
  BY DEF Init
<1>2. /\ NoJob \in JobType /\ NoJob.st = "none" /\ NoJob.decision = 0
      /\ \A i \in Ids : NoJob.item[i] = "absent"
  BY Basics DEF NoJob, JobType, JobStatus, ItemStatus
<1>3. \A w \in Workers : run[w] = IdleRun
  BY DEF Init
<1>4. TypeOK
  <2>1. latest \in 0..MaxId /\ now \in -1..MaxId /\ events \in 0..MaxEvents
    BY Basics DEF Init
  <2>2. sub \in SubType
    BY Basics DEF Init, SubType
  <2>3. decision \in [Ids -> DecisionType]
    BY Basics DEF Init, DecisionType
  <2>4. job \in [Jobs -> JobType]
    BY <1>2 DEF Init
  <2>5. run \in [Workers -> RunType] /\ review \in ReviewType
    BY IdleTypes DEF Init
  <2>6. history \in HistoryType
    BY DEF Init, HistoryType
  <2> QED  BY <2>1, <2>2, <2>3, <2>4, <2>5, <2>6 DEF TypeOK
<1>5. DecisionsFit
  BY DEF Init, DecisionsFit
<1>6. ReviewFits
  BY DEF Init, ReviewFits, IdleReview
<1>7. JobsFit
  BY <1>1, <1>2 DEF JobsFit, Empty, Item
<1>8. ScanFits /\ RecoveryFits /\ ClaimsFit
  BY <1>3, IdleTypes, Basics DEF ScanFits, RecoveryFits, ClaimsFit
<1>9. StartsAreCovered
  <2>1. sub.cursor = 0 /\ \A j \in Jobs : j \notin Known
    BY <1>1, <1>2 DEF Init, Known
  <2>2. CoveredTo(sub.cursor)
    BY <2>1, Basics DEF CoveredTo
  <2> QED  BY <1>3, <2>1, <2>2, IdleTypes, Basics DEF StartsAreCovered, Known
<1> QED  BY <1>4, <1>5, <1>6, <1>7, <1>8, <1>9 DEF CursorInv
-----------------------------------------------------------------------------
(* Theorems                                                                 *)

\* The parts of the invariant hold of every subscription.
THEOREM InvHolds == CursorAssumption => (Spec => []CursorInv)
<1> SUFFICES ASSUME CursorAssumption PROVE Spec => []CursorInv
  OBVIOUS
<1>1. Init => CursorInv
  BY InitHolds
<1>2. CursorInv /\ [Next]_vars => CursorInv'
  BY NextKeepsInv, StutterKeepsInv
<1> QED  BY <1>1, <1>2, PTL DEF Spec

\* Every variable of the subscription has its type (services/telegramChannelJobs.ts).
THEOREM TypeCorrect == CursorAssumption => (Spec => []TypeOK)
<1> SUFFICES ASSUME CursorAssumption PROVE Spec => []TypeOK
  OBVIOUS
<1>1. CursorInv => TypeOK
  BY DEF CursorInv
<1> QED  BY <1>1, InvHolds, PTL

\* A message with a file that the cursor has passed was downloaded, skipped or
\* held back, but for the three ways round that CursorIsCovered names: whatever
\* the scan and the recovery worker do to the same job, and wherever they crash.
THEOREM NothingIsPassedOver == CursorAssumption => (Spec => []CursorIsCovered)
<1> SUFFICES ASSUME CursorAssumption PROVE Spec => []CursorIsCovered
  OBVIOUS
<1>1. CursorInv => CursorIsCovered
  <2> SUFFICES ASSUME CursorInv, NEW i \in Media \cap (1..sub.cursor)
      PROVE  \/ Tried(i) \/ decision[i].st = "blocked" \/ decision[i].label = "normal"
             \/ i \in history.jumped \cup history.overshot \/ FailedShared(i)
    BY DEF CursorIsCovered
  <2>1. Covered(i)
    BY DEF CursorInv, StartsAreCovered, CoveredTo
  <2> QED  BY <2>1 DEF Covered, Passed, ClosedWith, FailedShared, Item
<1> QED  BY <1>1, InvHolds, PTL

\* A message that the filter held back and a user released is in a job.
THEOREM ReleasedMessagesAreQueued == CursorAssumption => (Spec => []ReleasedIsQueued)
<1> SUFFICES ASSUME CursorAssumption PROVE Spec => []ReleasedIsQueued
  OBVIOUS
<1>1. CursorInv => ReleasedIsQueued
  <2> SUFFICES ASSUME CursorInv, NEW i \in Ads, decision[i].label = "normal"
      PROVE  \E j \in Known : job[j].item[i] # "absent"
    BY DEF ReleasedIsQueued
  <2>1. Queued(i)
    BY Basics DEF CursorInv, DecisionsFit
  <2> QED  BY <2>1 DEF Queued, Item
<1> QED  BY <1>1, InvHolds, PTL

LEMMA StepGrows ==
  ASSUME CursorAssumption, CursorInv, Next
  PROVE  sub'.cursor >= sub.cursor \/ now # -1
<1>1. Parts
  BY InvParts
<1>2. sub.cursor \in 0..MaxId
  BY <1>1, Typing DEF Parts
<1>3. UNCHANGED sub => sub'.cursor >= sub.cursor
  BY <1>2
<1>4. sub'.cursor = sub.cursor => sub'.cursor >= sub.cursor
  BY <1>2
<1>5. CASE Publish \/ DueAgain \/ Enable \/ Disable \/ SetFilter \/ FromNowRead
  BY <1>1, <1>4, <1>5, SwitchDoes DEF Parts
<1>6. CASE ScanStep \/ ScanThrows
  <2>1. CASE ScanSelect \/ ScanFilter \/ ScanPersist
    BY <1>3, <2>1 DEF ScanSelect, ScanFilter, ScanPersist
  <2>2. CASE ScanLatest
    BY <1>1, <1>4, <2>2, ScanLatestDoes DEF Parts
  <2>3. CASE ScanThrows
    BY <1>1, <1>4, <2>3, ScanThrowsDoes DEF Parts
  <2>4. CASE ScanFinish
    <3>1. SR.job \in Jobs /\ ScanSafe \in 0..MaxId
      BY <1>1, <2>4, Holding, ScanSafeHolds DEF ScanFinish, Drained, SR, Parts
    <3>2. Raised(ScanSafe) => sub'.cursor >= sub.cursor
      BY <1>2, <3>1, Basics DEF Raised
    <3> QED  BY <1>1, <1>3, <2>4, <3>1, <3>2, ScanFinishDoes DEF Parts
  <2> QED  BY <1>6, <2>1, <2>2, <2>3, <2>4 DEF ScanStep
<1>7. CASE \E w \in Workers : WorkStep(w)
  BY <1>3, <1>7 DEF WorkStep, Claim, Settle
<1>8. CASE RecoveryStep
  <2>1. CASE RecoveryTake \/ RecoveryStart
    BY <1>3, <2>1 DEF RecoveryTake, RecoveryStart
  <2>2. CASE RecoveryFinish
    <3>1. RR.job \in Jobs
      BY <1>1, <2>2, Holding DEF RecoveryFinish, Drained, RR
    <3>2. Runnable(RR.job) => job[RR.job].to = 0 \/ job[RR.job].from # 0
      BY <1>1, <3>1 DEF Parts, JobsFit, Runnable
    <3>3. Runnable(RR.job) /\ job[RR.job].to # 0 /\ Raised(Recovered(RR.job)) =>
             sub'.cursor >= sub.cursor
      BY <1>1, <1>2, <3>1, <3>2, RecoveredHolds, Basics DEF Raised, Parts
    <3> QED  BY <1>1, <1>3, <2>2, <3>1, <3>2, <3>3, RecoveryFinishDoes DEF Parts
  <2> QED  BY <1>8, <2>1, <2>2 DEF RecoveryStep
<1>9. CASE FromNow
  BY <1>9 DEF FromNow
<1>10. CASE \E j \in Jobs : Pause(j) \/ Resume(j) \/ Cancel(j) \/ Retry(j)
  BY <1>3, <1>10 DEF Pause, Resume, Cancel, Retry
<1>11. CASE \E i \in Ids, label \in {"ad", "normal"} : ReviewClaim(i, label)
  BY <1>3, <1>11 DEF ReviewClaim
<1>12. CASE (\E i \in Ids : RestoreStale(i)) \/ ReviewStep \/ ReviewFails \/ Crash
  BY <1>3, <1>12 DEF RestoreStale, ReviewStep, ReviewJob, ReviewItems, ReviewRestored,
     ReviewMark, ReviewFails, Crash
<1> QED
  BY <1>5, <1>6, <1>7, <1>8, <1>9, <1>10, <1>11, <1>12 DEF Next

\* Only "from now" takes the cursor back: a scan or a recovery that finishes
\* late, after another has moved the cursor on, never does.
THEOREM OnlyFromNowTakesBack == CursorAssumption => (Spec => CursorGrows)
<1> SUFFICES ASSUME CursorAssumption PROVE Spec => CursorGrows
  OBVIOUS
<1>1. CursorInv /\ [Next]_vars => [sub'.cursor >= sub.cursor \/ now # -1]_vars
  BY StepGrows
<1> QED  BY <1>1, InvHolds, PTL DEF Spec, CursorGrows
==============================================================================
