-------------------------- MODULE DownloadTaskQueue --------------------------
(***************************************************************************)
(* The in-memory queue of file downloads (services/downloadTaskQueue.ts).  *)
(* Files (tasks) belong to groups; at most maxConcurrent of them run.      *)
(*                                                                         *)
(* Every public method is synchronous up to its last statement, so one     *)
(* call is one step, and so is the finally block of a download that ends.  *)
(* Methods change the fields of the queue object and end in processNext:   *)
(* they are written as functions from the fields to the fields, followed   *)
(* by ProcessNext.                                                         *)
(***************************************************************************)
EXTENDS Naturals, FiniteSets

CONSTANTS
    Tasks,        \* files that can be added; a retried file keeps its name
    Groups,       \* group ids
    GroupOf,      \* the group a file is added to
    Scopes,       \* chat and user scopes that can be paused
    ScopeGroups,  \* the groups a scope matches
    Blockers,     \* ids of disk pressure blockers
    MaxHistory,   \* maxHistory (50 in the code)
    MaxGroups,    \* bound of pruneTerminalGroups (500 in the code)
    MaxLimit,     \* bound on the values given to setMaxConcurrent
    MaxExpected   \* bound on the expectedTotal given to ensureGroup

ASSUME QueueAssumption ==
    /\ IsFiniteSet(Tasks)
    /\ GroupOf \in [Tasks -> Groups]
    /\ ScopeGroups \in [Scopes -> SUBSET Groups]
    /\ MaxHistory \in Nat \ {0} /\ MaxGroups \in Nat \ {0}
    /\ MaxLimit \in Nat \ {0} /\ MaxExpected \in Nat

VARIABLES
    status,        \* of a file: queued ("pending"), running ("active"), settled, ...
    ahead,         \* the order of the queue: <<t, u>> when t is before u
    aborted,       \* running files whose AbortController has fired
    groups,        \* the group records
    history,       \* settled files that are remembered
    userPaused,
    scopePaused,   \* scopedUserPauses
    blockers,      \* diskPressureBlockers; systemPause is set when there are any
    maxConcurrent

vars == << status, ahead, aborted, groups, history, userPaused, scopePaused,
           blockers, maxConcurrent >>

Settled == {"success", "failed", "cancelled"}
Closed == {"cancelling", "cancelled"}
Held == {"pausing", "paused"}

\* Mutant: the displayed state is stored as the override.
NewGroupWaiting(expected) ==
    [exists |-> TRUE, expected |-> expected, completed |-> 0, failed |-> 0,
     cancelled |-> 0, override |-> "waiting"]
NewGroup(expected) ==
    [exists |-> TRUE, expected |-> expected, completed |-> 0, failed |-> 0,
     cancelled |-> 0, override |-> "none"]
NoGroup == [NewGroup(0) EXCEPT !.exists = FALSE]

Larger(m, n) == IF m > n THEN m ELSE n
Smaller(m, n) == IF m < n THEN m ELSE n

-----------------------------------------------------------------------------
(* The fields of the queue object, before and after a method.              *)

Here == [status |-> status, ahead |-> ahead, aborted |-> aborted,
         groups |-> groups, history |-> history, userPaused |-> userPaused,
         scopePaused |-> scopePaused, blockers |-> blockers,
         maxConcurrent |-> maxConcurrent]

Become(q) ==
    /\ status' = q.status
    /\ ahead' = q.ahead
    /\ aborted' = q.aborted
    /\ groups' = q.groups
    /\ history' = q.history
    /\ userPaused' = q.userPaused
    /\ scopePaused' = q.scopePaused
    /\ blockers' = q.blockers
    /\ maxConcurrent' = q.maxConcurrent

With(q, st) == {t \in Tasks : q.status[t] = st}
Active(q, g) == {t \in With(q, "active") : GroupOf[t] = g}
Queued(q, g) == {t \in With(q, "pending") : GroupOf[t] = g}
Unfinished(q, g) == Active(q, g) \cup Queued(q, g)
SettledCount(q, g) ==
    q.groups[g].completed + q.groups[g].failed + q.groups[g].cancelled

\* snapshotGroup: the states 'completed' and 'cancelled'.
Terminal(q, g) ==
    \/ q.groups[g].override = "cancelled"
    \/ /\ q.groups[g].override = "none"
       /\ Unfinished(q, g) = {}
       /\ SettledCount(q, g) >= q.groups[g].expected

GloballyPaused(q) == q.userPaused \/ q.blockers # {}
ScopePaused(q, g) == \E s \in q.scopePaused : g \in ScopeGroups[s]

Runnable(q) ==
    IF GloballyPaused(q) THEN {}
    ELSE {t \in With(q, "pending") :
            /\ q.groups[GroupOf[t]].exists
            /\ ~ScopePaused(q, GroupOf[t])
            /\ q.groups[GroupOf[t]].override = "none"}

\* Mutant: the newest files come first.
LastFew(S, order, n) ==
    {t \in S : Cardinality({u \in S : << t, u >> \in order}) < n}
\* The files of a set that have fewer than n of the set before them.
FirstFew(S, order, n) ==
    {t \in S : Cardinality({u \in S : << u, t >> \in order}) < n}

\* Mutant: active.length <= maxConcurrent.
OneSlotMore(q) ==
    LET running == Cardinality(With(q, "active")) IN
    IF running <= q.maxConcurrent THEN q.maxConcurrent + 1 - running ELSE 0
FreeSlots(q) ==
    LET running == Cardinality(With(q, "active")) IN
    IF running < q.maxConcurrent THEN q.maxConcurrent - running ELSE 0

Leave(order, S) == {pair \in order : pair[1] \notin S /\ pair[2] \notin S}

\* processNext: start runnable files in queue order while there are free slots.
ProcessNext(q) ==
    LET started == FirstFew(Runnable(q), q.ahead, FreeSlots(q)) IN
    Become([q EXCEPT
        !.status = [t \in Tasks |-> IF t \in started THEN "active" ELSE q.status[t]],
        !.ahead = Leave(q.ahead, started)])

\* pushHistory keeps the newest MaxHistory files; which of the older ones it
\* forgets is left open, the order of the history is not modelled.
Histories(q, S) ==
    LET all == q.history \cup S IN
    {h \in SUBSET all :
        /\ Cardinality(h) = Smaller(MaxHistory, Cardinality(all))
        /\ Cardinality(S) <= MaxHistory => S \subseteq h}

\* pruneTerminalGroups: above the bound, the oldest terminal groups go. Their
\* age is not modelled, and a group closed by the same call may be too young.
Prunable(q, closing) ==
    LET present == {g \in Groups : q.groups[g].exists}
        terminal == {g \in present : Terminal(q, g)}
        excess == IF Cardinality(present) > MaxGroups
                  THEN Cardinality(present) - MaxGroups ELSE 0
    IN {P \in SUBSET terminal :
          /\ Cardinality(P) <= excess
          /\ Cardinality(P) >= Smaller(excess, Cardinality(terminal \ closing))}

Forget(q, P) == [q EXCEPT !.groups = [g \in Groups |-> IF g \in P THEN NoGroup ELSE @[g]]]

\* What the fields can be after the files of S were pushed to the history.
Pushed(q, S, closing) ==
    IF S = {} THEN {q}
    ELSE {[Forget(q, P) EXCEPT !.history = h] :
             P \in Prunable(q, closing), h \in Histories(q, S)}

-----------------------------------------------------------------------------
(* Methods, as functions of the fields.                                    *)

\* settlePendingCancellation for each queued file of S.
SettleQueued(q, S) ==
    [q EXCEPT
       !.status = [t \in Tasks |-> IF t \in S THEN "cancelled" ELSE q.status[t]],
       !.ahead = Leave(q.ahead, S),
       !.groups = [g \in Groups |->
           IF q.groups[g].exists
           THEN [q.groups[g] EXCEPT
                   !.cancelled = q.groups[g].cancelled + Cardinality({t \in S : GroupOf[t] = g})]
           ELSE q.groups[g]]]

Abort(q, S) == [q EXCEPT !.aborted = @ \cup S]

\* Stops the groups of G: their queued files are settled, their running files
\* are aborted. A group without running files is cancelled at once.
\* Mutant: the running files are not waited for.
CloseAtOnce(q, G) ==
    LET queued == UNION {Queued(q, g) : g \in G}
        settled == Abort(SettleQueued(q, queued), UNION {Active(q, g) : g \in G})
    IN Pushed([settled EXCEPT !.groups = [g \in Groups |->
                  IF g \in G THEN [@[g] EXCEPT !.override = "cancelled"] ELSE @[g]]],
              queued, G)
Close(q, G) ==
    LET queued == UNION {Queued(q, g) : g \in G}
        settled == Abort(SettleQueued(q, queued), UNION {Active(q, g) : g \in G})
    IN Pushed([settled EXCEPT !.groups = [g \in Groups |->
                  IF g \notin G THEN @[g]
                  ELSE IF Active(q, g) = {} THEN [@[g] EXCEPT !.override = "cancelled"]
                  ELSE [@[g] EXCEPT !.override = "cancelling"]]],
              queued, G)

\* Appends the files of S to the queue, in any order.
Orders(S) ==
    {o \in SUBSET (S \X S) :
        /\ \A t, u \in S : t # u => (<< t, u >> \in o <=> << u, t >> \notin o)
        /\ \A t \in S : << t, t >> \notin o
        /\ \A t, u, v \in S : << t, u >> \in o /\ << u, v >> \in o => << t, v >> \in o}

Enqueue(q, S, order) ==
    [q EXCEPT
       !.status = [t \in Tasks |-> IF t \in S THEN "pending" ELSE q.status[t]],
       !.ahead = @ \cup (With(q, "pending") \X S) \cup order,
       !.groups = [g \in Groups |->
           LET added == Cardinality({t \in S : GroupOf[t] = g}) IN
           IF added = 0 THEN @[g]
           ELSE [q.groups[g] EXCEPT
                   !.expected = Larger(q.groups[g].expected,
                                       Cardinality(Unfinished(q, g)) + SettledCount(q, g) + added),
                   !.override = IF q.groups[g].override = "pausing" /\ Active(q, g) = {} THEN "paused"
                                ELSE q.groups[g].override]]]

Init ==
    /\ status = [t \in Tasks |-> "new"]
    /\ ahead = {}
    /\ aborted = {}
    /\ groups = [g \in Groups |-> NoGroup]
    /\ history = {}
    /\ userPaused = FALSE
    /\ scopePaused = {}
    /\ blockers = {}
    /\ maxConcurrent \in 1..MaxLimit

-----------------------------------------------------------------------------
(* The callers: Telegram commands, scanners and uploads.                   *)

\* A terminal group is replaced by a fresh record.
EnsureGroup(g, n) ==
    LET idle == With(Here, "active") \cup With(Here, "pending") = {}
        fresh == ~groups[g].exists \/ Terminal(Here, g)
    IN Become([Here EXCEPT
          !.userPaused = @ /\ ~idle,
          !.groups[g] = IF fresh THEN NewGroup(n)
                        ELSE [groups[g] EXCEPT !.expected = Larger(groups[g].expected, n)]])

Add(t) ==
    /\ status[t] = "new"
    /\ groups[GroupOf[t]].exists
    /\ IF groups[GroupOf[t]].override \in Closed
       THEN Become([Here EXCEPT !.status[t] = "dropped"])
       ELSE ProcessNext(Enqueue(Here, {t}, {}))

\* The override of a group whose last running file has ended.
AfterLast(q, g) ==
    CASE q.groups[g].override = "pausing" -> IF Queued(q, g) # {} THEN "paused" ELSE "none"
      [] q.groups[g].override = "cancelling" -> "cancelled"
      [] OTHER -> q.groups[g].override

\* The finally block of a download that ended. An aborted download counts as
\* cancelled whatever it returned.
Finish(t, outcome) ==
    LET g == GroupOf[t]
        last == Active(Here, g) = {t}
        record == groups[g]
        counted == CASE outcome = "success" -> [record EXCEPT !.completed = @ + 1]
                     [] outcome = "failed" -> [record EXCEPT !.failed = @ + 1]
                     [] outcome = "cancelled" -> [record EXCEPT !.cancelled = @ + 1]
    IN
    /\ status[t] = "active"
    /\ outcome \in IF t \in aborted THEN {"cancelled"} ELSE {"success", "failed"}
    /\ \E q \in Pushed([Here EXCEPT !.status[t] = outcome,
                                   !.aborted = @ \ {t},
                                   !.groups[g] = [counted EXCEPT !.override =
                                                    IF last THEN AfterLast(Here, g)
                                                    ELSE record.override]],
                     {t}, {}) :
          ProcessNext(q)

\* resolveGroupForControl: a group that still takes commands, and the command
\* on a terminal group, which forgets it unless a failed file can be retried.
Controllable(g) == groups[g].exists /\ ~Terminal(Here, g)
Retriable(t) == status[t] = "failed" /\ t \in history
Forgettable(g) ==
    /\ groups[g].exists /\ Terminal(Here, g)
    /\ ~\E t \in Tasks : GroupOf[t] = g /\ Retriable(t)

ControlTerminal(g) == Forgettable(g) /\ Become(Forget(Here, {g}))

\* The files of the group move to the front, in their order.
Front(order, queue, g) ==
    {pair \in queue \X queue :
        CASE GroupOf[pair[1]] = g /\ GroupOf[pair[2]] # g -> TRUE
          [] GroupOf[pair[1]] # g /\ GroupOf[pair[2]] = g -> FALSE
          [] OTHER -> pair \in order}

PrioritizeGroup(g) ==
    /\ Controllable(g)
    /\ groups[g].override \notin Held \cup {"cancelling"}
    /\ Queued(Here, g) # {}
    /\ ProcessNext([Here EXCEPT !.ahead = Front(@, With(Here, "pending"), g)])

\* A group that is being cancelled can be paused: only Held is excluded.
PauseGroup(g) ==
    /\ Controllable(g)
    /\ groups[g].override \notin Held
    /\ ProcessNext([Here EXCEPT !.groups[g].override =
                      IF Active(Here, g) = {} THEN "paused" ELSE "pausing"])

ResumeGroup(g) ==
    /\ Controllable(g)
    /\ blockers = {}
    /\ groups[g].override \notin Closed
    /\ ProcessNext([Here EXCEPT !.groups[g].override = "none"])

CancelGroup(g) ==
    /\ Controllable(g)
    /\ groups[g].override \notin Closed
    /\ \E q \in Close(Here, {g}) : ProcessNext(q)

\* cancelGroup on every group of the scope, then the scope's pause is lifted.
\* The calls of processNext in between start nothing: no slot becomes free.
CancelScope(s) ==
    LET open == {g \in ScopeGroups[s] : Controllable(g) /\ groups[g].override \notin Closed}
        gone == {g \in ScopeGroups[s] : Forgettable(g)}
    IN \E q \in Close(Forget(Here, gone), open) :
          ProcessNext([q EXCEPT !.scopePaused = @ \ {s}])

\* cancel(selector) of single files: the first queued match and all running ones.
CancelFiles(S) ==
    LET queued == S \cap With(Here, "pending")
        running == S \cap With(Here, "active")
    IN
    /\ S # {} /\ S = queued \cup running
    /\ Cardinality(queued) <= 1
    /\ \E q \in Pushed(Abort(SettleQueued(Here, queued), running), queued, {}) :
          ProcessNext(q)

\* Every file is stopped; processNext is not called, the queue is empty.
ForceStopAll ==
    \E q \in Close(Here, {g \in Groups : groups[g].exists /\ Unfinished(Here, g) # {}}) :
        Become(q)

\* Failed files that are still remembered are queued again.
RetryFailed(S) ==
    LET failures(g) == Cardinality({t \in S : GroupOf[t] = g}) IN
    /\ S # {}
    /\ \A t \in S : /\ Retriable(t)
                    /\ groups[GroupOf[t]].exists
                    /\ groups[GroupOf[t]].override \notin Closed
    /\ \E order \in Orders(S) :
          ProcessNext(Enqueue(
              [Here EXCEPT
                 !.history = @ \ S,
                 !.groups = [g \in Groups |-> [groups[g] EXCEPT !.failed =
                               IF failures(g) < groups[g].failed
                               THEN groups[g].failed - failures(g) ELSE 0]]],
              S, order))

\* The global and scoped pauses. Pausing stops nothing that runs.
PauseAll == ~userPaused /\ Become([Here EXCEPT !.userPaused = TRUE])
ResumeAll == userPaused /\ ProcessNext([Here EXCEPT !.userPaused = FALSE])
PauseScope(s) == s \notin scopePaused /\ Become([Here EXCEPT !.scopePaused = @ \cup {s}])
ResumeScope(s) == s \in scopePaused /\ ProcessNext([Here EXCEPT !.scopePaused = @ \ {s}])

AcquireBlocker(b) == b \notin blockers /\ Become([Here EXCEPT !.blockers = @ \cup {b}])
ReleaseBlocker(b) == b \in blockers /\ ProcessNext([Here EXCEPT !.blockers = @ \ {b}])

SetMaxConcurrent(n) ==
    n # maxConcurrent /\ ProcessNext([Here EXCEPT !.maxConcurrent = n])

Next ==
    \/ \E g \in Groups : \/ \E n \in 0..MaxExpected : EnsureGroup(g, n)
                         \/ ControlTerminal(g) \/ PrioritizeGroup(g)
                         \/ PauseGroup(g) \/ ResumeGroup(g) \/ CancelGroup(g)
    \/ \E t \in Tasks : Add(t) \/ \E outcome \in Settled : Finish(t, outcome)
    \/ \E S \in SUBSET Tasks : CancelFiles(S) \/ RetryFailed(S)
    \/ \E s \in Scopes : PauseScope(s) \/ ResumeScope(s) \/ CancelScope(s)
    \/ \E b \in Blockers : AcquireBlocker(b) \/ ReleaseBlocker(b)
    \/ PauseAll \/ ResumeAll \/ ForceStopAll
    \/ \E n \in 1..MaxLimit : SetMaxConcurrent(n)

Spec == Init /\ [][Next]_vars
-----------------------------------------------------------------------------
GroupType == [exists : BOOLEAN, expected : Nat, completed : Nat, failed : Nat,
              cancelled : Nat, override : {"none"} \cup Held \cup Closed]

\* The fields have the types of the class.
TypeOK ==
    /\ status \in [Tasks -> {"new", "pending", "active", "dropped"} \cup Settled]
    /\ ahead \subseteq Tasks \X Tasks
    /\ aborted \subseteq Tasks
    /\ groups \in [Groups -> GroupType]
    /\ history \subseteq Tasks
    /\ userPaused \in BOOLEAN
    /\ scopePaused \subseteq Scopes
    /\ blockers \subseteq Blockers
    /\ maxConcurrent \in 1..MaxLimit

(* No wake-up is lost: after every call, a file that may run and a free    *)
(* slot do not exist together (processNext, called by whoever frees either)*)
NoIdleSlot == Runnable(Here) = {} \/ FreeSlots(Here) = 0

(* The record of a group outlives its files. processNext skips a file      *)
(* without a record for ever, and the finally block would count it nowhere.*)
FilesHaveGroup ==
    \A t \in Tasks : status[t] \in {"pending", "active"} => groups[GroupOf[t]].exists

(* A group that is pausing or cancelling has a running file: it is the end *)
(* of that file that completes the transition.                             *)
TransitionHasRunningFile ==
    \A g \in Groups :
        groups[g].override \in {"pausing", "cancelling"} => Active(Here, g) # {}

(* A cancelled group has no file left in the queue or running, and every   *)
(* running file of a group that is being cancelled was told to stop.       *)
CancelledHasNoFile ==
    \A g \in Groups :
        /\ groups[g].override = "cancelled" => Unfinished(Here, g) = {}
        /\ groups[g].override = "cancelling" => Queued(Here, g) = {}
                                               /\ Active(Here, g) \subseteq aborted

(* The total shown for a group covers its files and what it has settled,   *)
(* through late additions, retries and reuse of the group id.              *)
TotalCoversFiles ==
    \A g \in Groups :
        groups[g].exists =>
            groups[g].expected >= Cardinality(Unfinished(Here, g)) + SettledCount(Here, g)

(* The queue is a strict total order on the queued files, whatever was     *)
(* removed, prioritized or retried.                                        *)
QueueIsOrdered ==
    /\ ahead \subseteq With(Here, "pending") \X With(Here, "pending")
    /\ ahead \in Orders(With(Here, "pending"))

(* The queue, its groups and their files fit together after every call.     *)
QueueIsConsistent ==
    /\ NoIdleSlot /\ FilesHaveGroup /\ TransitionHasRunningFile
    /\ CancelledHasNoFile /\ TotalCoversFiles /\ QueueIsOrdered

(* Files of one group start in the order they were queued in.              *)
GroupStartsInOrder ==
    [][\A t, u \in Tasks :
          GroupOf[t] = GroupOf[u] /\ << t, u >> \in ahead /\ status'[u] = "active"
          => status'[t] # "pending"]_vars

(* A running file always reaches the end of the transition it belongs to.  *)
TransitionEnded(g) == groups[g].override \notin {"pausing", "cancelling"}

\* What the callers see of the files: see BoundedExecutor.
FileState == [t \in Tasks |->
                CASE status[t] = "new" -> "absent"
                  [] status[t] = "pending" -> "waiting"
                  [] status[t] = "active" -> "running"
                  [] status[t] = "failed" -> "failed"
                  [] OTHER -> "done"]

Executor == INSTANCE BoundedExecutor
                WITH Files <- Tasks, state <- FileState, limit <- maxConcurrent

(* The queue with its pauses, priorities, cancellations and retries is     *)
(* such an executor.                                                       *)
ExecutesWithinLimit == Executor!Spec

(* A runnable file that no other runnable file precedes is started in the  *)
(* end: the slots of the running files come back to the queue. (A file     *)
(* further back can starve, if other groups are prioritized for ever.)     *)
HeadStarted(t) ==
    ~(/\ t \in Runnable(Here)
      /\ \A u \in Runnable(Here) : << u, t >> \notin ahead)
=============================================================================
