--------------------------- MODULE TransferTasks ---------------------------
(***************************************************************************)
(* The task page (routes/tasks.ts) and the rows of the bot's downloads it   *)
(* shows (services/transferTasks.ts, the callback of the queue in           *)
(* services/telegramUpload.ts, services/taskCenterDismissals.ts,            *)
(* services/unifiedTaskMapper.ts).  A download is a group of files in the   *)
(* memory of the server; its row follows it through a chain of snapshots,   *)
(* some of which are dropped.  The administrator cancels, retries and       *)
(* dismisses what the rows show.  The rows of channel jobs change on their  *)
(* own (ChannelJobs) and are here for the dismissals.                       *)
(***************************************************************************)
EXTENDS Naturals, FiniteSets, Sequences

CONSTANTS
    Tasks,      \* downloads of the bot
    Jobs,       \* channel jobs
    Size,       \* files of a download
    Requests,   \* requests of the task page under way
    MaxOps,     \* bound on what the users do
    MaxEvents   \* bound on restarts and failing statements

TasksAssumption ==
    /\ IsFiniteSet(Tasks) /\ IsFiniteSet(Jobs) /\ Tasks \cap Jobs = {} /\ IsFiniteSet(Requests)
    /\ Size \in Nat \ {0} /\ MaxOps \in Nat /\ MaxEvents \in Nat

VARIABLES
    group,      \* the groups of the queue
    chain,      \* notificationChains: the snapshots not yet handed to the row
    persisted,  \* ordinaryTaskPersistedAt: the downloads with a written snapshot
    row,        \* transfer_tasks and telegram_background_jobs
    request,    \* requests to cancel or retry a download
    dismissal,  \* the dismissal that is asked about or under way
    hidden,     \* task_center_dismissals: the version of the row each hides
    confirmed,  \* the rows and versions that confirmed dismissals listed
    retried,    \* downloads whose failed files were taken up again
    unwritten,  \* downloads a snapshot of which failed to be written
    told,       \* downloads the page was told are cancelled
    ops, events
vars == << group, chain, persisted, row, request, dismissal, hidden, confirmed,
           retried, unwritten, told, ops, events >>
pageVars == << request, dismissal, hidden, confirmed, told >>

Records == Tasks \cup Jobs
NoGroup == [made |-> FALSE, left |-> 0, run |-> 0, bad |-> 0, override |-> "none", version |-> 0]
NoRow == [status |-> "none", at |-> 0, version |-> 0]
Idle == [at |-> "idle", what |-> "none", task |-> "none", seen |-> "none"]
NoDismissal == [at |-> "idle", list |-> {}, live |-> {}]
Ended == {"completed", "failed", "cancelled"}
Dismissible == Ended \cup {"interrupted"}

Init ==
    /\ group = [t \in Tasks |-> NoGroup] /\ chain = [t \in Tasks |-> << >>] /\ persisted = {}
    /\ row = [r \in Records |-> IF r \in Jobs THEN [NoRow EXCEPT !.status = "running", !.at = 1]
                                ELSE NoRow]
    /\ request = [w \in Requests |-> Idle] /\ dismissal = NoDismissal
    /\ hidden = [r \in Records |-> 0] /\ confirmed = {}
    /\ retried = {} /\ unwritten = {} /\ told = {} /\ ops = 0 /\ events = 0
-----------------------------------------------------------------------------
Op == ops < MaxOps /\ ops' = ops + 1 /\ UNCHANGED events
Event == events < MaxEvents /\ events' = events + 1 /\ UNCHANGED ops
Goes == UNCHANGED << ops, events >>

\* snapshotGroup.
StateOf(g) ==
    CASE g.override # "none" -> g.override
      [] g.override = "none" /\ g.run > 0 -> "running"
      [] g.override = "none" /\ g.run = 0 /\ g.left > 0 -> "waiting"
      [] OTHER -> "completed"
Terminal(g) == StateOf(g) \in {"completed", "cancelled"}

\* ordinaryStatus: what the row says of a snapshot.
OrdinaryStatus(state, bad) ==
    CASE state \in {"cancelled", "cancelling"} -> "cancelled"
      [] state = "completed" -> IF bad > 0 THEN "failed" ELSE "completed"
      [] state \in {"paused", "pausing"} -> "paused"
      [] state = "running" -> "running"
      [] OTHER -> "pending"

\* A method of the queue changes a group and notifies its chain of it.
Notify(t, g) ==
    LET next == [g EXCEPT !.version = @ + 1] IN
    /\ group' = [group EXCEPT ![t] = next]
    /\ chain' = [chain EXCEPT ![t] = Append(@,
          [state |-> StateOf(next), bad |-> next.bad, version |-> next.version])]

\* updateTransferTask; the time of a row's last change is its version on the page.
Write(r, status) == row' = [row EXCEPT ![r].status = status, ![r].at = @ + 1]

(* A download arrives: its row comes first, then its group.                 *)
Admit(t) ==
    /\ row[t].status = "none" /\ Op
    /\ Write(t, "pending")
    /\ UNCHANGED << group, chain, persisted, pageVars, retried, unwritten >>

Submit(t) ==
    /\ row[t].status = "pending" /\ ~group[t].made /\ Goes
    /\ Notify(t, [NoGroup EXCEPT !.made = TRUE, !.left = Size])
    /\ UNCHANGED << persisted, row, pageVars, retried, unwritten >>

Start(t) ==
    /\ group[t].left > 0 /\ group[t].run = 0 /\ group[t].override = "none" /\ Goes
    /\ Notify(t, [group[t] EXCEPT !.left = @ - 1, !.run = 1])
    /\ UNCHANGED << persisted, row, pageVars, retried, unwritten >>

Finish(t) ==
    /\ group[t].run = 1 /\ Goes
    /\ \E bad \in IF group[t].override = "cancelling" THEN {0} ELSE {0, 1} :
          Notify(t, [group[t] EXCEPT !.run = 0, !.bad = @ + bad,
                       !.override = CASE @ = "cancelling" -> "cancelled"
                                      [] @ = "pausing" -> IF group[t].left > 0 THEN "paused" ELSE "none"
                                      [] OTHER -> @])
    /\ UNCHANGED << persisted, row, pageVars, retried, unwritten >>

(* The buttons and commands of the bot.                                     *)
Pause(t) ==
    /\ group[t].made /\ StateOf(group[t]) \in {"waiting", "running"} /\ Op
    /\ Notify(t, [group[t] EXCEPT !.override = IF group[t].run > 0 THEN "pausing" ELSE "paused"])
    /\ UNCHANGED << persisted, row, pageVars, retried, unwritten >>

Resume(t) ==
    /\ group[t].override \in {"paused", "pausing"} /\ Op
    /\ Notify(t, [group[t] EXCEPT !.override = "none"])
    /\ UNCHANGED << persisted, row, pageVars, retried, unwritten >>

Cancelled(g) == [g EXCEPT !.left = 0, !.override = IF g.run > 0 THEN "cancelling" ELSE "cancelled"]
Cancel(t) ==
    /\ group[t].made /\ ~Terminal(group[t]) /\ group[t].override # "cancelling" /\ Op
    /\ Notify(t, Cancelled(group[t]))
    /\ UNCHANGED << persisted, row, pageVars, retried, unwritten >>
-----------------------------------------------------------------------------
(* onGroupChanged: a snapshot that tells no end is dropped when the last    *)
(* one was written less than a second ago.                                  *)

MayDrop(t, s) ==
    t \in persisted /\ s.state \notin {"completed", "cancelled"} /\ s.bad = 0

\* The condition of the upsert.
Takes(r, s) == s.version > r.version /\ r.status \notin Ended

Persist(t) ==
    LET s == Head(chain[t])
        status == OrdinaryStatus(s.state, s.bad)
    IN
    /\ chain[t] # << >> /\ Goes
    /\ chain' = [chain EXCEPT ![t] = Tail(@)]
    /\ \/ MayDrop(t, s) /\ UNCHANGED << persisted, row >>
       \/ /\ persisted' = persisted \cup {t}
          /\ row' = IF Takes(row[t], s)
                    THEN [row EXCEPT ![t] = [status |-> status, at |-> @.at + 1, version |-> s.version]]
                    ELSE row
    /\ UNCHANGED << group, pageVars, retried, unwritten >>

PersistFails(t) ==
    /\ chain[t] # << >> /\ Event
    /\ chain' = [chain EXCEPT ![t] = Tail(@)]
    /\ persisted' = persisted \cup {t} /\ unwritten' = unwritten \cup {t}
    /\ UNCHANGED << group, row, pageVars, retried >>
-----------------------------------------------------------------------------
(* POST /tasks/telegram_bot/:id/cancel, after its confirmation, and /retry. *)
Step(w, r) == request' = [request EXCEPT ![w] = r]

AskCancel(w, t) ==
    /\ request[w] = Idle /\ row[t].status # "none" /\ Op
    /\ Step(w, [Idle EXCEPT !.at = "asked", !.what = "cancel", !.task = t])
    /\ UNCHANGED << group, chain, persisted, row, dismissal, hidden, confirmed, told, retried, unwritten >>

AskRetry(w, t) ==
    /\ request[w] = Idle /\ row[t].status # "none" /\ Op
    /\ Step(w, [Idle EXCEPT !.at = "asked", !.what = "retry", !.task = t])
    /\ UNCHANGED << group, chain, persisted, row, dismissal, hidden, confirmed, told, retried, unwritten >>

\* getTransferTask.
Read(w) ==
    /\ request[w].at = "asked" /\ Goes
    /\ Step(w, [request[w] EXCEPT !.at = "read", !.seen = row[request[w].task].status])
    /\ UNCHANGED << group, chain, persisted, row, dismissal, hidden, confirmed, told, retried, unwritten >>

\* Nothing of the download runs: its row only has to say so.
Abandoned(seen) == seen \in {"failed", "interrupted"}

DecideCancel(w) ==
    LET t == request[w].task
        g == group[t]
    IN
    /\ request[w].at = "read" /\ request[w].what = "cancel" /\ Goes
    /\ \/ /\ Abandoned(request[w].seen)
          /\ Step(w, [request[w] EXCEPT !.at = "update"])
          /\ UNCHANGED << group, chain >>
       \/ /\ ~Abandoned(request[w].seen) /\ g.made /\ g.override \in {"cancelling", "cancelled"}
          /\ Step(w, [request[w] EXCEPT !.at = "update"])
          /\ UNCHANGED << group, chain >>
       \/ /\ ~Abandoned(request[w].seen) /\ g.made /\ ~Terminal(g) /\ g.override # "cancelling"
          /\ Notify(t, Cancelled(g))
          /\ Step(w, [request[w] EXCEPT !.at = "update"])
       \/ /\ ~Abandoned(request[w].seen) /\ (~g.made \/ StateOf(g) = "completed")
          /\ Step(w, Idle) /\ UNCHANGED << group, chain >>
    /\ UNCHANGED << persisted, row, dismissal, hidden, confirmed, told, retried, unwritten >>

Update(w) ==
    LET t == request[w].task IN
    /\ request[w].at = "update" /\ Goes
    /\ Write(t, "cancelled") /\ told' = told \cup {t}
    /\ Step(w, Idle)
    /\ UNCHANGED << group, chain, persisted, dismissal, hidden, confirmed, retried, unwritten >>

\* retryFailedDownloadTasks: the failed files are queued again.
DecideRetry(w) ==
    LET t == request[w].task
        g == group[t]
        may == request[w].seen # "interrupted" /\ g.bad > 0 /\ g.override \notin {"cancelling", "cancelled"}
    IN
    /\ request[w].at = "read" /\ request[w].what = "retry" /\ Goes
    /\ IF may THEN /\ Notify(t, [g EXCEPT !.left = @ + g.bad, !.bad = 0])
                   /\ retried' = retried \cup {t}
              ELSE UNCHANGED << group, chain, retried >>
    /\ Step(w, Idle)
    /\ UNCHANGED << persisted, row, dismissal, hidden, confirmed, told, unwritten >>
-----------------------------------------------------------------------------
(* The dismissal of what has ended: a list is frozen, confirmed, compared   *)
(* with the rows, and saved.                                                *)

Hides(r) == hidden[r] # 0 /\ hidden[r] = row[r].at

Prepare ==
    /\ dismissal.at = "idle" /\ Op
    /\ \E S \in SUBSET {r \in Records : row[r].status \in Dismissible /\ ~Hides(r)} \ {{}} :
          dismissal' = [NoDismissal EXCEPT !.at = "asked", !.list = {<< r, row[r].at >> : r \in S}]
    /\ UNCHANGED << group, chain, persisted, row, request, hidden, confirmed, told, retried, unwritten >>

Same(item) == row[item[1]].status \in Dismissible /\ row[item[1]].at = item[2]

Confirm ==
    /\ dismissal.at = "asked" /\ Goes
    /\ confirmed' = confirmed \cup dismissal.list
    /\ dismissal' = [dismissal EXCEPT !.at = "save",
                       !.live = {<< item[1], row[item[1]].at >> : item \in {i \in dismissal.list : Same(i)}}]
    /\ UNCHANGED << group, chain, persisted, row, request, hidden, told, retried, unwritten >>

\* saveTaskCenterDismissals, one statement per row.
Save ==
    /\ dismissal.at = "save" /\ Goes
    /\ \/ /\ dismissal.live = {} /\ dismissal' = NoDismissal /\ UNCHANGED hidden
       \/ \E item \in dismissal.live :
             /\ hidden' = [hidden EXCEPT ![item[1]] = item[2]]
             /\ dismissal' = [dismissal EXCEPT !.live = @ \ {item}]
    /\ UNCHANGED << group, chain, persisted, row, request, confirmed, told, retried, unwritten >>
-----------------------------------------------------------------------------
(* The rows of channel jobs, and restarts.                                  *)
JobEnds(j) ==
    /\ row[j].status = "running" /\ Op
    /\ \E status \in Ended : Write(j, status)
    /\ UNCHANGED << group, chain, persisted, pageVars, retried, unwritten >>

JobRetried(j) ==
    /\ row[j].status = "failed" /\ Op
    /\ Write(j, "running")
    /\ UNCHANGED << group, chain, persisted, pageVars, retried, unwritten >>

Interrupted(r) == r \in Tasks /\ row[r].status \in {"pending", "running", "paused"}

\* The memory of the server is lost; markTransferTasksAfterRestart.
Restart ==
    /\ Event
    /\ group' = [t \in Tasks |-> NoGroup] /\ chain' = [t \in Tasks |-> << >>] /\ persisted' = {}
    /\ request' = [w \in Requests |-> Idle] /\ dismissal' = NoDismissal
    /\ row' = [r \in Records |-> IF Interrupted(r)
                                 THEN [row[r] EXCEPT !.status = "interrupted", !.at = @ + 1]
                                 ELSE row[r]]
    /\ UNCHANGED << hidden, confirmed, told, retried, unwritten >>

Next ==
    \/ \E t \in Tasks : \/ Admit(t) \/ Submit(t) \/ Start(t) \/ Finish(t) \/ Pause(t) \/ Resume(t)
                        \/ Cancel(t) \/ Persist(t) \/ PersistFails(t)
    \/ \E w \in Requests, t \in Tasks : AskCancel(w, t) \/ AskRetry(w, t)
    \/ \E w \in Requests : Read(w) \/ DecideCancel(w) \/ Update(w) \/ DecideRetry(w)
    \/ \E j \in Jobs : JobEnds(j) \/ JobRetried(j)
    \/ Prepare \/ Confirm \/ Save \/ Restart

Spec == Init /\ [][Next]_vars
-----------------------------------------------------------------------------
TypeOK ==
    /\ \A t \in Tasks : /\ group[t].left \in 0..Size /\ group[t].run \in 0..1 /\ group[t].bad \in 0..Size
                        /\ group[t].override \in {"none", "pausing", "paused", "cancelling", "cancelled"}
                        /\ \A i \in DOMAIN chain[t] : chain[t][i].version <= group[t].version
    /\ \A r \in Records : /\ row[r].status \in Dismissible \cup {"none", "pending", "running", "paused"}
                          /\ hidden[r] <= row[r].at
    /\ \A w \in Requests : request[w].at \in {"idle", "asked", "read", "update"}
    /\ dismissal.at \in {"idle", "asked", "save"}
    /\ persisted \subseteq Tasks /\ ops \in 0..MaxOps /\ events \in 0..MaxEvents

(* When every snapshot was handed over, the row of a download that is over  *)
(* tells how it ended, although snapshots are dropped: a download that      *)
(* failed may have been given up since.  Not after a retry: the row keeps   *)
(* 'failed', which the upsert never leaves.                                 *)
RowTellsOutcome ==
    \A t \in Tasks \ (retried \cup unwritten) :
        group[t].made /\ Terminal(group[t]) /\ chain[t] = << >> =>
            LET outcome == OrdinaryStatus(StateOf(group[t]), group[t].bad) IN
            row[t].status \in {outcome} \cup (IF outcome = "failed" THEN {"cancelled"} ELSE {})

(* The end of a row is final: snapshots that were still on their way do not *)
(* bring a download back to life, only an administrator gives up a failed   *)
(* or interrupted one.                                                      *)
EndIsFinal ==
    \A t \in Tasks : row[t].status \in Dismissible /\ row'[t].status # row[t].status =>
        /\ row'[t].status = "cancelled"
        /\ \E w \in Requests : request[w].at = "update" /\ request[w].task = t

(* What the page was told is cancelled has stopped, or stops: none of its   *)
(* files waits or runs, but for a running file that is aborted.             *)
Stopped(t) == group[t].override = "cancelling" \/ group[t].left + group[t].run = 0
CancelledIsStoppedUnlessRetried == \A t \in told \ retried : Stopped(t)

(* What is hidden has ended, and a confirmed list named it as it is now: a  *)
(* task that lives again, or ended anew, is shown.                          *)
HiddenIsConfirmed ==
    \A r \in Records : Hides(r) => row[r].status \in Dismissible /\ << r, row[r].at >> \in confirmed
=============================================================================
