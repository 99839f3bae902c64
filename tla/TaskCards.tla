----------------------------- MODULE TaskCards -----------------------------
(***************************************************************************)
(* The task centre of the bot (services/telegramTaskCenter.ts and its       *)
(* callbacks in services/telegramCommands.ts): cards with buttons through   *)
(* which a user looks at the downloads and channel jobs of a chat, starts,  *)
(* pauses, resumes and, after a question, cancels them, one at a time or    *)
(* all.  A card shows what was true when it was drawn.  A channel job is a  *)
(* row (ChannelJobs) and a group of the memory of the server                *)
(* (DownloadTaskQueue), which a command changes one after the other.        *)
(***************************************************************************)
EXTENDS Naturals, FiniteSets

CONSTANTS
    Memory,     \* ordinary downloads
    Channel,    \* channel jobs
    Users,
    OwnerOf,    \* the user each of them belongs to
    Cards,      \* messages with buttons
    Handlers,   \* callbacks under way
    MaxOps,     \* bound on buttons pressed and commands sent
    MaxEvents   \* bound on what happens to the jobs on their own, and restarts

CardsAssumption ==
    /\ IsFiniteSet(Memory) /\ IsFiniteSet(Channel) /\ Memory \cap Channel = {}
    /\ OwnerOf \in [Memory \cup Channel -> Users]
    /\ IsFiniteSet(Users) /\ IsFiniteSet(Cards) /\ IsFiniteSet(Handlers)
    /\ MaxOps \in Nat /\ MaxEvents \in Nat

VARIABLES
    job,      \* the rows of the channel jobs: status, and whether one of its files runs
    exec,     \* the groups of the queue
    card,     \* the cards: taskCenterCardOwners, and the buttons that are drawn
    pending,  \* pendingTaskCenterCancels: the item a card asks about
    handler,
    bulk,     \* the cancellation of everything: the question and its execution
    met,      \* jobs whose commands overlapped
    left,     \* jobs that a finished cancellation of everything should have stopped
    idle,     \* jobs that ran without a running file since one was asked for
    ops, events
vars == << job, exec, card, pending, handler, bulk, met, left, idle, ops, events >>
cardVars == << card, pending, handler >>
bulkVars == << bulk, left, idle >>

Items == Memory \cup Channel
NoCard == [owner |-> "none", buttons |-> {}]
Free == [at |-> "free", user |-> "none", card |-> "none", action |-> "none", item |-> "none", buttons |-> {}]
NoBulk == [at |-> "free", user |-> "none", todo |-> {}, job |-> "none", all |-> {}]

Init ==
    /\ job \in [Channel -> [status : {"queued", "running"}, busy : {TRUE}]]
    /\ exec = [i \in Items |-> "open"]
    /\ card = [k \in Cards |-> NoCard] /\ pending = [k \in Cards |-> "none"]
    /\ handler = [h \in Handlers |-> Free] /\ bulk = NoBulk
    /\ met = {} /\ left = {} /\ idle = {} /\ ops = 0 /\ events = 0
-----------------------------------------------------------------------------
Op == ops < MaxOps /\ ops' = ops + 1 /\ UNCHANGED events
Event == events < MaxEvents /\ events' = events + 1 /\ UNCHANGED ops
Goes == UNCHANGED << ops, events >>

\* listTelegramActiveTaskQueues: a running job is listed while a file of it runs.
ListedJob(j) ==
    \/ job[j].status = "queued"
    \/ job[j].status \in {"running", "paused"} /\ job[j].busy
Listed(i) ==
    IF i \in Channel THEN ListedJob(i)
    ELSE exec[i] \in {"open", "paused"}

\* The state an item is shown in; a group tells more than the row of its job.
Shown(i) ==
    IF i \in Memory THEN IF exec[i] = "paused" THEN "paused" ELSE "running"
    ELSE CASE job[i].status = "queued" -> "waiting"
           [] job[i].status = "paused" -> "paused"
           [] OTHER -> "running"

\* buildTaskCenterPage, buildTaskCenterDetail, buildTaskCancelConfirm.
ListButtons(u) == {<< "list", "none" >>} \cup {<< "detail", i >> : i \in {k \in Items : OwnerOf[k] = u /\ Listed(k)}}
DetailButtons(i) ==
    {<< "list", "none" >>, << "detail", i >>, << "prompt", i >>}
    \cup (CASE Shown(i) = "waiting" -> {<< "start", i >>}
            [] Shown(i) = "running" -> {<< "pause", i >>}
            [] Shown(i) = "paused" -> {<< "resume", i >>})
ConfirmButtons(i) == {<< "confirm", i >>, << "detail", i >>}

\* handleTasks.
SendCard(k, u) ==
    /\ card[k] = NoCard /\ Op
    /\ card' = [card EXCEPT ![k] = [owner |-> u, buttons |-> ListButtons(u)]]
    /\ UNCHANGED << job, exec, pending, handler, met, bulkVars >>

Step(h, r) == handler' = [handler EXCEPT ![h] = r]

\* handleTaskCenterCallback, to its first await after the checks.
Press(h, u, k) ==
    /\ handler[h] = Free /\ card[k].owner = u /\ Op
    /\ \E b \in card[k].buttons :
          Step(h, [Free EXCEPT !.at = "find", !.user = u, !.card = k, !.action = b[1], !.item = b[2]])
    /\ UNCHANGED << job, exec, card, pending, met, bulkVars >>

\* The card is edited: an old answer can be drawn over a newer one.
Draw(h) ==
    LET r == handler[h] IN
    /\ r.at = "draw" /\ Goes
    /\ card' = [card EXCEPT ![r.card] =
                  IF @ = NoCard THEN @ ELSE [@ EXCEPT !.buttons = r.buttons]]
    /\ Step(h, Free)
    /\ UNCHANGED << job, exec, pending, met, bulkVars >>

Drawing(h, buttons) == Step(h, [handler[h] EXCEPT !.at = "draw", !.buttons = buttons])

\* findTaskCenterItem, and the views.
Find(h) ==
    LET r == handler[h]
        found == r.item \in Items /\ Listed(r.item) /\ OwnerOf[r.item] = r.user
    IN
    /\ r.at = "find" /\ Goes
    /\ \/ /\ ~found \/ r.action = "list"
          /\ Drawing(h, ListButtons(r.user)) /\ UNCHANGED pending
       \/ /\ found /\ r.action = "detail"
          /\ Drawing(h, DetailButtons(r.item)) /\ UNCHANGED pending
       \/ /\ found /\ r.action = "prompt"
          /\ pending' = [pending EXCEPT ![r.card] = r.item]
          /\ Drawing(h, ConfirmButtons(r.item))
       \/ /\ found /\ r.action \in {"start", "pause", "resume"}
          /\ Step(h, [r EXCEPT !.at = "operate"]) /\ UNCHANGED pending
       \/ /\ found /\ r.action = "confirm"
          /\ pending' = [pending EXCEPT ![r.card] = "none"]
          /\ Step(h, IF pending[r.card] = r.item THEN [r EXCEPT !.at = "operate"] ELSE Free)
    /\ UNCHANGED << job, exec, card, met, bulkVars >>

\* The question runs out after two minutes.
Expire(k) ==
    /\ pending[k] # "none" /\ Goes
    /\ pending' = [pending EXCEPT ![k] = "none"]
    /\ UNCHANGED << job, exec, card, handler, met, bulkVars >>
-----------------------------------------------------------------------------
(* The commands.  Those on an ordinary download are calls of the queue.     *)
OperateMemory(h) ==
    LET r == handler[h]
        i == r.item
        ok == exec[i] \in {"open", "paused"}
        after == CASE r.action = "pause" -> "paused" [] r.action = "resume" -> "open"
                   [] r.action = "confirm" -> "cancelled" [] OTHER -> exec[i]
    IN
    /\ r.at = "operate" /\ i \in Memory /\ Goes
    /\ exec' = IF ok THEN [exec EXCEPT ![i] = after] ELSE exec
    /\ Step(h, [r EXCEPT !.at = "shown"])
    /\ UNCHANGED << job, card, pending, met, bulkVars >>

\* operateChannelTaskCenterItem: the row is looked up again and then changed.
Look(h) ==
    LET r == handler[h]
        j == r.item
    IN
    /\ r.at = "operate" /\ j \in Channel /\ Goes
    /\ \/ ~ListedJob(j) /\ Step(h, [r EXCEPT !.at = "shown"])
       \/ ListedJob(j) /\ r.action = "pause" /\ job[j].status # "running" /\ Step(h, [r EXCEPT !.at = "shown"])
       \/ ListedJob(j) /\ r.action = "start" /\ job[j].status = "running" /\ Step(h, [r EXCEPT !.at = "shown"])
       \/ /\ ListedJob(j) /\ ~(r.action = "pause" /\ job[j].status # "running")
          /\ ~(r.action = "start" /\ job[j].status = "running")
          /\ Step(h, [r EXCEPT !.at = "row"])
    /\ UNCHANGED << job, exec, card, pending, met, bulkVars >>

\* pauseTelegramBackgroundJob, resumeTelegramBackgroundJob, cancelTelegramBackgroundJob.
Takes(action, status) ==
    CASE action = "pause" -> status \in {"queued", "running", "paused"}
      [] action \in {"start", "resume"} -> status = "paused"
      [] action = "confirm" -> status \in {"queued", "running", "paused"}
Becomes(action) ==
    CASE action = "pause" -> "paused" [] action \in {"start", "resume"} -> "running" [] action = "confirm" -> "cancelled"

Others(h, j) == \E o \in Handlers \ {h} : handler[o].at \in {"row", "group"} /\ handler[o].item = j
BulkAt(j) == bulk.at \in {"row", "group"} /\ bulk.job = j

ChangeRow(h) ==
    LET r == handler[h]
        j == r.item
        ok == Takes(r.action, job[j].status)
    IN
    /\ r.at = "row" /\ Goes
    /\ job' = IF ok THEN [job EXCEPT ![j].status = Becomes(r.action)] ELSE job
    /\ Step(h, [r EXCEPT !.at = IF ok THEN "group" ELSE "shown"])
    /\ met' = IF Others(h, j) \/ BulkAt(j) THEN met \cup {j} ELSE met
    /\ UNCHANGED << exec, card, pending, bulkVars >>

\* pauseChannelExecutionGroup, resumeChannelExecutionGroup, cancelChannelExecutionGroup.
GroupAfter(action, state) ==
    CASE state \in {"open", "paused"} /\ action = "pause" -> "paused"
      [] state \in {"open", "paused"} /\ action \in {"start", "resume"} -> "open"
      [] state \in {"open", "paused"} /\ action = "confirm" -> "cancelled"
      [] OTHER -> state

ChangeGroup(h) ==
    LET r == handler[h] IN
    /\ r.at = "group" /\ Goes
    /\ exec' = [exec EXCEPT ![r.item] = GroupAfter(r.action, @)]
    /\ Step(h, [r EXCEPT !.at = "shown"])
    /\ UNCHANGED << job, card, pending, met, bulkVars >>

\* The card then shows the item again, or the list.
ShowAgain(h) ==
    LET r == handler[h] IN
    /\ r.at = "shown" /\ r.card # "none" /\ Goes
    /\ Drawing(h, IF r.action # "confirm" /\ Listed(r.item) THEN DetailButtons(r.item) ELSE ListButtons(r.user))
    /\ UNCHANGED << job, exec, card, pending, met, bulkVars >>

(* The same by a command with the id of a task, which looks at no list, and *)
(* by a button of an old version of the bot.                                *)
Command(h, u, action) ==
    /\ handler[h] = Free /\ Op
    /\ \E i \in {k \in Items : OwnerOf[k] = u} :
          Step(h, [Free EXCEPT !.at = IF i \in Memory THEN "operate" ELSE "row",
                               !.user = u, !.action = action, !.item = i])
    /\ UNCHANGED << job, exec, card, pending, met, bulkVars >>
PauseCommand(h, u) == Command(h, u, "pause")
ResumeCommand(h, u) == Command(h, u, "resume")
CancelCommand(h, u) == Command(h, u, "confirm")

OldButton(h, u) ==
    /\ handler[h] = Free /\ Op
    /\ \E j \in {k \in Channel : OwnerOf[k] = u /\ ListedJob(k)}, action \in {"pause", "resume"} :
          Step(h, [Free EXCEPT !.at = "operate", !.user = u, !.action = action, !.item = j])
    /\ UNCHANGED << job, exec, card, pending, met, bulkVars >>

Reply(h) ==
    /\ handler[h].at = "shown" /\ handler[h].card = "none" /\ Goes
    /\ Step(h, Free)
    /\ UNCHANGED << job, exec, card, pending, met, bulkVars >>
-----------------------------------------------------------------------------
(* /stop: everything of the user in the chat is cancelled, after a question. *)
Open(i) == IF i \in Channel THEN job[i].status \in {"queued", "running", "paused"} ELSE exec[i] \in {"open", "paused"}

\* requestBulkTaskCancellation.
AskAll(u) ==
    /\ bulk.at = "free" /\ Op
    /\ \E i \in Items : OwnerOf[i] = u /\ Listed(i)
    /\ bulk' = [NoBulk EXCEPT !.at = "asked", !.user = u]
    /\ UNCHANGED << job, exec, cardVars, met, left, idle >>

AnswerNo ==
    /\ bulk.at = "asked" /\ Goes
    /\ bulk' = NoBulk
    /\ UNCHANGED << job, exec, cardVars, met, left, idle >>

\* handleBulkTaskCancelCallback takes the question and lists the jobs.
AnswerYes ==
    LET mine == {j \in Channel : OwnerOf[j] = bulk.user} IN
    /\ bulk.at = "asked" /\ Goes
    /\ bulk' = [bulk EXCEPT !.at = "next", !.todo = {j \in mine : ListedJob(j)},
                            !.all = {i \in Items : OwnerOf[i] = bulk.user /\ Open(i)}]
    /\ idle' = idle \cup {j \in mine : Open(j) /\ ~ListedJob(j)}
    /\ UNCHANGED << job, exec, cardVars, met, left >>

Remaining(todo, j) == todo \ {j}

CancelNext ==
    /\ bulk.at = "next" /\ Goes
    /\ \E j \in bulk.todo :
          /\ job' = IF Open(j) THEN [job EXCEPT ![j].status = "cancelled"] ELSE job
          /\ bulk' = [bulk EXCEPT !.todo = IF Open(j) THEN @ \ {j} ELSE Remaining(@, j),
                                  !.job = j, !.at = IF Open(j) THEN "group" ELSE "next"]
          /\ met' = IF \E h \in Handlers : handler[h].at \in {"row", "group"} /\ handler[h].item = j
                    THEN met \cup {j} ELSE met
    /\ UNCHANGED << exec, cardVars, left, idle >>

CancelGroupNext ==
    /\ bulk.at = "group" /\ Goes
    /\ exec' = [exec EXCEPT ![bulk.job] = GroupAfter("confirm", @)]
    /\ bulk' = [bulk EXCEPT !.at = "next"]
    /\ UNCHANGED << job, cardVars, met, left, idle >>

\* forceStopDownloadTasksForScope: the groups of channel jobs are among them.
ForceStop(u) == [i \in Items |-> IF OwnerOf[i] = u /\ exec[i] \in {"open", "paused"} THEN "cancelled" ELSE exec[i]]

StopOrdinary ==
    /\ bulk.at = "next" /\ bulk.todo = {} /\ Goes
    /\ exec' = ForceStop(bulk.user)
    /\ left' = left \cup bulk.all /\ bulk' = NoBulk
    /\ UNCHANGED << job, cardVars, met, idle >>
-----------------------------------------------------------------------------
(* The jobs go on.                                                          *)
JobMoves(j) ==
    /\ Event
    /\ \/ job[j].status = "queued" /\ job' = [job EXCEPT ![j].status = "running"]
       \/ job[j].status = "running" /\ job' = [job EXCEPT ![j].status = "ended"]
       \/ job[j].status \in {"running", "paused"} /\ job' = [job EXCEPT ![j].busy = ~@]
    /\ UNCHANGED << exec, cardVars, met, bulkVars >>

DownloadEnds(i) ==
    /\ exec[i] = "open" /\ Event
    /\ exec' = [exec EXCEPT ![i] = "none"]
    /\ UNCHANGED << job, cardVars, met, bulkVars >>

\* Cards, questions and groups were in the memory of the server.
Restart ==
    /\ Event
    /\ exec' = [i \in Items |-> "none"]
    /\ card' = [k \in Cards |-> NoCard] /\ pending' = [k \in Cards |-> "none"]
    /\ handler' = [h \in Handlers |-> Free] /\ bulk' = NoBulk
    /\ UNCHANGED << job, met, left, idle >>

Next ==
    \/ \E k \in Cards, u \in Users : SendCard(k, u) \/ \E h \in Handlers : Press(h, u, k)
    \/ \E h \in Handlers : \/ Find(h) \/ Draw(h) \/ OperateMemory(h) \/ Look(h) \/ ChangeRow(h)
                           \/ ChangeGroup(h) \/ ShowAgain(h) \/ Reply(h)
    \/ \E h \in Handlers, u \in Users :
          PauseCommand(h, u) \/ ResumeCommand(h, u) \/ CancelCommand(h, u) \/ OldButton(h, u)
    \/ \E k \in Cards : Expire(k)
    \/ \E u \in Users : AskAll(u)
    \/ AnswerNo \/ AnswerYes \/ CancelNext \/ CancelGroupNext \/ StopOrdinary
    \/ \E j \in Channel : JobMoves(j)
    \/ \E i \in Items : DownloadEnds(i)
    \/ Restart

Spec == Init /\ [][Next]_vars
-----------------------------------------------------------------------------
TypeOK ==
    /\ \A j \in Channel : job[j].status \in {"queued", "running", "paused", "ended", "cancelled"}
    /\ \A i \in Items : exec[i] \in {"none", "open", "paused", "cancelled"}
    /\ \A k \in Cards : pending[k] \in Items \cup {"none"}
    /\ \A h \in Handlers : handler[h].at \in {"free", "find", "draw", "operate", "row", "group", "shown"}
    /\ bulk.at \in {"free", "asked", "next", "group"}
    /\ ops \in 0..MaxOps /\ events \in 0..MaxEvents

(* When no command is under way a job and its group agree: a paused job     *)
(* starts no file, a running one is not held back, a cancelled one is gone, *)
(* unless commands on the same job overlapped or a cancellation of          *)
(* everything omitted it.                                                   *)
Quiet(j) ==
    /\ \A h \in Handlers : ~(handler[h].at \in {"row", "group"} /\ handler[h].item = j)
    /\ ~BulkAt(j)
Match(j) ==
    CASE job[j].status \in {"queued", "running"} -> exec[j] \in {"none", "open"}
      [] job[j].status = "paused" -> exec[j] \in {"none", "paused"}
      [] job[j].status = "cancelled" -> exec[j] \in {"none", "cancelled"}
      [] OTHER -> TRUE
AgreeUnlessOverlapped == \A j \in Channel \ (met \cup idle) : Quiet(j) => Match(j)

(* A confirmed cancellation of everything stops all that ran in the chat    *)
(* when it was confirmed, but for jobs that had no running file at that     *)
(* moment, which the list of active jobs omits.                             *)
StopsAllUnlessIdle == \A i \in left \ idle : ~Open(i)
=============================================================================
