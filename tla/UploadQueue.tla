----------------------------- MODULE UploadQueue -----------------------------
(***************************************************************************)
(* The uploads of the web page: the bounded queue of the browser            *)
(* (services/boundedUploadQueue.ts), the entries the page shows (App.tsx),  *)
(* the upload client with its small and chunked uploads (services/api.ts),  *)
(* and the sessions of the server as that client sees them                  *)
(* (ChunkUploadSessions has their inside).  An upload can be cancelled,     *)
(* paused with the queue, retried, resumed from a session the server still  *)
(* has, and left behind by a logout.                                        *)
(***************************************************************************)
EXTENDS Naturals, FiniteSets, Sequences

CONSTANTS
    Small,      \* uploads that are sent in one request
    Chunked,    \* uploads in chunks, each with a session of its own
    Resumers,   \* uploads that resume a session
    N,          \* uploads that may run at once
    MaxOps,     \* bound on what the user does
    MaxEvents   \* bound on failing requests

QueueAssumption ==
    /\ IsFiniteSet(Small) /\ IsFiniteSet(Chunked) /\ IsFiniteSet(Resumers)
    /\ Small \cap Chunked = {} /\ Resumers \cap (Small \cup Chunked) = {}
    /\ N \in Nat \ {0} /\ MaxOps \in Nat /\ MaxEvents \in Nat

VARIABLES
    entry,      \* uploadQueue: the status the page shows
    task,       \* the tasks of the queue and where their workers are
    pending,    \* the pending tasks, in order
    active,     \* the number of slots in use
    paused,
    caps,       \* uploadCapabilitiesPromise, and the uploads a failed one left
    attached,   \* uploads whose session is kept for a retry
    server,     \* the session or the file of an upload on the server
    recovered,  \* sessions the page offers to resume
    resuming,   \* resumingSessionIds
    due,        \* whether the list of sessions is to be loaded
    closing,    \* entries that a closed drawer will drop
    late,       \* uploads whose file was stored, or asked for, when they ended otherwise
    resumed,    \* sessions that were resumed by another upload
    ops, events
vars == << entry, task, pending, active, paused, caps, attached, server, recovered, resuming,
           due, closing, late, resumed, ops, events >>
queueVars == << entry, task, pending, active >>
pageVars == << recovered, resuming, due, closing, resumed >>

Files == Small \cup Chunked
Ids == Files \cup Resumers
NoTask == [state |-> "none", at |-> "none", aborted |-> FALSE, of |-> "none", retried |-> FALSE]
Shown == {"pending", "uploading"}
Over == {"completed", "error", "cancelled"}

Init ==
    /\ entry = [i \in Ids |-> "none"] /\ task = [i \in Ids |-> NoTask]
    /\ pending = << >> /\ active = 0 /\ paused = FALSE
    /\ caps = [known |-> FALSE, doomed |-> {}] /\ attached = {}
    /\ server = [f \in Files |-> "none"]
    /\ recovered = {} /\ resuming = {} /\ due = FALSE /\ closing = {}
    /\ late = {} /\ resumed = {} /\ ops = 0 /\ events = 0
-----------------------------------------------------------------------------
At(i) == IF task[i].state = "active" THEN task[i].at ELSE "none"
Of(i) == task[i].of
\* What was awaited together goes on before the user can act.
Awaited == {i \in Ids : At(i) = "caps" /\ (caps.known \/ i \in caps.doomed)}
Op == ops < MaxOps /\ Awaited = {} /\ ops' = ops + 1 /\ UNCHANGED events
Event == events < MaxEvents /\ events' = events + 1 /\ UNCHANGED ops
Goes == UNCHANGED << ops, events >>

\* The worker of App.tsx and uploadFile: where an upload starts.
First(i) ==
    IF i \in Resumers \cup attached THEN "list"
    ELSE IF ~caps.known THEN "caps"
    ELSE IF i \in Small THEN "send" ELSE "init"

\* pump: the slots that are free are given to the first pending tasks.
Pump(tasks, entries, order, inUse, held) ==
    LET free == IF held THEN 0 ELSE N - inUse
        k == IF free < Len(order) THEN free ELSE Len(order)
        begun == {order[n] : n \in 1..k}
    IN
    /\ task' = [i \in Ids |-> IF i \in begun THEN [tasks[i] EXCEPT !.state = "active", !.at = First(i)]
                              ELSE tasks[i]]
    /\ entry' = [i \in Ids |-> IF i \in begun /\ entries[i] # "gone" THEN "uploading" ELSE entries[i]]
    /\ pending' = SubSeq(order, k + 1, Len(order))
    /\ active' = inUse + k

\* add.
Enqueue(i, session, again) ==
    Pump([task EXCEPT ![i] = [NoTask EXCEPT !.state = "pending", !.of = session, !.retried = again]],
         [entry EXCEPT ![i] = "pending"], Append(pending, i), active, paused)

\* startUpload.
Start(i) ==
    /\ entry[i] = "none" /\ i \in Files /\ Op
    /\ Enqueue(i, i, FALSE)
    /\ UNCHANGED << paused, caps, attached, server, pageVars, late >>

\* Mutant: the slot of an upload that fails is not given back.
FreedOnSuccess(outcome) == IF outcome = "completed" THEN 1 ELSE 0
Freed(outcome) == 1

\* The end of a worker: the page shows the outcome, the slot is given on.
Settle(i, outcome) ==
    /\ Pump([task EXCEPT ![i].state = "settled", ![i].at = "none"],
            [entry EXCEPT ![i] = IF @ \in Shown THEN outcome ELSE @],
            pending, active - Freed(outcome), paused)
    /\ resuming' = IF i \in Resumers THEN resuming \ {Of(i)} ELSE resuming
    /\ recovered' = IF i \in Resumers /\ outcome = "completed" THEN recovered \ {Of(i)} ELSE recovered
    /\ due' = (due \/ (IF i \in Resumers THEN outcome # "completed" ELSE ~task[i].retried))
    /\ UNCHANGED << closing, resumed >>

Move(i, at) ==
    /\ task' = [task EXCEPT ![i].at = at]
    /\ UNCHANGED << entry, pending, active, pageVars >>
-----------------------------------------------------------------------------
(* getUploadCapabilities, one request for all that wait for it.             *)
CapsAnswer ==
    /\ ~caps.known
    /\ \/ Goes /\ caps' = [caps EXCEPT !.known = TRUE]
       \/ Event /\ caps' = [caps EXCEPT !.doomed = {i \in Ids : At(i) = "caps"}]
    /\ UNCHANGED << queueVars, paused, attached, server, pageVars, late >>

\* An XMLHttpRequest that is aborted before it is sent tells nobody.
Proceed(i) ==
    /\ i \in Awaited /\ Goes
    /\ caps' = [caps EXCEPT !.doomed = @ \ {i}]
    /\ IF i \in caps.doomed THEN Settle(i, "error")
       ELSE IF i \in Chunked THEN Move(i, "init")
       ELSE Move(i, IF task[i].aborted THEN "stuck" ELSE "send")
    /\ UNCHANGED << paused, attached, server, late >>

(* simpleUpload.                                                            *)
Send(i) ==
    /\ At(i) = "send" /\ ~task[i].aborted /\ Goes
    /\ server' = [server EXCEPT ![i] = "stored"]
    /\ Move(i, "stored")
    /\ UNCHANGED << paused, caps, attached, late >>

SendAnswer(i) ==
    /\ At(i) = "stored" /\ ~task[i].aborted /\ Goes
    /\ Settle(i, "completed")
    /\ UNCHANGED << paused, caps, attached, server, late >>

(* chunkedUpload: the session, the chunks, their completion.                *)
InitSession(i) ==
    /\ At(i) = "init" /\ ~task[i].aborted /\ Goes
    /\ server' = [server EXCEPT ![i] = "open"]
    /\ Move(i, "answer")
    /\ UNCHANGED << paused, caps, attached, late >>

InitAnswer(i) ==
    /\ At(i) = "answer" /\ ~task[i].aborted /\ Goes
    /\ attached' = attached \cup {i}
    /\ Move(i, "chunks")
    /\ UNCHANGED << paused, caps, server, late >>

Complete(i) ==
    /\ At(i) = "chunks" /\ ~task[i].aborted /\ Goes
    /\ \/ /\ server[Of(i)] = "open"
          /\ server' = [server EXCEPT ![Of(i)] = "completing"] /\ Move(i, "completing")
       \/ server[Of(i)] # "open" /\ Settle(i, "error") /\ UNCHANGED server
    /\ UNCHANGED << paused, caps, attached, late >>

ServerCompletes(f) ==
    /\ server[f] = "completing"
    /\ \/ Goes /\ server' = [server EXCEPT ![f] = "stored"]
       \/ Event /\ server' = [server EXCEPT ![f] = "failed"]
    /\ UNCHANGED << queueVars, paused, caps, attached, pageVars, late >>

CompleteAnswer(i) ==
    /\ At(i) = "completing" /\ server[Of(i)] \in {"stored", "failed", "gone"} /\ ~task[i].aborted /\ Goes
    /\ Settle(i, IF server[Of(i)] = "stored" THEN "completed" ELSE "error")
    /\ UNCHANGED << paused, caps, attached, server, late >>

\* A request fails, or its answer is lost.
RequestFails(i) ==
    /\ At(i) \in {"send", "stored", "init", "answer", "chunks", "completing", "list", "reopen"}
    /\ ~task[i].aborted /\ Event
    /\ Settle(i, "error")
    /\ late' = IF At(i) \in {"stored", "completing"} THEN late \cup {i} ELSE late
    /\ UNCHANGED << paused, caps, attached, server >>

(* resumeChunkedUpload: the session is looked up and, when it failed,       *)
(* reopened.                                                                *)
Lookup(i) ==
    /\ At(i) = "list" /\ Goes
    /\ CASE server[Of(i)] = "open" -> Move(i, "chunks")
         [] server[Of(i)] = "failed" -> Move(i, "reopen")
         [] OTHER -> Settle(i, "error")
    /\ UNCHANGED << paused, caps, attached, server, late >>

Reopen(i) ==
    /\ At(i) = "reopen" /\ ~task[i].aborted /\ Goes
    /\ \/ /\ server[Of(i)] = "failed"
          /\ server' = [server EXCEPT ![Of(i)] = "open"] /\ Move(i, "chunks")
       \/ server[Of(i)] # "failed" /\ Settle(i, "error") /\ UNCHANGED server
    /\ UNCHANGED << paused, caps, attached, late >>
-----------------------------------------------------------------------------
(* cancel: the signal of an active task, the end of a pending one.          *)
Cancel(i) ==
    /\ entry[i] \in Shown /\ task[i].state \in {"pending", "active"} /\ Op
    /\ IF task[i].state = "active"
       THEN /\ task' = [task EXCEPT ![i].aborted = TRUE]
            /\ UNCHANGED << entry, pending, active, pageVars >>
       ELSE /\ task' = [task EXCEPT ![i].state = "settled"]
            /\ entry' = [entry EXCEPT ![i] = "cancelled"]
            /\ pending' = SelectSeq(pending, LAMBDA j : j # i)
            /\ resuming' = IF i \in Resumers THEN resuming \ {Of(i)} ELSE resuming
            /\ due' = (due \/ i \in Resumers \/ ~task[i].retried)
            /\ UNCHANGED << active, recovered, closing, resumed >>
    /\ UNCHANGED << paused, caps, attached, server, late >>

\* An aborted request after which the session is deleted.
Deletes(at) == at \in {"chunks", "completing"}

Abort(i) ==
    /\ task[i].aborted /\ Goes
    /\ \/ Deletes(At(i)) /\ Move(i, "cancel") /\ UNCHANGED late
       \/ /\ At(i) \in {"send", "stored", "init", "answer", "reopen", "chunks", "completing"} /\ ~Deletes(At(i))
          /\ Settle(i, "cancelled")
          /\ late' = IF At(i) = "stored" THEN late \cup {i} ELSE late
    /\ UNCHANGED << paused, caps, attached, server >>

\* cancelChunkUpload: a session that has ended is taken for a cancelled one.
DeleteSession(i) ==
    LET s == server[Of(i)] IN
    /\ At(i) = "cancel"
    /\ \/ s \in {"open", "failed"} /\ Goes /\ server' = [server EXCEPT ![Of(i)] = "gone"]
          /\ Settle(i, "cancelled") /\ UNCHANGED late
       \/ s = "completing" /\ Goes /\ Settle(i, "error") /\ UNCHANGED << server, late >>
       \/ s \in {"stored", "gone"} /\ Goes /\ Settle(i, "cancelled")
          /\ late' = (IF s = "stored" THEN late \cup {i} ELSE late) /\ UNCHANGED server
       \/ Event /\ Settle(i, "error") /\ UNCHANGED << server, late >>
    /\ UNCHANGED << paused, caps, attached >>

\* handleRetryUpload; entries that resume a session have no such button.
Retry(i) ==
    /\ entry[i] \in {"error", "cancelled"} /\ i \in Files \ closing /\ Op
    /\ Enqueue(i, i, TRUE)
    /\ UNCHANGED << paused, caps, attached, server, pageVars, late >>

TogglePause ==
    /\ Op /\ paused' = ~paused
    /\ Pump(task, entry, pending, active, paused')
    /\ UNCHANGED << caps, attached, server, pageVars, late >>

Dropped == closing

CloseDrawer ==
    /\ closing = {} /\ Op
    /\ closing' = {i \in Ids : entry[i] \in Over} /\ closing' # {}
    /\ UNCHANGED << queueVars, paused, caps, attached, server, recovered, resuming, due, late, resumed >>

DropClosed ==
    /\ closing # {} /\ Goes
    /\ entry' = [i \in Ids |-> IF i \in Dropped THEN "gone" ELSE entry[i]] /\ closing' = {}
    /\ UNCHANGED << task, pending, active, paused, caps, attached, server, recovered, resuming, due, late, resumed >>
-----------------------------------------------------------------------------
(* The sessions the server still has.                                       *)
LoadSessions ==
    /\ due /\ Goes
    /\ recovered' = {f \in Chunked : server[f] \in {"open", "failed"}} /\ due' = FALSE
    /\ UNCHANGED << queueVars, paused, caps, attached, server, resuming, closing, late, resumed >>

\* handleResumeUpload.
Resume(j, f) ==
    /\ j \in Resumers /\ entry[j] = "none" /\ f \in recovered \ resuming /\ Op
    /\ Enqueue(j, f, FALSE)
    /\ resuming' = resuming \cup {f} /\ resumed' = resumed \cup {f}
    /\ UNCHANGED << paused, caps, attached, server, recovered, due, closing, late >>

\* confirmCancelRecoveredUpload.
CancelRecovered(f) ==
    /\ f \in recovered \ resuming /\ Op
    /\ \/ /\ server[f] \in {"open", "failed"} /\ server' = [server EXCEPT ![f] = "gone"]
          /\ recovered' = recovered \ {f} /\ UNCHANGED due
       \/ server[f] = "completing" /\ due' = TRUE /\ UNCHANGED << server, recovered >>
       \/ server[f] \in {"stored", "gone"} /\ recovered' = recovered \ {f} /\ UNCHANGED << server, due >>
    /\ UNCHANGED << queueVars, paused, caps, attached, resuming, closing, late, resumed >>

\* resetAuthenticatedState: the queue is emptied, what runs is aborted.
Logout ==
    /\ Op /\ \E i \in Ids : entry[i] \in Shown
    /\ task' = [i \in Ids |-> IF task[i].state = "active" THEN [task[i] EXCEPT !.aborted = TRUE] ELSE NoTask]
    /\ entry' = [i \in Ids |-> IF entry[i] = "none" THEN "none" ELSE "gone"]
    /\ pending' = << >> /\ paused' = FALSE
    /\ recovered' = {} /\ resuming' = {}
    /\ UNCHANGED << active, caps, attached, server, due, closing, late, resumed >>

Next ==
    \/ \E i \in Ids : \/ Start(i) \/ Proceed(i) \/ Send(i) \/ SendAnswer(i) \/ InitSession(i) \/ InitAnswer(i)
                      \/ Complete(i) \/ CompleteAnswer(i) \/ RequestFails(i) \/ Lookup(i) \/ Reopen(i)
                      \/ Cancel(i) \/ Abort(i) \/ DeleteSession(i) \/ Retry(i)
    \/ \E f \in Chunked : ServerCompletes(f) \/ CancelRecovered(f) \/ \E j \in Resumers : Resume(j, f)
    \/ CapsAnswer \/ TogglePause \/ CloseDrawer \/ DropClosed \/ LoadSessions \/ Logout

Spec == Init /\ [][Next]_vars

\* Requests are answered, and callbacks run.
Work(i) ==
    \/ Proceed(i) \/ Send(i) \/ SendAnswer(i) \/ InitSession(i) \/ InitAnswer(i) \/ Complete(i)
    \/ CompleteAnswer(i) \/ Lookup(i) \/ Reopen(i) \/ Abort(i) \/ DeleteSession(i)
-----------------------------------------------------------------------------
Stuck == {i \in Ids : At(i) = "stuck"}

TypeOK ==
    /\ \A i \in Ids : /\ entry[i] \in Shown \cup Over \cup {"none", "gone"}
                      /\ task[i].state \in {"none", "pending", "active", "settled"}
    /\ \A f \in Files : server[f] \in {"none", "open", "completing", "stored", "failed", "gone"}
    /\ active = Cardinality({i \in Ids : task[i].state = "active"}) /\ active <= N
    /\ caps.known \in BOOLEAN /\ paused \in BOOLEAN /\ due \in BOOLEAN
    /\ ops \in 0..MaxOps /\ events \in 0..MaxEvents

(* An upload that is shown as cancelled is not stored, and nothing is left   *)
(* on the server that can still store it: cancelling one in chunks deletes   *)
(* its session.  Left out are those whose answer was lost or came late,      *)
(* and those whose session somebody resumed.                                 *)
CancelledIsNotStored ==
    \A i \in Files : entry[i] = "cancelled" /\ i \notin late \cup resumed =>
        server[i] \notin {"completing", "stored"}

(* What waits or runs in the queue is shown, until a logout; its entry is    *)
(* not dropped by a drawer that was closed before.                           *)
RunningIsShown ==
    \A i \in Ids : task[i].state \in {"pending", "active"} =>
        entry[i] \in Shown \/ (entry[i] = "gone" /\ task[i].aborted)

(* A slot is given on: what waits is started, while nothing is paused.       *)
Started(i) == task[i].state # "pending" \/ paused \/ Stuck # {}

(* Every upload that runs ends, even one that is cancelled at once, so that  *)
(* its slot is free for others.                                              *)
UploadsEnd == \A i \in Ids : task[i].state = "active" ~> task[i].state # "active"
RunEnds(i) == task[i].state # "active" \/ i \in Stuck
=============================================================================
