---------------------- MODULE ChunkUploadSessionsProofs ----------------------
(***************************************************************************)
(* Proofs about ChunkUploadSessions, for every number of uploads, chunks   *)
(* and requests and every number of faults.                                *)
(***************************************************************************)
EXTENDS ChunkUploadSessions, FiniteSetTheorems, TLAPS

\* The part of the type invariant that Goto, Leave and Reject change.
RequestTypes ==
    /\ pc \in [Writers -> Labels]
    /\ result \in [Writers -> {"none", "ok", "refused"}]
    /\ tail \in [Keys -> Writers \cup {None}]
    /\ previous \in [Writers -> Writers \cup {None}]

(* A request is for a chunk of its upload.                                 *)
LEMMA KeyInKeys == \A w \in Writers : Key(w) \in Keys
  BY DEF Keys

(* A request that moves to another label keeps the types.                  *)
LEMMA GotoTypes ==
  ASSUME RequestTypes, NEW w \in Writers, NEW label \in Labels, Goto(w, label)
  PROVE  RequestTypes'
  BY DEF RequestTypes, Goto, chain

(* So does a request that leaves the chain, and one that is rejected.      *)
LEMMA LeaveTypes ==
  ASSUME RequestTypes, NEW w \in Writers, NEW response \in {"none", "ok", "refused"},
         Leave(w, response) \/ Reject(w, response)
  PROVE  RequestTypes'
<1>1. CASE Leave(w, response)
  <2> DEFINE k == Key(w)
  <2>1. k \in Keys
    BY KeyInKeys
  <2>2. tail' = [tail EXCEPT ![k] = IF @ = w THEN None ELSE @]
    BY <1>1 DEF Leave
  <2> HIDE DEF k
  <2>3. tail' \in [Keys -> Writers \cup {None}]
    BY <2>1, <2>2 DEF RequestTypes
  <2> QED
    BY <1>1, <2>3 DEF Leave, RequestTypes, Labels
<1>2. CASE Reject(w, response)
  BY <1>2 DEF Reject, RequestTypes, Labels, chain
<1> QED
  BY <1>1, <1>2

(* A transition of the session keeps the type of its row.                  *)
LEMMA SetStatusTypes ==
  ASSUME session \in [Uploads -> SessionType], NEW u \in Uploads,
         NEW from, NEW to \in Statuses, SetStatus(u, from, to)
  PROVE  session' \in [Uploads -> SessionType]
  BY DEF SetStatus, SessionType

(* The actions on a session keep the types of the sessions.                 *)
LEMMA SessionTypes ==
  ASSUME session \in [Uploads -> SessionType], NEW u \in Uploads,
         Reserve(u) \/ Expire(u) \/ DeleteExpired(u)
  PROVE  session' \in [Uploads -> SessionType]
<1>1. CASE Reserve(u)
  <2>1. session' = [session EXCEPT ![u].status = "open"]
    BY <1>1, Zenon DEF Reserve
  <2> QED
    BY <2>1 DEF SessionType, Statuses
<1>2. CASE Expire(u)
  BY <1>2 DEF Expire, SessionType
<1>3. CASE DeleteExpired(u)
  BY <1>3 DEF DeleteExpired, SessionType, Statuses
<1> QED
  BY <1>1, <1>2, <1>3

(* Recording a chunk keeps the counter of its session a number.            *)
LEMMA InsertTypes ==
  ASSUME session \in [Uploads -> SessionType], NEW w \in Writers, Insert(w)
  PROVE  session' \in [Uploads -> SessionType]
<1> DEFINE u == UploadOf[w]
           n == session[u].received + Bytes[Content[w]]
<1>1. u \in Uploads /\ Bytes[Content[w]] \in Nat
  BY SessionsAssumption
<1>2. n \in Nat
  BY <1>1 DEF SessionType
<1>3. session' = [session EXCEPT ![u].received = n]
  BY <1>1 DEF Insert, SessionType
<1> HIDE DEF u, n
<1> QED
  BY <1>1, <1>2, <1>3 DEF SessionType

(* The types hold in every reachable state (chunkUploadSessions.ts).       *)
THEOREM TypeCorrect == Spec => []TypeOK
<1> USE SessionsAssumption
<1>1. Init => TypeOK
  BY DEF Init, TypeOK, SessionType, Statuses, Labels
<1>2. TypeOK /\ [Next]_vars => TypeOK'
  <2> SUFFICES ASSUME TypeOK, [Next]_vars PROVE TypeOK'
    OBVIOUS
  <2> USE DEF TypeOK, SessionType, Statuses, Labels
  <2>0. RequestTypes
    BY DEF RequestTypes
  <2>1. ASSUME NEW u \in Uploads,
               \/ Reserve(u) \/ ClaimCompletion(u) \/ FailCompletion(u)
               \/ Complete(u) \/ Cancel(u) \/ ReopenFailed(u)
               \/ Expire(u) \/ DeleteExpired(u)
        PROVE  TypeOK'
    <3>1. session' \in [Uploads -> SessionType]
      <4>1. CASE \E from : \E to \in Statuses : SetStatus(u, from, to)
        BY <4>1, SetStatusTypes
      <4> QED
        BY <2>1, <4>1, SessionTypes DEF ClaimCompletion, FailCompletion, Complete,
              Cancel, ReopenFailed
    <3>3. recorded' \subseteq recorded /\ removing' \subseteq Uploads
      BY <2>1 DEF Reserve, Expire, ClaimCompletion, FailCompletion, ReopenFailed,
            Complete, Cancel, SetStatus, DeleteExpired
    <3>2. UNCHANGED << disk, chain, pc, result, unsure, faults >>
      BY <2>1 DEF Reserve, Expire, ClaimCompletion, FailCompletion, ReopenFailed,
            Complete, Cancel, SetStatus, DeleteExpired
    <3> QED
      BY <3>1, <3>3, <3>2 DEF disk, chain
  <2>2. ASSUME NEW u \in Uploads, RemoveDirectory(u)
        PROVE  TypeOK'
    BY <2>2 DEF RemoveDirectory, Faultless, Fault, disk, chain
  <2>3. ASSUME NEW w \in Writers, Record(w)
        PROVE  TypeOK'
    <3>1. UNCHANGED << disk, removing >>
      BY <2>3 DEF Record
    <3>2. RequestTypes'
      <4>1. CASE Leave(w, "ok")
        BY <2>0, <4>1, LeaveTypes
      <4>2. CASE Reject(w, IF Writable(UploadOf[w]) THEN Answer(w) ELSE "refused")
        BY <2>0, <4>2, LeaveTypes DEF Answer
      <4>3. CASE Reject(w, "refused")
        BY <2>0, <4>3, LeaveTypes
      <4> QED
        BY <2>3, <4>1, <4>2, <4>3 DEF Record
    <3>3. Insert(w) => session' \in [Uploads -> SessionType] /\ recorded' \subseteq Writers
      BY InsertTypes DEF Insert
    <3>4. unsure' \subseteq Writers /\ faults' \in 0..MaxFaults
      BY <2>3 DEF Record, Faultless, Fault
    <3>5. session' \in [Uploads -> SessionType] /\ recorded' \subseteq Writers
      BY <2>3, <3>3 DEF Record
    <3> QED
      BY <3>1, <3>2, <3>4, <3>5 DEF RequestTypes, disk
  <2>4. ASSUME NEW w \in Writers, Enqueue(w)
        PROVE  TypeOK'
    <3>1. tail' \in [Keys -> Writers \cup {None}] /\ tail[Key(w)] \in Writers \cup {None}
      BY <2>4, KeyInKeys DEF Enqueue
    <3> QED
      BY <2>4, <3>1 DEF Enqueue, disk
  <2>5. ASSUME NEW w \in Writers,
               Enter(w) \/ CheckSession(w) \/ CheckChunk(w) \/ Busy(w) \/ Fail(w)
        PROVE  TypeOK'
    <3>1. RequestTypes'
      <4>1. CASE \E label \in Labels : Goto(w, label)
        BY <2>0, <4>1, GotoTypes
      <4>2. CASE \E response \in {"none", "ok", "refused"} : Leave(w, response)
        BY <2>0, <4>2, LeaveTypes
      <4> QED
        BY <2>5, <4>1, <4>2 DEF Enter, CheckSession, CheckChunk, Busy, Fail, Answer
    <3>2. faults' \in 0..MaxFaults
      BY <2>5 DEF Enter, CheckSession, CheckChunk, Busy, Fail, Fault
    <3>3. UNCHANGED << session, recorded, disk, removing, unsure >>
      BY <2>5 DEF Enter, CheckSession, CheckChunk, Busy, Fail
    <3> QED
      BY <3>1, <3>2, <3>3 DEF RequestTypes, disk
  <2>6. ASSUME NEW w \in Writers,
               OpenLock(w) \/ StreamDone(w) \/ StreamFails(w) \/ AfterWrite(w) \/ Drop(w)
        PROVE  TypeOK'
    <3>1. RequestTypes'
      <4>1. CASE \E label \in Labels : Goto(w, label)
        BY <2>0, <4>1, GotoTypes
      <4>2. CASE \E response \in {"none", "ok", "refused"} : Leave(w, response)
        BY <2>0, <4>2, LeaveTypes
      <4> QED
        BY <2>6, <4>1, <4>2 DEF OpenLock, StreamDone, StreamFails, AfterWrite, Drop
    <3>2. faults' \in 0..MaxFaults
      BY <2>6 DEF OpenLock, StreamDone, StreamFails, AfterWrite, Drop, Unlock,
            RemoveCandidate, Fault, Faultless
    <3>3. files' \subseteq Writers /\ parts' \subseteq Writers /\ locks' \subseteq Keys
      BY <2>6, KeyInKeys DEF OpenLock, StreamDone, StreamFails, AfterWrite, Drop, Unlock,
            RemoveCandidate
    <3>4. UNCHANGED << session, recorded, removing, unsure >>
      BY <2>6 DEF OpenLock, StreamDone, StreamFails, AfterWrite, Drop
    <3> QED
      BY <3>1, <3>2, <3>3, <3>4 DEF RequestTypes
  <2>7. CASE Crash
    BY <2>7 DEF Crash, Fault, Live, disk
  <2>8. CASE UNCHANGED vars
    BY <2>8 DEF vars, disk, chain
  <2> QED
    BY <2>1, <2>2, <2>3, <2>4, <2>5, <2>6, <2>7, <2>8 DEF Next, WriterStep
<1> QED
  BY <1>1, <1>2, PTL DEF Spec

-----------------------------------------------------------------------------
(* Recorded chunks keep their files. A candidate file is only removed by   *)
(* its own request, which then does not record it, or with the directory   *)
(* of an upload that never becomes unfinished again.                       *)
Ended == {"completed", "cancelled", "gone"}
RemovedIsEnded == \A u \in removing : session[u].status \in Ended
ReservedBeforeUse ==
    \A w \in Writers : session[UploadOf[w]].status = "none" =>
        pc[w] = "idle" /\ w \notin recorded
RecordedIsAnswered == \A w \in recorded : pc[w] \in {"drop", "over"}
DroppedIsUnsure == \A w \in recorded : pc[w] = "drop" => w \in unsure
WrittenHasFile ==
    \A w \in Writers :
        pc[w] \in {"unlock", "record"} /\ session[UploadOf[w]].status \in Unfinished
        => w \in files
FileInv ==
    /\ TypeOK
    /\ RemovedIsEnded /\ ReservedBeforeUse /\ RecordedIsAnswered
    /\ DroppedIsUnsure /\ WrittenHasFile /\ RecordedChunkHasFile

SessionStep(u) ==
    \/ Reserve(u) \/ ClaimCompletion(u) \/ FailCompletion(u)
    \/ Complete(u) \/ Cancel(u) \/ ReopenFailed(u)
    \/ Expire(u) \/ DeleteExpired(u)

(* A session is reserved once, and ends at most once.                      *)
LEMMA StatusStep ==
  ASSUME TypeOK, NEW u \in Uploads, SessionStep(u), NEW v \in Uploads
  PROVE  /\ session'[v].status \in Unfinished => session[v].status \in Unfinished \cup {"none"}
         /\ session'[v].status = "none" => session[v].status = "none"
         /\ session[v].status \in Ended => session'[v].status \in Ended
         /\ v \in removing' => v \in removing \/ session'[v].status \in Ended
<1> USE DEF Unfinished, Ended
<1>0. session \in [Uploads -> SessionType]
  BY DEF TypeOK
<1>1. ASSUME NEW from, NEW to, SetStatus(u, from, to)
      PROVE  /\ session[u].status \in from
             /\ session'[v].status = IF v = u THEN to ELSE session[v].status
  BY <1>0, <1>1 DEF SetStatus, SessionType
<1>2. CASE Reserve(u)
  <2>1. /\ session[u].status = "none" /\ removing' = removing
        /\ session' = [session EXCEPT ![u].status = "open"]
    BY <1>2, Zenon DEF Reserve
  <2> QED
    BY <1>0, <2>1 DEF SessionType
<1>3. CASE Expire(u)
  BY <1>0, <1>3 DEF Expire, SessionType
<1>4. CASE DeleteExpired(u)
  BY <1>0, <1>4 DEF DeleteExpired, SessionType
<1>5. CASE ClaimCompletion(u)
  BY <1>1, <1>5 DEF ClaimCompletion
<1>6. CASE FailCompletion(u)
  BY <1>1, <1>6 DEF FailCompletion
<1>7. CASE Complete(u)
  BY <1>1, <1>7 DEF Complete
<1>8. CASE Cancel(u)
  BY <1>1, <1>8 DEF Cancel
<1>9. CASE ReopenFailed(u)
  BY <1>1, <1>9 DEF ReopenFailed
<1> QED
  BY <1>2, <1>3, <1>4, <1>5, <1>6, <1>7, <1>8, <1>9 DEF SessionStep

(* A request changes the counter of its session at most.                   *)
LEMMA InsertKeepsStatus ==
  ASSUME TypeOK, NEW w \in Writers, Insert(w), NEW v \in Uploads
  PROVE  session'[v].status = session[v].status
<1>1. session \in [Uploads -> SessionType]
  BY DEF TypeOK
<1> QED
  BY <1>1 DEF Insert, SessionType

(* The invariant of the files.                                              *)
LEMMA FilesInvariant == Spec => []FileInv
<1> USE SessionsAssumption
<1>1. Init => FileInv
  <2>1. Init => TypeOK
    BY DEF Init, TypeOK, SessionType, Statuses, Labels
  <2> QED
    BY <2>1 DEF Init, FileInv, RemovedIsEnded, ReservedBeforeUse, RecordedIsAnswered,
          DroppedIsUnsure, WrittenHasFile, RecordedChunkHasFile
<1>2. FileInv /\ TypeOK' /\ [Next]_vars => FileInv'
  <2> SUFFICES ASSUME FileInv, TypeOK', [Next]_vars PROVE FileInv'
    OBVIOUS
  <2> USE DEF FileInv, RemovedIsEnded, ReservedBeforeUse, RecordedIsAnswered,
          DroppedIsUnsure, WrittenHasFile, RecordedChunkHasFile
  <2>0. /\ \A w \in Writers : UploadOf[w] \in Uploads
        /\ pc \in [Writers -> Labels] /\ recorded \subseteq Writers /\ removing \subseteq Uploads
    BY DEF TypeOK
  <2>1. ASSUME NEW u \in Uploads, SessionStep(u)
        PROVE  FileInv'
    <3>1. /\ UNCHANGED << pc, files, unsure >> /\ recorded' \subseteq recorded
          /\ removing' \subseteq Uploads
      BY <2>0, <2>1 DEF SessionStep, Reserve, Expire, ClaimCompletion, FailCompletion,
            ReopenFailed, Complete, Cancel, SetStatus, DeleteExpired, disk
    <3>2. \A v \in Uploads :
            /\ session'[v].status \in Unfinished => session[v].status \in Unfinished \cup {"none"}
            /\ session'[v].status = "none" => session[v].status = "none"
            /\ session[v].status \in Ended => session'[v].status \in Ended
            /\ v \in removing' => v \in removing \/ session'[v].status \in Ended
      BY <2>1, StatusStep
    <3> QED
      BY <2>0, <3>1, <3>2
  <2>2. ASSUME NEW u \in Uploads, RemoveDirectory(u)
        PROVE  FileInv'
    BY <2>0, <2>2 DEF RemoveDirectory, Ended, Unfinished, disk
  <2>3. ASSUME NEW w \in Writers, Record(w)
        PROVE  FileInv'
    <3>1. \A v \in Uploads : session'[v].status = session[v].status
      BY <2>3, InsertKeepsStatus DEF Record
    <3>2. pc[w] = "record" /\ UNCHANGED << files, removing >>
      BY <2>3 DEF Record, disk
    <3>3. CASE UNCHANGED << recorded, unsure >> /\ pc' = [pc EXCEPT ![w] = "drop"]
      BY <2>0, <3>1, <3>2, <3>3
    <3>4. CASE /\ Insert(w)
               /\ \/ pc' = [pc EXCEPT ![w] = "over"] /\ UNCHANGED unsure
                  \/ pc' = [pc EXCEPT ![w] = "drop"] /\ unsure' = unsure \cup {w}
      <4>1. recorded' = recorded \cup {w} /\ session[UploadOf[w]].status # "none"
        BY <3>4 DEF Insert, Writable
      <4> QED
        BY <2>0, <3>1, <3>2, <3>4, <4>1
    <3> QED
      BY <2>3, <3>3, <3>4 DEF Record, Leave, Reject
  <2>4. ASSUME NEW w \in Writers,
               \/ Enqueue(w) \/ Enter(w) \/ CheckSession(w) \/ CheckChunk(w) \/ OpenLock(w)
               \/ Busy(w) \/ StreamDone(w) \/ StreamFails(w) \/ AfterWrite(w) \/ Drop(w)
               \/ Fail(w)
        PROVE  FileInv'
    <3>1. UNCHANGED << session, recorded, removing, unsure >>
      BY <2>4 DEF Enqueue, Enter, CheckSession, CheckChunk, OpenLock, Busy, StreamDone,
            StreamFails, AfterWrite, Drop, Fail
    <3>2. CASE Enqueue(w)
      BY <2>0, <3>1, <3>2 DEF Enqueue, disk
    <3>3. CASE /\ pc[w] \in {"wait", "check", "check_chunk", "open", "stream", "unlock_failed"}
               /\ files' = files
               /\ \/ \E label \in Labels \ {"unlock", "record", "drop"} : Goto(w, label)
                  \/ \E response : Leave(w, response)
      BY <2>0, <3>1, <3>3 DEF Goto, Leave
    <3>4. CASE StreamDone(w)
      BY <2>0, <3>1, <3>4 DEF StreamDone, Goto
    <3>5. CASE AfterWrite(w) /\ pc[w] = "unlock"
      BY <2>0, <3>1, <3>5 DEF AfterWrite, Goto
    <3>6. CASE Drop(w)
      BY <2>0, <3>1, <3>6 DEF Drop, RemoveCandidate, Leave
    <3> QED
      BY <2>4, <3>2, <3>3, <3>4, <3>5, <3>6 DEF Enter, CheckSession, CheckChunk, OpenLock,
            Busy, StreamFails, AfterWrite, Fail, Labels, disk
  <2>5. CASE Crash
    BY <2>0, <2>5 DEF Crash, Live, disk
  <2>6. CASE UNCHANGED vars
    BY <2>6 DEF vars, disk
  <2> QED
    BY <2>1, <2>2, <2>3, <2>4, <2>5, <2>6 DEF Next, WriterStep, SessionStep
<1> QED
  BY <1>1, <1>2, TypeCorrect, PTL DEF Spec

(* A chunk that an unfinished upload counts as received is on disk, unless *)
(* the acknowledgement of its COMMIT was lost (recordChunk).               *)
THEOREM ReceivedChunksAreKept == Spec => []RecordedChunkHasFile
<1>1. FileInv => RecordedChunkHasFile
  BY DEF FileInv
<1> QED
  BY <1>1, FilesInvariant, PTL

-----------------------------------------------------------------------------
(* One writer per chunk. The links of the chain order the live requests of *)
(* a key: there is a rank under which the tail comes last, a request comes *)
(* right after the one it waits for, and one that waits for nobody is      *)
(* first. Only the first request is past its wait.                         *)
Distinct(rank) ==
    \A v, w \in Writers : Live(v) /\ Live(w) /\ Key(v) = Key(w) /\ rank[v] = rank[w] => v = w
TailIsLast(rank) ==
    \A w \in Writers : Live(w) =>
        /\ tail[Key(w)] \in Writers /\ Live(tail[Key(w)])
        /\ rank[w] <= rank[tail[Key(w)]]
TailIsLive ==
    \A k \in Keys : tail[k] # None => Live(tail[k]) /\ Key(tail[k]) = k
Waits(w) == previous[w] # None /\ Live(previous[w])
FollowsPrevious(rank) ==
    \A w \in Writers : Live(w) /\ Waits(w) =>
        /\ Key(previous[w]) = Key(w)
        /\ \A v \in Writers : Live(v) /\ Key(v) = Key(w) /\ rank[v] < rank[w]
                              => rank[v] <= rank[previous[w]]
FirstWaitsNot(rank) ==
    \A v, w \in Writers :
        Live(v) /\ Live(w) /\ Key(v) = Key(w) /\ ~Waits(w) => rank[w] <= rank[v]
PreviousStarted ==
    \A w \in Writers : Live(w) /\ previous[w] # None => pc[previous[w]] # "idle"
WritingIsFirst == \A w \in Writers : Writing(w) => ~Waits(w)
Ordered(rank) ==
    /\ Distinct(rank) /\ TailIsLast(rank) /\ FollowsPrevious(rank) /\ FirstWaitsNot(rank)
ChainInv ==
    /\ TailIsLive /\ PreviousStarted /\ WritingIsFirst
    /\ \E rank \in [Writers -> Nat] : Ordered(rank)

\* What the steps of the chain use of the types.
ChainTypes ==
    /\ pc \in [Writers -> Labels]
    /\ tail \in [Keys -> Writers \cup {None}]
    /\ previous \in [Writers -> Writers \cup {None}]

(* A step that neither starts nor ends a request keeps the order.          *)
LEMMA KeepChain ==
  ASSUME ChainTypes, ChainInv, UNCHANGED chain,
         \A w \in Writers : pc'[w] = "idle" <=> pc[w] = "idle",
         \A w \in Writers : pc'[w] = "over" <=> pc[w] = "over",
         \A w \in Writers : Writing(w)' => Writing(w) \/ ~Waits(w)
  PROVE  ChainInv'
<1>1. \A w \in Writers : Live(w)' <=> Live(w)
  BY DEF Live
<1>2. \A w \in Writers : Waits(w)' <=> Waits(w)
  BY <1>1 DEF Waits, chain, ChainTypes
<1>3. TailIsLive' /\ PreviousStarted' /\ WritingIsFirst'
  BY <1>1, <1>2 DEF ChainInv, ChainTypes, TailIsLive, PreviousStarted, WritingIsFirst, chain
<1>4. PICK rank \in [Writers -> Nat] : Ordered(rank)
  BY DEF ChainInv
<1>5. Distinct(rank)' /\ FirstWaitsNot(rank)'
  BY <1>1, <1>2, <1>4 DEF Ordered, Distinct, FirstWaitsNot
<1>6. TailIsLast(rank)' /\ FollowsPrevious(rank)'
  BY <1>1, <1>2, <1>4 DEF Ordered, TailIsLast, FollowsPrevious, chain, ChainTypes, Waits
<1>7. Ordered(rank)'
  BY <1>5, <1>6 DEF Ordered
<1> QED
  BY <1>3, <1>7 DEF ChainInv

(* A new request becomes the last one.                                     *)
LEMMA EnqueueChain ==
  ASSUME ChainTypes, ChainInv, NEW w \in Writers, Enqueue(w)
  PROVE  ChainInv'
<1> DEFINE k == Key(w)
<1>0. k \in Keys /\ None \notin Writers
  BY SessionsAssumption DEF Keys
<1>1. /\ pc[w] = "idle" /\ pc' = [pc EXCEPT ![w] = "wait"]
      /\ tail' = [tail EXCEPT ![k] = w]
      /\ previous' = [previous EXCEPT ![w] = tail[k]]
  BY DEF Enqueue
<1>2. /\ ~Live(w) /\ Live(w)'
      /\ \A v \in Writers \ {w} : Live(v)' <=> Live(v)
  BY <1>1 DEF Live, ChainTypes
<1>3. \A v \in Writers \ {w} : previous'[v] = previous[v]
  BY <1>1 DEF ChainTypes
<1>4. \A v \in Writers \ {w} : Live(v) => (Waits(v)' <=> Waits(v))
  BY <1>1, <1>2, <1>3 DEF Waits, ChainInv, PreviousStarted, ChainTypes
<1>5. /\ tail'[k] = w /\ previous'[w] = tail[k]
      /\ \A j \in Keys \ {k} : tail'[j] = tail[j]
  BY <1>0, <1>1 DEF ChainTypes
<1>6. TailIsLive'
  BY <1>2, <1>5 DEF ChainInv, TailIsLive, ChainTypes, Key
<1>7. PreviousStarted'
  BY <1>0, <1>1, <1>2, <1>3, <1>5 DEF ChainInv, TailIsLive, PreviousStarted, ChainTypes, Live
<1>8. WritingIsFirst'
  BY <1>1, <1>2, <1>3, <1>4 DEF ChainInv, WritingIsFirst, Writing, Live, ChainTypes
<1>9. PICK rank \in [Writers -> Nat] : Ordered(rank)
  BY DEF ChainInv
<1>10. PICK top \in Nat : top = IF tail[k] = None THEN 0 ELSE rank[tail[k]] + 1
  BY <1>0, <1>9 DEF ChainTypes
<1>11. PICK new \in [Writers -> Nat] :
          new[w] = top /\ \A v \in Writers \ {w} : new[v] = rank[v]
  <2>1. [rank EXCEPT ![w] = top] \in [Writers -> Nat]
    OBVIOUS
  <2> QED
    BY <2>1
<1>12. \A v \in Writers : Live(v) /\ Key(v) = k => rank[v] < top
  BY <1>0, <1>9, <1>10 DEF Ordered, TailIsLast, ChainTypes
<1>13. Distinct(new)'
  BY <1>2, <1>9, <1>11, <1>12 DEF Ordered, Distinct
<1>14. TailIsLast(new)'
  <2> SUFFICES ASSUME NEW v \in Writers, Live(v)'
               PROVE  (/\ tail[Key(v)] \in Writers /\ Live(tail[Key(v)])
                       /\ new[v] <= new[tail[Key(v)]])'
    BY DEF TailIsLast
  <2>1. Key(v) \in Keys
    BY DEF Keys
  <2>2. CASE Key(v) = k
    BY <1>2, <1>5, <1>10, <1>11, <1>12, <2>2
  <2>3. CASE Key(v) # k
    <3>1. v # w /\ Live(v) /\ tail'[Key(v)] = tail[Key(v)]
      BY <1>2, <1>5, <2>1, <2>3
    <3>2. tail[Key(v)] # w
      BY <1>2, <1>9, <3>1 DEF Ordered, TailIsLast
    <3> QED
      BY <1>2, <1>9, <1>11, <3>1, <3>2 DEF Ordered, TailIsLast
  <2> QED
    BY <2>2, <2>3
<1>15. Waits(w)' <=> tail[k] # None
  BY <1>0, <1>2, <1>5 DEF Waits, ChainInv, TailIsLive, ChainTypes
<1>16. FirstWaitsNot(new)'
  <2> SUFFICES ASSUME NEW u \in Writers, NEW v \in Writers,
                      Live(u)', Live(v)', Key(u) = Key(v), ~Waits(v)'
               PROVE  new[v] <= new[u]
    BY DEF FirstWaitsNot
  <2>1. CASE v = w
    <3>1. u = w
      BY <1>0, <1>2, <1>9, <1>15, <2>1 DEF Ordered, TailIsLast, ChainTypes
    <3> QED
      BY <2>1, <3>1
  <2>2. CASE v # w /\ u = w
    BY <1>2, <1>10, <1>11, <1>12, <2>2
  <2>3. CASE v # w /\ u # w
    BY <1>2, <1>4, <1>9, <1>11, <2>3 DEF Ordered, FirstWaitsNot
  <2> QED
    BY <2>1, <2>2, <2>3
<1>17. FollowsPrevious(new)'
  <2> SUFFICES ASSUME NEW v \in Writers, Live(v)', Waits(v)'
               PROVE  /\ Key(previous'[v]) = Key(v)
                      /\ \A u \in Writers : Live(u)' /\ Key(u) = Key(v) /\ new[u] < new[v]
                              => new[u] <= new[previous'[v]]
    BY DEF FollowsPrevious
  <2>1. CASE v = w
    BY <1>0, <1>2, <1>5, <1>9, <1>11, <1>15, <2>1
    DEF Ordered, TailIsLast, ChainInv, TailIsLive, ChainTypes
  <2>2. CASE v # w
    <3>1. Live(v) /\ Waits(v) /\ previous'[v] = previous[v]
      BY <1>2, <1>3, <1>4, <2>2
    <3>2. previous[v] \in Writers /\ previous[v] # w
      BY <1>2, <3>1 DEF Waits, ChainTypes
    <3>3. ~(new[w] < new[v] /\ Key(w) = Key(v))
      BY <1>10, <1>11, <1>12, <2>2, <3>1
    <3> QED
      BY <1>2, <1>9, <1>11, <2>2, <3>1, <3>2, <3>3 DEF Ordered, FollowsPrevious
  <2> QED
    BY <2>1, <2>2
<1>18. Ordered(new)'
  BY <1>13, <1>14, <1>16, <1>17 DEF Ordered
<1> QED
  BY <1>6, <1>7, <1>8, <1>18 DEF ChainInv

(* The first request leaves; the one that waits for it becomes the first.  *)
LEMMA LeaveChain ==
  ASSUME ChainTypes, ChainInv, NEW w \in Writers, Writing(w),
         NEW response, Leave(w, response)
  PROVE  ChainInv'
<1>0. Key(w) \in Keys /\ None \notin Writers
  BY SessionsAssumption DEF Keys
<1>1. /\ pc' = [pc EXCEPT ![w] = "over"] /\ previous' = previous
      /\ tail' = [tail EXCEPT ![Key(w)] = IF @ = w THEN None ELSE @]
  BY DEF Leave
<1>2. /\ Live(w) /\ ~Live(w)' /\ ~Waits(w)
      /\ \A v \in Writers \ {w} : Live(v)' <=> Live(v)
  BY <1>1 DEF Live, Writing, ChainTypes, ChainInv, WritingIsFirst
<1>3. \A v \in Writers : Waits(v)' <=> Waits(v) /\ previous[v] # w
  BY <1>1, <1>2 DEF Waits, ChainTypes
<1>4. /\ tail'[Key(w)] = IF tail[Key(w)] = w THEN None ELSE tail[Key(w)]
      /\ \A k \in Keys \ {Key(w)} : tail'[k] = tail[k]
  BY <1>0, <1>1 DEF ChainTypes
<1>5. TailIsLive'
  BY <1>0, <1>2, <1>4 DEF ChainInv, TailIsLive, ChainTypes
<1>6. PreviousStarted'
  BY <1>1, <1>2 DEF ChainInv, PreviousStarted, ChainTypes, Live
<1>7. WritingIsFirst'
  BY <1>1, <1>3 DEF ChainInv, WritingIsFirst, Writing, ChainTypes
<1>8. PICK rank \in [Writers -> Nat] : Ordered(rank)
  BY DEF ChainInv
<1>9. \A v \in Writers \ {w} : Live(v) /\ Key(v) = Key(w) => rank[w] < rank[v]
  BY <1>2, <1>8 DEF Ordered, Distinct, FirstWaitsNot
<1>10. Distinct(rank)'
  BY <1>2, <1>8 DEF Ordered, Distinct
<1>11. TailIsLast(rank)'
  <2> SUFFICES ASSUME NEW v \in Writers, Live(v)'
               PROVE  (/\ tail[Key(v)] \in Writers /\ Live(tail[Key(v)])
                       /\ rank[v] <= rank[tail[Key(v)]])'
    BY DEF TailIsLast
  <2>1. /\ v # w /\ Live(v) /\ Key(v) \in Keys /\ tail[Key(v)] \in Writers
        /\ Live(tail[Key(v)]) /\ rank[v] <= rank[tail[Key(v)]]
    BY <1>2, <1>8 DEF Ordered, TailIsLast, Keys
  <2>2. tail[Key(v)] # w
    BY <1>0, <1>8, <1>9, <2>1 DEF ChainInv, TailIsLive
  <2> QED
    BY <1>2, <1>4, <2>1, <2>2
<1>12. FollowsPrevious(rank)'
  BY <1>1, <1>2, <1>3, <1>8 DEF Ordered, FollowsPrevious, Waits, ChainTypes
<1>13. FirstWaitsNot(rank)'
  <2> SUFFICES ASSUME NEW u \in Writers, NEW v \in Writers,
                      Live(u)', Live(v)', Key(u) = Key(v), ~Waits(v)'
               PROVE  rank[v] <= rank[u]
    BY DEF FirstWaitsNot
  <2>1. Live(u) /\ Live(v) /\ u # w /\ v # w
    BY <1>2
  <2>2. CASE ~Waits(v)
    BY <1>8, <2>1, <2>2 DEF Ordered, FirstWaitsNot
  <2>3. CASE Waits(v) /\ previous[v] = w
    BY <1>8, <1>9, <2>1, <2>3 DEF Ordered, FollowsPrevious
  <2> QED
    BY <1>3, <2>2, <2>3
<1>14. Ordered(rank)'
  BY <1>10, <1>11, <1>12, <1>13 DEF Ordered
<1> QED
  BY <1>5, <1>6, <1>7, <1>8, <1>14 DEF ChainInv

\* The steps of a request between its wait and its response.
Advance(w) ==
    \E label \in Labels \ {"idle", "wait", "over"} :
        pc' = [pc EXCEPT ![w] = label] /\ UNCHANGED chain

(* A request that only moves on keeps the order of its chain.              *)
LEMMA AdvanceChain ==
  ASSUME ChainTypes, ChainInv, NEW w \in Writers, Advance(w),
         Writing(w) \/ (pc[w] = "wait" /\ ~Waits(w))
  PROVE  ChainInv'
<1>1. /\ UNCHANGED chain
      /\ \A v \in Writers : pc'[v] = "idle" <=> pc[v] = "idle"
      /\ \A v \in Writers : pc'[v] = "over" <=> pc[v] = "over"
      /\ \A v \in Writers : Writing(v)' => Writing(v) \/ ~Waits(v)
  BY DEF Advance, Writing, ChainTypes
<1> QED
  BY <1>1, KeepChain

(* The chain of promises lets one writer per chunk through: two requests   *)
(* for the same chunk are never both past their wait (chunkWriteLocks).    *)
THEOREM WritersExclude == Spec => []OneWriterPerChunk
<1>1. Init => ChainInv
  <2> SUFFICES ASSUME Init PROVE ChainInv
    OBVIOUS
  <2>1. \A w \in Writers : ~Live(w) /\ ~Writing(w)
    BY DEF Init, Live, Writing
  <2>2. [w \in Writers |-> 0] \in [Writers -> Nat] /\ Ordered([w \in Writers |-> 0])
    BY <2>1 DEF Ordered, Distinct, TailIsLast, FollowsPrevious, FirstWaitsNot
  <2>3. TailIsLive /\ PreviousStarted /\ WritingIsFirst
    BY <2>1 DEF Init, TailIsLive, PreviousStarted, WritingIsFirst
  <2> QED
    BY <2>2, <2>3 DEF ChainInv
<1>2. TypeOK /\ ChainInv /\ [Next]_vars => ChainInv'
  <2> SUFFICES ASSUME TypeOK, ChainInv, [Next]_vars PROVE ChainInv'
    OBVIOUS
  <2>0. ChainTypes
    BY DEF TypeOK, ChainTypes
  <2>1. CASE UNCHANGED << pc, chain >>
    BY <2>0, <2>1, KeepChain DEF Writing
  <2>2. ASSUME NEW w \in Writers, Enqueue(w)
        PROVE  ChainInv'
    BY <2>0, <2>2, EnqueueChain
  <2>3. ASSUME NEW w \in Writers, Enter(w)
        PROVE  ChainInv'
    <3>1. Advance(w)
      BY <2>3 DEF Enter, Goto, Advance, Labels
    <3>2. pc[w] = "wait" /\ ~Waits(w)
      BY <2>3 DEF Enter, Waits, Live
    <3> QED
      BY <2>0, <3>1, <3>2, AdvanceChain
  <2>4. ASSUME NEW w \in Writers,
               \/ CheckSession(w) \/ CheckChunk(w) \/ OpenLock(w) \/ Busy(w)
               \/ StreamDone(w) \/ StreamFails(w) \/ AfterWrite(w) \/ Record(w)
               \/ Drop(w) \/ Fail(w)
        PROVE  ChainInv'
    <3>1. Writing(w)
      BY <2>4 DEF Writing, CheckSession, CheckChunk, OpenLock, Busy, StreamDone,
            StreamFails, AfterWrite, Record, Drop, Fail
    <3>2. Advance(w) \/ \E response : Leave(w, response)
      BY <2>4 DEF Advance, Labels, Goto, Reject, CheckSession, CheckChunk, OpenLock,
            Busy, StreamDone, StreamFails, AfterWrite, Record, Drop, Fail
    <3> QED
      BY <2>0, <3>1, <3>2, AdvanceChain, LeaveChain
  <2>5. CASE Crash
    <3>1. \A w \in Writers : ~Live(w)' /\ ~Writing(w)'
      BY <2>5 DEF Crash, Live, Writing
    <3>2. [w \in Writers |-> 0] \in [Writers -> Nat] /\ Ordered([w \in Writers |-> 0])'
      BY <3>1 DEF Ordered, Distinct, TailIsLast, FollowsPrevious, FirstWaitsNot
    <3>3. TailIsLive' /\ PreviousStarted' /\ WritingIsFirst'
      BY <2>5, <3>1 DEF Crash, TailIsLive, PreviousStarted, WritingIsFirst
    <3> QED
      BY <3>2, <3>3 DEF ChainInv
  <2>6. ASSUME NEW u \in Uploads, SessionStep(u) \/ RemoveDirectory(u)
        PROVE  UNCHANGED << pc, chain >>
    BY <2>6 DEF SessionStep, Reserve, Expire, ClaimCompletion, FailCompletion,
          ReopenFailed, Complete, Cancel, SetStatus, DeleteExpired, RemoveDirectory
  <2> QED
    BY <2>1, <2>2, <2>3, <2>4, <2>5, <2>6 DEF Next, WriterStep, SessionStep, vars, chain
<1>3. TypeOK /\ ChainInv => OneWriterPerChunk
  <2> SUFFICES ASSUME ChainInv, NEW v \in Writers, NEW w \in Writers,
                      Key(v) = Key(w), Writing(v), Writing(w)
               PROVE  v = w
    BY DEF OneWriterPerChunk
  <2>1. PICK rank \in [Writers -> Nat] : Ordered(rank)
    BY DEF ChainInv
  <2>2. Live(v) /\ Live(w) /\ ~Waits(v) /\ ~Waits(w)
    BY DEF Writing, Live, ChainInv, WritingIsFirst
  <2>3. rank[v] <= rank[w] /\ rank[w] <= rank[v]
    BY <2>1, <2>2 DEF Ordered, FirstWaitsNot
  <2> QED
    BY <2>1, <2>2, <2>3 DEF Ordered, Distinct
<1> QED
  BY <1>1, <1>2, <1>3, TypeCorrect, PTL DEF Spec
-----------------------------------------------------------------------------
(* The rows of an upload. A row of chunk_upload_chunks is added once per    *)
(* key, by a transaction that adds its bytes to an open session that they   *)
(* fit in; a claimed session changes neither.                               *)
ChunksOf(u) == {v \in recorded : UploadOf[v] = u}
OneChunkPerKey == \A v, w \in recorded : Key(v) = Key(w) => v = w
Claimed == {"completing", "completed", "failed"}
RowInv ==
    /\ IsFiniteSet(recorded)
    /\ OneChunkPerKey /\ ReceivedMatchesChunks /\ ReceivedWithinSize /\ ClaimedIsComplete

(* The bytes of one chunk are as many as its content has.                   *)
LEMMA BytesOfOne ==
  ASSUME NEW w \in Writers
  PROVE  LET B == {w} \X (1..Bytes[Content[w]])
         IN  IsFiniteSet(B) /\ Cardinality(B) = Bytes[Content[w]]
<1> DEFINE n == Bytes[Content[w]]
<1>1. n \in Nat /\ n > 0
  BY SessionsAssumption
<1> HIDE DEF n
<1>2. IsFiniteSet(1..n) /\ Cardinality(1..n) = n
  <2>1. 1 \in Int /\ n \in Int /\ ~(1 > n)
    BY <1>1
  <2>2. IsFiniteSet(1..n) /\ Cardinality(1..n) = n - 1 + 1
    BY <2>1, FS_Interval
  <2> QED  BY <1>1, <2>2
<1>3. IsFiniteSet({w}) /\ Cardinality({w}) = 1
  BY FS_Singleton
<1>4. IsFiniteSet({w} \X (1..n)) /\ Cardinality({w} \X (1..n)) = 1 * n
  BY <1>2, <1>3, FS_Product
<1>5. 1 * n = n
  BY <1>1
<1> QED  BY <1>4, <1>5 DEF n

(* Finitely many chunks have finitely many bytes.                           *)
LEMMA BytesAreFinite ==
  ASSUME NEW S \in SUBSET Writers, IsFiniteSet(S)
  PROVE  LET B == UNION {{w} \X (1..Bytes[Content[w]]) : w \in S}
         IN  IsFiniteSet(B) /\ Cardinality(B) \in Nat
<1> DEFINE one(w) == {w} \X (1..Bytes[Content[w]])
           all == {one(w) : w \in S}
<1>1. \A w \in S : IsFiniteSet(one(w))
  BY BytesOfOne
<1> HIDE DEF one
<1>2. IsFiniteSet(all)
  <2> DEFINE f == [w \in S |-> one(w)]
  <2>1. f \in Surjection(S, all)
    BY DEF Surjection
  <2> HIDE DEF f, all
  <2> QED  BY <2>1, FS_Surjection
<1>3. IsFiniteSet(UNION all)
  BY <1>1, <1>2, FS_UNION
<1>4. Cardinality(UNION all) \in Nat
  BY <1>3, FS_CardinalityType
<1> QED  BY <1>3, <1>4 DEF one

(* A chunk that is added adds its bytes.                                    *)
LEMMA BytesAdded ==
  ASSUME NEW S \in SUBSET Writers, IsFiniteSet(S), NEW w \in Writers \ S
  PROVE  Cardinality(UNION {{v} \X (1..Bytes[Content[v]]) : v \in S \cup {w}})
           = Cardinality(UNION {{v} \X (1..Bytes[Content[v]]) : v \in S}) + Bytes[Content[w]]
<1> DEFINE one(v) == {v} \X (1..Bytes[Content[v]])
           B == UNION {one(v) : v \in S}
           C == UNION {one(v) : v \in S \cup {w}}
<1>1. IsFiniteSet(B) /\ Cardinality(B) \in Nat
  BY BytesAreFinite
<1>2. IsFiniteSet(one(w)) /\ Cardinality(one(w)) = Bytes[Content[w]]
  BY BytesOfOne
<1>3. C = B \cup one(w)
  OBVIOUS
<1>4. B \cap one(w) = {}
  OBVIOUS
<1>5. Bytes[Content[w]] \in Nat
  BY SessionsAssumption
<1> HIDE DEF B, C, one
<1>6. Cardinality(B \cup one(w)) = Cardinality(B) + Cardinality(one(w)) - Cardinality({})
  BY <1>1, <1>2, <1>4, FS_Union
<1>7. Cardinality({}) = 0
  BY FS_EmptySet
<1>8. Cardinality(C) = Cardinality(B) + Bytes[Content[w]]
  BY <1>1, <1>2, <1>3, <1>5, <1>6, <1>7
<1> QED  BY <1>8 DEF B, C, one

(* An upload with as many chunks as it was announced with has all of them.  *)
LEMMA AllIndexes ==
  ASSUME NEW S \in SUBSET Writers, IsFiniteSet(S), NEW u \in Uploads,
         \A w \in S : UploadOf[w] = u, \A v, w \in S : Key(v) = Key(w) => v = w,
         Cardinality(S) = ChunkCount[u]
  PROVE  {IndexOf[w] : w \in S} = Indexes(u)
<1> DEFINE n == ChunkCount[u]
<1>1. n \in Nat
  BY SessionsAssumption
<1>2. \A w \in S : IndexOf[w] \in Nat /\ IndexOf[w] < n
  BY SessionsAssumption
<1>3. Cardinality(S) = n
  OBVIOUS
<1>4. Indexes(u) = 0..(n - 1)
  BY DEF Indexes
<1> HIDE DEF n
<1>5. \A w \in S : IndexOf[w] \in 0..(n - 1)
  BY <1>1, <1>2
<1>6. ASSUME NEW i \in 0..(n - 1), \A w \in S : IndexOf[w] # i
      PROVE  FALSE
  <2> DEFINE T == (0..(n - 1)) \ {i}
             f == [w \in S |-> IndexOf[w]]
  <2>1. IsFiniteSet(0..(n - 1)) /\ Cardinality(0..(n - 1)) = n
    <3>1. 0 \in Int /\ n - 1 \in Int /\ ~(0 > n - 1)
      BY <1>1, <1>6
    <3>2. IsFiniteSet(0..(n - 1)) /\ Cardinality(0..(n - 1)) = n - 1 - 0 + 1
      BY <3>1, FS_Interval
    <3> QED  BY <1>1, <3>2
  <2>2. IsFiniteSet(T) /\ Cardinality(T) = n - 1
    <3>1. i \in 0..(n - 1)
      BY <1>6
    <3> DEFINE I == 0..(n - 1)
    <3>2. IsFiniteSet(I) /\ Cardinality(I) = n /\ i \in I /\ T = I \ {i}
      BY <2>1, <3>1
    <3> HIDE DEF I, T
    <3>3. IsFiniteSet(I \ {i}) /\ Cardinality(I \ {i}) = Cardinality(I) - 1
      BY <3>2, FS_RemoveElement
    <3> QED  BY <3>2, <3>3
  <2>3. f \in [S -> T]
    BY <1>5, <1>6
  <2>4. Cardinality(T) < Cardinality(S)
    BY <1>1, <1>3, <2>2
  <2>5. \A v \in S : f[v] = IndexOf[v]
    OBVIOUS
  <2> HIDE DEF T, f
  <2>6. \E v, w \in S : v # w /\ f[v] = f[w]
    BY <2>2, <2>3, <2>4, FS_PigeonHole
  <2>7. PICK v \in S, w \in S : v # w /\ IndexOf[v] = IndexOf[w]
    BY <2>5, <2>6
  <2> QED  BY <2>7 DEF Key
<1> QED  BY <1>4, <1>5, <1>6

(* What a step does to the rows: it records a chunk, deletes an expired     *)
(* upload with its chunks, or leaves counters and chunks as they are and    *)
(* claims nothing but what is fully received.                               *)
LEMMA RowSteps ==
  ASSUME TypeOK, [Next]_vars
  PROVE  \/ \E w \in Writers : Insert(w) /\ pc[w] = "record"
         \/ \E u \in Uploads : DeleteExpired(u)
         \/ /\ recorded' = recorded
            /\ \A v \in Uploads :
                 /\ session'[v].received = session[v].received
                 /\ session'[v].status \in Claimed
                      => session[v].status \in Claimed \/ FullyReceived(v)
<1>0. session \in [Uploads -> SessionType]
  BY DEF TypeOK
<1>1. ASSUME NEW u \in Uploads, NEW from, NEW to, SetStatus(u, from, to), NEW v \in Uploads
      PROVE  /\ recorded' = recorded /\ session[u].status \in from
             /\ session'[v].received = session[v].received
             /\ session'[v].status = IF v = u THEN to ELSE session[v].status
  BY <1>0, <1>1 DEF SetStatus, SessionType
<1>2. ASSUME NEW u \in Uploads, SessionStep(u), ~DeleteExpired(u), NEW v \in Uploads
      PROVE  /\ recorded' = recorded /\ session'[v].received = session[v].received
             /\ session'[v].status \in Claimed => session[v].status \in Claimed \/ FullyReceived(v)
  <2>1. CASE Reserve(u)
    <3>1. recorded' = recorded /\ session' = [session EXCEPT ![u].status = "open"]
      BY <2>1, Zenon DEF Reserve
    <3> QED  BY <1>0, <3>1 DEF SessionType, Claimed
  <2>2. CASE Expire(u)
    BY <1>0, <2>2 DEF Expire, SessionType
  <2>3. CASE ClaimCompletion(u)
    BY <1>1, <2>3 DEF ClaimCompletion
  <2>4. CASE FailCompletion(u)
    BY <1>1, <2>4 DEF FailCompletion, Claimed
  <2>5. CASE Complete(u)
    BY <1>1, <2>5 DEF Complete, Claimed
  <2>6. CASE Cancel(u)
    BY <1>1, <2>6 DEF Cancel, Claimed
  <2>7. CASE ReopenFailed(u)
    BY <1>1, <2>7 DEF ReopenFailed, Claimed
  <2> QED  BY <1>2, <2>1, <2>2, <2>3, <2>4, <2>5, <2>6, <2>7 DEF SessionStep
<1>3. ASSUME NEW u \in Uploads, RemoveDirectory(u)
      PROVE  recorded' = recorded /\ session' = session
  BY <1>3 DEF RemoveDirectory
<1>4. ASSUME NEW w \in Writers, Enqueue(w) \/ WriterStep(w) \/ Fail(w), ~Insert(w)
      PROVE  recorded' = recorded /\ session' = session
  BY <1>4 DEF Enqueue, WriterStep, Enter, CheckSession, CheckChunk, OpenLock, Busy, StreamDone,
     StreamFails, AfterWrite, Record, Drop, Fail
<1>5. ASSUME NEW w \in Writers, Enqueue(w) \/ WriterStep(w) \/ Fail(w), Insert(w)
      PROVE  pc[w] = "record" \/ (recorded' = recorded /\ session' = session)
  BY <1>5 DEF Enqueue, WriterStep, Enter, CheckSession, CheckChunk, OpenLock, Busy, StreamDone,
     StreamFails, AfterWrite, Record, Drop, Fail
<1>6. ASSUME Crash \/ UNCHANGED vars
      PROVE  recorded' = recorded /\ session' = session
  BY <1>6 DEF Crash, vars
<1>7. CASE \E u \in Uploads : SessionStep(u)
  BY <1>2, <1>7
<1>8. CASE recorded' = recorded /\ session' = session
  BY <1>8
<1>9. CASE \E w \in Writers : Enqueue(w) \/ WriterStep(w) \/ Fail(w)
  BY <1>4, <1>5, <1>8, <1>9
<1>10. CASE \E u \in Uploads : RemoveDirectory(u)
  BY <1>3, <1>8, <1>10
<1>11. CASE Crash \/ UNCHANGED vars
  BY <1>6, <1>8, <1>11
<1> QED  BY <1>7, <1>9, <1>10, <1>11 DEF Next, SessionStep

(* The bytes of an upload are those of its chunks.                          *)
BytesIn(S) == UNION {{w} \X (1..Bytes[Content[w]]) : w \in S}

(* The invariant of the rows, without the names of the state.               *)
RowsFit(s, R) ==
    /\ IsFiniteSet(R) /\ R \in SUBSET Writers
    /\ \A v, w \in R : Key(v) = Key(w) => v = w
    /\ \A u \in Uploads :
         /\ s[u].received = Cardinality(BytesIn({v \in R : UploadOf[v] = u}))
         /\ s[u].received <= Size[u]
         /\ s[u].status \in Claimed =>
              /\ {IndexOf[w] : w \in {v \in R : UploadOf[v] = u}} = Indexes(u)
              /\ s[u].received = Size[u]

(* In terms of the recorded chunks and the sessions, RowInv is RowsFit.     *)
LEMMA RowsFitHere ==
  ASSUME TypeOK
  PROVE  RowInv <=> RowsFit(session, recorded)
<1>1. recorded \in SUBSET Writers
  BY DEF TypeOK
<1>2. ReceivedMatchesChunks <=>
        \A u \in Uploads :
          session[u].received = Cardinality(BytesIn({v \in recorded : UploadOf[v] = u}))
  BY DEF ReceivedMatchesChunks, BytesOf, BytesIn
<1>3. OneChunkPerKey =>
        (ClaimedIsComplete <=>
           \A u \in Uploads :
             session[u].status \in Claimed =>
               /\ {IndexOf[w] : w \in {v \in recorded : UploadOf[v] = u}} = Indexes(u)
               /\ session[u].received = Size[u])
  BY DEF ClaimedIsComplete, OneChunkPerKey, Claimed
<1> QED  BY <1>1, <1>2, <1>3 DEF RowInv, RowsFit, OneChunkPerKey, ReceivedWithinSize

(* A chunk that is recorded fits.                                           *)
LEMMA InsertFits ==
  ASSUME TypeOK, RowsFit(session, recorded), NEW w \in Writers, Insert(w)
  PROVE  RowsFit(session', recorded')
<1> DEFINE u == UploadOf[w]
           n == Bytes[Content[w]]
           m == session[u].received + n
           S == {v \in recorded : UploadOf[v] = u}
<1>1. u \in Uploads /\ n \in Nat /\ session \in [Uploads -> SessionType]
  BY SessionsAssumption DEF TypeOK
<1>2. /\ session[u].status = "open" /\ Known(w) = {} /\ m <= Size[u]
      /\ recorded' = recorded \cup {w}
      /\ session' = [session EXCEPT ![u].received = m]
  BY <1>1 DEF Insert, Writable, Fits, SessionType
<1>3. w \notin recorded /\ \A v \in recorded : Key(v) # Key(w)
  BY <1>2 DEF Known
<1>4. /\ IsFiniteSet(recorded) /\ recorded \in SUBSET Writers
      /\ \A v, x \in recorded : Key(v) = Key(x) => v = x
  BY DEF RowsFit
<1>5. /\ IsFiniteSet(recorded') /\ recorded' \in SUBSET Writers
      /\ \A v, x \in recorded' : Key(v) = Key(x) => v = x
  BY <1>2, <1>3, <1>4, FS_AddElement
<1>6. /\ session'[u].received = m /\ session'[u].status = "open"
      /\ \A v \in Uploads : v # u => session'[v] = session[v]
  <2> HIDE DEF u, m
  <2> QED  BY <1>1, <1>2 DEF SessionType
<1>7. \A v \in Uploads : v # u =>
        {x \in recorded' : UploadOf[x] = v} = {x \in recorded : UploadOf[x] = v}
  BY <1>2
<1>8. {x \in recorded' : UploadOf[x] = u} = S \cup {w}
  BY <1>2
<1>9. IsFiniteSet(S) /\ S \in SUBSET Writers /\ w \in Writers \ S
  BY <1>3, <1>4, FS_Subset
<1>10. session[u].received = Cardinality(BytesIn(S))
  BY <1>1 DEF RowsFit
<1>11. m = Cardinality(BytesIn(S \cup {w}))
  <2> HIDE DEF S, u
  <2>1. Cardinality(BytesIn(S \cup {w})) = Cardinality(BytesIn(S)) + n
    BY <1>9, BytesAdded DEF BytesIn
  <2> QED  BY <1>10, <2>1
<1>12. ASSUME NEW v \in Uploads
       PROVE  /\ session'[v].received = Cardinality(BytesIn({x \in recorded' : UploadOf[x] = v}))
              /\ session'[v].received <= Size[v]
              /\ session'[v].status \in Claimed =>
                   /\ {IndexOf[x] : x \in {y \in recorded' : UploadOf[y] = v}} = Indexes(v)
                   /\ session'[v].received = Size[v]
  <2>1. CASE v = u
    <3>1. session'[v].received = m /\ session'[v].status \notin Claimed
      BY <1>6, <2>1 DEF Claimed
    <3>2. {x \in recorded' : UploadOf[x] = v} = S \cup {w}
      BY <1>8, <2>1
    <3> HIDE DEF S, m, u
    <3> QED  BY <1>2, <1>11, <2>1, <3>1, <3>2
  <2>2. CASE v # u
    <3>1. /\ {x \in recorded' : UploadOf[x] = v} = {x \in recorded : UploadOf[x] = v}
          /\ session'[v] = session[v]
      BY <1>6, <1>7, <2>2
    <3> HIDE DEF u
    <3> QED  BY <3>1 DEF RowsFit
  <2> QED  BY <2>1, <2>2
<1> QED  BY <1>5, <1>12 DEF RowsFit

(* An expired upload goes with its chunks.                                  *)
LEMMA DeleteFits ==
  ASSUME TypeOK, RowsFit(session, recorded), NEW u \in Uploads, DeleteExpired(u)
  PROVE  RowsFit(session', recorded')
<1>1. session \in [Uploads -> SessionType] /\ Size[u] \in Nat
  BY SessionsAssumption DEF TypeOK
<1>2. /\ session' = [session EXCEPT ![u].status = "gone", ![u].received = 0]
      /\ recorded' = {w \in recorded : UploadOf[w] # u}
  BY DEF DeleteExpired
<1>3. /\ session'[u].received = 0 /\ session'[u].status = "gone"
      /\ \A v \in Uploads : v # u => session'[v] = session[v]
  BY <1>1, <1>2 DEF SessionType
<1>4. /\ IsFiniteSet(recorded) /\ recorded \in SUBSET Writers
      /\ \A v, x \in recorded : Key(v) = Key(x) => v = x
  BY DEF RowsFit
<1>5. recorded' \in SUBSET recorded
  BY <1>2
<1>6. /\ IsFiniteSet(recorded') /\ recorded' \in SUBSET Writers
      /\ \A v, x \in recorded' : Key(v) = Key(x) => v = x
  BY <1>4, <1>5, FS_Subset
<1>7. \A v \in Uploads : v # u =>
        {x \in recorded' : UploadOf[x] = v} = {x \in recorded : UploadOf[x] = v}
  BY <1>2
<1>8. BytesIn({x \in recorded' : UploadOf[x] = u}) = {}
  BY <1>2 DEF BytesIn
<1>9. Cardinality({}) = 0
  BY FS_EmptySet
<1>10. ASSUME NEW v \in Uploads
       PROVE  /\ session'[v].received = Cardinality(BytesIn({x \in recorded' : UploadOf[x] = v}))
              /\ session'[v].received <= Size[v]
              /\ session'[v].status \in Claimed =>
                   /\ {IndexOf[x] : x \in {y \in recorded' : UploadOf[y] = v}} = Indexes(v)
                   /\ session'[v].received = Size[v]
  <2>1. CASE v = u
    BY <1>1, <1>3, <1>8, <1>9, <2>1 DEF Claimed
  <2>2. CASE v # u
    <3>1. /\ {x \in recorded' : UploadOf[x] = v} = {x \in recorded : UploadOf[x] = v}
          /\ session'[v] = session[v]
      BY <1>3, <1>7, <2>2
    <3> QED  BY <3>1 DEF RowsFit
  <2> QED  BY <2>1, <2>2
<1> QED  BY <1>6, <1>10 DEF RowsFit

(* A step keeps the rows.                                                   *)
LEMMA RowStep ==
  ASSUME TypeOK, TypeOK', RowInv, [Next]_vars
  PROVE  RowInv'
<1>1. RowsFit(session, recorded)
  BY RowsFitHere
<1>2. RowsFit(session', recorded') => RowInv'
  <2>1. (TypeOK => (RowInv <=> RowsFit(session, recorded)))'
    BY RowsFitHere, PTL
  <2> QED  BY <2>1
<1>3. CASE \E w \in Writers : Insert(w) /\ pc[w] = "record"
  BY <1>1, <1>2, <1>3, InsertFits
<1>4. CASE \E u \in Uploads : DeleteExpired(u)
  BY <1>1, <1>2, <1>4, DeleteFits
<1>5. CASE /\ recorded' = recorded
           /\ \A v \in Uploads :
                /\ session'[v].received = session[v].received
                /\ session'[v].status \in Claimed
                     => session[v].status \in Claimed \/ FullyReceived(v)
  <2>1. \A v \in Uploads : FullyReceived(v) =>
          /\ {IndexOf[w] : w \in {x \in recorded : UploadOf[x] = v}} = Indexes(v)
          /\ session[v].received = Size[v]
    <3> SUFFICES ASSUME NEW v \in Uploads, FullyReceived(v)
                 PROVE  {IndexOf[w] : w \in {x \in recorded : UploadOf[x] = v}} = Indexes(v)
      BY DEF FullyReceived
    <3> DEFINE S == {x \in recorded : UploadOf[x] = v}
    <3>1. /\ IsFiniteSet(S) /\ S \in SUBSET Writers /\ \A w \in S : UploadOf[w] = v
          /\ \A w, x \in S : Key(w) = Key(x) => w = x
      BY <1>1, FS_Subset DEF RowsFit
    <3>2. Cardinality(S) = ChunkCount[v]
      BY DEF FullyReceived
    <3> HIDE DEF S
    <3>3. {IndexOf[w] : w \in S} = Indexes(v)
      BY <3>1, <3>2, AllIndexes
    <3> QED  BY <3>3 DEF S
  <2>2. RowsFit(session', recorded')
    BY <1>1, <1>5, <2>1 DEF RowsFit
  <2> QED  BY <1>2, <2>2
<1> QED  BY <1>3, <1>4, <1>5, RowSteps

(* A request that was answered finds its content recorded, also before its  *)
(* response is sent; before its upload was reserved nothing is answered.    *)
AnsweredIsStored ==
    \A w \in Writers :
        result[w] = "ok" /\ session[UploadOf[w]].status \in Unfinished
        => \E v \in Known(w) : Content[v] = Content[w]
NothingAnsweredBefore == \A w \in Writers : session[UploadOf[w]].status = "none" => result[w] # "ok"

\* What a request may answer: what it answered already, an error, or what is recorded.
Sound(w, response) ==
    response = "ok" => result[w] = "ok" \/ \E v \in recorded' : Key(v) = Key(w) /\ Content[v] = Content[w]

(* A step of a request answers soundly, for itself, and removes no chunk.   *)
LEMMA AnswerSteps ==
  ASSUME FileInv, NEW w \in Writers, Enqueue(w) \/ WriterStep(w) \/ Fail(w)
  PROVE  /\ \A v \in Writers : v # w => result'[v] = result[v]
         /\ Sound(w, result'[w]) /\ recorded \subseteq recorded'
         /\ \A u \in Uploads : session'[u].status = session[u].status
         /\ session[UploadOf[w]].status # "none"
<1>0. /\ result \in [Writers -> {"none", "ok", "refused"}] /\ TypeOK /\ ReservedBeforeUse
      /\ pc \in [Writers -> Labels] /\ UploadOf[w] \in Uploads
  BY SessionsAssumption DEF FileInv, TypeOK
<1>1. session[UploadOf[w]].status # "none"
  BY <1>0 DEF ReservedBeforeUse, Enqueue, WriterStep, Enter, CheckSession, CheckChunk, OpenLock, Busy,
     StreamDone, StreamFails, AfterWrite, Record, Drop, Fail
<1>2. ASSUME NEW response, Leave(w, response) \/ Reject(w, response), Sound(w, response)
      PROVE  (\A v \in Writers : v # w => result'[v] = result[v]) /\ Sound(w, result'[w])
  BY <1>0, <1>2 DEF Leave, Reject
<1>3. ASSUME result' = result
      PROVE  (\A v \in Writers : v # w => result'[v] = result[v]) /\ Sound(w, result'[w])
  BY <1>3 DEF Sound
<1>4. Sound(w, "refused") /\ Sound(w, result[w])
  BY DEF Sound
<1>5. recorded' = recorded => Sound(w, Answer(w))
  BY DEF Sound, Answer, Known
<1>6. CASE Record(w)
  <2>1. recorded \subseteq recorded' /\ \A u \in Uploads : session'[u].status = session[u].status
    <3>1. CASE Insert(w)
      BY <1>0, <3>1, InsertKeepsStatus DEF Insert
    <3>2. CASE ~Insert(w)
      BY <1>6, <3>2 DEF Record
    <3> QED  BY <3>1, <3>2
  <2>2. Insert(w) => Sound(w, "ok")
    BY DEF Insert, Sound
  <2>3. \/ Leave(w, "ok") /\ Insert(w)
        \/ recorded' = recorded /\ Reject(w, IF Writable(UploadOf[w]) THEN Answer(w) ELSE "refused")
        \/ Reject(w, "refused")
    BY <1>6 DEF Record
  <2>4. CASE Leave(w, "ok") /\ Insert(w)
    BY <1>1, <1>2, <2>1, <2>2, <2>4
  <2>5. CASE Reject(w, "refused")
    BY <1>1, <1>2, <1>4, <2>1, <2>5
  <2>6. CASE recorded' = recorded /\ Reject(w, IF Writable(UploadOf[w]) THEN Answer(w) ELSE "refused")
    <3>1. Sound(w, IF Writable(UploadOf[w]) THEN Answer(w) ELSE "refused")
      BY <1>4, <1>5, <2>6
    <3> QED  BY <1>1, <1>2, <2>1, <2>6, <3>1
  <2> QED  BY <2>3, <2>4, <2>5, <2>6
<1>7. CASE ~Record(w)
  <2>1. recorded' = recorded /\ session' = session
    BY <1>7 DEF Enqueue, WriterStep, Enter, CheckSession, CheckChunk, OpenLock, Busy, StreamDone,
       StreamFails, AfterWrite, Drop, Fail
  <2>2. \/ result' = result
        \/ Leave(w, "refused") \/ Leave(w, Answer(w)) \/ Leave(w, result[w])
    BY <1>7 DEF Enqueue, WriterStep, Enter, CheckSession, CheckChunk, OpenLock, Busy, StreamDone,
       StreamFails, AfterWrite, Drop, Fail, Goto
  <2> QED  BY <1>1, <1>2, <1>3, <1>4, <1>5, <2>1, <2>2
<1> QED  BY <1>6, <1>7

(* A step keeps what was answered true: an answered chunk stays stored.     *)
LEMMA AnswerStep ==
  ASSUME FileInv, AnsweredIsStored, NothingAnsweredBefore, [Next]_vars
  PROVE  AnsweredIsStored' /\ NothingAnsweredBefore'
<1>0. /\ TypeOK /\ recorded \subseteq Writers /\ \A w \in Writers : UploadOf[w] \in Uploads
      /\ session \in [Uploads -> SessionType]
  BY SessionsAssumption DEF FileInv, TypeOK
<1>1. CASE \E w \in Writers : Enqueue(w) \/ WriterStep(w) \/ Fail(w)
  <2>1. PICK w \in Writers :
          /\ \A v \in Writers : v # w => result'[v] = result[v]
          /\ Sound(w, result'[w]) /\ recorded \subseteq recorded'
          /\ \A u \in Uploads : session'[u].status = session[u].status
          /\ session[UploadOf[w]].status # "none"
    BY <1>1, AnswerSteps
  <2>2. NothingAnsweredBefore'
    BY <1>0, <2>1 DEF NothingAnsweredBefore
  <2>3. ASSUME NEW x \in Writers, result'[x] = "ok", session'[UploadOf[x]].status \in Unfinished
        PROVE  \E v \in recorded' : Key(v) = Key(x) /\ Content[v] = Content[x]
    <3>1. session[UploadOf[x]].status \in Unfinished
      BY <1>0, <2>1, <2>3
    <3>2. CASE result[x] = "ok"
      BY <2>1, <3>1, <3>2 DEF AnsweredIsStored, Known
    <3>3. CASE result[x] # "ok"
      BY <2>1, <2>3, <3>3 DEF Sound
    <3> QED  BY <3>2, <3>3
  <2> QED  BY <2>2, <2>3 DEF AnsweredIsStored, Known
<1>2. CASE \E u \in Uploads : SessionStep(u)
  <2>1. PICK u \in Uploads : SessionStep(u)
    BY <1>2
  <2>2. \A v \in Uploads :
          /\ session'[v].status \in Unfinished => session[v].status \in Unfinished \cup {"none"}
          /\ session'[v].status = "none" => session[v].status = "none"
    BY <1>0, <2>1, StatusStep
  <2>3. result' = result
    BY <2>1 DEF SessionStep, Reserve, Expire, ClaimCompletion, FailCompletion, ReopenFailed,
       Complete, Cancel, SetStatus, DeleteExpired
  <2>4. \A w \in recorded : session'[UploadOf[w]].status \in Unfinished => w \in recorded'
    <3>1. CASE DeleteExpired(u)
      <4>1. session' = [session EXCEPT ![u].status = "gone", ![u].received = 0]
        BY <3>1 DEF DeleteExpired
      <4>2. session'[u].status = "gone"
        BY <1>0, <4>1 DEF SessionType
      <4> QED  BY <3>1, <4>2 DEF DeleteExpired, Unfinished
    <3>2. CASE ~DeleteExpired(u)
      <4>1. recorded' = recorded
        BY <2>1, <3>2 DEF SessionStep, Reserve, Expire, ClaimCompletion, FailCompletion, ReopenFailed,
           Complete, Cancel, SetStatus
      <4> QED  BY <4>1
    <3> QED  BY <3>1, <3>2
  <2>5. NothingAnsweredBefore'
    BY <1>0, <2>2, <2>3 DEF NothingAnsweredBefore
  <2>6. ASSUME NEW x \in Writers, result'[x] = "ok", session'[UploadOf[x]].status \in Unfinished
        PROVE  \E v \in recorded' : Key(v) = Key(x) /\ Content[v] = Content[x]
    <3>1. session[UploadOf[x]].status \in Unfinished
      BY <1>0, <2>2, <2>3, <2>6 DEF NothingAnsweredBefore
    <3>2. PICK v \in recorded : Key(v) = Key(x) /\ Content[v] = Content[x]
      BY <2>3, <2>6, <3>1 DEF AnsweredIsStored, Known
    <3>3. UploadOf[v] = UploadOf[x]
      BY <3>2 DEF Key
    <3> QED  BY <2>4, <2>6, <3>2, <3>3
  <2> QED  BY <2>5, <2>6 DEF AnsweredIsStored, Known
<1>3. CASE (\E u \in Uploads : RemoveDirectory(u)) \/ Crash \/ UNCHANGED vars
  <2>1. session' = session /\ recorded' = recorded /\ result' = result
    BY <1>3 DEF RemoveDirectory, Crash, vars
  <2> QED  BY <2>1 DEF AnsweredIsStored, NothingAnsweredBefore, Known
<1> QED  BY <1>1, <1>2, <1>3 DEF Next, SessionStep

(* While nothing fails, a file on disk is in the hands of its request, is   *)
(* recorded, or goes with its directory; a lock is held by a request that   *)
(* has yet to unlock.                                                       *)
NothingStray ==
    faults = 0 =>
        /\ \A w \in files : pc[w] \in {"unlock", "record", "drop"} \/ w \in recorded
                            \/ UploadOf[w] \in removing
        /\ \A w \in parts : pc[w] = "stream"
        /\ \A k \in locks : \E w \in Writers :
             Key(w) = k /\ pc[w] \in {"stream", "unlock", "unlock_failed"}

(* Without errors, a step leaves no file behind that nobody accounts for.   *)
LEMMA StrayStep ==
  ASSUME FileInv, NothingStray, [Next]_vars
  PROVE  NothingStray'
<1>0. /\ pc \in [Writers -> Labels] /\ files \subseteq Writers /\ parts \subseteq Writers
      /\ faults \in Nat /\ locks \subseteq Keys /\ recorded \subseteq Writers
  BY SessionsAssumption DEF FileInv, TypeOK
<1>1. CASE faults' # 0
  BY <1>1 DEF NothingStray
<1>2. ASSUME Fault
      PROVE  faults' # 0
  BY <1>0, <1>2 DEF Fault
<1>3. CASE faults' = 0 /\ \E u \in Uploads : SessionStep(u)
  <2>1. PICK u \in Uploads : SessionStep(u)
    BY <1>3
  <2>2. /\ UNCHANGED << files, parts, locks, pc, faults >> /\ removing \subseteq removing'
        /\ \A w \in recorded : w \in recorded' \/ UploadOf[w] \in removing'
    BY <2>1 DEF SessionStep, Reserve, Expire, ClaimCompletion, FailCompletion, ReopenFailed,
       Complete, Cancel, SetStatus, DeleteExpired, disk
  <2> QED  BY <1>3, <2>2 DEF NothingStray
<1>4. CASE faults' = 0 /\ \E u \in Uploads : RemoveDirectory(u)
  <2>1. PICK u \in Uploads : RemoveDirectory(u)
    BY <1>4
  <2>2. /\ files' = {w \in files : UploadOf[w] # u} /\ parts' = {w \in parts : UploadOf[w] # u}
        /\ locks' \subseteq locks /\ removing' = removing \ {u}
        /\ UNCHANGED << recorded, pc, faults >>
    BY <1>2, <1>4, <2>1 DEF RemoveDirectory, Faultless
  <2> QED  BY <1>4, <2>2 DEF NothingStray
<1>5. ASSUME faults' = 0, NEW w \in Writers, Enqueue(w) \/ WriterStep(w) \/ Fail(w)
      PROVE  NothingStray'
  <2> USE DEF NothingStray
  <2>1. faults = 0 /\ ~Fault /\ removing' = removing /\ recorded \subseteq recorded'
    BY <1>0, <1>2, <1>5 DEF Enqueue, WriterStep, Enter, CheckSession, CheckChunk, OpenLock, Busy,
       StreamDone, StreamFails, AfterWrite, Unlock, Record, Insert, Drop, RemoveCandidate, Fail, Faultless
  <2>2. /\ \A x \in files : pc[x] \in {"unlock", "record", "drop"} \/ x \in recorded
                            \/ UploadOf[x] \in removing
        /\ \A x \in parts : pc[x] = "stream"
        /\ \A k \in locks : \E x \in Writers :
             Key(x) = k /\ pc[x] \in {"stream", "unlock", "unlock_failed"}
    BY <2>1
  <2>3. CASE Enqueue(w)
    BY <1>0, <2>1, <2>2, <2>3 DEF Enqueue, disk
  <2>4. CASE /\ pc[w] \in {"wait", "check", "check_chunk", "open"} /\ UNCHANGED disk
             /\ \/ \E label \in {"check", "check_chunk", "open"} : Goto(w, label)
                \/ \E response : Leave(w, response)
    BY <1>0, <2>1, <2>2, <2>4 DEF Goto, Leave, disk
  <2>5. CASE OpenLock(w)
    BY <1>0, <2>1, <2>2, <2>5 DEF OpenLock, Goto
  <2>6. CASE StreamDone(w)
    BY <1>0, <2>1, <2>2, <2>6 DEF StreamDone, Goto
  <2>7. CASE StreamFails(w)
    BY <1>0, <2>1, <2>2, <2>7 DEF StreamFails, Goto
  <2>8. CASE AfterWrite(w)
    <3>1. locks' = locks \ {Key(w)} /\ files' = files /\ parts' = parts
      BY <2>1, <2>8 DEF AfterWrite, Unlock
    <3>2. \/ pc[w] = "unlock" /\ pc' = [pc EXCEPT ![w] = "record"]
          \/ pc[w] = "unlock_failed" /\ pc' = [pc EXCEPT ![w] = "over"]
      BY <2>8 DEF AfterWrite, Goto, Leave
    <3> QED  BY <1>0, <2>1, <2>2, <3>1, <3>2
  <2>9. CASE Record(w)
    <3>1. UNCHANGED disk /\ pc[w] = "record"
      BY <2>9 DEF Record
    <3>2. \/ pc' = [pc EXCEPT ![w] = "over"] /\ w \in recorded'
          \/ pc' = [pc EXCEPT ![w] = "drop"]
      BY <2>1, <2>9 DEF Record, Insert, Leave, Reject
    <3> QED  BY <1>0, <2>1, <2>2, <3>1, <3>2 DEF disk
  <2>10. CASE Drop(w)
    <3>1. files' = files \ {w} /\ parts' = parts /\ locks' = locks /\ pc[w] = "drop"
          /\ pc' = [pc EXCEPT ![w] = "over"]
      BY <2>1, <2>10 DEF Drop, RemoveCandidate, Leave
    <3> QED  BY <1>0, <2>1, <2>2, <3>1
  <2> QED
    BY <1>5, <2>1, <2>3, <2>4, <2>5, <2>6, <2>7, <2>8, <2>9, <2>10
       DEF WriterStep, Enter, CheckSession, CheckChunk, Busy, Fail
<1>6. CASE faults' = 0 /\ Crash
  BY <1>2, <1>6 DEF Crash
<1>7. CASE UNCHANGED vars
  BY <1>7 DEF vars, NothingStray
<1> QED  BY <1>1, <1>3, <1>4, <1>5, <1>6, <1>7 DEF Next, SessionStep

(* The rows of an upload tell what its client was told and what is on disk: *)
(* an acknowledged chunk is recorded, the counter is the sum of the chunks  *)
(* and within the announced size, a claimed upload has every chunk once,    *)
(* and without errors nothing is left behind (chunkUploadSessions.ts).      *)
THEOREM RowsAreTrue == Spec => []RowsTellTheTruth
<1> DEFINE Inv == RowInv /\ AnsweredIsStored /\ NothingAnsweredBefore /\ NothingStray
<1>1. Init => Inv
  <2> SUFFICES ASSUME Init
               PROVE  Inv
    OBVIOUS
  <2>1. IsFiniteSet({}) /\ Cardinality({}) = 0
    BY FS_EmptySet
  <2>2. \A u \in Uploads : BytesOf(u) = {}
    BY DEF Init, BytesOf
  <2>3. \A u \in Uploads : /\ session[u].received = 0 /\ session[u].status = "none" /\ Size[u] \in Nat
    BY SessionsAssumption DEF Init
  <2>4. RowInv
    <3>1. IsFiniteSet(recorded) /\ OneChunkPerKey
      BY <2>1 DEF Init, OneChunkPerKey
    <3>2. ReceivedMatchesChunks
      BY <2>1, <2>2, <2>3 DEF ReceivedMatchesChunks
    <3>3. ReceivedWithinSize
      BY <2>3 DEF ReceivedWithinSize
    <3>4. ClaimedIsComplete
      BY <2>3 DEF ClaimedIsComplete
    <3> QED  BY <3>1, <3>2, <3>3, <3>4 DEF RowInv
  <2>5. AnsweredIsStored /\ NothingAnsweredBefore /\ NothingStray
    BY DEF Init, AnsweredIsStored, NothingAnsweredBefore, NothingStray
  <2> QED  BY <2>4, <2>5
<1>2. Inv /\ FileInv /\ TypeOK' /\ [Next]_vars => Inv'
  BY RowStep, AnswerStep, StrayStep DEF FileInv
<1>3. Inv /\ FileInv => RowsTellTheTruth
  <2> SUFFICES ASSUME Inv, FileInv
               PROVE  RowsTellTheTruth
    OBVIOUS
  <2>1. AcknowledgedIsStored
    BY DEF AcknowledgedIsStored, AnsweredIsStored
  <2>2. NoStrayFile
    <3>1. files \subseteq Writers /\ parts \subseteq Writers
      BY DEF FileInv, TypeOK
    <3> QED  BY <3>1 DEF NothingStray, NoStrayFile, Live, Writing
  <2> QED  BY <2>1, <2>2 DEF RowsTellTheTruth, RowInv
<1> HIDE DEF Inv
<1> QED
  BY <1>1, <1>2, <1>3, TypeCorrect, FilesInvariant, PTL DEF Spec
==============================================================================
