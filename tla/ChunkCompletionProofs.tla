------------------------ MODULE ChunkCompletionProofs ------------------------
(***************************************************************************)
(* Proofs about ChunkCompletion, for every number of uploads, completion   *)
(* attempts, maintenance runs and faults: the types; the session rows; the *)
(* side effects of the attempts.                                           *)
(***************************************************************************)
EXTENDS ChunkCompletion, TLAPS

\* The types of the variables that have a structure.
SessionTypes == session \in [Uploads -> SessionType]
JournalTypes == journal \in [Requests -> JournalType]
HandlerTypes == handler \in [Requests -> HandlerType]
ScanTypes == scan \in [Scans -> ScanType]

(* A handler that moves on, or ends, keeps its type.                       *)
LEMMA GotoTypes ==
  ASSUME HandlerTypes, NEW r \in Requests, NEW label \in Labels, Goto(r, label)
  PROVE  HandlerTypes'
<1>1. CASE label = "over"
  <2>1. handler' = [handler EXCEPT ![r] = Handler(label)]
    BY <1>1 DEF Goto
  <2>2. Handler(label) \in HandlerType
    BY DEF Handler, HandlerType, Effects
  <2> QED
    BY <2>1, <2>2 DEF HandlerTypes
<1>2. CASE label # "over"
  <2>1. handler' = [handler EXCEPT ![r].pc = label]
    BY <1>2 DEF Goto
  <2> QED
    BY <2>1 DEF HandlerTypes, HandlerType
<1> QED
  BY <1>1, <1>2

(* So does a maintenance run that is done with a row.                      *)
LEMMA DoneTypes ==
  ASSUME ScanTypes, NEW s \in Scans, NEW r, scan' = Done(s, r)
  PROVE  ScanTypes'
<1> DEFINE todo == scan[s].todo \ {r}
           snap == [scan[s].snap EXCEPT ![r] = NoSnap]
<1>1. todo \subseteq Requests
  BY DEF ScanTypes, ScanType
<1>2. snap \in [Requests -> SnapType]
  <2>1. NoSnap \in SnapType
    BY DEF NoSnap, SnapType, Effects
  <2>2. scan[s].snap \in [Requests -> SnapType]
    BY DEF ScanTypes, ScanType
  <2> QED
    BY <2>1, <2>2
<1>3. Batch(todo, snap) \in ScanType
  BY <1>1, <1>2 DEF Batch, ScanType, Effects
<1> QED
  BY <1>3 DEF Done, ScanTypes

(* DELETE FROM files keeps the types of the session rows.                  *)
LEMMA DeleteRowTypes ==
  ASSUME SessionTypes, NEW r, DeleteRow(r)
  PROVE  SessionTypes' /\ row' \subseteq row
<1>1. \A u \in Uploads : [session[u] EXCEPT !.file = None] \in SessionType
  BY DEF SessionTypes, SessionType
<1> QED
  BY <1>1 DEF DeleteRow, SessionTypes

LEMMA IdleScanType == IdleScan \in ScanType
<1>1. [r \in Requests |-> NoSnap] \in [Requests -> SnapType]
  BY DEF NoSnap, SnapType, Effects
<1> DEFINE none == [r \in Requests |-> NoSnap]
<1>2. IdleScan = [pc |-> "idle", todo |-> {}, at |-> None, snap |-> none,
                  object |-> "unknown", index |-> "unknown"]
  BY DEF IdleScan, Batch
<1> HIDE DEF none
<1>3. none \in [Requests -> SnapType]
  BY <1>1 DEF none
<1> QED
  BY <1>2, <1>3 DEF ScanType, Effects

LEMMA SnapshotType ==
  ASSUME JournalTypes, NEW r \in Requests
  PROVE  Snapshot(r) \in SnapType
  BY DEF JournalTypes, JournalType, Snapshot, SnapType

LEMMA ResolvedType ==
  \A resolution \in {"none", "committed", "compensated", "operator_required"} :
      Resolved(resolution) \in JournalType
  BY DEF Resolved, NoJournal, JournalType, Effects

\* Everything but the structured variables.
FlatTypes ==
    /\ chunks \subseteq Uploads
    /\ object \subseteq Requests
    /\ row \subseteq Requests
    /\ overlapped \subseteq Requests
    /\ unsure \subseteq Requests
    /\ faults \in 0..MaxFaults

LEMMA TypeParts ==
  TypeOK <=> SessionTypes /\ JournalTypes /\ HandlerTypes /\ ScanTypes /\ FlatTypes
  BY DEF TypeOK, SessionTypes, JournalTypes, HandlerTypes, ScanTypes, FlatTypes

LEMMA OnErrorLabel == \A label \in Fallible : OnError[label] \in Labels
<1> SUFFICES ASSUME NEW label \in Fallible PROVE OnError[label] \in Labels
  OBVIOUS
<1>1. CASE label \in AfterSave
  BY <1>1 DEF OnError, Labels
<1>2. CASE label \in {"fail", "cleanup"}
  BY <1>2 DEF OnError, Labels, AfterSave
<1>3. CASE label \notin AfterSave /\ label \notin {"fail", "cleanup"}
  BY <1>3 DEF OnError, Labels
<1> QED
  BY <1>1, <1>2, <1>3

LEMMA LabelsOfSteps ==
    /\ {"prepare", "merged", "cleanup", "save", "mark_object", "uncertain", "fail"} \subseteq Labels
    /\ {"insert", "mark_index", "undo_object", "commit", "over"} \subseteq Labels
  BY DEF Labels

(* The steps of a handler that neither undo nor renew.                     *)
LEMMA HandlerStepTypes ==
  ASSUME TypeOK, NEW r \in Requests,
         \/ Claim(r) \/ Prepare(r) \/ CompleteDuplicate(r) \/ BeginJournal(r) \/ SaveObject(r)
         \/ JournalUncertain(r) \/ MarkObject(r) \/ InsertFile(r) \/ MarkIndex(r)
         \/ Commit(r) \/ FailCompletion(r) \/ RemoveChunks(r) \/ Throw(r) \/ ThrowByFault(r)
  PROVE  TypeOK'
<1>0. UploadOf[r] \in Uploads
  BY ConstantsAssumption
<1>a. SessionTypes /\ JournalTypes /\ HandlerTypes /\ ScanTypes /\ FlatTypes
  BY TypeParts
<1>1. HandlerTypes'
  <2>1. ASSUME NEW label \in Labels, Goto(r, label) PROVE HandlerTypes'
    BY <1>a, <2>1, GotoTypes
  <2>2. ASSUME handler' = [handler EXCEPT ![r].pc = "mark_index", ![r].indexed = TRUE]
        PROVE  HandlerTypes'
    BY <1>a, <2>2 DEF HandlerTypes, HandlerType, Labels
  <2>3. ASSUME Throw(r) \/ ThrowByFault(r) PROVE HandlerTypes'
    <3>1. handler[r].pc \in Fallible /\ Goto(r, OnError[handler[r].pc])
      BY <2>3 DEF Throw, ThrowByFault
    <3>2. OnError[handler[r].pc] \in Labels
      BY <3>1, OnErrorLabel
    <3> QED
      BY <3>1, <3>2, <2>1
  <2>4. ASSUME Claim(r) \/ Prepare(r) \/ CompleteDuplicate(r) \/ BeginJournal(r) \/ SaveObject(r)
        PROVE  HandlerTypes'
    BY <2>1, <2>4, LabelsOfSteps
    DEF Claim, Prepare, CompleteDuplicate, BeginJournal, SaveObject
  <2>5. ASSUME JournalUncertain(r) \/ MarkObject(r) \/ MarkIndex(r) PROVE HandlerTypes'
    BY <2>1, <2>5, LabelsOfSteps DEF JournalUncertain, MarkObject, MarkIndex
  <2>6. ASSUME InsertFile(r) PROVE HandlerTypes'
    BY <2>1, <2>2, <2>6, LabelsOfSteps DEF InsertFile
  <2>7. ASSUME Commit(r) \/ FailCompletion(r) \/ RemoveChunks(r) PROVE HandlerTypes'
    BY <2>1, <2>7, LabelsOfSteps DEF Commit, FailCompletion, RemoveChunks
  <2> QED
    BY <2>3, <2>4, <2>5, <2>6, <2>7
<1>2. SessionTypes'
  <2>1. CASE Claim(r)
    BY <1>0, <1>a, <2>1 DEF Claim, SessionTypes, SessionType
  <2>2. CASE CompleteDuplicate(r)
    BY <1>0, <1>a, <2>2 DEF CompleteDuplicate, SessionTypes, SessionType
  <2>3. CASE Commit(r)
    BY <1>0, <1>a, <2>3 DEF Commit, SessionTypes, SessionType
  <2>4. CASE FailCompletion(r)
    BY <1>0, <1>a, <2>4 DEF FailCompletion, SessionTypes, SessionType
  <2>5. CASE session' = session
    BY <1>a, <2>5 DEF SessionTypes
  <2> QED
    BY <2>1, <2>2, <2>3, <2>4, <2>5 DEF Prepare, BeginJournal, SaveObject,
          JournalUncertain, MarkObject, InsertFile, MarkIndex,
          RemoveChunks, Throw, ThrowByFault, dbVars
<1>3. JournalTypes'
  <2>0. ASSUME NEW record \in JournalType, journal' = [journal EXCEPT ![r] = record]
        PROVE  JournalTypes'
    BY <1>a, <2>0 DEF JournalTypes
  <2>9. journal \in [Requests -> JournalType] /\ journal[r] \in JournalType
    BY <1>a DEF JournalTypes
  <2>1. CASE BeginJournal(r)
    <3>1. [NoJournal EXCEPT !.status = "pending"] \in JournalType
      BY DEF NoJournal, JournalType, Effects
    <3> QED
      BY <2>0, <2>1, <3>1 DEF BeginJournal
  <2>2. CASE JournalUncertain(r)
    <3>1. [journal[r] EXCEPT !.object = "unknown", !.index = "deleted"] \in JournalType
      BY <2>9 DEF JournalType, Effects
    <3>2. journal' = [journal EXCEPT ![r] = [journal[r] EXCEPT !.object = "unknown", !.index = "deleted"]]
      BY <2>2, <2>9 DEF JournalUncertain
    <3> QED
      BY <2>0, <3>1, <3>2
  <2>3. CASE MarkObject(r)
    <3>1. [journal[r] EXCEPT !.path = TRUE, !.object = "present"] \in JournalType
      BY <2>9 DEF JournalType, Effects
    <3>2. journal' = [journal EXCEPT ![r] = [journal[r] EXCEPT !.path = TRUE, !.object = "present"]]
      BY <2>3, <2>9 DEF MarkObject
    <3> QED
      BY <2>0, <3>1, <3>2
  <2>4. CASE MarkIndex(r)
    <3>1. [journal[r] EXCEPT !.file = TRUE, !.index = "present"] \in JournalType
      BY <2>9 DEF JournalType, Effects
    <3>2. journal' = [journal EXCEPT ![r] = [journal[r] EXCEPT !.file = TRUE, !.index = "present"]]
      BY <2>4, <2>9 DEF MarkIndex
    <3> QED
      BY <2>0, <3>1, <3>2
  <2>5. CASE Commit(r)
    <3>1. Resolved(journal[r].resolution) \in JournalType
      BY <2>9, ResolvedType DEF JournalType
    <3> QED
      BY <2>0, <2>5, <3>1 DEF Commit
  <2>6. CASE journal' = journal
    BY <2>6, <2>9 DEF JournalTypes
  <2> QED
    BY <2>1, <2>2, <2>3, <2>4, <2>5, <2>6
    DEF Claim, Prepare, CompleteDuplicate, SaveObject, InsertFile,
          FailCompletion, RemoveChunks, Throw, ThrowByFault, dbVars
<1>4. scan' = scan
  BY DEF Claim, Prepare, CompleteDuplicate, BeginJournal, SaveObject,
        JournalUncertain, MarkObject, InsertFile, MarkIndex, Commit, FailCompletion,
        RemoveChunks, Throw, ThrowByFault
<1>5. faults' \in 0..MaxFaults
  <2>1. faults' = faults \/ Fault
    BY DEF Claim, Prepare, CompleteDuplicate, BeginJournal, SaveObject,
        JournalUncertain, MarkObject, InsertFile, MarkIndex, Commit, FailCompletion,
        RemoveChunks, Throw, ThrowByFault, Faultless
  <2> QED
    BY <1>a, <2>1, ConstantsAssumption DEF FlatTypes, Fault
<1>6. chunks' \subseteq chunks /\ object' \subseteq object \cup {r} /\ row' \subseteq row \cup {r}
  BY DEF Claim, Prepare, CompleteDuplicate, BeginJournal, SaveObject,
        JournalUncertain, MarkObject, InsertFile, MarkIndex, Commit, FailCompletion,
        RemoveChunks, Throw, ThrowByFault, dbVars
<1>7. overlapped' = overlapped /\ unsure' \subseteq unsure \cup {r}
  <2>1. CASE InsertFile(r) \/ Commit(r)
    BY <2>1 DEF InsertFile, Commit
  <2>2. CASE history' = history
    BY <2>2 DEF history
  <2> QED
    BY <2>1, <2>2 DEF Claim, Prepare, CompleteDuplicate, BeginJournal, SaveObject,
        JournalUncertain, MarkObject, MarkIndex, FailCompletion,
        RemoveChunks, Throw, ThrowByFault, history
<1>8. ScanTypes' /\ FlatTypes'
  BY <1>a, <1>4, <1>5, <1>6, <1>7 DEF ScanTypes, FlatTypes
<1>9. (SessionTypes /\ JournalTypes /\ HandlerTypes /\ ScanTypes /\ FlatTypes)' => TypeOK'
  BY DEF TypeOK, SessionTypes, JournalTypes, HandlerTypes, ScanTypes, FlatTypes
<1> QED
  BY <1>1, <1>2, <1>3, <1>8, <1>9

(* The heartbeat and the compensation of a handler.                        *)
LEMMA HandlerUndoTypes ==
  ASSUME TypeOK, NEW r \in Requests,
         Renew(r) \/ UndoObject(r) \/ UndoIndex(r) \/ PersistUndo(r)
  PROVE  TypeOK'
<1>0. UploadOf[r] \in Uploads
  BY ConstantsAssumption
<1>a. SessionTypes /\ JournalTypes /\ HandlerTypes /\ ScanTypes /\ FlatTypes
  BY TypeParts
<1>b. handler \in [Requests -> HandlerType] /\ handler[r] \in HandlerType
  BY <1>a DEF HandlerTypes
<1>c. journal \in [Requests -> JournalType] /\ journal[r] \in JournalType
  BY <1>a DEF JournalTypes
<1>d. ASSUME NEW record \in HandlerType, handler' = [handler EXCEPT ![r] = record]
      PROVE  HandlerTypes'
  BY <1>b, <1>d DEF HandlerTypes
<1>1. CASE Renew(r)
  <2>1. SessionTypes'
    <3>1. CASE session' = [session EXCEPT ![UploadOf[r]].leaseExpired = FALSE]
      BY <1>0, <3>1, <1>a DEF SessionTypes, SessionType
    <3>2. CASE session' = session
      BY <3>2, <1>a DEF SessionTypes
    <3> QED
      BY <1>1, <3>1, <3>2 DEF Renew
  <2>2. HandlerTypes'
    <3>1. CASE handler' = handler
      BY <3>1, <1>b DEF HandlerTypes
    <3>2. CASE handler' = [handler EXCEPT ![r].leaseLost = TRUE]
      BY <3>2, <1>b DEF HandlerTypes, HandlerType
    <3> QED
      BY <1>1, <3>1, <3>2 DEF Renew
  <2>3. faults' = faults \/ Fault
    BY <1>1 DEF Renew, Faultless
  <2>4. UNCHANGED << journal, chunks, object, row, scan, overlapped, unsure >>
    BY <1>1 DEF Renew, history
  <2>5. FlatTypes'
    BY <2>3, <2>4, <1>a, ConstantsAssumption DEF FlatTypes, Fault
  <2> QED
    BY <2>1, <2>2, <2>4, <2>5, <1>a
    DEF TypeOK, SessionTypes, JournalTypes, HandlerTypes, ScanTypes, FlatTypes
<1>2. CASE UndoObject(r)
  <2>1. PICK outcome \in {"deleted", "unknown"} :
          /\ object' \in {object, object \ {r}}
          /\ faults' = faults \/ Fault
          /\ handler' = [handler EXCEPT ![r].pc = "undo_index", ![r].object = outcome]
    BY <1>2 DEF UndoObject, Faultless
  <2>2. [handler[r] EXCEPT !.pc = "undo_index", !.object = outcome] \in HandlerType
    BY <1>b DEF HandlerType, Effects, Labels
  <2>3. handler' = [handler EXCEPT ![r] = [handler[r] EXCEPT !.pc = "undo_index", !.object = outcome]]
    BY <2>1, <1>b
  <2>4. HandlerTypes'
    BY <2>2, <2>3, <1>d
  <2>5. UNCHANGED << session, journal, row, chunks, scan, overlapped, unsure >>
    BY <1>2 DEF UndoObject, dbVars, history
  <2>6. FlatTypes'
    BY <2>1, <2>5, <1>a, ConstantsAssumption DEF FlatTypes, Fault
  <2> QED
    BY <2>4, <2>5, <2>6, <1>a
    DEF TypeOK, SessionTypes, JournalTypes, HandlerTypes, ScanTypes, FlatTypes
<1>3. CASE UndoIndex(r)
  <2>1. \/ DeleteRow(r)
        \/ UNCHANGED << row, session >>
    BY <1>3 DEF UndoIndex
  <2>2. SessionTypes' /\ row' \subseteq row
    <3>1. CASE DeleteRow(r)
      BY <3>1, <1>a, DeleteRowTypes
    <3>2. CASE UNCHANGED << row, session >>
      BY <3>2, <1>a DEF SessionTypes
    <3> QED
      BY <2>1, <3>1, <3>2
  <2>3. PICK outcome \in {"deleted", "unknown"} :
          handler' = [handler EXCEPT ![r].pc = "undo_persist", ![r].index = outcome]
    BY <1>3 DEF UndoIndex
  <2>4. [handler[r] EXCEPT !.pc = "undo_persist", !.index = outcome] \in HandlerType
    BY <1>b DEF HandlerType, Effects, Labels
  <2>5. handler' = [handler EXCEPT ![r] = [handler[r] EXCEPT !.pc = "undo_persist", !.index = outcome]]
    BY <2>3, <1>b
  <2>6. HandlerTypes'
    BY <2>4, <2>5, <1>d
  <2>7. UNCHANGED << journal, chunks, object, scan, overlapped, unsure >>
    BY <1>3 DEF UndoIndex, history
  <2>8. faults' = faults \/ Fault
    BY <1>3 DEF UndoIndex, Faultless
  <2>9. FlatTypes'
    BY <2>2, <2>7, <2>8, <1>a, ConstantsAssumption DEF FlatTypes, Fault
  <2> QED
    BY <2>2, <2>6, <2>7, <2>9, <1>a
    DEF TypeOK, SessionTypes, JournalTypes, HandlerTypes, ScanTypes, FlatTypes
<1>4. CASE PersistUndo(r)
  <2>1. HandlerTypes'
    BY <1>4, <1>a, GotoTypes, LabelsOfSteps DEF PersistUndo
  <2>2. Resolved(journal[r].resolution) \in JournalType
    BY <1>c, ResolvedType DEF JournalType
  <2>3. handler[r].object \in Effects /\ handler[r].index \in Effects
    BY <1>b DEF HandlerType
  <2>4. [journal[r] EXCEPT !.object = handler[r].object, !.index = handler[r].index] \in JournalType
    BY <2>3, <1>c DEF JournalType
  <2>5. PICK record \in JournalType : journal' = [journal EXCEPT ![r] = record]
    BY <1>4, <2>2, <2>4, <1>c DEF PersistUndo
  <2>6. JournalTypes'
    BY <2>5, <1>c DEF JournalTypes
  <2>7. UNCHANGED << session, chunks, object, row, scan, overlapped, unsure, faults >>
    BY <1>4 DEF PersistUndo, history
  <2> QED
    BY <2>1, <2>6, <2>7, <1>a
    DEF TypeOK, SessionTypes, JournalTypes, HandlerTypes, ScanTypes, FlatTypes
<1> QED
  BY <1>1, <1>2, <1>3, <1>4

(* The client, the clock and a crash.                                      *)
LEMMA EnvironmentTypes ==
  ASSUME TypeOK,
         \/ \E u \in Uploads : Retry(u) \/ Cancel(u) \/ ExpireSession(u) \/ ExpireCompletion(u)
         \/ \E r \in Requests : ExpireJournalLease(r)
         \/ Crash
  PROVE  TypeOK'
<1>a. SessionTypes /\ JournalTypes /\ HandlerTypes /\ ScanTypes /\ FlatTypes
  BY TypeParts
<1>1. ASSUME NEW u \in Uploads,
             Retry(u) \/ Cancel(u) \/ ExpireSession(u) \/ ExpireCompletion(u)
      PROVE  TypeOK'
  <2>1. SessionTypes'
    <3>1. CASE Retry(u)
      BY <3>1, <1>a DEF Retry, SessionTypes, SessionType
    <3>2. CASE Cancel(u)
      <4>1. session' = [session EXCEPT ![u] = [session[u] EXCEPT !.status = "cancelled", !.token = None]]
        BY <3>2, <1>a DEF Cancel, SessionTypes
      <4>2. [session[u] EXCEPT !.status = "cancelled", !.token = None] \in SessionType
        BY <1>a DEF SessionTypes, SessionType
      <4> QED
        BY <4>1, <4>2, <1>a DEF SessionTypes
    <3>3. CASE ExpireSession(u)
      BY <3>3, <1>a DEF ExpireSession, SessionTypes, SessionType
    <3>4. CASE ExpireCompletion(u)
      BY <3>4, <1>a DEF ExpireCompletion, SessionTypes, SessionType
    <3> QED
      BY <1>1, <3>1, <3>2, <3>3, <3>4
  <2>2. UNCHANGED << journal, object, row, handler, scan, overlapped, unsure >>
    BY <1>1 DEF Retry, Cancel, ExpireSession, ExpireCompletion, history
  <2>3. chunks' \subseteq chunks /\ (faults' = faults \/ Fault)
    BY <1>1 DEF Retry, Cancel, ExpireSession, ExpireCompletion, Faultless
  <2>4. FlatTypes'
    BY <2>2, <2>3, <1>a, ConstantsAssumption DEF FlatTypes, Fault
  <2> QED
    BY <2>1, <2>2, <2>4, <1>a
    DEF TypeOK, SessionTypes, JournalTypes, HandlerTypes, ScanTypes, FlatTypes
<1>2. ASSUME NEW r \in Requests, ExpireJournalLease(r) PROVE TypeOK'
  <2>1. JournalTypes'
    BY <1>2, <1>a DEF ExpireJournalLease, JournalTypes, JournalType
  <2>2. UNCHANGED << session, chunks, object, row, handler, scan, overlapped, unsure, faults >>
    BY <1>2 DEF ExpireJournalLease, history
  <2> QED
    BY <2>1, <2>2, <1>a
    DEF TypeOK, SessionTypes, JournalTypes, HandlerTypes, ScanTypes, FlatTypes
<1>3. ASSUME Crash PROVE TypeOK'
  <2>1. HandlerTypes'
    <3>1. Handler("over") \in HandlerType
      BY DEF Handler, HandlerType, Labels, Effects
    <3> QED
      BY <1>3, <3>1, <1>a DEF Crash, HandlerTypes
  <2>2. ScanTypes'
    BY <1>3, IdleScanType DEF Crash, ScanTypes
  <2>3. UNCHANGED << session, journal, row, chunks, object, overlapped, unsure >>
    BY <1>3 DEF Crash, dbVars, history
  <2>4. FlatTypes'
    BY <1>3, <2>3, <1>a, ConstantsAssumption DEF FlatTypes, Fault, Crash
  <2> QED
    BY <2>1, <2>2, <2>3, <2>4, <1>a
    DEF TypeOK, SessionTypes, JournalTypes, HandlerTypes, ScanTypes, FlatTypes
<1> QED
  BY <1>1, <1>2, <1>3

(* The maintenance runs: journal rows in a new lease state keep their type.*)
LEMMA ScanStepTypes ==
  ASSUME TypeOK, NEW s \in Scans, ScanStep(s) \/ ScanError(s)
  PROVE  TypeOK'
<1>a. SessionTypes /\ JournalTypes /\ HandlerTypes /\ ScanTypes /\ FlatTypes
  BY TypeParts
<1>b. scan \in [Scans -> ScanType] /\ scan[s] \in ScanType
  BY <1>a DEF ScanTypes
<1>c. journal \in [Requests -> JournalType]
  BY <1>a DEF JournalTypes
<1>d. ASSUME NEW record \in ScanType, scan' = [scan EXCEPT ![s] = record]
      PROVE  ScanTypes'
  BY <1>b, <1>d DEF ScanTypes
<1>e. ASSUME NEW r \in Requests, NEW record \in JournalType,
             journal' = [journal EXCEPT ![r] = record]
      PROVE  JournalTypes'
  BY <1>c, <1>e DEF JournalTypes
<1>f. ASSUME NEW r \in Requests
      PROVE  [journal[r] EXCEPT !.leaseExpired = FALSE] \in JournalType
  BY <1>c DEF JournalType
<1>g. ASSUME scan[s].pc \in {"object", "own", "index", "persist"},
             NEW place \in {"object", "own", "index", "persist"}, NEW effect \in Effects
      PROVE  /\ [scan[s] EXCEPT !.object = effect, !.pc = place] \in ScanType
             /\ [scan[s] EXCEPT !.index = effect, !.pc = place] \in ScanType
             /\ [scan[s] EXCEPT !.pc = place] \in ScanType
  BY <1>b DEF ScanType
<1>1. CASE ScanClaim(s)
  <2> DEFINE claimed == {r \in Requests : Claimable(r)}
             snap == [r \in Requests |-> IF r \in claimed THEN Snapshot(r) ELSE NoSnap]
  <2>1. snap \in [Requests -> SnapType]
    <3>1. NoSnap \in SnapType
      BY DEF NoSnap, SnapType, Effects
    <3> QED
      BY <3>1, <1>a, SnapshotType
  <2>2. Batch(claimed, snap) \in ScanType
    BY <2>1 DEF Batch, ScanType, Effects
  <2>3. ScanTypes'
    BY <2>2, <1>1, <1>d DEF ScanClaim
  <2>4. JournalTypes'
    <3>1. \A r \in Requests : [journal[r] EXCEPT !.lease = s, !.leaseExpired = FALSE] \in JournalType
      BY <1>c DEF JournalType
    <3> QED
      BY <3>1, <1>1, <1>c DEF ScanClaim, JournalTypes
  <2>5. UNCHANGED << session, chunks, object, row, handler, unsure, faults >>
    BY <1>1 DEF ScanClaim
  <2>6. overlapped' \subseteq Requests
    BY <1>1, <1>a DEF ScanClaim, FlatTypes
  <2> QED
    BY <2>3, <2>4, <2>5, <2>6, <1>a
    DEF TypeOK, SessionTypes, HandlerTypes, JournalTypes, ScanTypes, FlatTypes
<1>2. ASSUME NEW r \in Requests, ScanSettle(s, r) PROVE TypeOK'
  <2>1. ScanTypes'
    BY <1>2, <1>a, DoneTypes DEF ScanSettle
  <2>2. JournalTypes'
    <3>1. CASE journal' = journal
      BY <3>1, <1>c DEF JournalTypes
    <3>2. CASE journal' = [journal EXCEPT ![r] = Resolved("committed")]
      BY <3>2, <1>e, ResolvedType
    <3>3. CASE journal' = [journal EXCEPT ![r].resolution = "operator_required",
                              ![r].lease = None, ![r].leaseExpired = FALSE]
      <4>1. [journal[r] EXCEPT !.resolution = "operator_required",
                               !.lease = None, !.leaseExpired = FALSE] \in JournalType
        BY <1>c DEF JournalType
      <4>2. journal' = [journal EXCEPT ![r] = [journal[r] EXCEPT
               !.resolution = "operator_required", !.lease = None, !.leaseExpired = FALSE]]
        BY <3>3, <1>c
      <4> QED
        BY <4>1, <4>2, <1>e
    <3> QED
      BY <1>2, <3>1, <3>2, <3>3 DEF ScanSettle
  <2>3. UNCHANGED << session, chunks, object, row, handler, overlapped, unsure, faults >>
    BY <1>2 DEF ScanSettle, history
  <2> QED
    BY <2>1, <2>2, <2>3, <1>a
    DEF TypeOK, SessionTypes, HandlerTypes, JournalTypes, ScanTypes, FlatTypes
<1>3. ASSUME NEW r \in Requests, ScanTake(s, r) PROVE TypeOK'
  <2>1. CASE Owns(s, r)
    <3>1. journal' = [journal EXCEPT ![r].leaseExpired = FALSE]
      BY <1>3, <2>1 DEF ScanTake
    <3>2. JournalTypes'
      BY <3>1, <1>c, <1>e, <1>f
    <3>3. PICK place \in {"object", "own"} :
            scan' = [scan EXCEPT ![s].pc = place, ![s].at = r,
                        ![s].object = scan[s].snap[r].object,
                        ![s].index = scan[s].snap[r].index]
      BY <1>3, <2>1 DEF ScanTake
    <3>4. scan[s].snap[r].object \in Effects /\ scan[s].snap[r].index \in Effects
      BY <1>b DEF ScanType, SnapType
    <3>5. [scan[s] EXCEPT !.pc = place, !.at = r, !.object = scan[s].snap[r].object,
                          !.index = scan[s].snap[r].index] \in ScanType
      BY <1>b, <3>4 DEF ScanType
    <3>6. scan' = [scan EXCEPT ![s] =
             [scan[s] EXCEPT !.pc = place, !.at = r, !.object = scan[s].snap[r].object,
                             !.index = scan[s].snap[r].index]]
      BY <3>3, <1>b
    <3>7. ScanTypes'
      BY <3>5, <3>6, <1>d
    <3> QED
      BY <1>3, <3>2, <3>7, <1>a
      DEF ScanTake, history, TypeOK, SessionTypes, HandlerTypes, JournalTypes, ScanTypes, FlatTypes
  <2>2. CASE ~Owns(s, r)
    <3>1. journal' = journal /\ scan' = Done(s, r)
      BY <1>3, <2>2 DEF ScanTake
    <3>2. ScanTypes'
      BY <3>1, <1>a, DoneTypes
    <3> QED
      BY <1>3, <3>1, <3>2, <1>a
      DEF ScanTake, history, TypeOK, SessionTypes, HandlerTypes, JournalTypes, ScanTypes, FlatTypes
  <2> QED
    BY <2>1, <2>2
<1>4. CASE ScanDeleteObject(s)
  <2>1. PICK effect \in {"deleted", "unknown"} :
          scan' = [scan EXCEPT ![s].object = effect, ![s].pc = "own"]
    BY <1>4 DEF ScanDeleteObject
  <2>2. [scan[s] EXCEPT !.object = effect, !.pc = "own"] \in ScanType
    BY <1>4, <1>g DEF ScanDeleteObject, Effects
  <2>3. scan' = [scan EXCEPT ![s] = [scan[s] EXCEPT !.object = effect, !.pc = "own"]]
    BY <2>1, <1>b
  <2>4. ScanTypes'
    BY <2>2, <2>3, <1>d
  <2>5. object' \subseteq object /\ (faults' = faults \/ Fault)
    BY <1>4 DEF ScanDeleteObject, Faultless
  <2>6. UNCHANGED << session, journal, row, chunks, handler, overlapped, unsure >>
    BY <1>4 DEF ScanDeleteObject, dbVars, history
  <2>7. FlatTypes'
    BY <2>5, <2>6, <1>a, ConstantsAssumption DEF FlatTypes, Fault
  <2> QED
    BY <2>4, <2>6, <2>7, <1>a
    DEF TypeOK, SessionTypes, HandlerTypes, JournalTypes, ScanTypes, FlatTypes
<1>5. CASE ScanCheckLease(s)
  <2> DEFINE r == scan[s].at
  <2>1. JournalTypes'
    <3>1. CASE journal' = journal
      BY <3>1, <1>c DEF JournalTypes
    <3>2. CASE r = None /\ journal' = [journal EXCEPT ![r].leaseExpired = FALSE]
      BY <3>2, <1>c, ConstantsAssumption DEF JournalTypes
    <3>3. CASE r # None /\ journal' = [journal EXCEPT ![r].leaseExpired = FALSE]
      <4>1. r \in Requests
        BY <3>3, <1>b DEF ScanType
      <4>2. PICK q \in Requests : journal' = [journal EXCEPT ![q].leaseExpired = FALSE]
        BY <3>3, <4>1
      <4> QED
        BY <4>2, <1>c, <1>e, <1>f
    <3> QED
      BY <1>5, <3>1, <3>2, <3>3 DEF ScanCheckLease, CheckLease
  <2>2. ScanTypes'
    <3>1. CASE scan' = Done(s, r)
      BY <3>1, <1>a, DoneTypes
    <3>2. CASE scan' = [scan EXCEPT ![s].pc = "index", ![s].at = r]
      <4>1. scan' = [scan EXCEPT ![s] = [scan[s] EXCEPT !.pc = "index"]]
        BY <3>2, <1>b DEF ScanType
      <4>2. [scan[s] EXCEPT !.pc = "index"] \in ScanType
        BY <1>5, <1>g DEF ScanCheckLease, Effects
      <4> QED
        BY <4>1, <4>2, <1>d
    <3> QED
      BY <1>5, <3>1, <3>2 DEF ScanCheckLease, CheckLease
  <2>3. UNCHANGED << session, chunks, object, row, handler, overlapped, unsure, faults >>
    BY <1>5 DEF ScanCheckLease, history
  <2> QED
    BY <2>1, <2>2, <2>3, <1>a
    DEF TypeOK, SessionTypes, HandlerTypes, JournalTypes, ScanTypes, FlatTypes
<1>6. CASE ScanDeleteIndex(s)
  <2>1. SessionTypes' /\ row' \subseteq row
    <3>1. DeleteRow(scan[s].at) \/ UNCHANGED << row, session >>
      BY <1>6 DEF ScanDeleteIndex
    <3>2. CASE DeleteRow(scan[s].at)
      BY <3>2, <1>a, DeleteRowTypes
    <3>3. CASE UNCHANGED << row, session >>
      BY <3>3, <1>a DEF SessionTypes
    <3> QED
      BY <3>1, <3>2, <3>3
  <2>2. ScanTypes'
    <3>1. CASE scan' = [scan EXCEPT ![s].pc = "persist"]
      BY <3>1, <1>6, <1>b, <1>d, <1>g DEF ScanDeleteIndex, Effects
    <3>2. ASSUME NEW effect \in Effects,
                 scan' = [scan EXCEPT ![s].index = effect, ![s].pc = "persist"]
          PROVE  ScanTypes'
      <4>1. scan' = [scan EXCEPT ![s] = [scan[s] EXCEPT !.index = effect, !.pc = "persist"]]
        BY <3>2, <1>b
      <4>2. [scan[s] EXCEPT !.index = effect, !.pc = "persist"] \in ScanType
        BY <1>6, <1>g DEF ScanDeleteIndex
      <4> QED
        BY <4>1, <4>2, <1>d
    <3> QED
      BY <1>6, <3>1, <3>2 DEF ScanDeleteIndex, Effects
  <2>3. UNCHANGED << journal, chunks, object, handler, overlapped, unsure >>
    BY <1>6 DEF ScanDeleteIndex, history
  <2>4. faults' = faults \/ Fault
    BY <1>6 DEF ScanDeleteIndex, Faultless
  <2>5. FlatTypes'
    BY <2>1, <2>3, <2>4, <1>a, ConstantsAssumption DEF FlatTypes, Fault
  <2> QED
    BY <2>1, <2>2, <2>3, <2>5, <1>a
    DEF TypeOK, SessionTypes, HandlerTypes, JournalTypes, ScanTypes, FlatTypes
<1>7. CASE ScanPersist(s)
  <2> DEFINE r == scan[s].at
  <2>1. ScanTypes'
    BY <1>7, <1>a, DoneTypes DEF ScanPersist
  <2>2. scan[s].object \in Effects /\ scan[s].index \in Effects
    BY <1>b DEF ScanType
  <2>3. ASSUME NEW q \in Requests
        PROVE  [journal[q] EXCEPT !.object = scan[s].object, !.index = scan[s].index,
                                  !.lease = None, !.leaseExpired = FALSE] \in JournalType
    BY <2>2, <1>c DEF JournalType
  <2>4. JournalTypes'
    <3>1. CASE journal' = journal
      BY <3>1, <1>c DEF JournalTypes
    <3>2. CASE journal' # journal
      <4>1. r \in Requests
        BY <3>2, <1>7, <1>b, <1>c, ConstantsAssumption DEF ScanPersist, ScanType
      <4>2. PICK record \in JournalType : journal' = [journal EXCEPT ![r] = record]
        BY <3>2, <1>7, <4>1, <2>3, <1>c, ResolvedType DEF ScanPersist
      <4> QED
        BY <4>1, <4>2, <1>c DEF JournalTypes
    <3> QED
      BY <3>1, <3>2
  <2>5. UNCHANGED << session, chunks, object, row, handler, overlapped, unsure, faults >>
    BY <1>7 DEF ScanPersist, history
  <2> QED
    BY <2>1, <2>4, <2>5, <1>a
    DEF TypeOK, SessionTypes, HandlerTypes, JournalTypes, ScanTypes, FlatTypes
<1>8. CASE ScanDeleteExpired(s)
  <2>1. SessionTypes'
    <3>1. \A u \in Uploads : [session[u] EXCEPT !.status = "gone"] \in SessionType
      BY <1>a DEF SessionTypes, SessionType
    <3> QED
      BY <3>1, <1>8, <1>a DEF ScanDeleteExpired, SessionTypes
  <2>2. JournalTypes'
    <3>1. NoJournal \in JournalType
      BY DEF NoJournal, JournalType, Effects
    <3> QED
      BY <3>1, <1>8, <1>c DEF ScanDeleteExpired, JournalTypes
  <2>3. ScanTypes'
    <3>1. [scan[s] EXCEPT !.pc = "recover"] \in ScanType
      BY <1>b DEF ScanType
    <3> QED
      BY <3>1, <1>8, <1>b, <1>d DEF ScanDeleteExpired
  <2>4. chunks' \subseteq chunks /\ (faults' = faults \/ Fault)
    BY <1>8 DEF ScanDeleteExpired, Faultless
  <2>5. UNCHANGED << object, row, handler, overlapped, unsure >>
    BY <1>8 DEF ScanDeleteExpired, history
  <2>6. FlatTypes'
    BY <2>4, <2>5, <1>a, ConstantsAssumption DEF FlatTypes, Fault
  <2> QED
    BY <2>1, <2>2, <2>3, <2>5, <2>6, <1>a
    DEF TypeOK, SessionTypes, HandlerTypes, JournalTypes, ScanTypes, FlatTypes
<1>9. CASE ScanRecoverExpired(s)
  <2>1. SessionTypes'
    <3>1. \A u \in Uploads : [session[u] EXCEPT !.status = "failed", !.token = None,
                                                 !.leaseExpired = FALSE] \in SessionType
      BY <1>a DEF SessionTypes, SessionType
    <3> QED
      BY <3>1, <1>9, <1>a DEF ScanRecoverExpired, SessionTypes
  <2>2. ScanTypes'
    BY <1>9, <1>d, IdleScanType DEF ScanRecoverExpired
  <2>3. UNCHANGED << journal, chunks, object, row, handler, overlapped, unsure, faults >>
    BY <1>9 DEF ScanRecoverExpired, history
  <2> QED
    BY <2>1, <2>2, <2>3, <1>a
    DEF TypeOK, SessionTypes, HandlerTypes, JournalTypes, ScanTypes, FlatTypes
<1>10. CASE ScanError(s)
  <2>1. ScanTypes'
    <3>1. ASSUME NEW r, scan' = Done(s, r) PROVE ScanTypes'
      BY <3>1, <1>a, DoneTypes
    <3>2. CASE scan' = [scan EXCEPT ![s] = IdleScan]
      BY <3>2, <1>d, IdleScanType
    <3> QED
      BY <1>10, <3>1, <3>2 DEF ScanError
  <2>2. UNCHANGED << session, journal, row, chunks, object, handler, overlapped, unsure >>
    BY <1>10 DEF ScanError, dbVars, history
  <2>3. FlatTypes'
    BY <2>2, <1>10, <1>a, ConstantsAssumption DEF FlatTypes, Fault, ScanError
  <2> QED
    BY <2>1, <2>2, <2>3, <1>a
    DEF TypeOK, SessionTypes, HandlerTypes, JournalTypes, ScanTypes, FlatTypes
<1> QED
  BY <1>1, <1>2, <1>3, <1>4, <1>5, <1>6, <1>7, <1>8, <1>9, <1>10 DEF ScanStep

(* The rows, handlers and maintenance runs of chunked completion keep      *)
(* their types, for every number of uploads, attempts, runs and faults.    *)
THEOREM TypeCorrect == Spec => []TypeOK
<1>1. Init => TypeOK
  <2>1. NoJournal \in JournalType
    BY DEF NoJournal, JournalType, Effects
  <2>2. Handler("idle") \in HandlerType
    BY DEF Handler, HandlerType, Labels, Effects
  <2>3. [status |-> "open", token |-> None, expired |-> FALSE,
         leaseExpired |-> FALSE, file |-> None] \in SessionType
    BY DEF SessionType
  <2> QED
    BY <2>1, <2>2, <2>3, IdleScanType, ConstantsAssumption DEF Init, TypeOK
<1>2. TypeOK /\ [Next]_vars => TypeOK'
  <2> SUFFICES ASSUME TypeOK, [Next]_vars PROVE TypeOK'
    OBVIOUS
  <2>1. ASSUME NEW r \in Requests,
               Claim(r) \/ Renew(r) \/ HandlerStep(r) \/ ThrowByFault(r)
        PROVE  TypeOK'
    BY <2>1, HandlerStepTypes, HandlerUndoTypes DEF HandlerStep
  <2>2. ASSUME NEW s \in Scans, ScanStep(s) \/ ScanError(s) PROVE TypeOK'
    BY <2>2, ScanStepTypes
  <2>3. CASE UNCHANGED vars
    BY <2>3 DEF vars, TypeOK
  <2> QED
    BY <2>1, <2>2, <2>3, EnvironmentTypes DEF Next
<1> QED
  BY <1>1, <1>2, PTL DEF Spec
-----------------------------------------------------------------------------
(***************************************************************************)
(* The session rows: an upload is decided once, a handler without its      *)
(* token changes nothing, and the chunks stay as long as they may be       *)
(* needed.                                                                 *)
(***************************************************************************)

SameStatus(u) == session'[u].status = session[u].status
SameToken(u) == session'[u].token = session[u].token
SameFile(u) == session'[u].file = session[u].file

\* Everything a step can do to the status, the token and the file of a row.
Ticks(u) == SameStatus(u) /\ SameToken(u) /\ SameFile(u)
IsClaimed(u) ==
    session[u].status = "open" /\ session'[u].status = "completing" /\ SameFile(u)
IsStored(u) ==
    /\ session[u].status = "completing" /\ session'[u].status = "completed"
    /\ SameToken(u) /\ session'[u].file \in {session[u].token, Duplicate}
IsUnlinked(u) ==
    SameStatus(u) /\ SameToken(u) /\ session'[u].file = None
IsGivenUp(u) ==
    session[u].status = "completing" /\ session'[u].status = "failed" /\ SameFile(u)
IsReopened(u) ==
    session[u].status = "failed" /\ session'[u].status = "open" /\ SameFile(u)
IsCancelled(u) ==
    session[u].status \in {"open", "failed"} /\ session'[u].status = "cancelled" /\ SameFile(u)
IsDeleted(u) == Expired(u) /\ session'[u].status = "gone" /\ SameFile(u)
Moves(u) ==
    \/ Ticks(u) \/ IsClaimed(u) \/ IsStored(u) \/ IsUnlinked(u) \/ IsGivenUp(u)
    \/ IsReopened(u) \/ IsCancelled(u) \/ IsDeleted(u)

LEMMA DeleteRowMoves ==
  ASSUME SessionTypes, NEW r, DeleteRow(r), NEW u \in Uploads
  PROVE  Ticks(u) \/ IsUnlinked(u)
<1>1. session'[u] = session[u] \/ session'[u] = [session[u] EXCEPT !.file = None]
  BY DEF DeleteRow
<1> QED
  BY <1>1 DEF Ticks, IsUnlinked, SameStatus, SameToken, SameFile, SessionTypes, SessionType

(* The handlers move the rows along.                                       *)
LEMMA HandlerMoves ==
  ASSUME SessionTypes, NEW r \in Requests, NEW u \in Uploads,
         Claim(r) \/ Renew(r) \/ HandlerStep(r) \/ ThrowByFault(r)
  PROVE  Moves(u)
<1>0. UploadOf[r] \in Uploads
  BY ConstantsAssumption
<1>1. ASSUME UNCHANGED session PROVE Moves(u)
  BY <1>1 DEF Moves, Ticks, SameStatus, SameToken, SameFile
<1>2. CASE Claim(r)
  <2>1. IsClaimed(u) \/ Ticks(u)
    BY <1>0, <1>2 DEF Claim, SessionTypes, SessionType, IsClaimed, Ticks, SameStatus, SameToken, SameFile
  <2> QED
    BY <2>1 DEF Moves
<1>3. CASE Renew(r)
  <2>1. session' = [session EXCEPT ![UploadOf[r]].leaseExpired = FALSE] \/ UNCHANGED session
    BY <1>3 DEF Renew
  <2>2. Ticks(u)
    BY <1>0, <2>1 DEF SessionTypes, SessionType, Ticks, SameStatus, SameToken, SameFile
  <2> QED
    BY <2>2 DEF Moves
<1>4. CASE CompleteDuplicate(r)
  <2>1. IsStored(u) \/ Ticks(u)
    BY <1>0, <1>4 DEF CompleteDuplicate, HoldsToken, SessionTypes, SessionType, IsStored, Ticks,
                      SameStatus, SameToken, SameFile
  <2> QED
    BY <2>1 DEF Moves
<1>5. CASE Commit(r)
  <2>1. /\ HoldsToken(r)
        /\ session' = [session EXCEPT ![UploadOf[r]].status = "completed",
                                      ![UploadOf[r]].leaseExpired = FALSE,
                                      ![UploadOf[r]].file = r]
    BY <1>5 DEF Commit, CanCommit
  <2>2. IsStored(u) \/ Ticks(u)
    BY <1>0, <2>1 DEF HoldsToken, SessionTypes, SessionType, IsStored, Ticks,
                      SameStatus, SameToken, SameFile
  <2> QED
    BY <2>2 DEF Moves
<1>6. CASE UndoIndex(r)
  <2>1. DeleteRow(r) \/ UNCHANGED session
    BY <1>6 DEF UndoIndex
  <2> QED
    BY <1>1, <2>1, DeleteRowMoves DEF Moves
<1>7. CASE FailCompletion(r)
  <2>1. IsGivenUp(u) \/ Ticks(u)
    BY <1>0, <1>7 DEF FailCompletion, HoldsToken, SessionTypes, SessionType, IsGivenUp, Ticks,
                      SameStatus, SameToken, SameFile
  <2> QED
    BY <2>1 DEF Moves
<1>8. CASE \/ Prepare(r) \/ BeginJournal(r) \/ SaveObject(r) \/ JournalUncertain(r)
           \/ MarkObject(r) \/ InsertFile(r) \/ MarkIndex(r) \/ UndoObject(r)
           \/ PersistUndo(r) \/ RemoveChunks(r) \/ Throw(r) \/ ThrowByFault(r)
  <2>1. UNCHANGED session
    BY <1>8 DEF Prepare, BeginJournal, SaveObject, JournalUncertain, MarkObject, InsertFile,
                MarkIndex, UndoObject, PersistUndo, RemoveChunks, Throw, ThrowByFault, dbVars
  <2> QED
    BY <1>1, <2>1
<1> QED
  BY <1>2, <1>3, <1>4, <1>5, <1>6, <1>7, <1>8 DEF HandlerStep

(* So do the maintenance runs.                                             *)
LEMMA ScanMoves ==
  ASSUME SessionTypes, NEW s \in Scans, NEW u \in Uploads, ScanStep(s) \/ ScanError(s)
  PROVE  Moves(u)
<1>1. ASSUME UNCHANGED session PROVE Moves(u)
  BY <1>1 DEF Moves, Ticks, SameStatus, SameToken, SameFile
<1>2. CASE ScanDeleteIndex(s)
  <2>1. DeleteRow(scan[s].at) \/ UNCHANGED session
    BY <1>2 DEF ScanDeleteIndex
  <2> QED
    BY <1>1, <2>1, DeleteRowMoves DEF Moves
<1>3. CASE ScanDeleteExpired(s)
  <2>1. \/ session'[u] = session[u]
        \/ Expired(u) /\ session'[u] = [session[u] EXCEPT !.status = "gone"]
    BY <1>3 DEF ScanDeleteExpired
  <2>2. Ticks(u) \/ IsDeleted(u)
    BY <2>1 DEF SessionTypes, SessionType, Ticks, IsDeleted, SameStatus, SameToken, SameFile
  <2> QED
    BY <2>2 DEF Moves
<1>4. CASE ScanRecoverExpired(s)
  <2>1. \/ session'[u] = session[u]
        \/ /\ session[u].status = "completing"
           /\ session'[u] = [session[u] EXCEPT !.status = "failed", !.token = None,
                                               !.leaseExpired = FALSE]
    BY <1>4 DEF ScanRecoverExpired
  <2>2. Ticks(u) \/ IsGivenUp(u)
    BY <2>1 DEF SessionTypes, SessionType, Ticks, IsGivenUp, SameStatus, SameToken, SameFile
  <2> QED
    BY <2>2 DEF Moves
<1>5. CASE \/ ScanClaim(s) \/ ScanDeleteObject(s) \/ ScanCheckLease(s) \/ ScanPersist(s)
           \/ ScanError(s) \/ \E r \in Requests : ScanSettle(s, r) \/ ScanTake(s, r)
  <2>1. UNCHANGED session
    BY <1>5 DEF ScanClaim, ScanDeleteObject, ScanCheckLease, ScanPersist, ScanError,
                ScanSettle, ScanTake, dbVars
  <2> QED
    BY <1>1, <2>1
<1> QED
  BY <1>2, <1>3, <1>4, <1>5 DEF ScanStep

Environment ==
    \/ \E u \in Uploads : Retry(u) \/ Cancel(u) \/ ExpireSession(u) \/ ExpireCompletion(u)
    \/ \E r \in Requests : ExpireJournalLease(r)
    \/ Crash

LEMMA EnvironmentMoves ==
  ASSUME SessionTypes, NEW u \in Uploads, Environment
  PROVE  Moves(u)
<1>1. ASSUME NEW v \in Uploads, Retry(v) PROVE IsReopened(u) \/ Ticks(u)
  BY <1>1 DEF Retry, SessionTypes, SessionType, IsReopened, Ticks, SameStatus, SameToken, SameFile
<1>2. ASSUME NEW v \in Uploads, Cancel(v) PROVE IsCancelled(u) \/ Ticks(u)
  BY <1>2 DEF Cancel, SessionTypes, SessionType, IsCancelled, Ticks, SameStatus, SameToken, SameFile
<1>3. ASSUME NEW v \in Uploads, ExpireSession(v) \/ ExpireCompletion(v) PROVE Ticks(u)
  BY <1>3 DEF ExpireSession, ExpireCompletion, SessionTypes, SessionType, Ticks,
              SameStatus, SameToken, SameFile
<1>4. ASSUME Crash \/ \E r \in Requests : ExpireJournalLease(r) PROVE Ticks(u)
  BY <1>4 DEF Crash, ExpireJournalLease, dbVars, Ticks, SameStatus, SameToken, SameFile
<1> QED
  BY <1>1, <1>2, <1>3, <1>4 DEF Environment, Moves

(* No step does anything else to a session row.                            *)
LEMMA SessionMoves ==
  ASSUME TypeOK, [Next]_vars, NEW u \in Uploads
  PROVE  Moves(u)
<1>0. SessionTypes
  BY TypeParts
<1>1. CASE UNCHANGED vars
  BY <1>1 DEF vars, Moves, Ticks, SameStatus, SameToken, SameFile
<1>2. CASE Next
  BY <1>0, <1>2, HandlerMoves, ScanMoves, EnvironmentMoves DEF Next, Environment
<1> QED
  BY <1>1, <1>2

-----------------------------------------------------------------------------
(* The outcome of an upload is decided once.                               *)

LEMMA OutcomeStep ==
  ASSUME TypeOK, [Next]_vars, NEW u \in Uploads, Outcome[u] # "undecided"
  PROVE  Outcome'[u] = Outcome[u]
<1>1. /\ session[u].status = "completed" => session'[u].status = "completed"
      /\ session[u].status \in {"cancelled", "gone"} => session'[u].status \in {"cancelled", "gone"}
  BY SessionMoves DEF Moves, Ticks, IsClaimed, IsStored, IsUnlinked, IsGivenUp, IsReopened,
                      IsCancelled, IsDeleted, Expired, SameStatus
<1>2. session[u].status \in {"completed", "cancelled", "gone"}
  BY DEF Outcome
<1> QED
  BY <1>1, <1>2 DEF Outcome

(* Completion, recovery, retry, cancellation and expiry implement          *)
(* UploadOutcome: an upload is decided at most once, and for good.         *)
THEOREM OutcomesAreFinal == Spec => OutcomeIsFinal
<1>1. Init => Abstract!Init
  BY DEF Init, Abstract!Init, Outcome
<1>2. ASSUME TypeOK, [Next]_vars PROVE [Abstract!Next]_Outcome
  <2> DEFINE decided == {u \in Uploads : Outcome'[u] # Outcome[u]}
  <2>1. \A u \in decided : Outcome[u] = "undecided"
    BY <1>2, OutcomeStep
  <2>2. Outcome' \in [Uploads -> Abstract!Outcomes]
    BY DEF Outcome, Abstract!Outcomes
  <2>3. CASE decided # {}
    <3>1. Abstract!Decide(decided)
      BY <2>1, <2>2, <2>3 DEF Abstract!Decide
    <3> QED
      BY <3>1 DEF Abstract!Next
  <2>4. CASE decided = {}
    <3>1. \A u \in Uploads : Outcome'[u] = Outcome[u]
      BY <2>4
    <3> QED
      BY <3>1 DEF Outcome
  <2> QED
    BY <2>3, <2>4
<1> QED
  BY <1>1, <1>2, TypeCorrect, PTL DEF Spec, OutcomeIsFinal, Abstract!Spec

-----------------------------------------------------------------------------
(* The chunks of an upload, and the fencing of its handlers.               *)

\* Only a completed upload points to a file, and it keeps the token that won.
FileIsWon ==
    \A u \in Uploads :
        session[u].file \in Requests =>
            session[u].status = "completed" /\ session[u].token = session[u].file
\* A handler cleans up after the upload was completed.
CleanupIsLate ==
    \A r \in Requests : handler[r].pc = "cleanup" => session[UploadOf[r]].status = "completed"

LEMMA FileIsWonStep ==
  ASSUME TypeOK, FileIsWon, [Next]_vars
  PROVE  FileIsWon'
<1> SUFFICES ASSUME NEW u \in Uploads, session'[u].file \in Requests
             PROVE  session'[u].status = "completed" /\ session'[u].token = session'[u].file
  BY DEF FileIsWon
<1>1. Moves(u)
  BY SessionMoves
<1>2. /\ None \notin Requests /\ Duplicate \notin Requests
      /\ session[u].file \in Requests =>
            session[u].status = "completed" /\ session[u].token = session[u].file
  BY ConstantsAssumption DEF FileIsWon
<1> QED
  BY <1>1, <1>2 DEF Moves, Ticks, IsClaimed, IsStored, IsUnlinked, IsGivenUp, IsReopened,
                    IsCancelled, IsDeleted, Expired, SameStatus, SameToken, SameFile

LEMMA CompletedStays ==
  ASSUME TypeOK, [Next]_vars, NEW u \in Uploads, session[u].status = "completed"
  PROVE  session'[u].status = "completed"
  BY SessionMoves DEF Moves, Ticks, IsClaimed, IsStored, IsUnlinked, IsGivenUp, IsReopened,
                      IsCancelled, IsDeleted, Expired, SameStatus

(* Where the clean-up is entered from.                                     *)
LEMMA CleanupEntered ==
  ASSUME TypeOK, Next, NEW r \in Requests, handler'[r].pc = "cleanup", handler[r].pc # "cleanup"
  PROVE  CompleteDuplicate(r) \/ Commit(r)
<1>0. HandlerTypes
  BY TypeParts
<1>1. ASSUME NEW q \in Requests, NEW label, label # "cleanup", Goto(q, label)
      PROVE  FALSE
  <2>1. handler' = [handler EXCEPT ![q] = Handler(label)]
        \/ handler' = [handler EXCEPT ![q].pc = label]
    BY <1>1 DEF Goto
  <2> QED
    BY <1>0, <1>1, <2>1 DEF HandlerTypes, HandlerType, Handler
<1>2. ASSUME NEW q \in Requests, q # r, Goto(q, "cleanup")
      PROVE  FALSE
  BY <1>0, <1>2 DEF Goto, HandlerTypes, HandlerType
<1>3. ASSUME NEW q \in Requests, Throw(q) \/ ThrowByFault(q) PROVE FALSE
  <2>1. /\ handler[q].pc \in Fallible
        /\ Goto(q, OnError[handler[q].pc])
    BY <1>3 DEF Throw, ThrowByFault
  <2>2. ASSUME NEW label \in Fallible PROVE OnError[label] # "cleanup"
    <3>1. CASE label \in AfterSave
      BY <3>1 DEF OnError
    <3>2. CASE label \in {"fail", "cleanup"}
      BY <3>2 DEF OnError, AfterSave
    <3>3. CASE label \notin AfterSave /\ label \notin {"fail", "cleanup"}
      BY <3>3 DEF OnError
    <3> QED
      BY <3>1, <3>2, <3>3
  <2> QED
    BY <1>1, <2>1, <2>2
<1>4. ASSUME NEW q \in Requests,
             \/ Claim(q) \/ Prepare(q) \/ BeginJournal(q) \/ SaveObject(q) \/ JournalUncertain(q)
             \/ MarkObject(q) \/ MarkIndex(q) \/ PersistUndo(q) \/ FailCompletion(q) \/ RemoveChunks(q)
      PROVE  FALSE
  BY <1>1, <1>4 DEF Claim, Prepare, BeginJournal, SaveObject, JournalUncertain, MarkObject,
                    MarkIndex, PersistUndo, FailCompletion, RemoveChunks
<1>5. ASSUME NEW q \in Requests, Renew(q) \/ UndoObject(q) \/ UndoIndex(q) PROVE FALSE
  BY <1>0, <1>5 DEF Renew, UndoObject, UndoIndex, HandlerTypes, HandlerType
<1>6. ASSUME NEW q \in Requests, InsertFile(q) PROVE FALSE
  BY <1>0, <1>1, <1>6 DEF InsertFile, HandlerTypes, HandlerType
<1>7. ASSUME NEW q \in Requests, CompleteDuplicate(q) \/ Commit(q)
      PROVE  CompleteDuplicate(r) \/ Commit(r)
  BY <1>1, <1>2, <1>7 DEF CompleteDuplicate, Commit
<1>8. ASSUME NEW s \in Scans, ScanStep(s) \/ ScanError(s) PROVE FALSE
  <2>1. UNCHANGED handler
    BY <1>8 DEF ScanStep, ScanError, ScanClaim, ScanSettle, ScanTake, ScanDeleteObject,
                ScanCheckLease, ScanDeleteIndex, ScanPersist, ScanDeleteExpired, ScanRecoverExpired
  <2> QED
    BY <2>1
<1>9. ASSUME Environment PROVE FALSE
  <2>1. UNCHANGED handler \/ Crash
    BY <1>9 DEF Environment, Retry, Cancel, ExpireSession, ExpireCompletion, ExpireJournalLease
  <2> QED
    BY <1>0, <2>1 DEF Crash, Handler, HandlerTypes, HandlerType
<1> QED
  BY <1>3, <1>4, <1>5, <1>6, <1>7, <1>8, <1>9 DEF Next, HandlerStep, Environment

LEMMA CleanupIsLateStep ==
  ASSUME TypeOK, CleanupIsLate, [Next]_vars
  PROVE  CleanupIsLate'
<1> SUFFICES ASSUME NEW r \in Requests, handler'[r].pc = "cleanup"
             PROVE  session'[UploadOf[r]].status = "completed"
  BY DEF CleanupIsLate
<1>0. UploadOf[r] \in Uploads /\ SessionTypes
  BY ConstantsAssumption, TypeParts
<1>1. CASE handler[r].pc = "cleanup"
  BY <1>0, <1>1, CompletedStays DEF CleanupIsLate
<1>2. CASE CompleteDuplicate(r) \/ Commit(r)
  BY <1>0, <1>2 DEF CompleteDuplicate, Commit, SessionTypes, SessionType
<1>3. CASE UNCHANGED vars
  BY <1>1, <1>3 DEF vars
<1> QED
  BY <1>1, <1>2, <1>3, CleanupEntered

\* The states in which an upload may still be completed or retried.
NeedsChunks(u) == session[u].status \in {"open", "completing", "failed"}

LEMMA RetryableHasChunksStep ==
  ASSUME TypeOK, CleanupIsLate, RetryableHasChunks, [Next]_vars
  PROVE  RetryableHasChunks'
<1> SUFFICES ASSUME NEW u \in Uploads, NeedsChunks(u)'
             PROVE  u \in chunks'
  BY DEF RetryableHasChunks, NeedsChunks
<1>1. NeedsChunks(u)
  BY SessionMoves DEF NeedsChunks, Moves, Ticks, IsClaimed, IsStored, IsUnlinked, IsGivenUp,
                      IsReopened, IsCancelled, IsDeleted, Expired, SameStatus
<1>2. u \in chunks
  BY <1>1 DEF RetryableHasChunks, NeedsChunks
<1>3. ASSUME UNCHANGED chunks PROVE u \in chunks'
  BY <1>2, <1>3
<1>4. ASSUME NEW r \in Requests, RemoveChunks(r) PROVE u \in chunks'
  <2>1. session[UploadOf[r]].status = "completed" /\ chunks' = chunks \ {UploadOf[r]}
    BY <1>4 DEF RemoveChunks, CleanupIsLate
  <2> QED
    BY <1>1, <1>2, <2>1 DEF NeedsChunks
<1>5. ASSUME NEW v \in Uploads, Cancel(v) PROVE u \in chunks'
  <2>1. session' = [session EXCEPT ![v].status = "cancelled", ![v].token = None]
    BY <1>5 DEF Cancel
  <2>2. session'[v].status = "cancelled"
    BY <2>1, TypeParts DEF SessionTypes, SessionType
  <2>3. u # v
    BY <2>2 DEF NeedsChunks
  <2> QED
    BY <1>2, <1>5, <2>3 DEF Cancel
<1>6. ASSUME NEW s \in Scans, ScanDeleteExpired(s) PROVE u \in chunks'
  <2> DEFINE gone == {v \in Uploads : Expired(v)}
  <2>1. /\ session' = [v \in Uploads |-> IF v \in gone
                                         THEN [session[v] EXCEPT !.status = "gone"]
                                         ELSE session[v]]
        /\ chunks' = chunks \ gone \/ chunks' = chunks
    BY <1>6 DEF ScanDeleteExpired
  <2>2. ASSUME u \in gone PROVE FALSE
    <3>1. session'[u] = [session[u] EXCEPT !.status = "gone"]
      BY <2>1, <2>2
    <3>2. session'[u].status = "gone"
      BY <3>1, TypeParts DEF SessionTypes, SessionType
    <3> QED
      BY <3>2 DEF NeedsChunks
  <2> QED
    BY <1>2, <2>1, <2>2
<1>7. ASSUME NEW r \in Requests, Claim(r) \/ Renew(r) \/ HandlerStep(r) \/ ThrowByFault(r)
      PROVE  u \in chunks'
  <2>1. UNCHANGED chunks \/ RemoveChunks(r)
    BY <1>7 DEF HandlerStep, Claim, Renew, ThrowByFault, Prepare, CompleteDuplicate, BeginJournal,
                SaveObject, JournalUncertain, MarkObject, InsertFile, MarkIndex, Commit,
                UndoObject, UndoIndex, PersistUndo, FailCompletion, Throw
  <2> QED
    BY <1>3, <1>4, <2>1
<1>8. ASSUME NEW s \in Scans, ScanStep(s) \/ ScanError(s) PROVE u \in chunks'
  <2>1. UNCHANGED chunks \/ ScanDeleteExpired(s)
    BY <1>8 DEF ScanStep, ScanError, ScanClaim, ScanSettle, ScanTake, ScanDeleteObject,
                ScanCheckLease, ScanDeleteIndex, ScanPersist, ScanRecoverExpired
  <2> QED
    BY <1>3, <1>6, <2>1
<1>9. ASSUME Environment PROVE u \in chunks'
  <2>1. UNCHANGED chunks \/ \E v \in Uploads : Cancel(v)
    BY <1>9 DEF Environment, Retry, ExpireSession, ExpireCompletion, ExpireJournalLease, Crash
  <2> QED
    BY <1>3, <1>5, <2>1
<1>10. CASE UNCHANGED vars
  BY <1>3, <1>10 DEF vars
<1> QED
  BY <1>7, <1>8, <1>9, <1>10 DEF Next, Environment

(* An upload that may still be completed or retried has its chunks on disk,*)
(* because a handler removes them after its upload was completed, and a    *)
(* completed upload stays so.                                              *)
THEOREM ChunksAreKept == Spec => []RetryableHasChunks
<1>1. Init => FileIsWon /\ CleanupIsLate /\ RetryableHasChunks
  BY ConstantsAssumption DEF Init, FileIsWon, CleanupIsLate, RetryableHasChunks, Handler
<1>2. TypeOK /\ FileIsWon /\ CleanupIsLate /\ RetryableHasChunks /\ [Next]_vars
      => FileIsWon' /\ CleanupIsLate' /\ RetryableHasChunks'
  BY FileIsWonStep, CleanupIsLateStep, RetryableHasChunksStep
<1> QED
  BY <1>1, <1>2, TypeCorrect, PTL DEF Spec

\* One step of FencedByToken.
Fenced(r) ==
    Live(r) /\ handler'[r] # handler[r] /\ session[UploadOf[r]].token # r
    => session'[UploadOf[r]] = session[UploadOf[r]]

LEMMA FencedStep ==
  ASSUME TypeOK, FileIsWon, [Next]_vars, NEW r \in Requests
  PROVE  Fenced(r)
<1>0. HandlerTypes /\ SessionTypes /\ UploadOf[r] \in Uploads
  BY TypeParts, ConstantsAssumption
<1>1. ASSUME UNCHANGED session \/ UNCHANGED handler PROVE Fenced(r)
  BY <1>1 DEF Fenced
<1>2. ASSUME NEW q \in Requests, q # r, NEW label, Goto(q, label) PROVE Fenced(r)
  BY <1>0, <1>2 DEF Goto, HandlerTypes, Fenced
<1>3. ASSUME NEW q \in Requests, Claim(q) PROVE Fenced(r)
  <2>1. CASE q = r
    BY <1>3, <2>1 DEF Claim, Fenced, Live
  <2> QED
    BY <1>2, <1>3, <2>1 DEF Claim
<1>4. ASSUME NEW q \in Requests, CompleteDuplicate(q) \/ Commit(q) \/ FailCompletion(q)
      PROVE  Fenced(r)
  <2>1. CASE q = r
    BY <1>4, <2>1 DEF CompleteDuplicate, Commit, CanCommit, FailCompletion, HoldsToken, Fenced
  <2> QED
    BY <1>2, <1>4, <2>1 DEF CompleteDuplicate, Commit, FailCompletion
<1>5. ASSUME NEW q \in Requests, UndoIndex(q) PROVE Fenced(r)
  <2>1. CASE q = r
    <3>1. DeleteRow(r) \/ UNCHANGED session
      BY <1>5, <2>1 DEF UndoIndex
    <3>2. CASE DeleteRow(r)
      <4>1. CASE session[UploadOf[r]].file = r
        BY <1>0, <4>1 DEF FileIsWon, Fenced
      <4>2. CASE session[UploadOf[r]].file # r
        BY <1>0, <3>2, <4>2 DEF DeleteRow, Fenced
      <4> QED
        BY <4>1, <4>2
    <3> QED
      BY <1>1, <3>1, <3>2
  <2>2. CASE q # r
    BY <1>0, <1>5, <2>2 DEF UndoIndex, HandlerTypes, Fenced
  <2> QED
    BY <2>1, <2>2
<1>6. ASSUME NEW q \in Requests,
             \/ Prepare(q) \/ BeginJournal(q) \/ SaveObject(q) \/ JournalUncertain(q)
             \/ MarkObject(q) \/ InsertFile(q) \/ MarkIndex(q) \/ UndoObject(q)
             \/ PersistUndo(q) \/ RemoveChunks(q) \/ Throw(q) \/ ThrowByFault(q) \/ Renew(q)
      PROVE  Fenced(r)
  <2>1. UNCHANGED session \/ UNCHANGED handler
    BY <1>6 DEF Prepare, BeginJournal, SaveObject, JournalUncertain, MarkObject, InsertFile,
                MarkIndex, UndoObject, PersistUndo, RemoveChunks, Throw, ThrowByFault, Renew, dbVars
  <2> QED
    BY <1>1, <2>1
<1>7. ASSUME NEW s \in Scans, ScanStep(s) \/ ScanError(s) PROVE Fenced(r)
  <2>1. UNCHANGED handler
    BY <1>7 DEF ScanStep, ScanError, ScanClaim, ScanSettle, ScanTake, ScanDeleteObject,
                ScanCheckLease, ScanDeleteIndex, ScanPersist, ScanDeleteExpired, ScanRecoverExpired
  <2> QED
    BY <1>1, <2>1
<1>8. ASSUME Environment PROVE Fenced(r)
  <2>1. UNCHANGED session \/ UNCHANGED handler
    BY <1>8 DEF Environment, Retry, Cancel, ExpireSession, ExpireCompletion, ExpireJournalLease,
                Crash, dbVars
  <2> QED
    BY <1>1, <2>1
<1>9. CASE UNCHANGED vars
  BY <1>1, <1>9 DEF vars
<1> QED
  BY <1>3, <1>4, <1>5, <1>6, <1>7, <1>8, <1>9 DEF Next, HandlerStep, Environment

(* A handler without the token of its session never changes that session:  *)
(* its statements are fenced, and the row it deletes can only be the file  *)
(* of an upload whose token it holds.                                      *)
THEOREM HandlersAreFenced == Spec => FencedByToken
<1>1. Init => FileIsWon
  BY ConstantsAssumption DEF Init, FileIsWon
<1>2. TypeOK /\ FileIsWon /\ [Next]_vars => FileIsWon'
  BY FileIsWonStep
<1>3. TypeOK /\ FileIsWon /\ [Next]_vars => [\A r \in Requests : Fenced(r)]_vars
  BY FencedStep
<1> QED
  BY <1>1, <1>2, <1>3, TypeCorrect, PTL DEF Spec, FencedByToken, Fenced
-----------------------------------------------------------------------------
(***************************************************************************)
(* The side effects: an object or a row that an attempt has written is     *)
(* part of a completed upload or listed in the journal, and a completed    *)
(* upload has both.  Attempts are excepted when a sweep took them for      *)
(* dead, or when a statement that took effect was reported as failed.      *)
(***************************************************************************)

Trusted == Requests \ (overlapped \cup unsure)

\* What the position of a handler says about its effects.
BeforeJournal == {"idle", "prepare", "merged"}
Uncommitted == {"save", "uncertain", "mark_object", "insert", "mark_index", "commit",
                "undo_object", "undo_index", "undo_persist"}
NothingYet(r) ==
    handler[r].pc \in BeforeJournal => r \notin object /\ r \notin row /\ ~Pending(r)
InJournal(r) == handler[r].pc \in Uncommitted => Pending(r)
Saved(r) == handler[r].pc \in {"mark_object", "insert", "mark_index", "commit"} => r \in object
NotInserted(r) ==
    handler[r].pc \in {"save", "uncertain", "mark_object", "insert"} => r \notin row
Inserted(r) == handler[r].pc \in {"mark_index", "commit"} => handler[r].indexed
UndoKnowsRow(r) ==
    handler[r].pc \in {"undo_object", "undo_index"} /\ r \in row => handler[r].indexed
UndoneObject(r) ==
    handler[r].pc \in {"undo_index", "undo_persist"} /\ handler[r].object = "deleted"
    => r \notin object
UndoneRow(r) ==
    handler[r].pc = "undo_persist" =>
        handler[r].index # "present" /\ (handler[r].index = "deleted" => r \notin row)
HandlerKnows(r) ==
    /\ NothingYet(r) /\ InJournal(r) /\ Saved(r) /\ NotInserted(r) /\ Inserted(r)
    /\ UndoKnowsRow(r) /\ UndoneObject(r) /\ UndoneRow(r)

\* A completed upload is whole, and its attempt is past compensation.
Whole(r) ==
    Committed(r) => /\ r \in object /\ r \in row /\ ~Pending(r)
                    /\ handler[r].pc \in {"cleanup", "over"}
Listed(r) == r \in object \/ r \in row => Committed(r) \/ Pending(r)
JournalIsTrue(r) ==
    /\ journal[r].object = "deleted" => r \notin object /\ handler[r].pc \in {"fail", "over"}
    /\ journal[r].index = "deleted" => r \notin row /\ handler[r].pc \in {"fail", "over"}
    /\ journal[r].index = "present" => journal[r].file
EffectsKnown(r) == HandlerKnows(r) /\ Whole(r) /\ Listed(r) /\ JournalIsTrue(r)

\* What a maintenance run knows about a row of its batch, and the row in work.
Compensable(s, r) ==
    r \in scan[s].todo /\ (scan[s].snap[r].object # "unknown" \/ scan[s].snap[r].path)
SnapIsTrue(s, r) ==
    /\ r \in scan[s].todo => ~scan[s].snap[r].committed
    /\ Compensable(s, r) =>
          /\ handler[r].pc = "over" /\ ~Committed(r)
          /\ scan[s].snap[r].object = "deleted" => r \notin object
          /\ scan[s].snap[r].index = "deleted" => r \notin row
          /\ scan[s].snap[r].index = "present" => scan[s].snap[r].file
SweepIsTrue(s, r) ==
    scan[s].at = r =>
        /\ handler[r].pc = "over" /\ ~Committed(r)
        /\ scan[s].object = "deleted" => r \notin object
        /\ scan[s].index = "deleted" => r \notin row
        /\ scan[s].index = "present" => scan[s].pc # "persist" /\ scan[s].snap[r].file
SweepKnows(s, r) == SnapIsTrue(s, r) /\ SweepIsTrue(s, r)

Known(r) == EffectsKnown(r) /\ \A s \in Scans : SweepKnows(s, r)
EffectsInv == \A r \in Trusted : Known(r)

-----------------------------------------------------------------------------
(* Steps that do not concern an attempt.                                   *)

SameJournal(r) ==
    /\ Pending(r)' <=> Pending(r)
    /\ \/ /\ journal'[r].object = journal[r].object /\ journal'[r].index = journal[r].index
          /\ journal'[r].file = journal[r].file
       \/ journal'[r].object = "unknown" /\ journal'[r].index = "unknown"
SameEffects(r) ==
    /\ r \in object' <=> r \in object
    /\ r \in row' <=> r \in row
    /\ Committed(r)' <=> Committed(r)
Unconcerned(r) == handler'[r] = handler[r] /\ SameJournal(r) /\ SameEffects(r)

LEMMA UnconcernedKnows ==
  ASSUME NEW r, Unconcerned(r), EffectsKnown(r)
  PROVE  EffectsKnown(r)'
<1>1. HandlerKnows(r)'
  BY DEF Unconcerned, SameJournal, SameEffects, EffectsKnown, HandlerKnows, NothingYet,
         InJournal, Saved, NotInserted, Inserted, UndoKnowsRow, UndoneObject, UndoneRow
<1>2. Whole(r)' /\ Listed(r)' /\ JournalIsTrue(r)'
  BY DEF Unconcerned, SameJournal, SameEffects, EffectsKnown, Whole, Listed, JournalIsTrue
<1> QED
  BY <1>1, <1>2 DEF EffectsKnown

\* No effect of r appears, its upload does not complete, its handler stays.
Shrinks(r) ==
    /\ handler'[r] = handler[r]
    /\ r \in object' => r \in object
    /\ r \in row' => r \in row
    /\ Committed(r)' => Committed(r)

LEMMA SweepKnowsStill ==
  ASSUME NEW s, NEW r, Shrinks(r), scan'[s] = scan[s], SweepKnows(s, r)
  PROVE  SweepKnows(s, r)'
  BY DEF Shrinks, SweepKnows, SnapIsTrue, SweepIsTrue, Compensable

(* A running handler is in no compensation, and its step enters none.      *)
LEMMA LiveIsNotSwept ==
  ASSUME NEW s, NEW r, handler[r].pc # "over", scan'[s] = scan[s], SweepKnows(s, r)
  PROVE  SweepKnows(s, r)'
  BY DEF SweepKnows, SnapIsTrue, SweepIsTrue, Compensable

(* A maintenance run that is done with a row.                              *)
LEMMA DoneKnows ==
  ASSUME ScanTypes, NEW s \in Scans, NEW q, NEW r \in Requests, Shrinks(r), scan' = Done(s, q),
         NEW t \in Scans, SweepKnows(t, r)
  PROVE  SweepKnows(t, r)'
<1>1. CASE t # s
  <2>1. scan'[t] = scan[t]
    BY <1>1 DEF Done, ScanTypes
  <2> QED
    BY <2>1, SweepKnowsStill
<1>2. CASE t = s
  <2>1. scan'[s] = Batch(scan[s].todo \ {q}, [scan[s].snap EXCEPT ![q] = NoSnap])
    BY DEF Done, ScanTypes
  <2>2. /\ scan'[s].todo = scan[s].todo \ {q} /\ scan'[s].at = None
        /\ scan'[s].snap = [scan[s].snap EXCEPT ![q] = NoSnap]
    BY <2>1 DEF Batch
  <2>3. scan[s].snap \in [Requests -> SnapType]
    BY DEF ScanTypes, ScanType
  <2>4. r \in scan'[s].todo => r \in scan[s].todo /\ scan'[s].snap[r] = scan[s].snap[r]
    BY <2>2, <2>3
  <2>5. r # None
    BY ConstantsAssumption
  <2>6. SnapIsTrue(s, r)'
    BY <1>2, <2>4 DEF SweepKnows, SnapIsTrue, Compensable, Shrinks
  <2>7. SweepIsTrue(s, r)'
    BY <2>2, <2>5 DEF SweepIsTrue
  <2> QED
    BY <1>2, <2>6, <2>7 DEF SweepKnows
<1> QED
  BY <1>1, <1>2

-----------------------------------------------------------------------------
(* The steps of other handlers.                                            *)

AnyStep(r) == Claim(r) \/ Renew(r) \/ HandlerStep(r) \/ ThrowByFault(r)

LEMMA OthersKeepCommitted ==
  ASSUME SessionTypes, NEW q \in Requests, NEW r \in Requests, q # r, AnyStep(q)
  PROVE  Committed(r)' <=> Committed(r)
<1>0. UploadOf[q] \in Uploads /\ UploadOf[r] \in Uploads /\ Duplicate # r /\ None # r
  BY ConstantsAssumption
<1>1. CASE Claim(q)
  BY <1>0, <1>1 DEF Claim, Committed, SessionTypes, SessionType
<1>2. CASE Renew(q)
  <2>1. session' = [session EXCEPT ![UploadOf[q]].leaseExpired = FALSE] \/ UNCHANGED session
    BY <1>2 DEF Renew
  <2> QED
    BY <1>0, <2>1 DEF Committed, SessionTypes, SessionType
<1>3. CASE CompleteDuplicate(q)
  BY <1>0, <1>3 DEF CompleteDuplicate, HoldsToken, Committed, SessionTypes, SessionType
<1>4. CASE Commit(q)
  <2>1. /\ HoldsToken(q)
        /\ session' = [session EXCEPT ![UploadOf[q]].status = "completed",
                                      ![UploadOf[q]].leaseExpired = FALSE,
                                      ![UploadOf[q]].file = q]
    BY <1>4 DEF Commit, CanCommit
  <2> QED
    BY <1>0, <2>1 DEF HoldsToken, Committed, SessionTypes, SessionType
<1>5. CASE UndoIndex(q)
  <2>1. DeleteRow(q) \/ UNCHANGED session
    BY <1>5 DEF UndoIndex
  <2> QED
    BY <1>0, <2>1 DEF DeleteRow, Committed, SessionTypes, SessionType
<1>6. CASE FailCompletion(q)
  BY <1>0, <1>6 DEF FailCompletion, HoldsToken, Committed, SessionTypes, SessionType
<1>7. CASE \/ Prepare(q) \/ BeginJournal(q) \/ SaveObject(q) \/ JournalUncertain(q)
           \/ MarkObject(q) \/ InsertFile(q) \/ MarkIndex(q) \/ UndoObject(q)
           \/ PersistUndo(q) \/ RemoveChunks(q) \/ Throw(q) \/ ThrowByFault(q)
  <2>1. UNCHANGED session
    BY <1>7 DEF Prepare, BeginJournal, SaveObject, JournalUncertain, MarkObject, InsertFile,
                MarkIndex, UndoObject, PersistUndo, RemoveChunks, Throw, ThrowByFault, dbVars
  <2> QED
    BY <2>1 DEF Committed
<1> QED
  BY <1>1, <1>2, <1>3, <1>4, <1>5, <1>6, <1>7 DEF AnyStep, HandlerStep

LEMMA OthersKeepHandler ==
  ASSUME HandlerTypes, NEW q \in Requests, NEW r \in Requests, q # r, AnyStep(q)
  PROVE  handler'[r] = handler[r]
<1>1. ASSUME NEW label, Goto(q, label) PROVE handler'[r] = handler[r]
  BY <1>1 DEF Goto, HandlerTypes
<1>2. CASE \/ Claim(q) \/ Prepare(q) \/ CompleteDuplicate(q) \/ BeginJournal(q) \/ SaveObject(q)
           \/ JournalUncertain(q) \/ MarkObject(q) \/ MarkIndex(q) \/ Commit(q) \/ PersistUndo(q)
           \/ FailCompletion(q) \/ RemoveChunks(q) \/ Throw(q) \/ ThrowByFault(q)
  BY <1>1, <1>2 DEF Claim, Prepare, CompleteDuplicate, BeginJournal, SaveObject, JournalUncertain,
                    MarkObject, MarkIndex, Commit, PersistUndo, FailCompletion, RemoveChunks,
                    Throw, ThrowByFault
<1>3. CASE Renew(q) \/ UndoObject(q) \/ UndoIndex(q)
  BY <1>3 DEF Renew, UndoObject, UndoIndex, HandlerTypes
<1>4. CASE InsertFile(q)
  BY <1>1, <1>4 DEF InsertFile, HandlerTypes
<1> QED
  BY <1>2, <1>3, <1>4 DEF AnyStep, HandlerStep

LEMMA OthersKeepEffects ==
  ASSUME JournalTypes, NEW q \in Requests, NEW r \in Requests, q # r, AnyStep(q)
  PROVE  /\ journal'[r] = journal[r]
         /\ r \in object' <=> r \in object
         /\ r \in row' <=> r \in row
         /\ UNCHANGED scan
         /\ overlapped \subseteq overlapped' /\ unsure \subseteq unsure'
<1>1. CASE \/ Claim(q) \/ Renew(q) \/ Prepare(q) \/ CompleteDuplicate(q) \/ FailCompletion(q)
           \/ RemoveChunks(q) \/ Throw(q) \/ ThrowByFault(q)
  BY <1>1 DEF Claim, Renew, Prepare, CompleteDuplicate, FailCompletion, RemoveChunks, Throw,
              ThrowByFault, dbVars, history
<1>2. CASE \/ BeginJournal(q) \/ JournalUncertain(q) \/ MarkObject(q) \/ MarkIndex(q)
           \/ PersistUndo(q)
  BY <1>2 DEF BeginJournal, JournalUncertain, MarkObject, MarkIndex, PersistUndo, history, JournalTypes
<1>3. CASE SaveObject(q) \/ UndoObject(q)
  BY <1>3 DEF SaveObject, UndoObject, dbVars, history
<1>4. CASE InsertFile(q)
  BY <1>4 DEF InsertFile
<1>5. CASE Commit(q)
  BY <1>5 DEF Commit, JournalTypes
<1>6. CASE UndoIndex(q)
  BY <1>6 DEF UndoIndex, DeleteRow, history
<1> QED
  BY <1>1, <1>2, <1>3, <1>4, <1>5, <1>6 DEF AnyStep, HandlerStep

(* A handler does not disturb what is known of another attempt.            *)
LEMMA OtherHandlerKnows ==
  ASSUME TypeOK, NEW q \in Requests, NEW r \in Trusted', q # r, AnyStep(q), EffectsInv
  PROVE  Known(r)'
<1>1. SessionTypes /\ JournalTypes /\ HandlerTypes
  BY TypeParts
<1>2. r \in Requests
  BY DEF Trusted
<1>3. /\ journal'[r] = journal[r]
      /\ r \in object' <=> r \in object
      /\ r \in row' <=> r \in row
      /\ UNCHANGED scan
      /\ overlapped \subseteq overlapped' /\ unsure \subseteq unsure'
  BY <1>1, <1>2, OthersKeepEffects
<1>4. Known(r)
  BY <1>3 DEF EffectsInv, Trusted
<1>5. Unconcerned(r)
  BY <1>1, <1>2, <1>3, OthersKeepCommitted, OthersKeepHandler
  DEF Unconcerned, SameJournal, SameEffects, Pending
<1>6. EffectsKnown(r)'
  BY <1>4, <1>5, UnconcernedKnows DEF Known
<1>7. ASSUME NEW s \in Scans PROVE SweepKnows(s, r)'
  BY <1>3, <1>4, <1>5, SweepKnowsStill DEF Known, Unconcerned, SameEffects, Shrinks
<1> QED
  BY <1>6, <1>7 DEF Known

-----------------------------------------------------------------------------
(* The steps of a handler of its own.                                      *)

LEMMA GotoLabel ==
  ASSUME HandlerTypes, NEW r \in Requests, NEW label, Goto(r, label)
  PROVE  /\ handler'[r].pc = label
         /\ label # "over" => handler'[r] = [handler[r] EXCEPT !.pc = label]
  BY DEF Goto, Handler, HandlerTypes, HandlerType

\* What the step of a handler leaves alone.

LEMMA ClaimKnows ==
  ASSUME TypeOK, NEW r \in Requests, EffectsKnown(r), Claim(r)
  PROVE  EffectsKnown(r)'
<1>1. HandlerTypes /\ SessionTypes /\ UploadOf[r] \in Uploads
  BY TypeParts, ConstantsAssumption
<1>2. handler[r].pc = "idle" /\ handler'[r].pc = "prepare" /\ UNCHANGED << journal, object, row >>
  BY <1>1, GotoLabel DEF Claim
<1>3. session'[UploadOf[r]].status = "completing"
  BY <1>1 DEF Claim, SessionTypes, SessionType
<1> QED
  BY <1>2, <1>3
  DEF EffectsKnown, HandlerKnows, NothingYet, InJournal, Saved, NotInserted, Inserted,
      UndoKnowsRow, UndoneObject, UndoneRow, Whole, Listed, JournalIsTrue, Committed, Pending,
      BeforeJournal, Uncommitted

LEMMA RenewKnows ==
  ASSUME TypeOK, NEW r \in Requests, EffectsKnown(r), Renew(r)
  PROVE  EffectsKnown(r)'
<1>1. HandlerTypes /\ SessionTypes /\ UploadOf[r] \in Uploads
  BY TypeParts, ConstantsAssumption
<1>2. /\ handler'[r].pc = handler[r].pc /\ handler'[r].indexed = handler[r].indexed
      /\ handler'[r].object = handler[r].object /\ handler'[r].index = handler[r].index
  BY <1>1 DEF Renew, HandlerTypes, HandlerType
<1>3. Committed(r)' <=> Committed(r)
  BY <1>1 DEF Renew, Committed, SessionTypes, SessionType
<1>4. UNCHANGED << journal, object, row >>
  BY DEF Renew
<1> QED
  BY <1>2, <1>3, <1>4
  DEF EffectsKnown, HandlerKnows, NothingYet, InJournal, Saved, NotInserted, Inserted,
      UndoKnowsRow, UndoneObject, UndoneRow, Whole, Listed, JournalIsTrue, Pending

(* Up to the journal row there is nothing to know.                         *)
LEMMA EarlyKnows ==
  ASSUME TypeOK, NEW r \in Requests, EffectsKnown(r), Prepare(r) \/ CompleteDuplicate(r)
  PROVE  EffectsKnown(r)'
<1>1. HandlerTypes /\ SessionTypes /\ UploadOf[r] \in Uploads /\ Duplicate # r
  BY TypeParts, ConstantsAssumption
<1>2. /\ handler[r].pc \in {"prepare", "merged"} /\ handler'[r].pc \in {"merged", "cleanup"}
      /\ UNCHANGED << journal, object, row >>
  BY <1>1, GotoLabel DEF Prepare, CompleteDuplicate, dbVars
<1>3. ~Committed(r)
  BY <1>2 DEF EffectsKnown, HandlerKnows, NothingYet, InJournal, Saved, NotInserted, Inserted,
              UndoKnowsRow, UndoneObject, UndoneRow, Whole, Listed, JournalIsTrue
<1>4. ~Committed(r)'
  <2>1. CASE Prepare(r)
    BY <1>3, <2>1 DEF Prepare, dbVars, Committed
  <2>2. CASE CompleteDuplicate(r)
    BY <1>1, <2>2 DEF CompleteDuplicate, Committed, SessionTypes, SessionType
  <2> QED
    BY <2>1, <2>2
<1> QED
  BY <1>2, <1>4
  DEF EffectsKnown, HandlerKnows, NothingYet, InJournal, Saved, NotInserted, Inserted,
      UndoKnowsRow, UndoneObject, UndoneRow, Whole, Listed, JournalIsTrue, Pending,
      BeforeJournal, Uncommitted

LEMMA BeginJournalKnows ==
  ASSUME TypeOK, NEW r \in Requests, EffectsKnown(r), BeginJournal(r)
  PROVE  EffectsKnown(r)'
<1>1. HandlerTypes /\ JournalTypes
  BY TypeParts
<1>2. handler[r].pc = "merged" /\ handler'[r].pc = "save" /\ UNCHANGED << session, object, row >>
  BY <1>1, GotoLabel DEF BeginJournal
<1>3. /\ journal'[r].status = "pending" /\ journal'[r].object = "unknown"
      /\ journal'[r].index = "unknown"
  BY <1>1 DEF BeginJournal, NoJournal, JournalTypes
<1>4. ~Committed(r)'
  BY <1>2 DEF Committed, EffectsKnown, HandlerKnows, NothingYet, InJournal, Saved, NotInserted,
              Inserted, UndoKnowsRow, UndoneObject, UndoneRow, Whole, Listed, JournalIsTrue
<1> QED
  BY <1>2, <1>3, <1>4
  DEF EffectsKnown, HandlerKnows, NothingYet, InJournal, Saved, NotInserted, Inserted,
      UndoKnowsRow, UndoneObject, UndoneRow, Whole, Listed, JournalIsTrue, Pending,
      BeforeJournal, Uncommitted

LEMMA SaveObjectKnows ==
  ASSUME TypeOK, NEW r \in Requests, EffectsKnown(r), SaveObject(r)
  PROVE  EffectsKnown(r)'
<1>1. HandlerTypes
  BY TypeParts
<1>2. /\ handler[r].pc = "save" /\ UNCHANGED dbVars
      /\ \/ handler'[r].pc = "mark_object" /\ r \in object'
         \/ handler'[r].pc = "uncertain"
  BY <1>1, GotoLabel DEF SaveObject
<1>3. Pending(r) /\ Pending(r)' /\ ~Committed(r)'
  BY <1>2 DEF dbVars, Committed, Pending, Uncommitted, EffectsKnown, HandlerKnows, NothingYet,
              InJournal, Saved, NotInserted, Inserted, UndoKnowsRow, UndoneObject, UndoneRow,
              Whole, Listed, JournalIsTrue
<1> QED
  BY <1>2, <1>3
  DEF EffectsKnown, HandlerKnows, NothingYet, InJournal, Saved, NotInserted, Inserted,
      UndoKnowsRow, UndoneObject, UndoneRow, Whole, Listed, JournalIsTrue, dbVars,
      BeforeJournal, Uncommitted

LEMMA JournalUncertainKnows ==
  ASSUME TypeOK, NEW r \in Requests, EffectsKnown(r), JournalUncertain(r)
  PROVE  EffectsKnown(r)'
<1>1. HandlerTypes /\ JournalTypes
  BY TypeParts
<1>2. handler[r].pc = "uncertain" /\ handler'[r].pc = "fail" /\ UNCHANGED << session, object, row >>
  BY <1>1, GotoLabel DEF JournalUncertain
<1>3. /\ journal'[r].status = "pending" /\ journal'[r].object = "unknown"
      /\ journal'[r].index = "deleted"
  BY <1>1 DEF JournalUncertain, Pending, JournalTypes, JournalType
<1>4. ~Committed(r)'
  BY <1>2 DEF Committed, EffectsKnown, HandlerKnows, NothingYet, InJournal, Saved, NotInserted,
              Inserted, UndoKnowsRow, UndoneObject, UndoneRow, Whole, Listed, JournalIsTrue
<1> QED
  BY <1>2, <1>3, <1>4
  DEF EffectsKnown, HandlerKnows, NothingYet, InJournal, Saved, NotInserted, Inserted,
      UndoKnowsRow, UndoneObject, UndoneRow, Whole, Listed, JournalIsTrue, Pending,
      BeforeJournal, Uncommitted

LEMMA MarkKnows ==
  ASSUME TypeOK, NEW r \in Requests, EffectsKnown(r), MarkObject(r) \/ MarkIndex(r)
  PROVE  EffectsKnown(r)'
<1>1. HandlerTypes /\ JournalTypes
  BY TypeParts
<1>2. CASE MarkObject(r)
  <2>1. /\ handler[r].pc = "mark_object" /\ handler'[r].pc = "insert"
        /\ UNCHANGED << session, object, row >>
    BY <1>1, <1>2, GotoLabel DEF MarkObject
  <2>2. /\ journal'[r].status = "pending" /\ journal'[r].object = "present"
        /\ journal'[r].index = journal[r].index /\ journal'[r].file = journal[r].file
    BY <1>1, <1>2 DEF MarkObject, Pending, JournalTypes, JournalType
  <2>3. ~Committed(r)'
    BY <2>1 DEF Committed, EffectsKnown, HandlerKnows, NothingYet, InJournal, Saved,
                NotInserted, Inserted, UndoKnowsRow, UndoneObject, UndoneRow, Whole, Listed,
                JournalIsTrue
  <2> QED
    BY <2>1, <2>2, <2>3
    DEF EffectsKnown, HandlerKnows, NothingYet, InJournal, Saved, NotInserted, Inserted,
        UndoKnowsRow, UndoneObject, UndoneRow, Whole, Listed, JournalIsTrue, Pending,
        BeforeJournal, Uncommitted
<1>3. CASE MarkIndex(r)
  <2>1. /\ handler[r].pc = "mark_index" /\ handler'[r] = [handler[r] EXCEPT !.pc = "commit"]
        /\ UNCHANGED << session, object, row >>
    BY <1>1, <1>3, GotoLabel DEF MarkIndex
  <2>2. handler'[r].pc = "commit" /\ handler'[r].indexed = handler[r].indexed
    BY <1>1, <2>1 DEF HandlerTypes, HandlerType
  <2>3. /\ journal'[r].status = "pending" /\ journal'[r].object = journal[r].object
        /\ journal'[r].index = "present" /\ journal'[r].file = TRUE
    BY <1>1, <1>3 DEF MarkIndex, Pending, JournalTypes, JournalType
  <2>4. ~Committed(r)'
    BY <2>1 DEF Committed, EffectsKnown, HandlerKnows, NothingYet, InJournal, Saved,
                NotInserted, Inserted, UndoKnowsRow, UndoneObject, UndoneRow, Whole, Listed,
                JournalIsTrue
  <2> QED
    BY <2>1, <2>2, <2>3, <2>4
    DEF EffectsKnown, HandlerKnows, NothingYet, InJournal, Saved, NotInserted, Inserted,
        UndoKnowsRow, UndoneObject, UndoneRow, Whole, Listed, JournalIsTrue, Pending,
        BeforeJournal, Uncommitted
<1> QED
  BY <1>2, <1>3

LEMMA InsertFileKnows ==
  ASSUME TypeOK, NEW r \in Requests, EffectsKnown(r), InsertFile(r), r \notin unsure'
  PROVE  EffectsKnown(r)'
<1>1. HandlerTypes
  BY TypeParts
<1>2. handler' = [handler EXCEPT ![r].pc = "mark_index", ![r].indexed = TRUE]
  BY DEF InsertFile
<1>3. /\ handler[r].pc = "insert" /\ UNCHANGED << session, journal, object >>
      /\ row' = row \cup {r}
  BY DEF InsertFile
<1>4. handler'[r].pc = "mark_index" /\ handler'[r].indexed = TRUE
  BY <1>1, <1>2 DEF HandlerTypes, HandlerType
<1>5. Pending(r) /\ Pending(r)' /\ ~Committed(r)'
  BY <1>3 DEF Committed, Pending, Uncommitted, EffectsKnown, HandlerKnows, NothingYet,
              InJournal, Saved, NotInserted, Inserted, UndoKnowsRow, UndoneObject, UndoneRow,
              Whole, Listed, JournalIsTrue
<1> QED
  BY <1>3, <1>4, <1>5
  DEF EffectsKnown, HandlerKnows, NothingYet, InJournal, Saved, NotInserted, Inserted,
      UndoKnowsRow, UndoneObject, UndoneRow, Whole, Listed, JournalIsTrue, BeforeJournal,
      Uncommitted

LEMMA CommitKnows ==
  ASSUME TypeOK, NEW r \in Requests, EffectsKnown(r), Commit(r), r \notin unsure'
  PROVE  EffectsKnown(r)'
<1>1. HandlerTypes /\ SessionTypes /\ JournalTypes /\ UploadOf[r] \in Uploads
  BY TypeParts, ConstantsAssumption
<1>2. Goto(r, "cleanup")
  BY DEF Commit
<1>3. /\ handler[r].pc = "commit" /\ handler'[r].pc = "cleanup"
      /\ UNCHANGED << object, row >> /\ r \in row
  BY <1>1, <1>2, GotoLabel DEF Commit, CanCommit
<1>4. /\ journal'[r].status = "resolved" /\ journal'[r].object = "unknown"
      /\ journal'[r].index = "unknown"
  BY <1>1 DEF Commit, Resolved, NoJournal, JournalTypes
<1>5. Committed(r)'
  BY <1>1 DEF Commit, Committed, SessionTypes, SessionType
<1> QED
  BY <1>3, <1>4, <1>5
  DEF EffectsKnown, HandlerKnows, NothingYet, InJournal, Saved, NotInserted, Inserted,
      UndoKnowsRow, UndoneObject, UndoneRow, Whole, Listed, JournalIsTrue, Pending,
      BeforeJournal, Uncommitted

LEMMA UndoObjectKnows ==
  ASSUME TypeOK, NEW r \in Requests, EffectsKnown(r), UndoObject(r)
  PROVE  EffectsKnown(r)'
<1>1. HandlerTypes
  BY TypeParts
<1>2. PICK outcome \in {"deleted", "unknown"} :
          /\ IF outcome = "deleted"
             THEN object' = object \ {r} /\ Faultless
             ELSE object' \in {object, object \ {r}} /\ Fault
          /\ handler' = [handler EXCEPT ![r].pc = "undo_index", ![r].object = outcome]
  BY DEF UndoObject
<1>3. handler[r].pc = "undo_object" /\ UNCHANGED dbVars
  BY DEF UndoObject
<1>4. /\ handler'[r].pc = "undo_index" /\ handler'[r].object = outcome
      /\ handler'[r].indexed = handler[r].indexed
  BY <1>1, <1>2 DEF HandlerTypes, HandlerType
<1>5. (r \in object' => r \in object) /\ (outcome = "deleted" => r \notin object')
  BY <1>2
<1>6. Pending(r) /\ Pending(r)' /\ ~Committed(r)'
  BY <1>3 DEF dbVars, Committed, Pending, Uncommitted, EffectsKnown, HandlerKnows, NothingYet,
              InJournal, Saved, NotInserted, Inserted, UndoKnowsRow, UndoneObject, UndoneRow,
              Whole, Listed, JournalIsTrue
<1> QED
  BY <1>3, <1>4, <1>5, <1>6
  DEF EffectsKnown, HandlerKnows, NothingYet, InJournal, Saved, NotInserted, Inserted,
      UndoKnowsRow, UndoneObject, UndoneRow, Whole, Listed, JournalIsTrue, dbVars,
      BeforeJournal, Uncommitted

LEMMA UndoIndexKnows ==
  ASSUME TypeOK, NEW r \in Requests, EffectsKnown(r), UndoIndex(r)
  PROVE  EffectsKnown(r)'
<1>1. HandlerTypes /\ SessionTypes /\ UploadOf[r] \in Uploads /\ None # r
  BY TypeParts, ConstantsAssumption
<1>2. /\ handler[r].pc = "undo_index" /\ UNCHANGED << journal, object >>
      /\ handler'[r].pc = "undo_persist" /\ handler'[r].object = handler[r].object
  BY <1>1 DEF UndoIndex, HandlerTypes, HandlerType
<1>3. r \in row' => r \in row
  BY DEF UndoIndex, DeleteRow
<1>4. handler'[r].index # "present" /\ (handler'[r].index = "deleted" => r \notin row')
  <2>1. ASSUME NEW outcome \in {"deleted", "unknown"},
               handler' = [handler EXCEPT ![r].pc = "undo_persist", ![r].index = outcome]
        PROVE  handler'[r].index = outcome
    BY <1>1, <2>1 DEF HandlerTypes, HandlerType
  <2>2. CASE /\ DeleteRow(r)
             /\ handler' = [handler EXCEPT ![r].pc = "undo_persist",
                                ![r].index = IF r \in row THEN "deleted" ELSE "unknown"]
    BY <2>1, <2>2 DEF DeleteRow
  <2>3. CASE handler' = [handler EXCEPT ![r].pc = "undo_persist", ![r].index = "unknown"]
    BY <2>1, <2>3
  <2>4. CASE /\ ~handler[r].indexed /\ UNCHANGED row
             /\ handler' = [handler EXCEPT ![r].pc = "undo_persist", ![r].index = "deleted"]
    BY <1>2, <2>1, <2>4 DEF EffectsKnown, HandlerKnows, UndoKnowsRow
  <2> QED
    BY <2>2, <2>3, <2>4 DEF UndoIndex
<1>5. ~Committed(r)
  BY <1>2 DEF EffectsKnown, HandlerKnows, NothingYet, InJournal, Saved, NotInserted, Inserted,
              UndoKnowsRow, UndoneObject, UndoneRow, Whole, Listed, JournalIsTrue
<1>6. ~Committed(r)'
  <2>1. DeleteRow(r) \/ UNCHANGED session
    BY DEF UndoIndex
  <2> QED
    BY <1>1, <1>5, <2>1 DEF DeleteRow, Committed, SessionTypes, SessionType
<1> QED
  BY <1>2, <1>3, <1>4, <1>6
  DEF EffectsKnown, HandlerKnows, NothingYet, InJournal, Saved, NotInserted, Inserted,
      UndoKnowsRow, UndoneObject, UndoneRow, Whole, Listed, JournalIsTrue, Pending,
      BeforeJournal, Uncommitted

LEMMA PersistUndoKnows ==
  ASSUME TypeOK, NEW r \in Requests, EffectsKnown(r), PersistUndo(r)
  PROVE  EffectsKnown(r)'
<1>1. HandlerTypes /\ JournalTypes
  BY TypeParts
<1>2. /\ handler[r].pc = "undo_persist" /\ handler'[r].pc = "fail"
      /\ UNCHANGED << session, object, row >>
  BY <1>1, GotoLabel DEF PersistUndo
<1>3. ~Committed(r)'
  BY <1>2 DEF Committed, EffectsKnown, HandlerKnows, NothingYet, InJournal, Saved, NotInserted,
              Inserted, UndoKnowsRow, UndoneObject, UndoneRow, Whole, Listed, JournalIsTrue
<1>4. CASE Reconciled(handler[r].object, handler[r].index)
  <2>1. /\ journal'[r].status = "resolved" /\ journal'[r].object = "unknown"
        /\ journal'[r].index = "unknown"
    BY <1>1, <1>4 DEF PersistUndo, Resolved, NoJournal, JournalTypes
  <2>2. r \notin object /\ r \notin row
    BY <1>2, <1>4 DEF Reconciled, EffectsKnown, HandlerKnows, UndoneObject, UndoneRow
  <2> QED
    BY <1>2, <1>3, <2>1, <2>2
    DEF EffectsKnown, HandlerKnows, NothingYet, InJournal, Saved, NotInserted, Inserted,
        UndoKnowsRow, UndoneObject, UndoneRow, Whole, Listed, JournalIsTrue, Pending,
        BeforeJournal, Uncommitted
<1>5. CASE ~Reconciled(handler[r].object, handler[r].index)
  <2>1. journal' = [journal EXCEPT ![r] = [journal[r] EXCEPT !.object = handler[r].object,
                                                            !.index = handler[r].index]]
    BY <1>5 DEF PersistUndo
  <2>2. /\ journal'[r].status = "pending" /\ journal'[r].object = handler[r].object
        /\ journal'[r].index = handler[r].index
    BY <1>1, <2>1 DEF PersistUndo, Pending, JournalTypes, JournalType
  <2> QED
    BY <1>2, <1>3, <2>2
    DEF EffectsKnown, HandlerKnows, NothingYet, InJournal, Saved, NotInserted, Inserted,
        UndoKnowsRow, UndoneObject, UndoneRow, Whole, Listed, JournalIsTrue, Pending,
        BeforeJournal, Uncommitted
<1> QED
  BY <1>4, <1>5

LEMMA LastStepsKnow ==
  ASSUME TypeOK, NEW r \in Requests, EffectsKnown(r), FailCompletion(r) \/ RemoveChunks(r)
  PROVE  EffectsKnown(r)'
<1>1. HandlerTypes /\ SessionTypes /\ UploadOf[r] \in Uploads
  BY TypeParts, ConstantsAssumption
<1>2. /\ handler[r].pc \in {"fail", "cleanup"} /\ handler'[r].pc = "over"
      /\ UNCHANGED << journal, object, row >>
  BY <1>1, GotoLabel DEF FailCompletion, RemoveChunks, dbVars
<1>3. Committed(r)' <=> Committed(r)
  <2>1. CASE FailCompletion(r)
    BY <1>1, <2>1 DEF FailCompletion, HoldsToken, Committed, SessionTypes, SessionType
  <2>2. CASE RemoveChunks(r)
    BY <2>2 DEF RemoveChunks, dbVars, Committed
  <2> QED
    BY <2>1, <2>2
<1> QED
  BY <1>2, <1>3
  DEF EffectsKnown, HandlerKnows, NothingYet, InJournal, Saved, NotInserted, Inserted,
      UndoKnowsRow, UndoneObject, UndoneRow, Whole, Listed, JournalIsTrue, Pending,
      BeforeJournal, Uncommitted

LEMMA ErrorLabels ==
  ASSUME NEW label \in Fallible
  PROVE  /\ label \in AfterSave => OnError[label] = "undo_object"
         /\ label \in {"fail", "cleanup"} => OnError[label] = "over"
         /\ label \in {"prepare", "merged", "uncertain", "undo_persist"} => OnError[label] = "fail"
<1>1. CASE label \in AfterSave
  BY <1>1 DEF OnError, AfterSave
<1>2. CASE label \in {"fail", "cleanup"}
  BY <1>2 DEF OnError, AfterSave
<1>3. CASE label \notin AfterSave /\ label \notin {"fail", "cleanup"}
  BY <1>3 DEF OnError
<1> QED
  BY <1>1, <1>2, <1>3 DEF AfterSave

(* An error leads to the compensation when the object may have been saved. *)
LEMMA ThrowKnows ==
  ASSUME TypeOK, NEW r \in Requests, EffectsKnown(r), Throw(r) \/ ThrowByFault(r)
  PROVE  EffectsKnown(r)'
<1>1. HandlerTypes
  BY TypeParts
<1>2. /\ handler[r].pc \in Fallible /\ Goto(r, OnError[handler[r].pc])
      /\ UNCHANGED << session, journal, object, row >>
  BY DEF Throw, ThrowByFault, dbVars
<1>3. Committed(r)' <=> Committed(r)
  BY <1>2 DEF Committed
<1>4. CASE handler[r].pc \in AfterSave
  <2>1. handler'[r] = [handler[r] EXCEPT !.pc = "undo_object"]
    BY <1>1, <1>2, <1>4, GotoLabel, ErrorLabels
  <2>2. handler'[r].pc = "undo_object" /\ handler'[r].indexed = handler[r].indexed
    BY <1>1, <2>1 DEF HandlerTypes, HandlerType
  <2> QED
    BY <1>2, <1>3, <1>4, <2>2
    DEF EffectsKnown, HandlerKnows, NothingYet, InJournal, Saved, NotInserted, Inserted,
        UndoKnowsRow, UndoneObject, UndoneRow, Whole, Listed, JournalIsTrue, Pending, AfterSave,
        BeforeJournal, Uncommitted
<1>5. CASE handler[r].pc \in {"fail", "cleanup"}
  <2>1. handler'[r].pc = "over"
    BY <1>1, <1>2, <1>5, GotoLabel, ErrorLabels
  <2> QED
    BY <1>2, <1>3, <1>5, <2>1
    DEF EffectsKnown, HandlerKnows, NothingYet, InJournal, Saved, NotInserted, Inserted,
        UndoKnowsRow, UndoneObject, UndoneRow, Whole, Listed, JournalIsTrue, Pending,
        BeforeJournal, Uncommitted
<1>6. CASE handler[r].pc \in {"prepare", "merged", "uncertain", "undo_persist"}
  <2>1. handler'[r].pc = "fail"
    BY <1>1, <1>2, <1>6, GotoLabel, ErrorLabels
  <2> QED
    BY <1>2, <1>3, <1>6, <2>1
    DEF EffectsKnown, HandlerKnows, NothingYet, InJournal, Saved, NotInserted, Inserted,
        UndoKnowsRow, UndoneObject, UndoneRow, Whole, Listed, JournalIsTrue, Pending,
        BeforeJournal, Uncommitted
<1> QED
  BY <1>2, <1>4, <1>5, <1>6 DEF Fallible

LEMMA OwnHandlerKnows ==
  ASSUME TypeOK, NEW r \in Trusted', AnyStep(r), EffectsInv
  PROVE  Known(r)'
<1>1. r \in Requests /\ r \notin unsure' /\ r \notin overlapped'
  BY DEF Trusted
<1>2. /\ UNCHANGED << scan, overlapped >> /\ unsure \subseteq unsure'
      /\ handler[r].pc # "over"
  <2>1. CASE \/ Claim(r) \/ Renew(r) \/ Prepare(r) \/ CompleteDuplicate(r) \/ FailCompletion(r)
             \/ RemoveChunks(r) \/ BeginJournal(r) \/ JournalUncertain(r) \/ MarkObject(r)
             \/ MarkIndex(r) \/ PersistUndo(r) \/ SaveObject(r) \/ UndoObject(r) \/ UndoIndex(r)
    BY <2>1 DEF Claim, Renew, Live, Prepare, CompleteDuplicate, FailCompletion, RemoveChunks,
                BeginJournal, JournalUncertain, MarkObject, MarkIndex, PersistUndo, SaveObject,
                UndoObject, UndoIndex, history
  <2>2. CASE InsertFile(r) \/ Commit(r)
    BY <2>2 DEF InsertFile, Commit
  <2>3. CASE Throw(r) \/ ThrowByFault(r)
    BY <2>3 DEF Throw, ThrowByFault, Fallible, AfterSave, history
  <2> QED
    BY <2>1, <2>2, <2>3 DEF AnyStep, HandlerStep
<1>3. Known(r)
  BY <1>1, <1>2 DEF EffectsInv, Trusted
<1>4. EffectsKnown(r)'
  BY <1>1, <1>3, ClaimKnows, RenewKnows, EarlyKnows, BeginJournalKnows, SaveObjectKnows,
     JournalUncertainKnows, MarkKnows, InsertFileKnows, CommitKnows, UndoObjectKnows,
     UndoIndexKnows, PersistUndoKnows, LastStepsKnow, ThrowKnows
  DEF AnyStep, HandlerStep, Known
<1>5. ASSUME NEW s \in Scans PROVE SweepKnows(s, r)'
  BY <1>2, <1>3, LiveIsNotSwept DEF Known
<1> QED
  BY <1>4, <1>5 DEF Known

-----------------------------------------------------------------------------
(* The client, the clock and crashes.                                      *)

LEMMA EnvironmentKnows ==
  ASSUME TypeOK, NEW r \in Trusted', Environment, EffectsInv
  PROVE  Known(r)'
<1>1. HandlerTypes /\ SessionTypes /\ JournalTypes /\ ScanTypes
  BY TypeParts
<1>2. r \in Requests /\ UploadOf[r] \in Uploads /\ None # r
  BY ConstantsAssumption DEF Trusted
<1>3. UNCHANGED << object, row, overlapped, unsure >>
  BY DEF Environment, Retry, Cancel, ExpireSession, ExpireCompletion, ExpireJournalLease, Crash,
         dbVars, history
<1>4. Known(r)
  BY <1>3 DEF EffectsInv, Trusted
<1>5. Committed(r)' <=> Committed(r)
  <2>1. ASSUME NEW u \in Uploads, Retry(u) \/ Cancel(u) PROVE Committed(r)' <=> Committed(r)
    BY <1>1, <1>2, <2>1 DEF Retry, Cancel, Committed, SessionTypes, SessionType
  <2>2. ASSUME NEW u \in Uploads, ExpireSession(u) \/ ExpireCompletion(u)
        PROVE  Committed(r)' <=> Committed(r)
    BY <1>1, <1>2, <2>2 DEF ExpireSession, ExpireCompletion, Committed, SessionTypes, SessionType
  <2>3. ASSUME Crash \/ \E q \in Requests : ExpireJournalLease(q)
        PROVE  Committed(r)' <=> Committed(r)
    BY <2>3 DEF Crash, ExpireJournalLease, dbVars, Committed
  <2> QED
    BY <2>1, <2>2, <2>3 DEF Environment
<1>6. ASSUME ~Crash PROVE Known(r)'
  <2>1. UNCHANGED << handler, scan >>
    BY <1>6 DEF Environment, Retry, Cancel, ExpireSession, ExpireCompletion, ExpireJournalLease
  <2>2. /\ journal'[r].status = journal[r].status /\ journal'[r].object = journal[r].object
        /\ journal'[r].index = journal[r].index /\ journal'[r].file = journal[r].file
    <3>1. ASSUME NEW q \in Requests, journal' = [journal EXCEPT ![q].leaseExpired = TRUE]
          PROVE  /\ journal'[r].status = journal[r].status /\ journal'[r].object = journal[r].object
                 /\ journal'[r].index = journal[r].index /\ journal'[r].file = journal[r].file
      BY <1>1, <1>2, <3>1 DEF JournalTypes, JournalType
    <3>2. UNCHANGED journal \/ \E q \in Requests : journal' = [journal EXCEPT ![q].leaseExpired = TRUE]
      BY <1>6 DEF Environment, Retry, Cancel, ExpireSession, ExpireCompletion, ExpireJournalLease
    <3> QED
      BY <3>1, <3>2
  <2>3. Unconcerned(r)
    BY <1>3, <1>5, <2>1, <2>2 DEF Unconcerned, SameJournal, SameEffects, Pending
  <2>4. EffectsKnown(r)'
    BY <1>4, <2>3, UnconcernedKnows DEF Known
  <2>5. ASSUME NEW s \in Scans PROVE SweepKnows(s, r)'
    BY <1>4, <2>1, <2>3, SweepKnowsStill DEF Known, Unconcerned, SameEffects, Shrinks
  <2> QED
    BY <2>4, <2>5 DEF Known
<1>7. CASE Crash
  <2>1. UNCHANGED journal /\ scan' = [s \in Scans |-> IdleScan]
    BY <1>7 DEF Crash, dbVars
  <2>2. \/ handler'[r].pc = "over" /\ handler[r].pc # "idle"
        \/ handler'[r] = handler[r] /\ handler[r].pc \in {"idle", "over"}
    BY <1>1, <1>2, <1>7 DEF Crash, Live, Handler, HandlerTypes, HandlerType
  <2>3. EffectsKnown(r)'
    BY <1>3, <1>4, <1>5, <2>1, <2>2
    DEF Known, EffectsKnown, HandlerKnows, NothingYet, InJournal, Saved, NotInserted, Inserted,
        UndoKnowsRow, UndoneObject, UndoneRow, Whole, Listed, JournalIsTrue, Pending,
        BeforeJournal, Uncommitted
  <2>4. ASSUME NEW s \in Scans PROVE SweepKnows(s, r)'
    <3>1. scan'[s].todo = {} /\ scan'[s].at = None
      BY <2>1 DEF IdleScan, Batch
    <3> QED
      BY <1>2, <3>1 DEF SweepKnows, SnapIsTrue, SweepIsTrue, Compensable
  <2> QED
    BY <2>3, <2>4 DEF Known
<1> QED
  BY <1>6, <1>7

-----------------------------------------------------------------------------
(* The maintenance runs.                                                   *)

(* A run that claims a row learns its state; when it will compensate it,   *)
(* its handler is over.                                                    *)
LEMMA ScanClaimKnows ==
  ASSUME TypeOK, NEW s \in Scans, NEW r \in Trusted', ScanClaim(s), EffectsInv
  PROVE  Known(r)'
<1>1. JournalTypes /\ ScanTypes
  BY TypeParts
<1>2. r \in Requests /\ r \notin overlapped' /\ None # r
  BY ConstantsAssumption DEF Trusted
<1> DEFINE claimed == {q \in Requests : Claimable(q)}
           snap == [q \in Requests |-> IF q \in claimed THEN Snapshot(q) ELSE NoSnap]
<1>3. /\ journal' = [q \in Requests |->
                       IF q \in claimed
                       THEN [journal[q] EXCEPT !.lease = s, !.leaseExpired = FALSE]
                       ELSE journal[q]]
      /\ scan' = [scan EXCEPT ![s] = Batch(claimed, snap)]
      /\ overlapped' = overlapped \cup {q \in claimed : Live(q) /\ Sweepable(q)}
      /\ UNCHANGED << unsure, session, object, row, handler >>
  BY DEF ScanClaim
<1>4. Known(r)
  BY <1>3 DEF EffectsInv, Trusted
<1>5. /\ journal'[r].status = journal[r].status /\ journal'[r].object = journal[r].object
      /\ journal'[r].index = journal[r].index /\ journal'[r].file = journal[r].file
  BY <1>1, <1>2, <1>3 DEF JournalTypes, JournalType
<1>6. Unconcerned(r)
  BY <1>3, <1>5 DEF Unconcerned, SameJournal, SameEffects, Pending, Committed
<1>7. EffectsKnown(r)'
  BY <1>4, <1>6, UnconcernedKnows DEF Known
<1>8. ASSUME NEW t \in Scans PROVE SweepKnows(t, r)'
  <2>1. CASE t # s
    <3>1. scan'[t] = scan[t]
      BY <1>1, <1>3, <2>1 DEF ScanTypes
    <3> QED
      BY <1>4, <1>6, <3>1, SweepKnowsStill DEF Known, Unconcerned, SameEffects, Shrinks
  <2>2. CASE t = s
    <3>1. scan'[s].todo = claimed /\ scan'[s].at = None /\ scan'[s].snap = snap
      BY <1>1, <1>3 DEF Batch, ScanTypes
    <3>2. SweepIsTrue(s, r)'
      BY <1>2, <3>1 DEF SweepIsTrue
    <3>3. CASE r \notin claimed
      BY <2>2, <3>1, <3>2, <3>3 DEF SweepKnows, SnapIsTrue, Compensable
    <3>4. CASE r \in claimed
      <4>1. scan'[s].snap[r] = Snapshot(r) /\ Pending(r)
        BY <1>2, <3>1, <3>4 DEF Claimable
      <4>2. /\ Snapshot(r).path = journal[r].path /\ Snapshot(r).file = journal[r].file
            /\ Snapshot(r).object = journal[r].object /\ Snapshot(r).index = journal[r].index
        BY DEF Snapshot
      <4>3. ~Committed(r)
        BY <1>4, <4>1 DEF Known, EffectsKnown, Whole
      <4>4. ~Snapshot(r).committed
        <5>1. Snapshot(r).committed =>
                 /\ session[UploadOf[r]].status = "completed"
                 /\ session[UploadOf[r]].file = (IF journal[r].file THEN r ELSE None)
                 /\ journal[r].index = "present"
          BY DEF Snapshot
        <5> QED
          BY <1>4, <4>3, <5>1 DEF Known, EffectsKnown, JournalIsTrue, Committed
      <4>5. Compensable(s, r)' => handler[r].pc = "over"
        <5>1. Compensable(s, r)' => Sweepable(r)
          BY <4>1, <4>2 DEF Compensable, Sweepable
        <5>2. Sweepable(r) => ~Live(r)
          BY <1>2, <1>3, <3>4
        <5>3. handler[r].pc # "idle"
          BY <1>4, <4>1 DEF Known, EffectsKnown, HandlerKnows, NothingYet, BeforeJournal
        <5> QED
          BY <5>1, <5>2, <5>3 DEF Live
      <4>6. UNCHANGED << handler, object, row >> /\ ~Committed(r)'
        BY <1>3, <4>3 DEF Committed
      <4>7. JournalIsTrue(r)
        BY <1>4 DEF Known, EffectsKnown
      <4>8. scan'[s].snap[r].committed = Snapshot(r).committed
        BY <4>1
      <4>9. (r \in scan[s].todo => ~scan[s].snap[r].committed)'
        BY <4>4, <4>8
      <4>10. (Compensable(s, r) =>
                /\ handler[r].pc = "over" /\ ~Committed(r)
                /\ scan[s].snap[r].object = "deleted" => r \notin object
                /\ scan[s].snap[r].index = "deleted" => r \notin row
                /\ scan[s].snap[r].index = "present" => scan[s].snap[r].file)'
        BY <4>1, <4>2, <4>5, <4>6, <4>7 DEF JournalIsTrue
      <4> QED
        BY <2>2, <3>2, <4>9, <4>10 DEF SweepKnows, SnapIsTrue
    <3> QED
      BY <3>3, <3>4
  <2> QED
    BY <2>1, <2>2
<1> QED
  BY <1>7, <1>8 DEF Known

LEMMA DoneRowKnows ==
  ASSUME ScanTypes, NEW s \in Scans, NEW q, NEW r \in Requests, Unconcerned(r), Known(r),
         scan' = Done(s, q)
  PROVE  Known(r)'
<1>1. EffectsKnown(r)'
  BY UnconcernedKnows DEF Known
<1>2. Shrinks(r)
  BY DEF Unconcerned, SameEffects, Shrinks
<1>3. ASSUME NEW t \in Scans PROVE SweepKnows(t, r)'
  BY <1>2, DoneKnows DEF Known
<1> QED
  BY <1>1, <1>3 DEF Known

\* Only the journal row and the run itself change.
JournalStep(r) ==
    /\ UNCHANGED << session, object, row, handler >>
    /\ journal'[r].status = journal[r].status /\ journal'[r].object = journal[r].object
    /\ journal'[r].index = journal[r].index /\ journal'[r].file = journal[r].file

LEMMA JournalStepUnconcerned ==
  ASSUME NEW r, JournalStep(r)
  PROVE  Unconcerned(r)
  BY DEF JournalStep, Unconcerned, SameJournal, SameEffects, Pending, Committed

LEMMA ScanSettleKnows ==
  ASSUME TypeOK, NEW s \in Scans, NEW q \in Requests, NEW r \in Trusted', ScanSettle(s, q), EffectsInv
  PROVE  Known(r)'
<1>1. JournalTypes /\ ScanTypes
  BY TypeParts
<1>2. r \in Requests
  BY DEF Trusted
<1>3. Known(r)
  BY DEF ScanSettle, history, EffectsInv, Trusted
<1>4. scan' = Done(s, q) /\ UNCHANGED << session, object, row, handler >>
  BY DEF ScanSettle
<1>5. \/ journal' = journal
      \/ scan[s].snap[q].committed /\ journal' = [journal EXCEPT ![q] = Resolved("committed")]
      \/ journal' = [journal EXCEPT ![q].resolution = "operator_required",
                                    ![q].lease = None, ![q].leaseExpired = FALSE]
  BY DEF ScanSettle
<1>6. q = r => ~scan[s].snap[q].committed
  BY <1>3 DEF ScanSettle, Known, SweepKnows, SnapIsTrue
<1>7. JournalStep(r)
  BY <1>1, <1>2, <1>4, <1>5, <1>6 DEF JournalStep, JournalTypes, JournalType
<1> QED
  BY <1>1, <1>2, <1>3, <1>4, <1>7, JournalStepUnconcerned, DoneRowKnows

LEMMA ScanTakeKnows ==
  ASSUME TypeOK, NEW s \in Scans, NEW q \in Requests, NEW r \in Trusted', ScanTake(s, q), EffectsInv
  PROVE  Known(r)'
<1>1. JournalTypes /\ ScanTypes
  BY TypeParts
<1>2. r \in Requests
  BY DEF Trusted
<1>3. Known(r)
  BY DEF ScanTake, history, EffectsInv, Trusted
<1>4. /\ UNCHANGED << session, object, row, handler >>
      /\ journal' = journal \/ journal' = [journal EXCEPT ![q].leaseExpired = FALSE]
  BY DEF ScanTake
<1>5. JournalStep(r)
  BY <1>1, <1>2, <1>4 DEF JournalStep, JournalTypes, JournalType
<1>6. Unconcerned(r)
  BY <1>5, JournalStepUnconcerned
<1>7. CASE scan' = Done(s, q)
  BY <1>1, <1>2, <1>3, <1>6, <1>7, DoneRowKnows
<1>8. CASE scan' # Done(s, q)
  <2> DEFINE label == IF scan[s].snap[q].path /\ scan[s].snap[q].object # "deleted"
                      THEN "object" ELSE "own"
  <2>1. scan' = [scan EXCEPT ![s].pc = label, ![s].at = q,
                             ![s].object = scan[s].snap[q].object,
                             ![s].index = scan[s].snap[q].index]
    BY <1>8 DEF ScanTake
  <2>2. Compensable(s, q)
    BY DEF ScanTake, Compensable
  <2>3. EffectsKnown(r)'
    BY <1>3, <1>6, UnconcernedKnows DEF Known
  <2>4. ASSUME NEW t \in Scans, t # s PROVE SweepKnows(t, r)'
    <3>1. scan'[t] = scan[t]
      BY <1>1, <2>1, <2>4 DEF ScanTypes
    <3> QED
      BY <1>3, <1>6, <3>1, SweepKnowsStill DEF Known, Unconcerned, SameEffects, Shrinks
  <2>5. /\ scan'[s].todo = scan[s].todo /\ scan'[s].snap = scan[s].snap
        /\ scan'[s].at = q /\ scan'[s].pc # "persist"
        /\ scan'[s].object = scan[s].snap[q].object /\ scan'[s].index = scan[s].snap[q].index
    BY <1>1, <2>1 DEF ScanTypes, ScanType
  <2>6. SnapIsTrue(s, r) /\ SnapIsTrue(s, r)'
    BY <1>3, <1>6, <2>5
    DEF Known, SweepKnows, SnapIsTrue, Compensable, Unconcerned, SameEffects
  <2>7. SweepIsTrue(s, r)'
    BY <1>6, <2>2, <2>5, <2>6 DEF SnapIsTrue, SweepIsTrue, Unconcerned, SameEffects
  <2> QED
    BY <2>3, <2>4, <2>6, <2>7 DEF Known, SweepKnows
<1> QED
  BY <1>7, <1>8

LEMMA ScanCheckLeaseKnows ==
  ASSUME TypeOK, NEW s \in Scans, NEW r \in Trusted', ScanCheckLease(s), EffectsInv
  PROVE  Known(r)'
<1>1. JournalTypes /\ ScanTypes
  BY TypeParts
<1>2. r \in Requests
  BY DEF Trusted
<1>3. Known(r)
  BY DEF ScanCheckLease, history, EffectsInv, Trusted
<1> DEFINE q == scan[s].at
<1>4. /\ UNCHANGED << session, object, row, handler >>
      /\ journal' = journal \/ journal' = [journal EXCEPT ![q].leaseExpired = FALSE]
  BY DEF ScanCheckLease, CheckLease
<1>5. JournalStep(r)
  BY <1>1, <1>2, <1>4 DEF JournalStep, JournalTypes, JournalType
<1>6. Unconcerned(r)
  BY <1>5, JournalStepUnconcerned
<1>7. CASE scan' = Done(s, q)
  BY <1>1, <1>2, <1>3, <1>6, <1>7, DoneRowKnows
<1>8. CASE scan' = [scan EXCEPT ![s].pc = "index", ![s].at = q]
  <2>1. EffectsKnown(r)'
    BY <1>3, <1>6, UnconcernedKnows DEF Known
  <2>2. ASSUME NEW t \in Scans, t # s PROVE SweepKnows(t, r)'
    <3>1. scan'[t] = scan[t]
      BY <1>1, <1>8, <2>2 DEF ScanTypes
    <3> QED
      BY <1>3, <1>6, <3>1, SweepKnowsStill DEF Known, Unconcerned, SameEffects, Shrinks
  <2>3. /\ scan'[s].todo = scan[s].todo /\ scan'[s].snap = scan[s].snap
        /\ scan'[s].at = scan[s].at /\ scan'[s].pc # "persist"
        /\ scan'[s].object = scan[s].object /\ scan'[s].index = scan[s].index
    BY <1>1, <1>8 DEF ScanTypes, ScanType
  <2>4. SweepKnows(s, r)'
    BY <1>3, <1>6, <2>3
    DEF Known, SweepKnows, SnapIsTrue, SweepIsTrue, Compensable, Unconcerned, SameEffects
  <2> QED
    BY <2>1, <2>2, <2>4 DEF Known
<1> QED
  BY <1>7, <1>8 DEF ScanCheckLease, CheckLease

(* A run deletes the object of the row in work: its handler is over, and   *)
(* its upload is not completed.                                            *)
LEMMA ScanDeleteObjectKnows ==
  ASSUME TypeOK, NEW s \in Scans, NEW r \in Trusted', ScanDeleteObject(s), EffectsInv
  PROVE  Known(r)'
<1>1. ScanTypes
  BY TypeParts
<1>2. r \in Requests
  BY DEF Trusted
<1>3. Known(r)
  BY DEF ScanDeleteObject, history, EffectsInv, Trusted
<1> DEFINE q == scan[s].at
<1>4. UNCHANGED << session, journal, row, handler >>
  BY DEF ScanDeleteObject, dbVars
<1>5. PICK outcome \in {"deleted", "unknown"} :
          /\ scan' = [scan EXCEPT ![s].object = outcome, ![s].pc = "own"]
          /\ object' \in {object, object \ {q}}
          /\ outcome = "deleted" => object' = object \ {q}
  BY DEF ScanDeleteObject
<1>6. Committed(r)' <=> Committed(r)
  BY <1>4 DEF Committed
<1>7. Shrinks(r)
  BY <1>4, <1>5, <1>6 DEF Shrinks
<1>8. EffectsKnown(r)'
  <2>1. CASE q = r
    <3>1. handler[r].pc = "over" /\ ~Committed(r)
      BY <1>3, <2>1 DEF Known, SweepKnows, SweepIsTrue
    <3> QED
      BY <1>3, <1>4, <1>6, <1>7, <3>1
      DEF Shrinks, Known, EffectsKnown, HandlerKnows, NothingYet, InJournal, Saved, NotInserted,
          Inserted, UndoKnowsRow, UndoneObject, UndoneRow, Whole, Listed, JournalIsTrue,
          Pending, BeforeJournal, Uncommitted
  <2>2. CASE q # r
    <3>1. Unconcerned(r)
      BY <1>4, <1>5, <1>6, <2>2 DEF Unconcerned, SameJournal, SameEffects, Pending
    <3> QED
      BY <1>3, <3>1, UnconcernedKnows DEF Known
  <2> QED
    BY <2>1, <2>2
<1>9. ASSUME NEW t \in Scans, t # s PROVE SweepKnows(t, r)'
  <2>1. scan'[t] = scan[t]
    BY <1>1, <1>5, <1>9 DEF ScanTypes
  <2> QED
    BY <1>3, <1>7, <2>1, SweepKnowsStill DEF Known
<1>10. /\ scan'[s].todo = scan[s].todo /\ scan'[s].snap = scan[s].snap
       /\ scan'[s].at = scan[s].at /\ scan'[s].pc # "persist"
       /\ scan'[s].object = outcome /\ scan'[s].index = scan[s].index
  BY <1>1, <1>5 DEF ScanTypes, ScanType
<1>11. SnapIsTrue(s, r)'
  BY <1>3, <1>7, <1>10 DEF Known, SweepKnows, SnapIsTrue, Compensable, Shrinks
<1>12. SweepIsTrue(s, r)'
  BY <1>3, <1>5, <1>7, <1>10 DEF Known, SweepKnows, SweepIsTrue, Shrinks
<1> QED
  BY <1>8, <1>9, <1>11, <1>12 DEF Known, SweepKnows

(* A run deletes the row of files of the attempt in work, or knows why not. *)
LEMMA ScanDeleteIndexKnows ==
  ASSUME TypeOK, NEW s \in Scans, NEW r \in Trusted', ScanDeleteIndex(s), EffectsInv
  PROVE  Known(r)'
<1>1. ScanTypes /\ SessionTypes
  BY TypeParts
<1>2. r \in Requests /\ UploadOf[r] \in Uploads /\ None # r
  BY ConstantsAssumption DEF Trusted
<1>3. Known(r)
  BY DEF ScanDeleteIndex, history, EffectsInv, Trusted
<1> DEFINE q == scan[s].at
           toDelete == scan[s].snap[q].file /\ scan[s].index # "deleted"
<1>4. UNCHANGED << journal, object, handler >> /\ (DeleteRow(q) \/ UNCHANGED << row, session >>)
  BY DEF ScanDeleteIndex
<1>5. /\ r \in row' => r \in row
      /\ q # r => (r \in row' <=> r \in row)
  BY <1>4 DEF DeleteRow
<1>6. /\ Committed(r)' => Committed(r)
      /\ q # r => (Committed(r)' <=> Committed(r))
  BY <1>1, <1>2, <1>4 DEF DeleteRow, Committed, SessionTypes, SessionType
<1>7. Shrinks(r)
  BY <1>4, <1>5, <1>6 DEF Shrinks
<1>8. q = r => handler[r].pc = "over" /\ ~Committed(r)
  BY <1>3 DEF Known, SweepKnows, SweepIsTrue
<1>9. EffectsKnown(r)'
  <2>1. CASE q = r
    BY <1>3, <1>4, <1>7, <1>8, <2>1
    DEF Shrinks, Known, EffectsKnown, HandlerKnows, NothingYet, InJournal, Saved, NotInserted,
        Inserted, UndoKnowsRow, UndoneObject, UndoneRow, Whole, Listed, JournalIsTrue, Pending,
        BeforeJournal, Uncommitted
  <2>2. CASE q # r
    <3>1. Unconcerned(r)
      BY <1>4, <1>5, <1>6, <2>2 DEF Unconcerned, SameJournal, SameEffects, Pending
    <3> QED
      BY <1>3, <3>1, UnconcernedKnows DEF Known
  <2> QED
    BY <2>1, <2>2
<1>10. PICK index \in Effects :
          /\ scan' = [scan EXCEPT ![s].index = index, ![s].pc = "persist"]
          /\ \/ index = "deleted" /\ DeleteRow(q)
             \/ index = "unknown"
             \/ index = scan[s].index /\ ~toDelete
  <2>1. CASE \E index \in {"deleted", "unknown"} :
                scan' = [scan EXCEPT ![s].index = index, ![s].pc = "persist"]
                /\ (index = "deleted" => DeleteRow(q))
    BY <2>1 DEF Effects
  <2>2. CASE scan' = [scan EXCEPT ![s].pc = "persist"] /\ ~toDelete
    <3>1. [scan EXCEPT ![s].pc = "persist"]
              = [scan EXCEPT ![s].index = scan[s].index, ![s].pc = "persist"]
      BY <1>1 DEF ScanTypes, ScanType
    <3>2. scan[s].index \in Effects
      BY <1>1 DEF ScanTypes, ScanType
    <3> QED
      BY <2>2, <3>1, <3>2
  <2> QED
    BY <2>1, <2>2 DEF ScanDeleteIndex
<1>11. /\ scan'[s].todo = scan[s].todo /\ scan'[s].snap = scan[s].snap
       /\ scan'[s].at = scan[s].at
       /\ scan'[s].object = scan[s].object /\ scan'[s].index = index
  BY <1>1, <1>10 DEF ScanTypes, ScanType
<1>12. ASSUME NEW t \in Scans, t # s PROVE SweepKnows(t, r)'
  <2>1. scan'[t] = scan[t]
    BY <1>1, <1>10, <1>12 DEF ScanTypes
  <2> QED
    BY <1>3, <1>7, <2>1, SweepKnowsStill DEF Known
<1>13. SnapIsTrue(s, r)'
  BY <1>3, <1>7, <1>11 DEF Known, SweepKnows, SnapIsTrue, Compensable, Shrinks
<1>14. SweepIsTrue(s, r)'
  <2>1. q = r => index # "present" /\ (index = "deleted" => r \notin row')
    BY <1>3, <1>5, <1>10 DEF Known, SweepKnows, SweepIsTrue, DeleteRow
  <2> QED
    BY <1>3, <1>7, <1>11, <2>1 DEF Known, SweepKnows, SweepIsTrue, Shrinks
<1> QED
  BY <1>9, <1>12, <1>13, <1>14 DEF Known, SweepKnows

(* What a run writes into the journal is what it knows.                    *)
LEMMA ScanPersistKnows ==
  ASSUME TypeOK, NEW s \in Scans, NEW r \in Trusted', ScanPersist(s), EffectsInv
  PROVE  Known(r)'
<1>1. ScanTypes /\ JournalTypes
  BY TypeParts
<1>2. r \in Requests
  BY DEF Trusted
<1>3. Known(r)
  BY DEF ScanPersist, history, EffectsInv, Trusted
<1> DEFINE q == scan[s].at
           resolved == Reconciled(scan[s].object, scan[s].index)
<1>4. UNCHANGED << session, object, row, handler >> /\ scan' = Done(s, q)
  BY DEF ScanPersist
<1>5. Committed(r)' <=> Committed(r)
  BY <1>4 DEF Committed
<1>6. CASE q # r \/ journal' = journal
  <2>1. journal'[r] = journal[r]
    BY <1>1, <1>2, <1>6 DEF ScanPersist, JournalTypes
  <2>2. Unconcerned(r)
    BY <1>4, <1>5, <2>1 DEF Unconcerned, SameJournal, SameEffects, Pending
  <2> QED
    BY <1>1, <1>2, <1>3, <1>4, <2>2, DoneRowKnows
<1>7. CASE q = r /\ journal' # journal
  <2>1. /\ handler[r].pc = "over" /\ ~Committed(r)
        /\ scan[s].object = "deleted" => r \notin object
        /\ scan[s].index = "deleted" => r \notin row
        /\ scan[s].index # "present"
    BY <1>3, <1>7 DEF ScanPersist, Known, SweepKnows, SweepIsTrue
  <2>2. Pending(r)
    BY <1>7 DEF ScanPersist, Owns
  <2>3. ASSUME resolved PROVE EffectsKnown(r)'
    <3>1. journal' = [journal EXCEPT ![r] = Resolved("compensated")]
      BY <1>7, <2>3 DEF ScanPersist
    <3>2. /\ journal'[r].status = "resolved" /\ journal'[r].object = "unknown"
          /\ journal'[r].index = "unknown"
      BY <1>1, <1>2, <3>1 DEF JournalTypes, Resolved, NoJournal
    <3>3. r \notin object /\ r \notin row
      BY <2>1, <2>3 DEF Reconciled
    <3> QED
      BY <1>4, <1>5, <2>1, <3>2, <3>3
      DEF EffectsKnown, HandlerKnows, NothingYet, InJournal, Saved, NotInserted, Inserted,
          UndoKnowsRow, UndoneObject, UndoneRow, Whole, Listed, JournalIsTrue, Pending,
          BeforeJournal, Uncommitted
  <2>4. ASSUME ~resolved PROVE EffectsKnown(r)'
    <3>1. journal' = [journal EXCEPT ![r] =
                        [journal[r] EXCEPT !.object = scan[s].object, !.index = scan[s].index,
                                           !.lease = None, !.leaseExpired = FALSE]]
      BY <1>7, <2>4 DEF ScanPersist
    <3>2. /\ journal'[r].status = "pending" /\ journal'[r].object = scan[s].object
          /\ journal'[r].index = scan[s].index
      BY <1>1, <1>2, <2>2, <3>1 DEF JournalTypes, JournalType, Pending
    <3> QED
      BY <1>4, <1>5, <2>1, <3>2
      DEF EffectsKnown, HandlerKnows, NothingYet, InJournal, Saved, NotInserted, Inserted,
          UndoKnowsRow, UndoneObject, UndoneRow, Whole, Listed, JournalIsTrue, Pending,
          BeforeJournal, Uncommitted
  <2>5. Shrinks(r)
    BY <1>4, <1>5 DEF Shrinks
  <2>6. ASSUME NEW t \in Scans PROVE SweepKnows(t, r)'
    BY <1>1, <1>2, <1>3, <1>4, <2>5, DoneKnows DEF Known
  <2> QED
    BY <2>3, <2>4, <2>6 DEF Known
<1> QED
  BY <1>6, <1>7

(* A deleted session has no pending journal row, and was not completed.    *)
LEMMA ScanDeleteExpiredKnows ==
  ASSUME TypeOK, NEW s \in Scans, NEW r \in Trusted', ScanDeleteExpired(s), EffectsInv
  PROVE  Known(r)'
<1>1. ScanTypes /\ SessionTypes /\ JournalTypes
  BY TypeParts
<1>2. r \in Requests /\ UploadOf[r] \in Uploads
  BY ConstantsAssumption DEF Trusted
<1>3. Known(r)
  BY DEF ScanDeleteExpired, history, EffectsInv, Trusted
<1> DEFINE gone == {u \in Uploads : Expired(u)}
<1>4. /\ UNCHANGED << object, row, handler >>
      /\ scan' = [scan EXCEPT ![s].pc = "recover"]
      /\ session' = [u \in Uploads |-> IF u \in gone
                                       THEN [session[u] EXCEPT !.status = "gone"]
                                       ELSE session[u]]
      /\ journal' = [q \in Requests |-> IF UploadOf[q] \in gone THEN NoJournal ELSE journal[q]]
  BY DEF ScanDeleteExpired
<1>5. Committed(r)' <=> Committed(r)
  BY <1>1, <1>2, <1>4 DEF Committed, Expired, SessionTypes, SessionType
<1>6. SameJournal(r)
  <2>1. CASE UploadOf[r] \in gone
    <3>1. journal'[r] = NoJournal /\ ~Pending(r)
      BY <1>2, <1>4, <2>1 DEF Expired, PendingUpload
    <3> QED
      BY <3>1 DEF SameJournal, Pending, NoJournal
  <2>2. CASE UploadOf[r] \notin gone
    BY <1>2, <1>4, <2>2 DEF SameJournal, Pending
  <2> QED
    BY <2>1, <2>2
<1>7. Unconcerned(r)
  BY <1>4, <1>5, <1>6 DEF Unconcerned, SameEffects
<1>8. EffectsKnown(r)'
  BY <1>3, <1>7, UnconcernedKnows DEF Known
<1>9. ASSUME NEW t \in Scans PROVE SweepKnows(t, r)'
  <2>1. /\ scan'[t].todo = scan[t].todo /\ scan'[t].snap = scan[t].snap
        /\ scan'[t].at = scan[t].at /\ (scan'[t].pc = "persist" => scan[t].pc = "persist")
        /\ scan'[t].object = scan[t].object /\ scan'[t].index = scan[t].index
    BY <1>1, <1>4 DEF ScanTypes, ScanType
  <2> QED
    BY <1>3, <1>7, <2>1
    DEF Known, SweepKnows, SnapIsTrue, SweepIsTrue, Compensable, Unconcerned, SameEffects
<1> QED
  BY <1>8, <1>9 DEF Known

(* A run that ends knows nothing.                                          *)
LEMMA IdleKnows ==
  ASSUME ScanTypes, NEW s \in Scans, NEW r \in Requests, Unconcerned(r), Known(r),
         scan' = [scan EXCEPT ![s] = IdleScan]
  PROVE  Known(r)'
<1>1. EffectsKnown(r)'
  BY UnconcernedKnows DEF Known
<1>2. ASSUME NEW t \in Scans PROVE SweepKnows(t, r)'
  <2>1. CASE t = s
    <3>1. scan'[s].todo = {} /\ scan'[s].at = None
      BY DEF ScanTypes, IdleScan, Batch
    <3> QED
      BY <2>1, <3>1, ConstantsAssumption DEF SweepKnows, SnapIsTrue, SweepIsTrue, Compensable
  <2>2. CASE t # s
    <3>1. scan'[t] = scan[t]
      BY <2>2 DEF ScanTypes
    <3> QED
      BY <3>1, SweepKnowsStill DEF Known, Unconcerned, SameEffects, Shrinks
  <2> QED
    BY <2>1, <2>2
<1> QED
  BY <1>1, <1>2 DEF Known

LEMMA ScanEndKnows ==
  ASSUME TypeOK, NEW s \in Scans, NEW r \in Trusted', ScanRecoverExpired(s) \/ ScanError(s),
         EffectsInv
  PROVE  Known(r)'
<1>1. ScanTypes /\ SessionTypes
  BY TypeParts
<1>2. r \in Requests /\ UploadOf[r] \in Uploads
  BY ConstantsAssumption DEF Trusted
<1>3. Known(r)
  BY DEF ScanRecoverExpired, ScanError, history, EffectsInv, Trusted
<1>4. UNCHANGED << journal, object, row, handler >>
  BY DEF ScanRecoverExpired, ScanError, dbVars
<1>5. Committed(r)' <=> Committed(r)
  <2>1. CASE ScanRecoverExpired(s)
    BY <1>1, <1>2, <2>1 DEF ScanRecoverExpired, Committed, SessionTypes, SessionType
  <2>2. CASE ScanError(s)
    BY <2>2 DEF ScanError, dbVars, Committed
  <2> QED
    BY <2>1, <2>2
<1>6. Unconcerned(r)
  BY <1>4, <1>5 DEF Unconcerned, SameJournal, SameEffects, Pending
<1>7. scan' = [scan EXCEPT ![s] = IdleScan] \/ \E q : scan' = Done(s, q)
  BY DEF ScanRecoverExpired, ScanError
<1> QED
  BY <1>1, <1>2, <1>3, <1>6, <1>7, IdleKnows, DoneRowKnows

-----------------------------------------------------------------------------

LEMMA EffectsInit ==
  ASSUME Init
  PROVE  EffectsInv
<1> SUFFICES ASSUME NEW r \in Trusted PROVE Known(r)
  BY DEF EffectsInv
<1>1. r \in Requests /\ UploadOf[r] \in Uploads /\ None # r
  BY ConstantsAssumption DEF Trusted
<1>2. /\ journal[r] = NoJournal /\ handler[r] = Handler("idle")
      /\ r \notin object /\ r \notin row
      /\ session[UploadOf[r]].status = "open"
  BY <1>1 DEF Init
<1>3. EffectsKnown(r)
  BY <1>2 DEF EffectsKnown, HandlerKnows, NothingYet, InJournal, Saved, NotInserted, Inserted,
              UndoKnowsRow, UndoneObject, UndoneRow, Whole, Listed, JournalIsTrue, Pending,
              Committed, NoJournal, Handler, BeforeJournal, Uncommitted
<1>4. ASSUME NEW s \in Scans PROVE SweepKnows(s, r)
  <2>1. scan[s].todo = {} /\ scan[s].at = None
    BY DEF Init, IdleScan, Batch
  <2> QED
    BY <1>1, <2>1 DEF SweepKnows, SnapIsTrue, SweepIsTrue, Compensable
<1> QED
  BY <1>3, <1>4 DEF Known

LEMMA EffectsStep ==
  ASSUME TypeOK, EffectsInv, [Next]_vars
  PROVE  EffectsInv'
<1> SUFFICES ASSUME NEW r \in Trusted' PROVE Known(r)'
  BY DEF EffectsInv
<1>1. ASSUME NEW q \in Requests, AnyStep(q) PROVE Known(r)'
  <2>1. CASE q = r
    BY <1>1, <2>1, OwnHandlerKnows
  <2>2. CASE q # r
    BY <1>1, <2>2, OtherHandlerKnows
  <2> QED
    BY <2>1, <2>2
<1>2. ASSUME NEW s \in Scans, ScanStep(s) \/ ScanError(s) PROVE Known(r)'
  BY <1>2, ScanClaimKnows, ScanSettleKnows, ScanTakeKnows, ScanDeleteObjectKnows,
     ScanCheckLeaseKnows, ScanDeleteIndexKnows, ScanPersistKnows, ScanDeleteExpiredKnows,
     ScanEndKnows
  DEF ScanStep
<1>3. CASE Environment
  BY <1>3, EnvironmentKnows
<1>4. CASE UNCHANGED vars
  <2>1. UNCHANGED << session, journal, object, row, handler, scan, overlapped, unsure >>
    BY <1>4 DEF vars
  <2>2. r \in Requests /\ Known(r)
    BY <2>1 DEF EffectsInv, Trusted
  <2>3. Unconcerned(r)
    BY <2>1 DEF Unconcerned, SameJournal, SameEffects, Pending, Committed
  <2>4. ASSUME NEW s \in Scans PROVE SweepKnows(s, r)'
    BY <2>1, <2>2, <2>3, SweepKnowsStill DEF Known, Unconcerned, SameEffects, Shrinks
  <2> QED
    BY <2>2, <2>3, <2>4, UnconcernedKnows DEF Known
<1> QED
  BY <1>1, <1>2, <1>3, <1>4 DEF Next, AnyStep, Environment

(* Every object and index row that a completion attempt has written is     *)
(* part of a completed upload or listed by a pending journal row, however  *)
(* handlers, maintenance runs, crashes and errors interleave, unless a run *)
(* took a running handler for a dead one or an effective statement was     *)
(* reported as failed (services/chunkUploadReconciliation.ts).             *)
THEOREM EffectsAreTracked == Spec => []NoUntrackedSideEffect
<1>1. Init => EffectsInv
  BY EffectsInit
<1>2. TypeOK /\ EffectsInv /\ [Next]_vars => EffectsInv'
  BY EffectsStep
<1>3. EffectsInv => NoUntrackedSideEffect
  BY DEF EffectsInv, Trusted, Known, EffectsKnown, Listed, NoUntrackedSideEffect
<1> QED
  BY <1>1, <1>2, <1>3, TypeCorrect, PTL DEF Spec

(* A completed upload has its object and its row of files, under the same  *)
(* provisos: no maintenance run compensates a committed attempt.           *)
THEOREM CommittedFilesAreIntact == Spec => []CommittedFileIntact
<1>1. Init => EffectsInv
  BY EffectsInit
<1>2. TypeOK /\ EffectsInv /\ [Next]_vars => EffectsInv'
  BY EffectsStep
<1>3. EffectsInv => CommittedFileIntact
  BY DEF EffectsInv, Trusted, Known, EffectsKnown, Whole, CommittedFileIntact
<1> QED
  BY <1>1, <1>2, <1>3, TypeCorrect, PTL DEF Spec

(* Together: what attempts leave behind is known, what they commit stays.  *)
THEOREM SideEffects == Spec => []SideEffectsAreSafe
<1>1. NoUntrackedSideEffect /\ CommittedFileIntact => SideEffectsAreSafe
  BY DEF SideEffectsAreSafe
<1> QED
  BY <1>1, EffectsAreTracked, CommittedFilesAreIntact, PTL
==============================================================================
