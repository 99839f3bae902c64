----------------------------- MODULE FilesProofs -----------------------------
(***************************************************************************)
(* Proofs about the components of MCFiles, for every value of their        *)
(* constants and any number of errors.  The module extends StorageAccounts:*)
(* what is listed can be read from where it was stored, what is deleted    *)
(* was confirmed, and memory follows the rows.  The other parts have their *)
(* own instance, variables and invariant: DownloadRange (every message has *)
(* one outcome and the account is held as long as needed), MediaUpload (an *)
(* object has its row, and what is over holds nothing), CloudProviders (a  *)
(* flow is redeemed once, a token is of its row's grant, a folder is made  *)
(* once) and MediaDerivatives (a job finds its source, a row its preview). *)
(***************************************************************************)
EXTENDS StorageAccounts, Sequences, FiniteSetTheorems, WellFoundedInduction, TLAPS

\* A file is listed after it was written, and an upload that may still write
\* keeps its account from being deleted by its lease.
UploadsHold ==
    \A u \in Uploads :
        /\ upload[u].at \in {"new", "captured", "failed"} => ~row[u]
        /\ row[u] => Exists(upload[u].target)
        /\ upload[u].at \in {"writing", "leaving"} =>
             /\ Exists(upload[u].target)
             /\ upload[u].target = "local" \/ lease[u] \in {"held", "expired"}

\* The target that the rows name.
Target == IF setting = "local" THEN "local" ELSE CHOOSE a \in ActiveRows : TRUE

\* While switches take turns, the one that runs reads what the last one wrote.
TurnsAreRead ==
    ~odd.overlap =>
        /\ \A r, s \in Busy : r = s
        /\ Busy = {} => active = Target
        /\ \A s \in Busy :
             /\ call[s].at \in {"rows", "apply"} => call[s].read = setting
             /\ call[s].at = "apply" => ActiveIn(call[s].rows) = ActiveRows

AccountsInv ==
    /\ TypeOK /\ Consistent(setting, account)
    /\ UploadsHold /\ odd.raced = {} /\ odd.lost = {} /\ TurnsAreRead
-----------------------------------------------------------------------------
(* Types                                                                    *)

\* The initial values of the calls and of the deletion have their types.
LEMMA RestingTypes ==
  ASSUME StorageAssumption
  PROVE  /\ Idle \in CallType /\ NoDelete \in DeleteType /\ "local" \in Targets
         /\ \A t \in Targets : TypeName(t) \in TypeNames
         /\ \A a \in Accounts : a \in Targets /\ TypeName(a) = TypeOf[a]
<1>1. "local" \in Targets /\ TypeName("local") = "local" /\ \A t \in Targets : TypeName(t) \in TypeNames
  BY DEF Targets, TypeName, TypeNames
<1>2. Idle \in CallType
  BY <1>1 DEF Idle, CallType
<1> QED  BY <1>1, <1>2 DEF DeleteType, StorageAssumption, Targets, TypeName

\* An active row is the target of the setting.
LEMMA TheActive ==
  ASSUME StorageAssumption, TypeOK, Consistent(setting, account)
  PROVE  /\ setting = "local" => ActiveRows = {}
         /\ setting # "local" => \E a \in Accounts : ActiveRows = {a} /\ TypeOf[a] = setting
  BY DEF Consistent, ActiveIn, ActiveRows

\* The initial state.
LEMMA InitTypes == ASSUME StorageAssumption, Init PROVE TypeOK
<1>1. account \in [Accounts -> AccountStatus] /\ setting \in TypeNames
  BY RestingTypes DEF Init, AccountStatus, TypeName
<1>2. active \in Targets /\ loaded \subseteq Accounts /\ adding \subseteq Accounts
  BY RestingTypes DEF Init
<1>3. call \in [Switches -> CallType] /\ delete \in DeleteType
  BY RestingTypes DEF Init
<1>4. upload \in [Uploads -> UploadType]
  BY RestingTypes DEF Init, UploadType
<1>5. /\ lease \in [Uploads -> {"none", "held", "expired", "released"}] /\ row \in [Uploads -> BOOLEAN]
      /\ odd \in [overlap : BOOLEAN, raced : SUBSET Uploads, lost : SUBSET Uploads]
  BY DEF Init
<1> QED  BY <1>1, <1>2, <1>3, <1>4, <1>5 DEF TypeOK

\* A switch and its reads keep the types.
LEMMA SwitchTypes ==
  ASSUME StorageAssumption, TypeOK, NEW s \in Switches, NEW t \in Targets,
         Switch(s, t) \/ InitReads(s) \/ InitApplies(s)
  PROVE  TypeOK'
<1>1. CASE Switch(s, t)
  <2>1. account' \in [Accounts -> AccountStatus]
    BY <1>1 DEF Switch, TypeOK, AccountStatus
  <2>2. setting' \in TypeNames
    BY <1>1, RestingTypes DEF Switch
  <2>3. call' \in [Switches -> CallType]
    <3>1. [Idle EXCEPT !.at = "setting", !.target = t] \in CallType
      BY RestingTypes DEF Idle, CallType
    <3> QED  BY <1>1, <3>1 DEF Switch, Call, TypeOK
  <2>4. odd' \in [overlap : BOOLEAN, raced : SUBSET Uploads, lost : SUBSET Uploads]
    BY <1>1 DEF Switch, TypeOK
  <2> QED  BY <1>1, <2>1, <2>2, <2>3, <2>4 DEF Switch, TypeOK, useVars
<1>2. CASE InitReads(s)
  <2>1. call[s] \in CallType /\ setting \in TypeNames /\ account \in [Accounts -> AccountStatus]
    BY DEF TypeOK
  <2>2. /\ [call[s] EXCEPT !.at = "rows", !.read = setting] \in CallType
        /\ [call[s] EXCEPT !.at = "apply", !.rows = account] \in CallType
    BY <2>1 DEF CallType
  <2>3. call' \in [Switches -> CallType]
    BY <1>2, <2>2 DEF InitReads, Call, TypeOK
  <2> QED  BY <1>2, <2>3 DEF InitReads, TypeOK, dbVars, useVars
<1>3. CASE InitApplies(s)
  <2>1. [Idle EXCEPT !.at = "done"] \in CallType
    BY RestingTypes DEF Idle, CallType
  <2>2. call' \in [Switches -> CallType]
    BY <1>3, <2>1 DEF InitApplies, Call, TypeOK
  <2>3. active' \in Targets /\ loaded' \subseteq Accounts
    <3>1. CASE ~Consistent(call[s].read, call[s].rows)
      BY <1>3, <3>1 DEF InitApplies, TypeOK
    <3>2. CASE Consistent(call[s].read, call[s].rows)
      <4>1. call[s].read # "local" => (CHOOSE a \in ActiveIn(call[s].rows) : TRUE) \in Accounts
        BY <3>2 DEF Consistent, ActiveIn
      <4> QED  BY <1>3, <3>2, <4>1, RestingTypes DEF InitApplies, TypeOK
    <3> QED  BY <3>1, <3>2
  <2> QED  BY <1>3, <2>2, <2>3 DEF InitApplies, TypeOK, dbVars, useVars
<1> QED  BY <1>1, <1>2, <1>3

\* Adding an account, and asking for its deletion, keeps the types.
LEMMA AccountTypes ==
  ASSUME StorageAssumption, TypeOK, NEW a \in Accounts, Add(a) \/ Added(a) \/ Confirm(a)
  PROVE  TypeOK'
<1>1. CASE Add(a)
  BY <1>1 DEF Add, TypeOK, AccountStatus, useVars
<1>2. CASE Added(a)
  BY <1>2 DEF Added, TypeOK, dbVars, useVars
<1>3. CASE Confirm(a)
  <2>1. delete' \in DeleteType
    BY <1>3 DEF Confirm, DeleteType, FilesOf
  <2> QED  BY <1>3, <2>1 DEF Confirm, TypeOK, dbVars, useVars
<1> QED  BY <1>1, <1>2, <1>3

\* The steps of an upload keep the types.
LEMMA UploadTypes ==
  ASSUME StorageAssumption, TypeOK, NEW u \in Uploads, NEW t \in Targets, NEW ok \in BOOLEAN,
         Capture(u, t) \/ Lease(u) \/ Write(u, ok) \/ Release(u, ok) \/ Expire(u)
  PROVE  TypeOK'
<1>0. /\ upload[u] \in UploadType
      /\ \A st \in {"writing", "leaving", "done", "failed"} : [upload[u] EXCEPT !.at = st] \in UploadType
  BY DEF TypeOK, UploadType
<1>1. CASE Capture(u, t)
  BY <1>1 DEF Capture, TypeOK, UploadType, dbVars
<1>2. ASSUME NEW st \in {"writing", "leaving", "done", "failed"}, Stage(u, st)
      PROVE  upload' \in [Uploads -> UploadType]
  BY <1>0, <1>2 DEF Stage, TypeOK, UploadType
<1>3. CASE Lease(u)
  <2>1. upload' \in [Uploads -> UploadType]
    BY <1>2, <1>3 DEF Lease
  <2> QED  BY <1>3, <2>1 DEF Lease, TypeOK, dbVars
<1>4. CASE Write(u, ok)
  <2>1. upload' \in [Uploads -> UploadType]
    BY <1>2, <1>4 DEF Write
  <2>2. row' \in [Uploads -> BOOLEAN]
    BY <1>4 DEF Write, TypeOK
  <2>3. odd' \in [overlap : BOOLEAN, raced : SUBSET Uploads, lost : SUBSET Uploads]
    BY <1>4 DEF Write, TypeOK
  <2> QED  BY <1>4, <2>1, <2>2, <2>3 DEF Write, TypeOK, dbVars
<1>5. CASE Release(u, ok)
  <2>1. upload' \in [Uploads -> UploadType]
    BY <1>2, <1>5 DEF Release
  <2> QED  BY <1>5, <2>1 DEF Release, TypeOK, dbVars
<1>6. CASE Expire(u)
  BY <1>6 DEF Expire, TypeOK, dbVars
<1> QED  BY <1>1, <1>3, <1>4, <1>5, <1>6

\* What a committed deletion of account a does.
Deletes(a) ==
    /\ a \in Accounts /\ account[a] = "idle" /\ AsConfirmed(a) /\ ~InUse(a) /\ active # a
    /\ account' = [account EXCEPT ![a] = "gone"]
    /\ odd' = [odd EXCEPT !.lost = odd.lost \cup (FilesOf(a) \ delete.files),
                          !.overlap = odd.overlap \/ \E s \in Busy : call[s].at = "apply"]
    /\ row' = [u \in Uploads |-> row[u] /\ upload[u].target # a]
    /\ delete' = [delete EXCEPT !.at = "committed"]

\* A deletion is committed or nothing happens to the rows.
LEMMA DeleteCases ==
  ASSUME TypeOK, Delete
  PROVE  /\ UNCHANGED << setting, active, loaded, call, adding, upload, lease, events >>
         /\ \/ Deletes(delete.account)
            \/ delete' = NoDelete /\ UNCHANGED << account, row, odd >>
<1>1. delete.account \in Accounts
  BY DEF Delete, TypeOK, DeleteType, NoDelete
<1> QED  BY <1>1, Zenon DEF Delete, Deletes

\* The deletion keeps the types.
LEMMA DeleteTypes ==
  ASSUME StorageAssumption, TypeOK, Delete \/ RemoveProvider
  PROVE  TypeOK'
<1>1. CASE Delete
  <2>0. NoDelete \in DeleteType
    BY DEF DeleteType
  <2>1. ASSUME NEW a, a = delete.account, Deletes(a)
        PROVE  /\ account' \in [Accounts -> AccountStatus] /\ row' \in [Uploads -> BOOLEAN]
               /\ odd' \in [overlap : BOOLEAN, raced : SUBSET Uploads, lost : SUBSET Uploads]
               /\ delete' \in DeleteType
    <3>1. account' \in [Accounts -> AccountStatus]
      BY <2>1 DEF Deletes, TypeOK, AccountStatus
    <3>2. row' \in [Uploads -> BOOLEAN]
      <4>1. \A u \in Uploads : (row[u] /\ upload[u].target # a) \in BOOLEAN
        OBVIOUS
      <4> QED  BY <2>1, <4>1, Zenon DEF Deletes
    <3>3. delete' \in DeleteType
      <4>1. delete \in [at : {"confirmed", "committed"}, account : Accounts, files : SUBSET Uploads]
        BY <1>1 DEF Delete, TypeOK, DeleteType, NoDelete
      <4> QED  BY <2>1, <4>1 DEF Deletes, DeleteType
    <3>4. odd' \in [overlap : BOOLEAN, raced : SUBSET Uploads, lost : SUBSET Uploads]
      <4> DEFINE lost == odd.lost \cup (FilesOf(a) \ delete.files)
                 overlap == odd.overlap \/ \E s \in Busy : call[s].at = "apply"
      <4>1. lost \subseteq Uploads /\ overlap \in BOOLEAN
        BY DEF FilesOf, TypeOK
      <4>2. odd' = [odd EXCEPT !.lost = lost, !.overlap = overlap]
        BY <2>1 DEF Deletes
      <4> HIDE DEF lost, overlap
      <4> QED  BY <4>1, <4>2 DEF TypeOK
    <3> QED  BY <3>1, <3>2, <3>3, <3>4
  <2>2. UNCHANGED << setting, active, loaded, call, adding, upload, lease >>
    BY <1>1, DeleteCases
  <2>3. CASE Deletes(delete.account)
    BY <2>1, <2>2, <2>3 DEF TypeOK
  <2>4. CASE delete' = NoDelete /\ UNCHANGED << account, row, odd >>
    BY <2>0, <2>2, <2>4 DEF TypeOK
  <2> QED  BY <1>1, <2>3, <2>4, DeleteCases
<1>2. CASE RemoveProvider
  BY <1>2, RestingTypes DEF RemoveProvider, TypeOK, dbVars, useVars
<1> QED  BY <1>1, <1>2

\* A restart keeps the types.
LEMMA CrashTypes == ASSUME StorageAssumption, TypeOK, Crash PROVE TypeOK'
<1>1. active' \in Targets
  <2>1. setting # "local" => (CHOOSE a \in ActiveRows : TRUE) \in Accounts
    BY TheActive DEF Crash
  <2> QED  BY <2>1, RestingTypes DEF Crash
<1>2. [Idle EXCEPT !.at = "done"] \in CallType
  BY RestingTypes DEF Idle, CallType
<1>3. call' \in [Switches -> CallType] /\ delete' \in DeleteType
  BY <1>2, RestingTypes DEF Crash
<1>4. upload' \in [Uploads -> UploadType]
  BY DEF Crash, TypeOK, UploadType
<1>5. odd' \in [overlap : BOOLEAN, raced : SUBSET Uploads, lost : SUBSET Uploads]
  BY DEF Crash, TypeOK
<1> QED  BY <1>1, <1>3, <1>4, <1>5 DEF Crash, TypeOK, dbVars

\* Every step keeps the types.
LEMMA TypesStep == ASSUME StorageAssumption, TypeOK, [Next]_vars PROVE TypeOK'
<1>1. CASE UNCHANGED vars
  BY <1>1 DEF vars, TypeOK
<1>2. CASE Next
  <2>1. ASSUME NEW s \in Switches, SwitchStep(s) PROVE TypeOK'
    BY <2>1, SwitchTypes, RestingTypes DEF SwitchStep
  <2>2. ASSUME NEW s \in Switches, NEW t \in Targets, Switch(s, t) PROVE TypeOK'
    BY <2>2, SwitchTypes
  <2>3. ASSUME NEW a \in Accounts, Add(a) \/ Added(a) \/ Confirm(a) PROVE TypeOK'
    BY <2>3, AccountTypes
  <2>4. ASSUME NEW u \in Uploads, NEW ok \in BOOLEAN,
               Lease(u) \/ Write(u, ok) \/ Release(u, ok) \/ Expire(u)
        PROVE  TypeOK'
    BY <2>4, UploadTypes, RestingTypes
  <2>5. ASSUME NEW u \in Uploads, NEW t \in Targets, Capture(u, t) PROVE TypeOK'
    BY <2>5, UploadTypes
  <2> QED  BY <1>2, <2>1, <2>2, <2>3, <2>4, <2>5, DeleteTypes, CrashTypes DEF Next, UploadStep
<1> QED  BY <1>1, <1>2

\* Every variable keeps to its type.
THEOREM TypeCorrect == StorageAssumption => (Spec => []TypeOK)
<1> SUFFICES ASSUME StorageAssumption PROVE Spec => []TypeOK
  OBVIOUS
<1>1. Init => TypeOK
  BY InitTypes
<1>2. TypeOK /\ [Next]_vars => TypeOK'
  BY TypesStep
<1> QED  BY <1>1, <1>2, PTL DEF Spec
-----------------------------------------------------------------------------
(* The rows                                                                 *)

\* An account that exists before a step and is not deleted by it exists after it.
Lasts(t) == Exists(t) => Exists(t)'

\* A switch leaves one active row, that of its target, and deletes none.
LEMMA SwitchRows ==
  ASSUME StorageAssumption, TypeOK, NEW s \in Switches, NEW t \in Targets, Switch(s, t)
  PROVE  Consistent(setting, account)' /\ \A v \in Targets : Lasts(v)
<1>1. /\ \A a \in Accounts : account'[a] = IF ~Exists(a) THEN account[a]
                                           ELSE IF a = t THEN "active" ELSE "idle"
      /\ setting' = TypeName(t) /\ Exists(t)
  BY DEF Switch
<1>2. \A v \in Targets : Lasts(v)
  BY <1>1 DEF Lasts, Exists, Targets
<1>3. ASSUME t # "local"
      PROVE  ActiveIn(account') = {t} /\ t \in Accounts /\ TypeName(t) = TypeOf[t] /\ TypeOf[t] # "local"
  <2>1. t \in Accounts /\ TypeName(t) = TypeOf[t] /\ TypeOf[t] # "local"
    BY <1>3 DEF Targets, TypeName, StorageAssumption
  <2>2. \A a \in Accounts : account'[a] = "active" <=> a = t
    BY <1>1, <2>1 DEF Exists
  <2> QED  BY <2>1, <2>2 DEF ActiveIn
<1>4. ASSUME t = "local"
      PROVE  ActiveIn(account') = {} /\ TypeName(t) = "local"
  <2>1. \A a \in Accounts : account'[a] # "active"
    BY <1>1, <1>4 DEF Exists, StorageAssumption
  <2> QED  BY <1>4, <2>1 DEF ActiveIn, TypeName
<1> QED  BY <1>1, <1>2, <1>3, <1>4 DEF Consistent

\* A new account and a deletion leave the active row alone.
LEMMA OtherRows ==
  ASSUME StorageAssumption, TypeOK, NEW a \in Accounts, NEW st \in {"idle", "gone"},
         account[a] # "active", account' = [account EXCEPT ![a] = st], setting' = setting
  PROVE  /\ ActiveRows' = ActiveRows /\ (Consistent(setting, account) => Consistent(setting, account)')
         /\ \A v \in Targets : v # a \/ st = "idle" => Lasts(v)
<1>1. \A v \in Accounts : account'[v] = "active" <=> account[v] = "active"
  BY DEF TypeOK
<1>2. ActiveIn(account') = ActiveIn(account) /\ ActiveRows' = ActiveRows
  BY <1>1 DEF ActiveIn, ActiveRows
<1>3. \A v \in Targets : v # a \/ st = "idle" => Lasts(v)
  BY DEF TypeOK, Lasts, Exists, Targets
<1> QED  BY <1>2, <1>3 DEF Consistent

\* Where no account is deleted and no upload moves, the uploads keep their accounts.
LEMMA HoldsWithRows ==
  ASSUME TypeOK, UploadsHold, UNCHANGED useVars, \A v \in Targets : Lasts(v)
  PROVE  UploadsHold'
<1>1. upload' = upload /\ lease' = lease /\ row' = row /\ \A u \in Uploads : upload[u].target \in Targets
  BY DEF useVars, TypeOK, UploadType
<1> QED  BY <1>1 DEF UploadsHold, Lasts

\* The steps of an upload keep it with its account.
LEMMA HoldsWithUpload ==
  ASSUME StorageAssumption, TypeOK, UploadsHold, NEW u \in Uploads, NEW t \in Targets,
         NEW ok \in BOOLEAN, Capture(u, t) \/ Lease(u) \/ Write(u, ok) \/ Release(u, ok) \/ Expire(u)
  PROVE  UploadsHold' /\ (odd.raced = {} => odd'.raced = {}) /\ odd'.lost = odd.lost
         /\ odd'.overlap = odd.overlap /\ UNCHANGED << account, setting, active, call >>
<1>0. /\ upload \in [Uploads -> UploadType] /\ row \in [Uploads -> BOOLEAN]
      /\ lease \in [Uploads -> {"none", "held", "expired", "released"}]
      /\ odd \in [overlap : BOOLEAN, raced : SUBSET Uploads, lost : SUBSET Uploads]
  BY DEF TypeOK
<1>1. UNCHANGED << account, setting, active, call >> /\ \A v \in Targets : Exists(v)' = Exists(v)
  BY DEF Capture, Lease, Write, Release, Expire, dbVars, Exists
<1>2. \A v \in Uploads : v # u => /\ upload'[v] = upload[v] /\ row'[v] = row[v] /\ lease'[v] = lease[v]
                                  /\ upload[v].target \in Targets
  BY <1>0 DEF Capture, Lease, Write, Release, Expire, Stage, UploadType
<1>3. CASE Capture(u, t)
  <2>1. /\ upload'[u].at = "captured" /\ row' = row /\ ~row[u] /\ odd' = odd
    BY <1>0, <1>3 DEF Capture, UploadsHold
  <2> QED  BY <1>0, <1>1, <1>2, <2>1 DEF UploadsHold, UploadType
<1>4. CASE Lease(u)
  <2>1. /\ upload'[u].target = upload[u].target /\ upload[u].target \in Targets
        /\ row' = row /\ ~row[u] /\ odd' = odd
        /\ \/ upload'[u].at = "failed"
           \/ /\ upload'[u].at = "writing" /\ Exists(upload[u].target)
              /\ upload[u].target = "local" \/ lease'[u] = "held"
    BY <1>0, <1>4 DEF Lease, Stage, UploadsHold, UploadType
  <2> QED  BY <1>0, <1>1, <1>2, <2>1 DEF UploadsHold
<1>5. CASE Write(u, ok)
  <2>1. /\ upload'[u].target = upload[u].target /\ upload[u].target \in Targets
        /\ upload'[u].at = "leaving" /\ lease' = lease /\ Exists(upload[u].target)
        /\ upload[u].target = "local" \/ lease[u] \in {"held", "expired"}
    BY <1>0, <1>5 DEF Write, Stage, UploadsHold, UploadType
  <2>2. odd' = [odd EXCEPT !.raced = odd.raced]
    BY <1>5, <2>1 DEF Write
  <2>3. odd'.raced = odd.raced /\ odd'.lost = odd.lost /\ odd'.overlap = odd.overlap
    BY <1>0, <2>2
  <2> QED  BY <1>0, <1>1, <1>2, <2>1, <2>3 DEF UploadsHold
<1>6. CASE Release(u, ok)
  <2>1. /\ upload'[u].target = upload[u].target /\ upload[u].target \in Targets
        /\ upload'[u].at = "done" /\ row' = row /\ Exists(upload[u].target) /\ odd' = odd
    BY <1>0, <1>6 DEF Release, Stage, UploadsHold, UploadType
  <2> QED  BY <1>0, <1>1, <1>2, <2>1 DEF UploadsHold
<1>7. CASE Expire(u)
  <2>1. upload' = upload /\ row' = row /\ lease'[u] = "expired" /\ upload[u].target \in Targets /\ odd' = odd
    BY <1>0, <1>7 DEF Expire, UploadType
  <2> QED  BY <1>0, <1>1, <1>2, <2>1 DEF UploadsHold
<1> QED  BY <1>3, <1>4, <1>5, <1>6, <1>7

\* A committed deletion takes the rows along, and nobody writes to the account.
LEMMA HoldsWithDelete ==
  ASSUME StorageAssumption, TypeOK, UploadsHold, UNCHANGED << setting, upload, lease >>,
         NEW a, Deletes(a)
  PROVE  UploadsHold' /\ odd'.lost = odd.lost /\ odd'.raced = odd.raced
<1>1. a \in Accounts /\ \A v \in Targets : v # a => Lasts(v)
  BY OtherRows DEF Deletes
<1>2. \A u \in Uploads : upload[u].at \in {"writing", "leaving"} => upload[u].target # a
  BY <1>1 DEF Deletes, InUse, UploadsHold, StorageAssumption
<1>3. \A u \in Uploads : /\ upload[u].target \in Targets /\ upload'[u] = upload[u] /\ lease'[u] = lease[u]
                         /\ row'[u] => row[u] /\ upload[u].target # a
  BY DEF Deletes, TypeOK, UploadType
<1>4. odd'.lost = odd.lost /\ odd'.raced = odd.raced
  <2>1. FilesOf(a) \ delete.files = {}
    BY DEF Deletes, AsConfirmed
  <2> DEFINE overlap == odd.overlap \/ \E s \in Busy : call[s].at = "apply"
  <2>2. odd' = [odd EXCEPT !.lost = odd.lost \cup {}, !.overlap = overlap]
    BY <2>1 DEF Deletes
  <2> HIDE DEF overlap
  <2> QED  BY <2>2 DEF TypeOK
<1> QED  BY <1>1, <1>2, <1>3, <1>4 DEF UploadsHold, Lasts
-----------------------------------------------------------------------------
(* The target in memory                                                     *)

\* A step that leaves the calls, the target and the active rows alone.
LEMMA KeepTurns ==
  ASSUME TurnsAreRead, UNCHANGED << call, setting, active >>, ActiveRows' = ActiveRows,
         odd.overlap => odd'.overlap
  PROVE  TurnsAreRead'
<1>1. Busy' = Busy /\ Target' = Target
  BY DEF Busy, Target
<1> QED  BY <1>1 DEF TurnsAreRead, ActiveIn

\* A switch that starts beside another one is an overlap.
LEMMA SwitchTurns ==
  ASSUME StorageAssumption, TypeOK, TurnsAreRead, NEW s \in Switches, NEW t \in Targets, Switch(s, t)
  PROVE  TurnsAreRead'
<1> SUFFICES ASSUME ~odd'.overlap
             PROVE  TurnsAreRead'
  BY DEF TurnsAreRead
<1>1. Busy = {}
  <2>1. odd' = [odd EXCEPT !.overlap = odd.overlap \/ Busy # {}]
    BY DEF Switch
  <2> QED  BY <2>1 DEF TypeOK
<1>2. call'[s].at = "setting" /\ \A r \in Switches : r # s => call'[r] = call[r]
  BY DEF Switch, Call, TypeOK, CallType, Idle
<1>3. Busy' = {s}
  BY <1>1, <1>2 DEF Busy
<1> QED  BY <1>2, <1>3 DEF TurnsAreRead

\* The reads of a switch, one after the other, ...
LEMMA ReadTurns ==
  ASSUME TypeOK, TurnsAreRead, NEW s \in Switches, InitReads(s)
  PROVE  TurnsAreRead'
<1>0. call \in [Switches -> CallType]
  BY DEF TypeOK
<1>1. /\ UNCHANGED << setting, active, odd, account >>
      /\ \A r \in Switches : r # s => call'[r] = call[r]
      /\ \/ call[s].at = "setting" /\ call'[s].at = "rows" /\ call'[s].read = setting
         \/ /\ call[s].at = "rows" /\ call'[s].at = "apply" /\ call'[s].read = call[s].read
            /\ call'[s].rows = account
  BY <1>0 DEF InitReads, Call, CallType, dbVars
<1>2. Busy' = Busy /\ s \in Busy /\ Target' = Target /\ ActiveRows' = ActiveRows
  BY <1>1 DEF Busy, Target, ActiveRows
<1>3. ActiveIn(account) = ActiveRows
  BY DEF ActiveIn, ActiveRows
<1> SUFFICES ASSUME ~odd.overlap
             PROVE  TurnsAreRead'
  BY <1>1 DEF TurnsAreRead
<1>4. Busy = {s}
  BY <1>2 DEF TurnsAreRead
<1>5. call'[s].at \in {"rows", "apply"} => call'[s].read = setting
  BY <1>1, <1>2 DEF TurnsAreRead
<1>6. call'[s].at = "apply" => ActiveIn(call'[s].rows) = ActiveRows
  BY <1>1, <1>3
<1>7. \A r \in Busy' : /\ call'[r].at \in {"rows", "apply"} => call'[r].read = setting'
                       /\ call'[r].at = "apply" => ActiveIn(call'[r].rows) = ActiveRows'
  BY <1>1, <1>2, <1>4, <1>5, <1>6
<1>8. (\A q, r \in Busy' : q = r) /\ Busy' # {}
  BY <1>2, <1>4
<1> QED  BY <1>7, <1>8 DEF TurnsAreRead, ActiveIn

\* ... and what it makes of them: without overlap they fit.
LEMMA ApplyTurns ==
  ASSUME TypeOK, Consistent(setting, account), TurnsAreRead, NEW s \in Switches, InitApplies(s)
  PROVE  TurnsAreRead'
<1> SUFFICES ASSUME ~odd.overlap
             PROVE  TurnsAreRead'
  BY DEF TurnsAreRead, InitApplies
<1>1. s \in Busy /\ Busy = {s}
  BY DEF InitApplies, Busy, TurnsAreRead
<1>2. call[s].read = setting /\ ActiveIn(call[s].rows) = ActiveRows
  BY <1>1 DEF InitApplies, TurnsAreRead
<1>3. Consistent(call[s].read, call[s].rows)
  BY <1>2 DEF Consistent, ActiveIn, ActiveRows
<1>4. active' = Target
  BY <1>2, <1>3 DEF InitApplies, Target
<1>5. Busy' = {}
  <2>1. call'[s].at = "done" /\ \A r \in Switches : r # s => call'[r] = call[r]
    BY DEF InitApplies, Call, TypeOK, CallType, Idle
  <2> QED  BY <1>1, <2>1 DEF Busy
<1>6. Target' = Target
  BY DEF InitApplies, dbVars, Target, ActiveRows
<1> QED  BY <1>4, <1>5, <1>6 DEF TurnsAreRead

\* A restart reads the target anew.
LEMMA CrashTurns ==
  ASSUME Crash
  PROVE  TurnsAreRead'
<1>1. Busy' = {}
  BY DEF Crash, Busy, Idle
<1>2. active' = Target /\ Target' = Target
  BY DEF Crash, Target, dbVars, ActiveRows
<1> QED  BY <1>1, <1>2 DEF TurnsAreRead
-----------------------------------------------------------------------------
\* The invariant holds initially ...
LEMMA InvInit == ASSUME StorageAssumption, Init PROVE AccountsInv
<1>1. TypeOK
  BY InitTypes
<1>2. Consistent(setting, account) /\ ActiveRows = {}
  BY DEF Init, Consistent, ActiveIn, ActiveRows
<1>3. UploadsHold
  BY DEF Init, UploadsHold
<1>4. Busy = {} /\ active = Target /\ odd.raced = {} /\ odd.lost = {}
  BY DEF Init, Busy, Idle, Target
<1>5. TurnsAreRead
  BY <1>4 DEF TurnsAreRead
<1> QED  BY <1>1, <1>2, <1>3, <1>4, <1>5 DEF AccountsInv

\* ... and is kept: what it says beside the types, by each step.
Kept ==
    /\ Consistent(setting, account)' /\ UploadsHold' /\ odd'.raced = {} /\ odd'.lost = {}
    /\ TurnsAreRead'

\* By a switch and its reads, ...
LEMMA InvSwitch ==
  ASSUME StorageAssumption, AccountsInv, NEW s \in Switches, NEW t \in Targets,
         Switch(s, t) \/ InitReads(s) \/ InitApplies(s)
  PROVE  Kept
<1>0. TypeOK /\ UploadsHold /\ TurnsAreRead /\ Consistent(setting, account) /\ odd.raced = {} /\ odd.lost = {}
  BY DEF AccountsInv
<1>1. CASE Switch(s, t)
  <2>1. Consistent(setting, account)' /\ \A v \in Targets : Lasts(v)
    BY <1>0, <1>1, SwitchRows
  <2>2. UploadsHold'
    BY <1>0, <1>1, <2>1, HoldsWithRows DEF Switch
  <2>3. odd'.raced = {} /\ odd'.lost = {}
    BY <1>0, <1>1 DEF Switch, TypeOK
  <2> QED  BY <1>0, <1>1, <2>1, <2>2, <2>3, SwitchTurns DEF Kept
<1>2. CASE InitReads(s) \/ InitApplies(s)
  <2>1. UNCHANGED << account, setting, upload, lease, row, odd >>
    BY <1>2 DEF InitReads, InitApplies, dbVars, useVars
  <2>2. Consistent(setting, account)' /\ \A v \in Targets : Lasts(v)
    BY <1>0, <2>1 DEF Consistent, ActiveIn, Lasts, Exists
  <2>3. UploadsHold'
    BY <1>0, <2>1, <2>2, HoldsWithRows DEF useVars
  <2> QED  BY <1>0, <1>2, <2>1, <2>2, <2>3, ReadTurns, ApplyTurns DEF Kept
<1> QED  BY <1>1, <1>2

\* ... by the steps around an account, ...
LEMMA InvAccount ==
  ASSUME StorageAssumption, AccountsInv,
         RemoveProvider \/ (\E a \in Accounts : Add(a) \/ Added(a) \/ Confirm(a))
  PROVE  Kept
<1>0. TypeOK /\ UploadsHold /\ TurnsAreRead /\ Consistent(setting, account) /\ odd.raced = {} /\ odd.lost = {}
  BY DEF AccountsInv
<1>1. UNCHANGED << setting, active, call, odd >> /\ UNCHANGED useVars
  BY DEF RemoveProvider, Add, Added, Confirm, dbVars
<1>2. Consistent(setting, account)' /\ ActiveRows' = ActiveRows /\ \A v \in Targets : Lasts(v)
  <2>1. CASE account' = account
    BY <1>0, <1>1, <2>1 DEF Consistent, ActiveIn, ActiveRows, Lasts, Exists
  <2>2. ASSUME NEW a \in Accounts, Add(a)
        PROVE  Consistent(setting, account)' /\ ActiveRows' = ActiveRows /\ \A v \in Targets : Lasts(v)
    <3>1. account[a] # "active" /\ account' = [account EXCEPT ![a] = "idle"] /\ setting' = setting
      BY <2>2 DEF Add
    <3> QED  BY <1>0, <3>1, OtherRows
  <2> QED  BY <2>1, <2>2 DEF RemoveProvider, Added, Confirm, dbVars
<1> QED  BY <1>0, <1>1, <1>2, HoldsWithRows, KeepTurns DEF Kept

\* ... by its deletion and by a restart, ...
LEMMA InvDelete ==
  ASSUME StorageAssumption, AccountsInv, Delete \/ Crash
  PROVE  Kept
<1>0. TypeOK /\ UploadsHold /\ TurnsAreRead /\ Consistent(setting, account) /\ odd.raced = {} /\ odd.lost = {}
  BY DEF AccountsInv
<1>1. CASE Delete
  <2>0. UNCHANGED << setting, active, loaded, call, adding, upload, lease, events >>
    BY <1>0, <1>1, DeleteCases
  <2>1. ASSUME NEW a, Deletes(a)
        PROVE  Kept
    <3>1. /\ a \in Accounts /\ account[a] # "active" /\ account' = [account EXCEPT ![a] = "gone"]
          /\ odd.overlap => odd'.overlap
      BY <1>0, <2>1 DEF Deletes, TypeOK
    <3>2. ActiveRows' = ActiveRows /\ Consistent(setting, account)'
      BY <1>0, <2>0, <3>1, OtherRows
    <3>3. UploadsHold' /\ odd'.lost = odd.lost /\ odd'.raced = odd.raced
      BY <1>0, <2>0, <2>1, HoldsWithDelete
    <3>4. TurnsAreRead'
      BY <1>0, <2>0, <3>1, <3>2, KeepTurns
    <3> QED  BY <1>0, <3>2, <3>3, <3>4 DEF Kept
  <2>2. CASE delete' = NoDelete /\ UNCHANGED << account, row, odd >>
    <3>1. Consistent(setting, account)' /\ ActiveRows' = ActiveRows /\ \A v \in Targets : Lasts(v)
      BY <1>0, <2>0, <2>2 DEF Consistent, ActiveIn, ActiveRows, Lasts, Exists
    <3> QED  BY <1>0, <2>0, <2>2, <3>1, HoldsWithRows, KeepTurns DEF Kept, useVars
  <2> QED  BY <1>0, <1>1, <2>1, <2>2, DeleteCases
<1>2. CASE Crash
  <2>1. /\ UNCHANGED << account, setting, lease, row >>
        /\ \A u \in Uploads : /\ upload'[u].target = upload[u].target /\ upload[u].target \in Targets
                              /\ upload'[u].at \in {"new", "done"}
                              /\ upload'[u].at = "new" => upload[u].at = "new"
    BY <1>0, <1>2 DEF Crash, dbVars, TypeOK, UploadType
  <2>2. Consistent(setting, account)' /\ \A v \in Targets : Lasts(v)
    BY <1>0, <2>1 DEF Consistent, ActiveIn, Lasts, Exists
  <2>3. UploadsHold'
    BY <1>0, <2>1, <2>2 DEF UploadsHold, Lasts
  <2>4. odd'.raced = {} /\ odd'.lost = {}
    BY <1>0, <1>2 DEF Crash, TypeOK
  <2> QED  BY <1>2, <2>2, <2>3, <2>4, CrashTurns DEF Kept
<1> QED  BY <1>1, <1>2

\* ... and by those of an upload.
LEMMA InvUpload ==
  ASSUME StorageAssumption, AccountsInv, NEW u \in Uploads, NEW t \in Targets,
         NEW ok \in BOOLEAN, Capture(u, t) \/ Lease(u) \/ Write(u, ok) \/ Release(u, ok) \/ Expire(u)
  PROVE  Kept
<1>0. TypeOK /\ UploadsHold /\ TurnsAreRead /\ Consistent(setting, account) /\ odd.raced = {} /\ odd.lost = {}
  BY DEF AccountsInv
<1>1. /\ UploadsHold' /\ odd'.raced = {} /\ odd'.lost = {} /\ odd'.overlap = odd.overlap
      /\ UNCHANGED << account, setting, active, call >>
  BY <1>0, HoldsWithUpload
<1>2. Consistent(setting, account)' /\ ActiveRows' = ActiveRows
  BY <1>0, <1>1 DEF Consistent, ActiveIn, ActiveRows
<1> QED  BY <1>0, <1>1, <1>2, KeepTurns DEF Kept

\* Every step keeps the invariant.
LEMMA InvStep ==
  ASSUME StorageAssumption, AccountsInv, [Next]_vars
  PROVE  AccountsInv'
<1>0. TypeOK' /\ "local" \in Targets
  BY TypesStep, RestingTypes DEF AccountsInv
<1>1. Kept => AccountsInv'
  BY <1>0 DEF Kept, AccountsInv
<1>2. CASE UNCHANGED vars
  BY <1>2 DEF vars, AccountsInv, TypeOK, Consistent, UploadsHold, TurnsAreRead, Busy, Target, ActiveRows,
     ActiveIn, Exists
<1>3. ASSUME NEW s \in Switches, SwitchStep(s) PROVE Kept
  BY <1>0, <1>3, InvSwitch DEF SwitchStep
<1>4. ASSUME NEW s \in Switches, NEW t \in Targets, Switch(s, t) PROVE Kept
  BY <1>4, InvSwitch
<1>5. ASSUME NEW u \in Uploads, NEW ok \in BOOLEAN,
             Lease(u) \/ Write(u, ok) \/ Release(u, ok) \/ Expire(u)
      PROVE  Kept
  BY <1>0, <1>5, InvUpload
<1>6. ASSUME NEW u \in Uploads, NEW t \in Targets, Capture(u, t) PROVE Kept
  BY <1>6, InvUpload
<1> QED  BY <1>1, <1>2, <1>3, <1>4, <1>5, <1>6, InvAccount, InvDelete DEF Next, UploadStep

\* The invariant of the accounts.
THEOREM AccountsInvariant == StorageAssumption => (Spec => []AccountsInv)
<1> SUFFICES ASSUME StorageAssumption PROVE Spec => []AccountsInv
  OBVIOUS
<1>1. Init => AccountsInv
  BY InvInit
<1>2. AccountsInv /\ [Next]_vars => AccountsInv'
  BY InvStep
<1> QED  BY <1>1, <1>2, PTL DEF Spec

\* The setting names the one active row, and every listed file, like every
\* upload that may still write, has its account: neither a switch nor a
\* deletion takes it away (switchAccount, acquireStorageAccountLease,
\* DELETE /accounts/:id).
THEOREM TargetsStay == StorageAssumption => (Spec => []TargetExists)
<1> SUFFICES ASSUME StorageAssumption PROVE Spec => []TargetExists
  OBVIOUS
<1>1. AccountsInv => TargetExists
  BY DEF AccountsInv, UploadsHold, TargetExists
<1>2. Spec => []AccountsInv
  BY AccountsInvariant
<1> QED  BY <1>1, <1>2, PTL

\* A deletion deletes the rows it was confirmed for, no others.
THEOREM DeletesConfirmed == StorageAssumption => (Spec => []DeletedAsConfirmed)
<1> SUFFICES ASSUME StorageAssumption PROVE Spec => []DeletedAsConfirmed
  OBVIOUS
<1>1. AccountsInv => DeletedAsConfirmed
  BY DEF AccountsInv, DeletedAsConfirmed
<1>2. Spec => []AccountsInv
  BY AccountsInvariant
<1> QED  BY <1>1, <1>2, PTL

\* Once the switches are over, the target in memory is that of the rows, unless
\* two of them overlapped (StorageManager.init).
THEOREM MemoryFollows == StorageAssumption => (Spec => []MemoryFollowsRows)
<1> SUFFICES ASSUME StorageAssumption PROVE Spec => []MemoryFollowsRows
  OBVIOUS
<1>1. AccountsInv => MemoryFollowsRows
  BY DEF AccountsInv, TurnsAreRead, MemoryFollowsRows, Target
<1>2. Spec => []AccountsInv
  BY AccountsInvariant
<1> QED  BY <1>1, <1>2, PTL

-----------------------------------------------------------------------------
(* The download of a range of messages (DownloadRange)                      *)

CONSTANTS Count, Segment, NoFile, Vanished
VARIABLES rangeCall, refs, list, tally, told, held, control, rangeOdd, rangeEvents
Fetch == INSTANCE DownloadRange WITH
    call <- rangeCall, item <- refs, account <- held, odd <- rangeOdd, events <- rangeEvents

Refs == 1..Count
RangeFiles == Refs \ NoFile
Outcomes == {"success", "failed", "skipped"}
RangeStages == {"select", "scan", "admit", "next", "segment", "returned", "thrown"}
RefStages == {"waiting", "asking", "working", "success", "failed", "over"}

RangeTypes ==
    /\ Count \in Nat \ {0} /\ Segment \in Nat \ {0} /\ NoFile \subseteq Refs
    /\ rangeCall \in [at : RangeStages, segment : 0..Fetch!Segments]
    /\ refs \in [Refs -> RefStages]
    /\ list \in [Outcomes -> SUBSET Refs] /\ told \in [Refs -> SUBSET Outcomes]
    /\ tally \in [successful : Nat, failed : Nat, completed : Nat]
    /\ held \in BOOLEAN /\ rangeOdd \in [untold : SUBSET Refs, left : SUBSET Refs]

\* Nothing was said of a reference yet.
Unsaid(r) == told[r] = {} /\ r \notin rangeOdd.left
Unlisted(r) == \A o \in Outcomes : r \notin list[o]

\* How far a reference is tells what was said of it and where it is listed.
RefFits(r) ==
    /\ refs[r] = "waiting" => (Unsaid(r) /\ Unlisted(r)) \/ rangeCall.at = "returned"
    /\ refs[r] \in {"asking", "working"} => Unsaid(r) /\ Unlisted(r)
    /\ refs[r] = "success" => Unsaid(r) /\ \A o \in Outcomes : r \in list[o] <=> o = "success"
    /\ refs[r] = "failed" =>
         /\ Unsaid(r) /\ r \in list["failed"] /\ r \notin list["skipped"]
         /\ r \in list["success"] => r \in rangeOdd.untold
    /\ refs[r] = "over" \/ rangeCall.at = "returned" => ~Unsaid(r)
    /\ \A o, p \in Outcomes : r \in list[o] \cap list[p] => o = p \/ r \in rangeOdd.untold
    /\ \A o \in told[r] : r \in list[o] \/ r \in rangeOdd.left \cap NoFile
    /\ r \in rangeOdd.left \ NoFile => told[r] = {} /\ r \notin list["skipped"]
    /\ r \in NoFile => refs[r] = "waiting" \/ (refs[r] = "over" /\ told[r] # {})
    /\ r \in NoFile \cap rangeOdd.left => rangeCall.at = "returned"
RefsFit == \A r \in Refs : RefFits(r)

\* The files of the segments before this one are over, and those of the later ones wait.
Before(r, n) == Fetch!Nth(r) <= n * Segment
SegmentsFit ==
    /\ \A r \in RangeFiles : ~Before(r, rangeCall.segment) => refs[r] = "waiting"
    /\ rangeCall.at \in {"select", "scan", "admit"} => rangeCall.segment = 0
    /\ rangeCall.at \in {"select", "scan"} => \A r \in Refs : refs[r] = "waiting"
    /\ rangeCall.at \notin {"select", "scan", "thrown"} => \A r \in NoFile : refs[r] = "over"
    /\ rangeCall.at = "next" => \A r \in RangeFiles : Before(r, rangeCall.segment) => refs[r] = "over"
    /\ rangeCall.at = "segment" => \A r \in RangeFiles : Before(r, rangeCall.segment - 1) => refs[r] = "over"
    /\ rangeCall.at = "returned" => \A r \in Refs : refs[r] \in {"waiting", "over"}
    /\ held <=> rangeCall.at \notin {"select", "returned", "thrown"}

\* The counters are the sizes of the lists, and of the files those that are over.
Remaining == {r \in RangeFiles : refs[r] # "over"}
TallyFits ==
    /\ tally.successful = Cardinality(list["success"]) /\ tally.failed = Cardinality(list["failed"])
    /\ tally.completed + Cardinality(Remaining) <= Cardinality(RangeFiles)

RangeInv == RangeTypes /\ RefsFit /\ SegmentsFit /\ TallyFits

LEMMA RangeIs == Fetch!Refs = Refs /\ Fetch!Files = RangeFiles /\ Fetch!Outcomes = Outcomes
BY DEF Fetch!Refs, Fetch!Files, Fetch!Outcomes, Refs, RangeFiles, Outcomes

LEMMA SizeIs == \A S : Fetch!Cardinality(S) = Cardinality(S)
BY DEF Fetch!Cardinality, Cardinality

LEMMA RefsAreFinite ==
  ASSUME RangeTypes, NEW S \in SUBSET Refs
  PROVE  IsFiniteSet(S) /\ Cardinality(S) \in Nat
<1>1. IsFiniteSet(Refs)
  <2>1. 1 \in Int /\ Count \in Int
    BY DEF RangeTypes
  <2> QED
    BY <2>1, FS_Interval DEF Refs
<1> QED
  BY <1>1, FS_Subset, FS_CardinalityType

LEMMA RefCounted ==
  ASSUME RangeTypes, NEW S \in SUBSET Refs, NEW r \in Refs
  PROVE  /\ r \notin S => Cardinality(S \cup {r}) = Cardinality(S) + 1
         /\ r \in S => Cardinality(S \ {r}) = Cardinality(S) - 1
BY RefsAreFinite, FS_AddElement, FS_RemoveElement

\* The files are counted in their order, and the segments have room for all of them.
LEMMA FilesAreCounted ==
  ASSUME RangeTypes, NEW r \in RangeFiles
  PROVE  Fetch!Nth(r) \in Nat \ {0} /\ Fetch!Nth(r) <= Cardinality(RangeFiles)
<1> DEFINE S == {f \in RangeFiles : f <= r}
<1>1. Fetch!Nth(r) = Cardinality(S)
  BY RangeIs, SizeIs DEF Fetch!Nth
<1>2. r \in S /\ S \subseteq RangeFiles /\ RangeFiles \in SUBSET Refs
  BY DEF RangeFiles, Refs, RangeTypes
<1> HIDE DEF S
<1>3. IsFiniteSet(RangeFiles) /\ IsFiniteSet(S) /\ Cardinality(S) \in Nat
  BY <1>2, RefsAreFinite
<1>4. Cardinality(S) <= Cardinality(RangeFiles)
  BY <1>2, <1>3, FS_Subset
<1>5. Cardinality(S) # 0
  BY <1>2, <1>3, FS_EmptySet
<1> QED
  BY <1>1, <1>3, <1>4, <1>5

LEMMA Rooms ==
  ASSUME NEW c \in Nat, NEW s \in Nat \ {0}
  PROVE  /\ (c + s - 1) \div s \in Nat
         /\ c <= ((c + s - 1) \div s) * s
<1> DEFINE q == (c + s - 1) \div s
<1>1. q \in Int /\ s * q <= c + s - 1 /\ c + s - 1 < s * (q + 1)
  BY Z3
<1> HIDE DEF q
<1>2. s * (q + 1) = s * q + s /\ s * q \in Int /\ s * q = q * s
  BY <1>1
<1>3. c <= q * s
  BY <1>1, <1>2
<1>4. q >= 0
  BY <1>1, <1>3
<1> QED
  BY <1>1, <1>3, <1>4 DEF q

LEMMA SegmentsHold ==
  ASSUME RangeTypes
  PROVE  Fetch!Segments \in Nat /\ Cardinality(RangeFiles) <= Fetch!Segments * Segment
<1>1. Cardinality(RangeFiles) \in Nat /\ Segment \in Nat \ {0}
  BY RefsAreFinite DEF RangeFiles, RangeTypes
<1> QED
  BY <1>1, RangeIs, SizeIs, Rooms DEF Fetch!Segments

\* What happens to one reference leaves the others alone.
SameRef(r) ==
    /\ refs'[r] = refs[r] /\ told'[r] = told[r] /\ \A o \in Outcomes : r \in list'[o] <=> r \in list[o]
    /\ r \in rangeOdd'.left <=> r \in rangeOdd.left
    /\ r \in rangeOdd'.untold <=> r \in rangeOdd.untold
LEMMA RefStands ==
  ASSUME RangeTypes, NEW r \in Refs, RefFits(r), SameRef(r), rangeCall'.at = "returned" <=> rangeCall.at = "returned"
  PROVE  RefFits(r)'
<1>1. Unsaid(r)' <=> Unsaid(r)
  BY DEF Unsaid, SameRef
<1>2. Unlisted(r)' <=> Unlisted(r)
  BY DEF Unlisted, SameRef
<1>3. {"success", "failed", "skipped"} = Outcomes
  BY DEF Outcomes
<1>4. told[r] \subseteq Outcomes
  BY DEF RangeTypes
<1> QED
  BY <1>1, <1>2, <1>3, <1>4 DEF RefFits, SameRef

\* A file of the segment goes on.
LEMMA RefGoesOn ==
  ASSUME RangeInv, NEW r \in RangeFiles, refs[r] \notin {"waiting", "over"}, NEW x \in RefStages \ {"waiting"},
         refs' = [refs EXCEPT ![r] = x]
  PROVE  /\ refs' \in [Refs -> RefStages] /\ refs'[r] = x /\ \A s \in Refs \ {r} : refs'[s] = refs[s]
         /\ Cardinality(Remaining') = (IF x = "over" THEN Cardinality(Remaining) - 1 ELSE Cardinality(Remaining))
<1>1. RangeTypes /\ r \in Refs
  BY DEF RangeInv, RangeFiles
<1>2. refs' \in [Refs -> RefStages] /\ refs'[r] = x /\ \A s \in Refs \ {r} : refs'[s] = refs[s]
  BY <1>1 DEF RangeTypes
<1>3. Remaining \in SUBSET Refs /\ r \in Remaining
  BY DEF Remaining, RangeFiles
<1>4. CASE x = "over"
  <2>1. Remaining' = Remaining \ {r}
    BY <1>1, <1>2, <1>4 DEF Remaining, RangeFiles
  <2> QED
    BY <1>1, <1>2, <1>3, <1>4, <2>1, RefCounted
<1>5. CASE x # "over"
  <2>1. Remaining' = Remaining
    BY <1>1, <1>2, <1>3, <1>5 DEF Remaining, RangeFiles
  <2> QED
    BY <1>2, <1>5, <2>1
<1> QED
  BY <1>4, <1>5

LEMMA SegmentsStand ==
  ASSUME RangeInv, NEW r \in RangeFiles, refs[r] \notin {"waiting", "over"},
         refs'[r] # "waiting", \A s \in Refs \ {r} : refs'[s] = refs[s],
         \/ rangeCall' = rangeCall /\ held' = held
         \/ /\ rangeCall'.at = "thrown" /\ held' = FALSE
            /\ rangeCall'.segment = rangeCall.segment /\ rangeCall.at = "segment"
  PROVE  SegmentsFit'
<1>1. SegmentsFit /\ r \in Refs /\ r \notin NoFile /\ NoFile \subseteq Refs /\ RangeFiles \subseteq Refs
  BY DEF RangeInv, RangeFiles, RangeTypes
<1>2. \A s \in RangeFiles, n \in Int : Before(s, n)' <=> Before(s, n)
  BY DEF Before, Fetch!Nth, Fetch!Files, Fetch!Refs
<1>3. rangeCall.segment \in Int /\ rangeCall.segment - 1 \in Int
  BY SegmentsHold DEF RangeInv, RangeTypes
<1>4. CASE rangeCall' = rangeCall /\ held' = held
  BY <1>1, <1>2, <1>3, <1>4 DEF SegmentsFit
<1>5. CASE /\ rangeCall'.at = "thrown" /\ held' = FALSE
           /\ rangeCall'.segment = rangeCall.segment /\ rangeCall.at = "segment"
  BY <1>1, <1>2, <1>3, <1>5 DEF SegmentsFit
<1> QED
  BY <1>4, <1>5

LEMMA RefStep ==
  ASSUME RangeInv, NEW r \in RangeFiles, refs[r] \notin {"waiting", "over"}, NEW x \in RefStages \ {"waiting"},
         refs' = [refs EXCEPT ![r] = x],
         \/ rangeCall' = rangeCall /\ held' = held
         \/ /\ rangeCall'.at = "thrown" /\ held' = FALSE /\ rangeCall' \in [at : RangeStages, segment : 0..Fetch!Segments]
            /\ rangeCall'.segment = rangeCall.segment /\ rangeCall.at = "segment",
         list' \in [Outcomes -> SUBSET Refs], told' \in [Refs -> SUBSET Outcomes],
         tally' \in [successful : Nat, failed : Nat, completed : Nat],
         rangeOdd' \in [untold : SUBSET Refs, left : SUBSET Refs],
         \A s \in Refs \ {r} : /\ told'[s] = told[s] /\ \A o \in Outcomes : s \in list'[o] <=> s \in list[o]
                               /\ s \in rangeOdd'.left <=> s \in rangeOdd.left
                               /\ s \in rangeOdd'.untold <=> s \in rangeOdd.untold,
         RefFits(r)',
         tally'.successful = Cardinality(list'["success"]), tally'.failed = Cardinality(list'["failed"]),
         tally'.completed = tally.completed \/ (x = "over" /\ tally'.completed = tally.completed + 1)
  PROVE  RangeInv'
<1>1. /\ refs' \in [Refs -> RefStages] /\ refs'[r] = x /\ \A s \in Refs \ {r} : refs'[s] = refs[s]
      /\ Cardinality(Remaining') = (IF x = "over" THEN Cardinality(Remaining) - 1 ELSE Cardinality(Remaining))
  BY RefGoesOn
<1>2. RangeTypes'
  <2>1. RangeTypes
    BY DEF RangeInv
  <2>2. rangeCall' \in [at : RangeStages, segment : 0..Fetch!Segments] /\ held' \in BOOLEAN
    <3>1. rangeCall \in [at : RangeStages, segment : 0..Fetch!Segments] /\ held \in BOOLEAN
      BY <2>1 DEF RangeTypes
    <3> QED
      BY <3>1
  <2> QED
    BY <1>1, <2>1, <2>2 DEF RangeTypes, Fetch!Segments, Fetch!Files, Fetch!Refs
<1>3. SegmentsFit'
  BY <1>1, SegmentsStand
<1>4. RefsFit'
  <2>1. ASSUME NEW s \in Refs \ {r}
        PROVE  RefFits(s)'
    <3>1. RefFits(s) /\ SameRef(s) /\ RangeTypes
      BY <1>1 DEF SameRef, RangeInv, RefsFit
    <3>2. rangeCall'.at = "returned" <=> rangeCall.at = "returned"
      OBVIOUS
    <3> QED
      BY <3>1, <3>2, RefStands
  <2> QED
    BY <2>1 DEF RefsFit
<1>5. TallyFits'
  <2>1. Remaining \in SUBSET Refs /\ RangeFiles \in SUBSET Refs /\ RangeTypes
    BY DEF Remaining, RangeFiles, RangeInv
  <2>2. Cardinality(Remaining) \in Nat /\ Cardinality(RangeFiles) \in Nat
    BY <2>1, RefsAreFinite
  <2>3. tally.completed \in Nat /\ tally.completed + Cardinality(Remaining) <= Cardinality(RangeFiles)
    BY DEF RangeInv, TallyFits, RangeTypes
  <2>4. Cardinality(RangeFiles)' = Cardinality(RangeFiles)
    BY DEF RangeFiles, Refs
  <2>5. tally'.completed + Cardinality(Remaining') <= Cardinality(RangeFiles)
    BY <1>1, <2>2, <2>3
  <2> QED
    BY <2>4, <2>5 DEF TallyFits
<1> QED
  BY <1>2, <1>3, <1>4, <1>5 DEF RangeInv

LEMMA ListedIs ==
  ASSUME RangeTypes, NEW r \in Refs, NEW o \in Outcomes, Fetch!Listed(r, o)
  PROVE  /\ list' \in [Outcomes -> SUBSET Refs] /\ list'[o] = list[o] \cup {r}
         /\ \A p \in Outcomes \ {o} : list'[p] = list[p]
         /\ \A s \in Refs \ {r}, p \in Outcomes : s \in list'[p] <=> s \in list[p]
         /\ \A p \in Outcomes : r \in list'[p] <=> p = o \/ r \in list[p]
         /\ r \notin list[o] => Cardinality(list'[o]) = Cardinality(list[o]) + 1
<1> DEFINE x == list[o] \cup {r}
<1>1. list' = [list EXCEPT ![o] = x]
  BY DEF Fetch!Listed
<1>2. list[o] \in SUBSET Refs /\ x \in SUBSET Refs
  BY DEF RangeTypes
<1>3. r \notin list[o] => Cardinality(x) = Cardinality(list[o]) + 1
  BY <1>2, RefCounted
<1>4. \A s \in Refs : s \in x <=> s = r \/ s \in list[o]
  OBVIOUS
<1>5. x = list[o] \cup {r}
  OBVIOUS
<1> HIDE DEF x
<1>6. list' \in [Outcomes -> SUBSET Refs] /\ list'[o] = x /\ \A p \in Outcomes \ {o} : list'[p] = list[p]
  BY <1>1, <1>2 DEF RangeTypes
<1> QED
  BY <1>3, <1>4, <1>5, <1>6

LEMMA ToldIs ==
  ASSUME RangeTypes, NEW r \in Refs, NEW o \in Outcomes, told' = [told EXCEPT ![r] = told[r] \cup {o}]
  PROVE  /\ told' \in [Refs -> SUBSET Outcomes] /\ told'[r] = told[r] \cup {o}
         /\ \A s \in Refs \ {r} : told'[s] = told[s]
<1> DEFINE x == told[r] \cup {o}
<1>1. x \in SUBSET Outcomes /\ x = told[r] \cup {o} /\ told' = [told EXCEPT ![r] = x]
  BY DEF RangeTypes
<1> HIDE DEF x
<1> QED
  BY <1>1 DEF RangeTypes

\* The counters.
TallyType == [successful : Nat, failed : Nat, completed : Nat]
LEMMA CompletedIs ==
  ASSUME RangeTypes, tally' = [tally EXCEPT !.completed = tally.completed + 1]
  PROVE  /\ tally' \in TallyType /\ tally'.successful = tally.successful /\ tally'.failed = tally.failed
         /\ tally'.completed = tally.completed + 1
<1> DEFINE n == tally.completed + 1
<1>1. n \in Nat /\ tally \in TallyType /\ tally' = [tally EXCEPT !.completed = n]
  BY DEF RangeTypes, TallyType
<1>2. n = tally.completed + 1
  OBVIOUS
<1> HIDE DEF n
<1> QED
  BY <1>1, <1>2 DEF TallyType

LEMMA FailedIs ==
  ASSUME RangeTypes, tally' = [tally EXCEPT !.failed = tally.failed + 1, !.completed = tally.completed + 1]
  PROVE  /\ tally' \in TallyType /\ tally'.successful = tally.successful /\ tally'.failed = tally.failed + 1
         /\ tally'.completed = tally.completed + 1
<1> DEFINE n == tally.completed + 1
           k == tally.failed + 1
<1>1. n \in Nat /\ k \in Nat /\ tally \in TallyType /\ tally' = [tally EXCEPT !.failed = k, !.completed = n]
  BY DEF RangeTypes, TallyType
<1>2. n = tally.completed + 1 /\ k = tally.failed + 1
  OBVIOUS
<1> HIDE DEF n, k
<1> QED
  BY <1>1, <1>2 DEF TallyType

LEMMA Count1Is ==
  ASSUME RangeTypes, NEW s \in {0, 1}, NEW f \in {0, 1}, Fetch!Count1(s, f)
  PROVE  /\ tally' \in TallyType /\ tally'.successful = tally.successful + s /\ tally'.failed = tally.failed + f
         /\ tally'.completed = tally.completed
<1> DEFINE n == tally.successful + s
           k == tally.failed + f
<1>1. n \in Nat /\ k \in Nat /\ tally \in TallyType /\ tally' = [tally EXCEPT !.successful = n, !.failed = k]
  BY DEF RangeTypes, TallyType, Fetch!Count1
<1>2. n = tally.successful + s /\ k = tally.failed + f
  OBVIOUS
<1> HIDE DEF n, k
<1> QED
  BY <1>1, <1>2 DEF TallyType

LEMMA TallyIs ==
  ASSUME RangeInv
  PROVE  /\ tally.successful = Cardinality(list["success"]) /\ tally.failed = Cardinality(list["failed"])
         /\ {"success", "failed", "skipped"} = Outcomes /\ RangeTypes /\ TallyType = [successful : Nat, failed : Nat, completed : Nat]
         /\ rangeOdd \in [untold : SUBSET Refs, left : SUBSET Refs] /\ told \in [Refs -> SUBSET Outcomes]
         /\ list \in [Outcomes -> SUBSET Refs] /\ tally \in TallyType
BY DEF RangeInv, TallyFits, Outcomes, TallyType, RangeTypes

\* A reference that is left to a later call, and one whose success could not be told.
LEMMA LeftIs ==
  ASSUME RangeTypes, NEW r \in Refs, rangeOdd' = [rangeOdd EXCEPT !.left = rangeOdd.left \cup {r}]
  PROVE  /\ rangeOdd' \in [untold : SUBSET Refs, left : SUBSET Refs]
         /\ rangeOdd'.left = rangeOdd.left \cup {r} /\ rangeOdd'.untold = rangeOdd.untold
<1> DEFINE x == rangeOdd.left \cup {r}
<1>1. x \in SUBSET Refs /\ rangeOdd \in [untold : SUBSET Refs, left : SUBSET Refs]
  BY DEF RangeTypes
<1>2. rangeOdd' = [rangeOdd EXCEPT !.left = x] /\ x = rangeOdd.left \cup {r}
  OBVIOUS
<1> HIDE DEF x
<1> QED
  BY <1>1, <1>2

LEMMA UntoldIs ==
  ASSUME RangeTypes, NEW r \in Refs, rangeOdd' = [rangeOdd EXCEPT !.untold = rangeOdd.untold \cup {r}]
  PROVE  /\ rangeOdd' \in [untold : SUBSET Refs, left : SUBSET Refs]
         /\ rangeOdd'.untold = rangeOdd.untold \cup {r} /\ rangeOdd'.left = rangeOdd.left
<1> DEFINE x == rangeOdd.untold \cup {r}
<1>1. x \in SUBSET Refs /\ rangeOdd \in [untold : SUBSET Refs, left : SUBSET Refs]
  BY DEF RangeTypes
<1>2. rangeOdd' = [rangeOdd EXCEPT !.untold = x] /\ x = rangeOdd.untold \cup {r}
  OBVIOUS
<1> HIDE DEF x
<1> QED
  BY <1>1, <1>2

\* Of a file that runs nothing was said, and its lists tell how far it is.
LEMMA RunningIs ==
  ASSUME RangeInv, NEW r \in Refs, refs[r] \in {"asking", "working", "success", "failed"}
  PROVE  r \in RangeFiles /\ RefFits(r) /\ told[r] = {} /\ r \notin rangeOdd.left /\ rangeCall.at # "returned"
<1>1. RefFits(r)
  BY DEF RangeInv, RefsFit
<1>2. rangeCall.at # "returned"
  BY DEF RangeInv, SegmentsFit
<1> QED
  BY <1>1, <1>2 DEF RefFits, Unsaid, RangeFiles

LEMMA WorkKeeps ==
  ASSUME RangeInv, NEW r \in Refs, NEW o \in {"success", "failed"}, Fetch!Work(r, o)
  PROVE  RangeInv'
<1>1. /\ refs[r] = "working" /\ Fetch!Listed(r, o) /\ refs' = [refs EXCEPT ![r] = o]
      /\ (o = "success" => Fetch!Count1(1, 0)) /\ (o = "failed" => Fetch!Count1(0, 1))
      /\ rangeCall' = rangeCall /\ told' = told /\ held' = held /\ rangeOdd' = rangeOdd
  BY DEF Fetch!Work
<1>2. /\ r \in RangeFiles /\ RefFits(r) /\ Unsaid(r) /\ Unlisted(r)
      /\ rangeCall.at # "returned" /\ o \in Outcomes
  BY <1>1, RunningIs DEF RefFits, Outcomes
<1>3. /\ list' \in [Outcomes -> SUBSET Refs] /\ list'[o] = list[o] \cup {r}
      /\ \A p \in Outcomes \ {o} : list'[p] = list[p]
      /\ \A s \in Refs \ {r}, p \in Outcomes : s \in list'[p] <=> s \in list[p]
      /\ \A p \in Outcomes : r \in list'[p] <=> p = o \/ r \in list[p]
      /\ r \notin list[o] => Cardinality(list'[o]) = Cardinality(list[o]) + 1
  BY <1>1, <1>2, TallyIs, ListedIs
<1>4. /\ tally' \in TallyType /\ tally'.completed = tally.completed
      /\ tally'.successful = Cardinality(list'["success"]) /\ tally'.failed = Cardinality(list'["failed"])
  <2>1. CASE o = "success"
    <3>1. /\ tally' \in TallyType /\ tally'.successful = tally.successful + 1
          /\ tally'.failed = tally.failed + 0 /\ tally'.completed = tally.completed
      BY <1>1, <2>1, TallyIs, Count1Is
    <3>2. tally.successful \in Nat /\ tally.failed \in Nat
      BY TallyIs DEF TallyType
    <3>3. r \notin list["success"] /\ r \notin list["failed"]
      BY <1>2, TallyIs DEF Unlisted
    <3>4. list'["failed"] = list["failed"] /\ "success" \in Outcomes
      BY <1>3, <2>1 DEF Outcomes
    <3>5. Cardinality(list'["success"]) = Cardinality(list["success"]) + 1
      BY <1>3, <2>1, <3>3
    <3>6. tally'.failed = tally.failed
      BY <3>1, <3>2
    <3> QED
      BY <3>1, <3>4, <3>5, <3>6, TallyIs
  <2>2. CASE o = "failed"
    <3>1. /\ tally' \in TallyType /\ tally'.successful = tally.successful + 0
          /\ tally'.failed = tally.failed + 1 /\ tally'.completed = tally.completed
      BY <1>1, <2>2, TallyIs, Count1Is
    <3>2. tally.successful \in Nat /\ tally.failed \in Nat
      BY TallyIs DEF TallyType
    <3>3. r \notin list["success"] /\ r \notin list["failed"]
      BY <1>2, TallyIs DEF Unlisted
    <3>4. list'["success"] = list["success"] /\ "failed" \in Outcomes
      BY <1>3, <2>2 DEF Outcomes
    <3>5. Cardinality(list'["failed"]) = Cardinality(list["failed"]) + 1
      BY <1>3, <2>2, <3>3
    <3>6. tally'.successful = tally.successful
      BY <3>1, <3>2
    <3> QED
      BY <3>1, <3>4, <3>5, <3>6, TallyIs
  <2> QED
    BY <2>1, <2>2
<1>5. refs'[r] = o
  BY <1>1 DEF RangeInv, RangeTypes
<1>6. RefFits(r)'
  BY <1>1, <1>2, <1>3, <1>5, TallyIs DEF RefFits, Unsaid, Unlisted
<1>7. o \in RefStages \ {"waiting"} /\ refs[r] \notin {"waiting", "over"}
  BY <1>1 DEF RefStages
<1> QED
  BY <1>1, <1>2, <1>3, <1>4, <1>6, <1>7, TallyIs, RefStep

LEMMA TellFailsKeeps ==
  ASSUME RangeInv, NEW r \in Refs, Fetch!TellFails(r)
  PROVE  RangeInv'
<1>1. /\ refs[r] = "success" /\ Fetch!Listed(r, "failed") /\ refs' = [refs EXCEPT ![r] = "failed"]
      /\ Fetch!Count1(0, 1) /\ rangeOdd' = [rangeOdd EXCEPT !.untold = rangeOdd.untold \cup {r}]
      /\ rangeCall' = rangeCall /\ told' = told /\ held' = held
  BY DEF Fetch!TellFails
<1>2. /\ r \in RangeFiles /\ RefFits(r) /\ Unsaid(r) /\ \A p \in Outcomes : r \in list[p] <=> p = "success"
      /\ rangeCall.at # "returned" /\ "failed" \in Outcomes /\ r \in Refs
  BY <1>1, RunningIs DEF RefFits, Outcomes
<1>3. /\ list' \in [Outcomes -> SUBSET Refs]
      /\ \A p \in Outcomes \ {"failed"} : list'[p] = list[p]
      /\ \A s \in Refs \ {r}, p \in Outcomes : s \in list'[p] <=> s \in list[p]
      /\ \A p \in Outcomes : r \in list'[p] <=> p = "failed" \/ r \in list[p]
      /\ r \notin list["failed"] => Cardinality(list'["failed"]) = Cardinality(list["failed"]) + 1
  BY <1>1, <1>2, TallyIs, ListedIs
<1>4. /\ tally' \in TallyType /\ tally'.completed = tally.completed
      /\ tally'.successful = tally.successful /\ tally'.failed = tally.failed + 1
  BY <1>1, TallyIs, Count1Is DEF TallyType
<1>5. tally'.successful = Cardinality(list'["success"]) /\ tally'.failed = Cardinality(list'["failed"])
  BY <1>2, <1>3, <1>4, TallyIs
<1>6. /\ rangeOdd' \in [untold : SUBSET Refs, left : SUBSET Refs]
      /\ rangeOdd'.untold = rangeOdd.untold \cup {r} /\ rangeOdd'.left = rangeOdd.left
  BY <1>1, TallyIs, UntoldIs
<1>7. refs'[r] = "failed"
  BY <1>1 DEF RangeInv, RangeTypes
<1>8. RefFits(r)'
  BY <1>1, <1>2, <1>3, <1>6, <1>7, TallyIs DEF RefFits, Unsaid, Unlisted
<1>9. "failed" \in RefStages \ {"waiting"} /\ refs[r] \notin {"waiting", "over"}
  BY <1>1 DEF RefStages
<1> QED
  BY <1>1, <1>2, <1>3, <1>4, <1>5, <1>6, <1>8, <1>9, TallyIs, RefStep

\* A file that is over, in all the ways that end it.
LEMMA OverIs ==
  ASSUME RangeInv, NEW r \in Refs, refs[r] \in {"asking", "working", "success", "failed"}, Fetch!Over(r)
  PROVE  /\ refs' = [refs EXCEPT ![r] = "over"] /\ refs'[r] = "over"
         /\ "over" \in RefStages \ {"waiting"} /\ refs[r] \notin {"waiting", "over"}
BY DEF Fetch!Over, RangeInv, RangeTypes, RefStages

LEMMA TellKeeps ==
  ASSUME RangeInv, NEW r \in Refs, NEW o \in {"success", "failed"}, Fetch!Tell(r, o)
  PROVE  RangeInv'
<1>1. /\ refs[r] = o /\ Fetch!Over(r) /\ told' = [told EXCEPT ![r] = told[r] \cup {o}]
      /\ tally' = [tally EXCEPT !.completed = tally.completed + 1]
      /\ rangeCall' = rangeCall /\ list' = list /\ held' = held /\ rangeOdd' = rangeOdd
  BY DEF Fetch!Tell
<1>2. /\ r \in RangeFiles /\ RefFits(r) /\ Unsaid(r) /\ r \in list[o] /\ r \notin list["skipped"]
      /\ rangeCall.at # "returned" /\ o \in Outcomes
  BY <1>1, RunningIs DEF RefFits, Outcomes
<1>3. /\ told' \in [Refs -> SUBSET Outcomes] /\ told'[r] = {o} /\ \A s \in Refs \ {r} : told'[s] = told[s]
  BY <1>1, <1>2, TallyIs, ToldIs DEF Unsaid
<1>4. /\ tally' \in TallyType /\ tally'.successful = tally.successful /\ tally'.failed = tally.failed
      /\ tally'.completed = tally.completed + 1
  BY <1>1, TallyIs, CompletedIs
<1>5. /\ refs' = [refs EXCEPT ![r] = "over"] /\ refs'[r] = "over"
      /\ "over" \in RefStages \ {"waiting"} /\ refs[r] \notin {"waiting", "over"}
  BY <1>1, OverIs
<1>6. RefFits(r)'
  BY <1>1, <1>2, <1>3, <1>5 DEF RefFits, Unsaid, Unlisted
<1> QED
  BY <1>1, <1>2, <1>3, <1>4, <1>5, <1>6, TallyIs, RefStep

LEMMA ThrowKeeps ==
  ASSUME RangeInv, NEW r \in Refs, Fetch!Throw(r)
  PROVE  RangeInv'
<1>1. /\ refs[r] \in {"working", "failed"} /\ Fetch!Over(r)
      /\ rangeOdd' = [rangeOdd EXCEPT !.left = rangeOdd.left \cup {r}]
      /\ list' = list /\ tally' = tally /\ told' = told
  BY DEF Fetch!Throw
<1>2. \/ rangeCall' = rangeCall /\ held' = held
      \/ rangeCall.at = "segment" /\ rangeCall' = [rangeCall EXCEPT !.at = "thrown"] /\ held' = FALSE
  BY DEF Fetch!Throw, Fetch!Stage
<1>3. /\ r \in RangeFiles /\ RefFits(r) /\ Unsaid(r) /\ r \notin list["skipped"] /\ r \notin NoFile
      /\ rangeCall.at # "returned"
  BY <1>1, RunningIs DEF RefFits, Outcomes, Unlisted, RangeFiles
<1>4. /\ rangeOdd' \in [untold : SUBSET Refs, left : SUBSET Refs]
      /\ rangeOdd'.left = rangeOdd.left \cup {r} /\ rangeOdd'.untold = rangeOdd.untold
  BY <1>1, TallyIs, LeftIs
<1>5. /\ refs' = [refs EXCEPT ![r] = "over"] /\ refs'[r] = "over"
      /\ "over" \in RefStages \ {"waiting"} /\ refs[r] \notin {"waiting", "over"}
  BY <1>1, OverIs
<1>6. \/ rangeCall' = rangeCall /\ held' = held
      \/ /\ rangeCall'.at = "thrown" /\ held' = FALSE /\ rangeCall' \in [at : RangeStages, segment : 0..Fetch!Segments]
         /\ rangeCall'.segment = rangeCall.segment /\ rangeCall.at = "segment"
  <2>1. rangeCall \in [at : RangeStages, segment : 0..Fetch!Segments] /\ "thrown" \in RangeStages
    BY DEF RangeInv, RangeTypes, RangeStages
  <2> QED
    BY <1>2, <2>1
<1>7. rangeCall'.at # "returned"
  BY <1>3, <1>6
<1>8. RefFits(r)'
  BY <1>1, <1>3, <1>4, <1>5, <1>7 DEF RefFits, Unsaid, Unlisted
<1> QED
  BY <1>1, <1>3, <1>4, <1>5, <1>6, <1>8, TallyIs, RefStep

LEMMA AskKeeps ==
  ASSUME RangeInv, NEW r \in Refs, Fetch!Ask(r)
  PROVE  RangeInv'
<1>1. refs[r] = "asking" /\ rangeCall' = rangeCall /\ held' = held
  BY DEF Fetch!Ask, Fetch!AskPaused
<1>2. /\ r \in RangeFiles /\ RefFits(r) /\ Unsaid(r) /\ Unlisted(r) /\ r \notin NoFile
      /\ rangeCall.at # "returned"
  BY <1>1, RunningIs DEF RefFits, RangeFiles
<1>3. Fetch!Over(r) => /\ refs' = [refs EXCEPT ![r] = "over"] /\ refs'[r] = "over"
                       /\ "over" \in RefStages \ {"waiting"} /\ refs[r] \notin {"waiting", "over"}
  BY <1>1, OverIs
<1>4. CASE Fetch!AskPaused(r)
  <2>1. /\ Fetch!Over(r) /\ rangeOdd' = [rangeOdd EXCEPT !.left = rangeOdd.left \cup {r}]
        /\ list' = list /\ tally' = tally /\ told' = told
    BY <1>4 DEF Fetch!AskPaused
  <2>2. /\ rangeOdd' \in [untold : SUBSET Refs, left : SUBSET Refs]
        /\ rangeOdd'.left = rangeOdd.left \cup {r} /\ rangeOdd'.untold = rangeOdd.untold
    BY <2>1, TallyIs, LeftIs
  <2>3. RefFits(r)'
    BY <1>1, <1>2, <1>3, <2>1, <2>2, TallyIs DEF RefFits, Unsaid, Unlisted
  <2> QED
    BY <1>1, <1>2, <1>3, <2>1, <2>2, <2>3, TallyIs, RefStep
<1>5. CASE /\ Fetch!Over(r) /\ Fetch!Listed(r, "skipped") /\ rangeOdd' = rangeOdd
           /\ told' = [told EXCEPT ![r] = told[r] \cup {"skipped"}]
           /\ tally' = [tally EXCEPT !.completed = tally.completed + 1]
  <2>1. /\ list' \in [Outcomes -> SUBSET Refs]
        /\ \A p \in Outcomes \ {"skipped"} : list'[p] = list[p]
        /\ \A s \in Refs \ {r}, p \in Outcomes : s \in list'[p] <=> s \in list[p]
        /\ \A p \in Outcomes : r \in list'[p] <=> p = "skipped" \/ r \in list[p]
    BY <1>5, TallyIs, ListedIs
  <2>2. /\ tally' \in TallyType /\ tally'.successful = tally.successful /\ tally'.failed = tally.failed
        /\ tally'.completed = tally.completed + 1
    BY <1>5, TallyIs, CompletedIs
  <2>3. /\ told' \in [Refs -> SUBSET Outcomes] /\ told'[r] = {"skipped"} /\ \A s \in Refs \ {r} : told'[s] = told[s]
    BY <1>2, <1>5, TallyIs, ToldIs DEF Unsaid
  <2>4. RefFits(r)'
    BY <1>1, <1>2, <1>3, <1>5, <2>1, <2>3, TallyIs DEF RefFits, Unsaid, Unlisted
  <2>5. tally'.successful = Cardinality(list'["success"]) /\ tally'.failed = Cardinality(list'["failed"])
    BY <2>1, <2>2, TallyIs
  <2> QED
    BY <1>1, <1>2, <1>3, <1>5, <2>1, <2>2, <2>3, <2>4, <2>5, TallyIs, RefStep
<1>6. CASE /\ Fetch!Over(r) /\ Fetch!Listed(r, "failed") /\ rangeOdd' = rangeOdd
           /\ told' = [told EXCEPT ![r] = told[r] \cup {"failed"}]
           /\ tally' = [tally EXCEPT !.failed = tally.failed + 1, !.completed = tally.completed + 1]
  <2>1. /\ list' \in [Outcomes -> SUBSET Refs]
        /\ \A p \in Outcomes \ {"failed"} : list'[p] = list[p]
        /\ \A s \in Refs \ {r}, p \in Outcomes : s \in list'[p] <=> s \in list[p]
        /\ \A p \in Outcomes : r \in list'[p] <=> p = "failed" \/ r \in list[p]
        /\ r \notin list["failed"] => Cardinality(list'["failed"]) = Cardinality(list["failed"]) + 1
    BY <1>6, TallyIs, ListedIs
  <2>2. /\ tally' \in TallyType /\ tally'.successful = tally.successful /\ tally'.failed = tally.failed + 1
        /\ tally'.completed = tally.completed + 1
    BY <1>6, TallyIs, FailedIs
  <2>3. /\ told' \in [Refs -> SUBSET Outcomes] /\ told'[r] = {"failed"} /\ \A s \in Refs \ {r} : told'[s] = told[s]
    BY <1>2, <1>6, TallyIs, ToldIs DEF Unsaid
  <2>4. RefFits(r)'
    BY <1>1, <1>2, <1>3, <1>6, <2>1, <2>3, TallyIs DEF RefFits, Unsaid, Unlisted
  <2>5. tally'.successful = Cardinality(list'["success"]) /\ tally'.failed = Cardinality(list'["failed"])
    BY <1>2, <2>1, <2>2, TallyIs DEF Unlisted
  <2> QED
    BY <1>1, <1>2, <1>3, <1>6, <2>1, <2>2, <2>3, <2>4, <2>5, TallyIs, RefStep
<1>7. CASE /\ refs' = [refs EXCEPT ![r] = "working"] /\ rangeOdd' = rangeOdd
           /\ list' = list /\ tally' = tally /\ told' = told
  <2>1. refs'[r] = "working" /\ "working" \in RefStages \ {"waiting"} /\ refs[r] \notin {"waiting", "over"}
    BY <1>1, <1>7 DEF RangeInv, RangeTypes, RefStages
  <2>2. RefFits(r)'
    BY <1>1, <1>2, <1>7, <2>1 DEF RefFits, Unsaid, Unlisted
  <2> QED
    BY <1>1, <1>2, <1>7, <2>1, <2>2, TallyIs, RefStep
<1> QED
  BY <1>4, <1>5, <1>6, <1>7 DEF Fetch!Ask

\* The call goes on, and the references with it.
LEMMA CallMoves ==
  ASSUME RangeTypes, NEW s \in RangeStages, Fetch!Stage(s)
  PROVE  /\ rangeCall' \in [at : RangeStages, segment : 0..Fetch!Segments]
         /\ rangeCall'.at = s /\ rangeCall'.segment = rangeCall.segment
<1>1. rangeCall \in [at : RangeStages, segment : 0..Fetch!Segments]
  BY DEF RangeTypes
<1> QED
  BY <1>1 DEF Fetch!Stage

\* Nothing is said of any reference, and the call does not return.
LEMMA RefsRest ==
  ASSUME RangeInv, refs' = refs, list' = list, tally' = tally, told' = told, rangeOdd' = rangeOdd,
         rangeCall' \in [at : RangeStages, segment : 0..Fetch!Segments], held' \in BOOLEAN,
         rangeCall'.at = "returned" <=> rangeCall.at = "returned", SegmentsFit'
  PROVE  RangeInv'
<1>1. RangeTypes'
  BY DEF RangeInv, RangeTypes, Fetch!Segments, Fetch!Files, Fetch!Refs
<1>2. RefsFit'
  <2>1. \A r \in Refs : SameRef(r)
    BY DEF SameRef
  <2> QED
    BY <2>1, RefStands DEF RangeInv, RefsFit
<1>3. TallyFits'
  BY DEF RangeInv, TallyFits, Remaining
<1> QED
  BY <1>1, <1>2, <1>3 DEF RangeInv

LEMMA ControlKeeps ==
  ASSUME RangeInv, rangeCall' = rangeCall, refs' = refs, list' = list, tally' = tally, told' = told,
         held' = held, rangeOdd' = rangeOdd
  PROVE  RangeInv'
<1>1. SegmentsFit'
  BY DEF RangeInv, SegmentsFit, Before, Fetch!Nth, Fetch!Files, Fetch!Refs
<1>2. rangeCall \in [at : RangeStages, segment : 0..Fetch!Segments] /\ held \in BOOLEAN
  BY DEF RangeInv, RangeTypes
<1> QED
  BY <1>1, <1>2, RefsRest

LEMMA SelectKeeps ==
  ASSUME RangeInv, NEW ok \in BOOLEAN, Fetch!Select(ok)
  PROVE  RangeInv'
<1> DEFINE s == IF ok THEN "scan" ELSE "thrown"
<1>1. /\ rangeCall.at = "select" /\ Fetch!Stage(s) /\ (ok => held' = TRUE) /\ (~ok => held' = held)
      /\ refs' = refs /\ list' = list /\ tally' = tally /\ told' = told /\ rangeOdd' = rangeOdd
  BY DEF Fetch!Select
<1>2. s \in RangeStages /\ s = (IF ok THEN "scan" ELSE "thrown")
  BY DEF RangeStages
<1> HIDE DEF s
<1>3. /\ rangeCall' \in [at : RangeStages, segment : 0..Fetch!Segments]
      /\ rangeCall'.at = s /\ rangeCall'.segment = rangeCall.segment
  BY <1>1, <1>2, CallMoves DEF RangeInv
<1>4. SegmentsFit /\ held \in BOOLEAN
  BY DEF RangeInv, RangeTypes
<1>5. SegmentsFit'
  BY <1>1, <1>2, <1>3, <1>4 DEF SegmentsFit, Before, Fetch!Nth, Fetch!Files, Fetch!Refs
<1>6. held' \in BOOLEAN
  BY <1>1, <1>4
<1> QED
  BY <1>1, <1>2, <1>3, <1>5, <1>6, RefsRest

LEMMA SegmentEndsKeeps ==
  ASSUME RangeInv, Fetch!SegmentEnds
  PROVE  RangeInv'
<1>1. /\ rangeCall.at = "segment" /\ Fetch!Stage("next") /\ \A r \in Fetch!InSegment(rangeCall.segment) : refs[r] = "over"
      /\ refs' = refs /\ list' = list /\ tally' = tally /\ told' = told /\ rangeOdd' = rangeOdd /\ held' = held
  BY DEF Fetch!SegmentEnds
<1>2. /\ rangeCall' \in [at : RangeStages, segment : 0..Fetch!Segments]
      /\ rangeCall'.at = "next" /\ rangeCall'.segment = rangeCall.segment
  BY <1>1, CallMoves DEF RangeInv, RangeStages
<1>3. SegmentsFit /\ held \in BOOLEAN /\ RangeTypes
  BY DEF RangeInv, RangeTypes
<1>4. \A r \in RangeFiles : Before(r, rangeCall.segment) => refs[r] = "over"
  <2> SUFFICES ASSUME NEW r \in RangeFiles, Before(r, rangeCall.segment)  PROVE refs[r] = "over"
    OBVIOUS
  <2>1. CASE Before(r, rangeCall.segment - 1)
    BY <1>1, <1>3, <2>1 DEF SegmentsFit
  <2>2. CASE ~Before(r, rangeCall.segment - 1)
    <3>1. Fetch!Nth(r) \in Nat /\ (rangeCall.segment - 1) * Segment \in Int
      BY <1>3, FilesAreCounted, SegmentsHold DEF RangeTypes
    <3>2. r \in Fetch!InSegment(rangeCall.segment)
      BY <2>2, <3>1, RangeIs DEF Before, Fetch!InSegment
    <3> QED
      BY <1>1, <3>2
  <2> QED
    BY <2>1, <2>2
<1>5. SegmentsFit'
  BY <1>1, <1>2, <1>3, <1>4 DEF SegmentsFit, Before, Fetch!Nth, Fetch!Files, Fetch!Refs
<1> QED
  BY <1>1, <1>2, <1>3, <1>5, RefsRest

LEMMA PrefetchFailsKeeps ==
  ASSUME RangeInv, Fetch!PrefetchFails
  PROVE  RangeInv'
<1>1. /\ rangeCall.at = "next" /\ Fetch!Stage("thrown") /\ held' = FALSE
      /\ refs' = refs /\ list' = list /\ tally' = tally /\ told' = told /\ rangeOdd' = rangeOdd
  BY DEF Fetch!PrefetchFails
<1>2. /\ rangeCall' \in [at : RangeStages, segment : 0..Fetch!Segments]
      /\ rangeCall'.at = "thrown" /\ rangeCall'.segment = rangeCall.segment
  BY <1>1, CallMoves DEF RangeInv, RangeStages
<1>3. SegmentsFit
  BY DEF RangeInv
<1>4. SegmentsFit'
  BY <1>1, <1>2, <1>3 DEF SegmentsFit, Before, Fetch!Nth, Fetch!Files, Fetch!Refs
<1> QED
  BY <1>1, <1>2, <1>4, RefsRest

\* Before the first segment nothing was said of any file.
LEMMA FilesWait ==
  ASSUME RangeInv, rangeCall.at \in {"select", "scan", "admit"}, NEW r \in RangeFiles
  PROVE  r \in Refs /\ refs[r] = "waiting" /\ Unsaid(r) /\ Unlisted(r) /\ rangeCall.segment = 0
<1>1. rangeCall.segment = 0 /\ Fetch!Nth(r) > 0 /\ 0 * Segment = 0 /\ Fetch!Nth(r) \in Nat /\ r \in Refs
  BY FilesAreCounted DEF RangeInv, SegmentsFit, RangeTypes, RangeFiles
<1>2. ~Before(r, rangeCall.segment)
  BY <1>1 DEF Before
<1>3. refs[r] = "waiting"
  BY <1>2 DEF RangeInv, SegmentsFit
<1> QED
  BY <1>1, <1>3 DEF RangeInv, RefsFit, RefFits

LEMMA ScanKeeps ==
  ASSUME RangeInv, Fetch!Scan
  PROVE  RangeInv'
<1>1. /\ rangeCall.at = "scan" /\ Fetch!Stage("admit")
      /\ list' = [list EXCEPT !["skipped"] = NoFile]
      /\ told' = [r \in Refs |-> IF r \in NoFile THEN {"skipped"} ELSE {}]
      /\ refs' = [r \in Refs |-> IF r \in NoFile THEN "over" ELSE "waiting"]
      /\ tally' = tally /\ rangeOdd' = rangeOdd /\ held' = held
  BY RangeIs DEF Fetch!Scan
<1>2. /\ rangeCall' \in [at : RangeStages, segment : 0..Fetch!Segments]
      /\ rangeCall'.at = "admit" /\ rangeCall'.segment = rangeCall.segment
  BY <1>1, CallMoves DEF RangeInv, RangeStages
<1>3. RangeTypes /\ SegmentsFit /\ NoFile \subseteq Refs /\ RangeFiles \subseteq Refs
  BY DEF RangeInv, RangeTypes, RangeFiles
<1>4. /\ list' \in [Outcomes -> SUBSET Refs] /\ list'["skipped"] = NoFile
      /\ list'["success"] = list["success"] /\ list'["failed"] = list["failed"]
  BY <1>1, <1>3, TallyIs
<1>5. told' \in [Refs -> SUBSET Outcomes] /\ refs' \in [Refs -> RefStages]
  BY <1>1, TallyIs DEF RefStages
<1>6. RangeTypes'
  BY <1>1, <1>2, <1>3, <1>4, <1>5 DEF RangeTypes, Fetch!Segments, Fetch!Files, Fetch!Refs
<1>7. \A r \in Refs : Unsaid(r) /\ Unlisted(r) /\ refs[r] = "waiting"
  BY <1>1 DEF RangeInv, RefsFit, RefFits, SegmentsFit
<1>8. RefsFit'
  <2> SUFFICES ASSUME NEW r \in Refs  PROVE RefFits(r)'
    BY DEF RefsFit
  <2>1. CASE r \in NoFile
    <3>1. told'[r] = {"skipped"} /\ refs'[r] = "over" /\ r \notin rangeOdd'.left
      BY <1>1, <1>7, <2>1 DEF Unsaid
    <3>2. \A o \in Outcomes : r \in list'[o] <=> o = "skipped"
      BY <1>4, <1>7, <2>1, TallyIs DEF Unlisted
    <3> QED
      BY <1>2, <2>1, <3>1, <3>2, TallyIs DEF RefFits, Unsaid, Unlisted
  <2>2. CASE r \notin NoFile
    <3>1. told'[r] = {} /\ refs'[r] = "waiting" /\ r \notin rangeOdd'.left
      BY <1>1, <1>7, <2>2 DEF Unsaid
    <3>2. \A o \in Outcomes : r \notin list'[o]
      BY <1>4, <1>7, <2>2, TallyIs DEF Unlisted
    <3> QED
      BY <1>2, <2>2, <3>1, <3>2, TallyIs DEF RefFits, Unsaid, Unlisted
  <2> QED
    BY <2>1, <2>2
<1>9. SegmentsFit'
  <2>1. \A r \in RangeFiles : refs'[r] = "waiting"
    BY <1>1, <1>3 DEF RangeFiles
  <2>2. \A r \in NoFile : refs'[r] = "over"
    BY <1>1, <1>3
  <2> QED
    BY <1>1, <1>2, <1>3, <2>1, <2>2 DEF SegmentsFit
<1>10. TallyFits'
  <2>1. Remaining' = Remaining
    BY <1>1, <1>3, <1>7 DEF Remaining, RangeFiles
  <2> QED
    BY <1>1, <1>4, <2>1 DEF RangeInv, TallyFits
<1> QED
  BY <1>6, <1>8, <1>9, <1>10 DEF RangeInv

LEMMA AdmitKeeps ==
  ASSUME RangeInv, Fetch!Admit
  PROVE  RangeInv'
<1>1. rangeCall.at = "admit" /\ refs' = refs /\ tally' = tally
  BY DEF Fetch!Admit
<1>2. RangeTypes /\ SegmentsFit /\ NoFile \subseteq Refs /\ RangeFiles \subseteq Refs
  BY DEF RangeInv, RangeTypes, RangeFiles
<1>3. \A r \in RangeFiles : refs[r] = "waiting" /\ Unsaid(r) /\ Unlisted(r) /\ r \notin NoFile
  BY <1>1, FilesWait DEF RangeFiles
<1>4. \A r \in NoFile : refs[r] = "over" /\ told[r] # {} /\ RefFits(r)
  BY <1>1, <1>2 DEF SegmentsFit, RangeInv, RefsFit, RefFits
<1>5. rangeCall.segment = 0 /\ \A r \in RangeFiles : ~Before(r, 0)
  <2>1. \A r \in RangeFiles : Fetch!Nth(r) > 0 /\ Fetch!Nth(r) \in Nat
    BY <1>2, FilesAreCounted
  <2>2. 0 * Segment = 0 /\ rangeCall.segment = 0
    BY <1>1, <1>2 DEF RangeTypes, SegmentsFit
  <2> QED
    BY <2>1, <2>2 DEF Before
<1>6. CASE /\ Fetch!Stage("next") /\ list' = list /\ told' = told /\ rangeOdd' = rangeOdd /\ held' = held
  <2>1. /\ rangeCall' \in [at : RangeStages, segment : 0..Fetch!Segments]
        /\ rangeCall'.at = "next" /\ rangeCall'.segment = rangeCall.segment
    BY <1>2, <1>6, CallMoves DEF RangeStages
  <2>2. SegmentsFit'
    BY <1>1, <1>2, <1>3, <1>4, <1>5, <1>6, <2>1 DEF SegmentsFit, Before, Fetch!Nth, Fetch!Files, Fetch!Refs
  <2>3. held' \in BOOLEAN
    BY <1>2, <1>6 DEF RangeTypes
  <2> QED
    BY <1>1, <1>6, <2>1, <2>2, <2>3, RefsRest
<1>7. CASE /\ Fetch!Stage("returned") /\ held' = FALSE
           /\ \/ /\ list' = [list EXCEPT !["skipped"] = RangeFiles]
                 /\ told' = [r \in Refs |-> told[r] \cup (IF r \in RangeFiles THEN {"skipped"} ELSE {})]
                 /\ rangeOdd' = [rangeOdd EXCEPT !.left = NoFile]
              \/ list' = list /\ told' = told /\ rangeOdd' = [rangeOdd EXCEPT !.left = RangeFiles]
  <2>1. /\ rangeCall' \in [at : RangeStages, segment : 0..Fetch!Segments]
        /\ rangeCall'.at = "returned" /\ rangeCall'.segment = rangeCall.segment
    BY <1>2, <1>7, CallMoves DEF RangeStages
  <2>2. /\ list' \in [Outcomes -> SUBSET Refs] /\ list'["success"] = list["success"] /\ list'["failed"] = list["failed"]
        /\ rangeOdd' \in [untold : SUBSET Refs, left : SUBSET Refs] /\ told' \in [Refs -> SUBSET Outcomes]
        /\ rangeOdd'.untold = rangeOdd.untold
    <3>1. CASE list' = [list EXCEPT !["skipped"] = RangeFiles]
      BY <1>2, <1>7, <3>1, TallyIs
    <3>2. CASE list' = list
      BY <1>2, <1>7, <3>2, TallyIs
    <3> QED
      BY <1>7, <3>1, <3>2
  <2>3. RangeTypes'
    BY <1>1, <1>2, <1>7, <2>1, <2>2 DEF RangeTypes, Fetch!Segments, Fetch!Files, Fetch!Refs
  <2>4. ASSUME NEW r \in RangeFiles
        PROVE  RefFits(r)'
    <3>1. refs'[r] = "waiting" /\ told[r] = {} /\ (\A o \in Outcomes : r \notin list[o]) /\ r \in Refs /\ r \notin NoFile
      BY <1>1, <1>2, <1>3 DEF Unsaid, Unlisted
    <3>2. CASE list' = list /\ told' = told /\ rangeOdd' = [rangeOdd EXCEPT !.left = RangeFiles]
      <4>1. r \in rangeOdd'.left
        BY <3>2, TallyIs
      <4> QED
        BY <2>1, <3>1, <3>2, <4>1, TallyIs DEF RefFits, Unsaid, Unlisted
    <3>3. CASE /\ list' = [list EXCEPT !["skipped"] = RangeFiles]
               /\ told' = [x \in Refs |-> told[x] \cup (IF x \in RangeFiles THEN {"skipped"} ELSE {})]
               /\ rangeOdd' = [rangeOdd EXCEPT !.left = NoFile]
      <4>1. r \notin rangeOdd'.left /\ told'[r] = {"skipped"} /\ \A o \in Outcomes : r \in list'[o] <=> o = "skipped"
        BY <3>1, <3>3, TallyIs
      <4> QED
        BY <2>1, <3>1, <4>1, TallyIs DEF RefFits, Unsaid, Unlisted
    <3> QED
      BY <1>7, <3>2, <3>3
  <2>5. ASSUME NEW r \in NoFile
        PROVE  RefFits(r)'
    <3>1. refs'[r] = "over" /\ told[r] # {} /\ RefFits(r) /\ r \in Refs /\ r \notin RangeFiles
      BY <1>1, <1>2, <1>4 DEF RangeFiles
    <3>2. told'[r] = told[r]
      <4>1. CASE told' = told
        BY <4>1
      <4>2. CASE told' = [x \in Refs |-> told[x] \cup (IF x \in RangeFiles THEN {"skipped"} ELSE {})]
        BY <3>1, <4>2
      <4> QED
        BY <1>7, <4>1, <4>2
    <3>3. CASE list' = list /\ told' = told /\ rangeOdd' = [rangeOdd EXCEPT !.left = RangeFiles]
      <4>1. r \notin rangeOdd'.left
        BY <3>1, <3>3, TallyIs
      <4>2. \A o \in told[r] : r \in list[o]
        BY <1>1, <3>1 DEF RefFits
      <4> QED
        BY <2>1, <2>2, <3>1, <3>2, <3>3, <4>1, <4>2, TallyIs DEF RefFits, Unsaid, Unlisted
    <3>4. CASE /\ list' = [list EXCEPT !["skipped"] = RangeFiles]
               /\ rangeOdd' = [rangeOdd EXCEPT !.left = NoFile]
      <4>1. r \in rangeOdd'.left /\ r \notin list'["skipped"]
        BY <3>1, <3>4, TallyIs
      <4>2. \A o, p \in Outcomes : r \in list'[o] \cap list'[p] => o = p \/ r \in rangeOdd'.untold
        BY <2>2, <3>1, <4>1, TallyIs DEF RefFits
      <4> QED
        BY <2>1, <2>2, <3>1, <3>2, <4>1, <4>2, TallyIs DEF RefFits, Unsaid, Unlisted
    <3> QED
      BY <1>7, <3>3, <3>4
  <2>6. RefsFit'
    BY <2>4, <2>5 DEF RefsFit, RangeFiles
  <2>7. SegmentsFit'
    BY <1>1, <1>2, <1>3, <1>4, <1>7, <2>1 DEF SegmentsFit, RangeFiles
  <2>8. TallyFits'
    BY <1>1, <2>2 DEF RangeInv, TallyFits, Remaining
  <2> QED
    BY <2>3, <2>6, <2>7, <2>8 DEF RangeInv
<1> QED
  BY <1>6, <1>7, RangeIs DEF Fetch!Admit

LEMMA PrefetchKeeps ==
  ASSUME RangeInv, Fetch!Prefetch
  PROVE  RangeInv'
<1> DEFINE n == rangeCall.segment
           S == Fetch!InSegment(n + 1)
<1>1. /\ rangeCall.at = "next" /\ n < Fetch!Segments /\ rangeCall' = [at |-> "segment", segment |-> n + 1]
      /\ refs' = [r \in Refs |-> IF r \in S THEN "asking" ELSE refs[r]]
      /\ list' = list /\ tally' = tally /\ told' = told /\ rangeOdd' = rangeOdd /\ held' = held
  BY RangeIs DEF Fetch!Prefetch
<1>2. RangeTypes /\ SegmentsFit /\ RefsFit /\ NoFile \subseteq Refs /\ RangeFiles \subseteq Refs
  BY DEF RangeInv, RangeTypes, RangeFiles
<1>3. n \in Nat /\ n + 1 \in 0..Fetch!Segments /\ Segment \in Nat \ {0} /\ (n + 1) - 1 = n
  BY <1>1, <1>2, SegmentsHold DEF RangeTypes
<1>4. \A r \in RangeFiles : Fetch!Nth(r) \in Nat
  BY <1>2, FilesAreCounted
<1>5. (n + 1) * Segment = n * Segment + Segment /\ n * Segment \in Nat
  BY <1>3
<1>6. S = {r \in RangeFiles : ~Before(r, n) /\ Before(r, n + 1)}
  BY <1>3, <1>4, <1>5, RangeIs DEF Fetch!InSegment, Before
<1>7. \A r \in RangeFiles : Before(r, n) => Before(r, n + 1)
  BY <1>3, <1>4, <1>5 DEF Before
<1> HIDE DEF S
<1>8. \A r \in S : refs[r] = "waiting" /\ r \in RangeFiles
  BY <1>2, <1>6 DEF SegmentsFit
<1>9. rangeCall' \in [at : RangeStages, segment : 0..Fetch!Segments] /\ rangeCall'.at = "segment" /\ rangeCall'.segment = n + 1
  BY <1>1, <1>3 DEF RangeStages
<1>10. refs' \in [Refs -> RefStages]
  BY <1>1, <1>2 DEF RangeTypes, RefStages
<1>11. RangeTypes'
  BY <1>1, <1>2, <1>9, <1>10 DEF RangeTypes, Fetch!Segments, Fetch!Files, Fetch!Refs
<1>12. RefsFit'
  <2> SUFFICES ASSUME NEW r \in Refs  PROVE RefFits(r)'
    BY DEF RefsFit
  <2>1. CASE r \in S
    <3>1. refs'[r] = "asking" /\ Unsaid(r) /\ Unlisted(r) /\ r \notin NoFile /\ RefFits(r)
      BY <1>1, <1>2, <1>8, <2>1 DEF RefsFit, RefFits, RangeFiles
    <3> QED
      BY <1>1, <1>9, <3>1 DEF RefFits, Unsaid, Unlisted
  <2>2. CASE r \notin S
    <3>1. SameRef(r)
      BY <1>1, <2>2 DEF SameRef
    <3> QED
      BY <1>1, <1>2, <1>9, <3>1, RefStands DEF RefsFit
  <2> QED
    BY <2>1, <2>2
<1>13. SegmentsFit'
  <2>1. \A r \in RangeFiles, k \in Int : Before(r, k)' <=> Before(r, k)
    BY DEF Before, Fetch!Nth, Fetch!Files, Fetch!Refs
  <2>2. \A r \in RangeFiles : ~Before(r, n + 1) => refs'[r] = "waiting"
    BY <1>1, <1>2, <1>6, <1>7 DEF SegmentsFit
  <2>3. \A r \in RangeFiles : Before(r, n) => refs'[r] = "over"
    BY <1>1, <1>2, <1>6 DEF SegmentsFit
  <2>4. \A r \in NoFile : refs'[r] = "over"
    BY <1>1, <1>2, <1>8 DEF SegmentsFit, RangeFiles
  <2>5. held' = TRUE
    BY <1>1, <1>2 DEF SegmentsFit, RangeTypes
  <2> HIDE DEF n
  <2> QED
    BY <1>3, <1>9, <2>1, <2>2, <2>3, <2>4, <2>5 DEF SegmentsFit, RangeFiles
<1>14. TallyFits'
  <2>1. Remaining' = Remaining
    BY <1>1, <1>2, <1>8 DEF Remaining, RangeFiles
  <2> QED
    BY <1>1, <2>1 DEF RangeInv, TallyFits
<1> QED
  BY <1>11, <1>12, <1>13, <1>14 DEF RangeInv

LEMMA ReturnKeeps ==
  ASSUME RangeInv, Fetch!Return
  PROVE  RangeInv'
<1>1. /\ rangeCall.at = "next" /\ rangeCall.segment = Fetch!Segments /\ Fetch!Stage("returned") /\ held' = FALSE
      /\ refs' = refs /\ list' = list /\ tally' = tally /\ told' = told /\ rangeOdd' = rangeOdd
  BY DEF Fetch!Return
<1>2. /\ rangeCall' \in [at : RangeStages, segment : 0..Fetch!Segments]
      /\ rangeCall'.at = "returned" /\ rangeCall'.segment = rangeCall.segment
  BY <1>1, CallMoves DEF RangeInv, RangeStages
<1>3. RangeTypes /\ SegmentsFit /\ RefsFit
  BY DEF RangeInv
<1>4. \A r \in Refs : refs[r] = "over"
  <2>1. ASSUME NEW r \in RangeFiles
        PROVE  Before(r, Fetch!Segments)
    <3>1. /\ Fetch!Nth(r) \in Nat /\ Fetch!Nth(r) <= Cardinality(RangeFiles) /\ Cardinality(RangeFiles) \in Nat
          /\ Cardinality(RangeFiles) <= Fetch!Segments * Segment
      BY <1>3, FilesAreCounted, SegmentsHold, RefsAreFinite DEF RangeFiles
    <3>2. Fetch!Segments * Segment \in Int
      BY <1>3, SegmentsHold DEF RangeTypes
    <3> QED
      BY <3>1, <3>2 DEF Before
  <2> QED
    BY <1>1, <1>3, <2>1 DEF SegmentsFit, RangeFiles
<1>5. RefsFit'
  <2> SUFFICES ASSUME NEW r \in Refs  PROVE RefFits(r)'
    BY DEF RefsFit
  <2>1. RefFits(r) /\ refs[r] = "over" /\ ~Unsaid(r) /\ (Unsaid(r)' <=> Unsaid(r))
    BY <1>1, <1>3, <1>4 DEF RefsFit, RefFits, Unsaid
  <2> QED
    BY <1>1, <1>2, <2>1 DEF RefFits
<1>6. RangeTypes'
  BY <1>1, <1>2, <1>3 DEF RangeTypes, Fetch!Segments, Fetch!Files, Fetch!Refs
<1>7. SegmentsFit'
  BY <1>1, <1>2, <1>3, <1>4 DEF SegmentsFit, Before, Fetch!Nth, Fetch!Files, Fetch!Refs, RangeTypes
<1>8. TallyFits'
  BY <1>1 DEF RangeInv, TallyFits, Remaining
<1> QED
  BY <1>5, <1>6, <1>7, <1>8 DEF RangeInv

LEMMA RangeStarts ==
  ASSUME Fetch!RangeAssumption, Fetch!Init
  PROVE  RangeInv
<1>1. /\ Count \in Nat \ {0} /\ Segment \in Nat \ {0} /\ NoFile \subseteq Refs /\ {"success", "failed", "skipped"} = Outcomes
      /\ "select" \in RangeStages /\ "waiting" \in RefStages
  BY DEF Fetch!RangeAssumption, Refs, Outcomes, RangeStages, RefStages
<1>2. /\ rangeCall = [at |-> "select", segment |-> 0] /\ refs = [r \in Refs |-> "waiting"]
      /\ list = [o \in Outcomes |-> {}] /\ told = [r \in Refs |-> {}] /\ held = FALSE
      /\ tally = [successful |-> 0, failed |-> 0, completed |-> 0] /\ rangeOdd = [untold |-> {}, left |-> {}]
  BY RangeIs DEF Fetch!Init
<1>3. \A S \in SUBSET Refs : IsFiniteSet(S) /\ Cardinality(S) \in Nat
  <2>1. 1 \in Int /\ Count \in Int
    BY <1>1
  <2>2. IsFiniteSet(Refs)
    BY <2>1, FS_Interval DEF Refs
  <2> QED
    BY <2>2, FS_Subset, FS_CardinalityType
<1>4. Cardinality(RangeFiles) \in Nat /\ Fetch!Segments = (Cardinality(RangeFiles) + Segment - 1) \div Segment
  BY <1>3, RangeIs, SizeIs DEF Fetch!Segments, RangeFiles
<1>5. 0 \in 0..Fetch!Segments
  BY <1>1, <1>4, Rooms
<1>6. /\ refs \in [Refs -> RefStages] /\ list \in [Outcomes -> SUBSET Refs] /\ told \in [Refs -> SUBSET Outcomes]
  BY <1>1, <1>2
<1>7. /\ rangeCall \in [at : RangeStages, segment : 0..Fetch!Segments]
      /\ tally \in [successful : Nat, failed : Nat, completed : Nat]
      /\ held \in BOOLEAN /\ rangeOdd \in [untold : SUBSET Refs, left : SUBSET Refs]
  BY <1>1, <1>2, <1>5
<1>8. RangeTypes
  BY <1>1, <1>6, <1>7 DEF RangeTypes
<1>9. \A r \in Refs : refs[r] = "waiting" /\ Unsaid(r) /\ Unlisted(r)
  BY <1>1, <1>2 DEF Unsaid, Unlisted
<1>10. RefsFit
  BY <1>1, <1>2, <1>9 DEF RefsFit, RefFits, Unsaid, Unlisted
<1>11. SegmentsFit
  BY <1>1, <1>2, <1>9 DEF SegmentsFit, RangeFiles
<1>12. TallyFits
  <2>1. Remaining = RangeFiles
    BY <1>9 DEF Remaining, RangeFiles
  <2>2. Cardinality({}) = 0
    BY FS_EmptySet
  <2>3. list["success"] = {} /\ list["failed"] = {}
    BY <1>1, <1>2
  <2>4. tally.successful = 0 /\ tally.failed = 0 /\ tally.completed = 0
    BY <1>2
  <2> QED
    BY <1>4, <2>1, <2>2, <2>3, <2>4 DEF TallyFits
<1> QED
  BY <1>8, <1>10, <1>11, <1>12 DEF RangeInv

LEMMA RangeStep ==
  ASSUME RangeInv, [Fetch!Next]_Fetch!vars
  PROVE  RangeInv'
<1>1. CASE UNCHANGED Fetch!vars
  BY <1>1, ControlKeeps DEF Fetch!vars
<1>2. CASE Fetch!CallStep
  BY <1>2, SelectKeeps, ScanKeeps, AdmitKeeps, PrefetchKeeps, SegmentEndsKeeps, ReturnKeeps DEF Fetch!CallStep
<1>3. CASE Fetch!Select(FALSE) \/ Fetch!PrefetchFails
  BY <1>3, SelectKeeps, PrefetchFailsKeeps
<1>4. CASE \E r \in Refs : Fetch!ItemStep(r) \/ Fetch!TellFails(r) \/ Fetch!Throw(r)
  <2>1. PICK r \in Refs : Fetch!ItemStep(r) \/ Fetch!TellFails(r) \/ Fetch!Throw(r)
    BY <1>4
  <2>2. CASE Fetch!ItemStep(r)
    BY <2>2, AskKeeps, WorkKeeps, TellKeeps DEF Fetch!ItemStep
  <2> QED
    BY <2>1, <2>2, TellFailsKeeps, ThrowKeeps
<1>5. CASE \E c \in {"run", "paused", "cooldown", "cancelled"} : Fetch!Control(c)
  BY <1>5, ControlKeeps DEF Fetch!Control
<1> QED
  BY <1>1, <1>2, <1>3, <1>4, <1>5, RangeIs DEF Fetch!Next

\* What is said of a reference fits how far it is, the segments go through the files
\* in their order, and the counters are the sizes of the lists.
THEOREM RangeInvariant == Fetch!RangeAssumption /\ Fetch!Spec => []RangeInv
<1>1. Fetch!RangeAssumption /\ Fetch!Init => RangeInv
  BY RangeStarts
<1>2. RangeInv /\ [Fetch!Next]_Fetch!vars => RangeInv'
  BY RangeStep
<1> QED
  BY <1>1, <1>2, PTL DEF Fetch!Spec

\* Every variable of a call has its type.
THEOREM RangeTypeCorrect == Fetch!RangeAssumption /\ Fetch!Spec => []Fetch!TypeOK
<1>1. RangeInv => Fetch!TypeOK
  BY RangeIs DEF RangeInv, RangeTypes, Fetch!TypeOK, RangeStages, RefStages
<1> QED
  BY <1>1, RangeInvariant, PTL

\* A message is in one list, unless the job could not be told of its success, and the
\* counters that the call returns are the sizes of the lists.
THEOREM OneOutcomeEach == Fetch!RangeAssumption /\ Fetch!Spec => []Fetch!OneOutcome
<1>1. ASSUME RangeInv
      PROVE  Fetch!OneOutcome
  <2>1. \A r \in Refs, o, p \in Outcomes : r \in list[o] \cap list[p] => o = p \/ r \in rangeOdd.untold
    BY <1>1 DEF RangeInv, RefsFit, RefFits
  <2>2. RangeTypes /\ Remaining \in SUBSET Refs /\ RangeFiles \in SUBSET Refs
    BY <1>1 DEF RangeInv, Remaining, RangeFiles
  <2>3. Cardinality(Remaining) \in Nat /\ Cardinality(RangeFiles) \in Nat
    BY <2>2, RefsAreFinite
  <2>4. tally.completed \in Nat
    BY <2>2 DEF RangeTypes
  <2>5. tally.completed <= Cardinality(RangeFiles)
    BY <1>1, <2>3, <2>4 DEF RangeInv, TallyFits
  <2> QED
    BY <1>1, <2>1, <2>5, RangeIs, SizeIs DEF Fetch!OneOutcome, RangeInv, TallyFits
<1> QED
  BY <1>1, RangeInvariant, PTL

\* A call that returns has told the job of every message that it does not leave to a
\* later call, what was told is listed, and what was left was not told.
THEOREM ReturnsComplete == Fetch!RangeAssumption /\ Fetch!Spec => []Fetch!ReturnIsComplete
<1>1. ASSUME RangeInv
      PROVE  Fetch!ReturnIsComplete
  <2>1. rangeCall.at = "returned" => \A r \in Refs : told[r] # {} \/ r \in rangeOdd.left
    BY <1>1 DEF RangeInv, RefsFit, RefFits, Unsaid
  <2>2. \A r \in Refs, o \in Outcomes : o \in told[r] => r \in list[o] \/ r \in rangeOdd.left \cap NoFile
    BY <1>1 DEF RangeInv, RefsFit, RefFits
  <2>3. rangeOdd.left \subseteq Refs
    BY <1>1 DEF RangeInv, RangeTypes
  <2>4. \A r \in rangeOdd.left \ NoFile : told[r] = {} /\ r \notin list["skipped"]
    BY <1>1, <2>3 DEF RangeInv, RefsFit, RefFits
  <2> QED
    BY <2>1, <2>2, <2>4, RangeIs DEF Fetch!ReturnIsComplete
<1> QED
  BY <1>1, RangeInvariant, PTL

\* Files are downloaded while the call holds its account, unless one of them made it
\* throw, and a call that is over holds none.
THEOREM AccountCovers == Fetch!RangeAssumption /\ Fetch!Spec => []Fetch!AccountCoversWork
<1>1. ASSUME RangeInv
      PROVE  Fetch!AccountCoversWork
  <2>1. \A r \in Refs : rangeCall.at \in {"select", "returned"} => refs[r] \in {"waiting", "over"}
    BY <1>1 DEF RangeInv, SegmentsFit
  <2> QED
    BY <1>1, <2>1, RangeIs DEF RangeInv, SegmentsFit, Fetch!AccountCoversWork, Fetch!Running
<1> QED
  BY <1>1, RangeInvariant, PTL

\* A range that was downloaded with one account is accounted for, message by message
\* (downloadTelegramChannelRange): the three together.
THEOREM RangesAreWhole ==
    Fetch!RangeAssumption /\ Fetch!Spec =>
        [](Fetch!OneOutcome /\ Fetch!ReturnIsComplete /\ Fetch!AccountCoversWork)
<1> QED
  BY OneOutcomeEach, ReturnsComplete, AccountCovers, PTL

-----------------------------------------------------------------------------
(* The files that are sent to the bot (MediaUpload)                         *)

CONSTANTS Album, Singles, Twins, SkipTwins
VARIABLES hand, map, creating, made, timer, proc, file, work, aborted, temp, object, entered,
          holder, low, blockers, gaps, sendEvents
Send == INSTANCE MediaUpload WITH row <- entered, odd <- gaps, events <- sendEvents

Messages == Album \cup Singles
Lines == Send!Queues
TaskStages == {"none", "queue", "check", "disk", "download", "twin", "save", "index", "end", "undo", "cool", "done"}
Working == TaskStages \ {"none", "queue", "done"}
FileStages == {"none", "pending", "queued", "uploading", "success", "failed"}
HandType == [at : {"new", "asking", "in"}, queue : {0} \cup Lines]
ProcType == [started : BOOLEAN, at : {"idle", "admit", "files"}, snap : SUBSET Album]
WorkType == [at : TaskStages, tries : 0..1]

AlbumTypes ==
    /\ IsFiniteSet(Album) /\ "none" \notin Messages
    /\ hand \in [Messages -> HandType] /\ map \in {0} \cup Lines /\ made \in {0} \cup Lines
    /\ proc \in [Lines -> ProcType]
FileTypes ==
    /\ file \in [Messages -> FileStages] /\ work \in [Messages -> WorkType]
    /\ aborted \in SUBSET Messages /\ temp \in SUBSET Messages /\ blockers \in SUBSET Messages
    /\ object \in SUBSET (Messages \X (0..1)) /\ entered \in [Messages -> 0..1]
    /\ holder \in Album \cup {"none"} /\ gaps \in [Send!Gaps -> SUBSET Messages]

\* What a queue has taken for processing is its own, and waits until it was admitted;
\* a queue is made for a message that waits for it.
HandsFit ==
    \A m \in Messages :
        /\ hand[m].at # "in" => file[m] = "none"
        /\ hand[m].at = "new" => hand[m].queue = 0
SnapsFit ==
    \A q \in Lines : \A m \in proc[q].snap :
        /\ hand[m] = [at |-> "in", queue |-> q]
        /\ proc[q].at = "admit" => file[m] = "pending"
QueuesFit ==
    /\ creating => \E m \in Album : hand[m] = [at |-> "asking", queue |-> 0]
    /\ \A q \in 1..made : \E m \in Album : hand[m].queue = q

\* How far the task of a file is tells what there is of the file.
StatusFits(m) ==
    /\ work[m].at = "none" <=> file[m] \in {"none", "pending"}
    /\ work[m].at = "queue" <=> file[m] = "queued"
    /\ work[m].at \in Working => file[m] = "uploading"
    /\ file[m] = "success" => entered[m] = 1 \/ m \in gaps["gaveUp"] \/ (SkipTwins /\ m \in Twins)
RowFits(m) ==
    /\ work[m].at \notin {"end", "undo", "done"} => entered[m] = 0
    /\ work[m].at \in {"end", "undo"} => entered[m] = 1
    /\ work[m].at = "undo" => m \in aborted
    /\ work[m].at = "done" /\ entered[m] = 1 =>
         m \in gaps["undoFailed"] \/ (m \notin aborted /\ \E k \in 0..1 : <<m, k>> \in object)
ObjectFits(m) ==
    /\ work[m].at \in {"index", "end", "undo"} => <<m, work[m].tries>> \in object
    /\ \A k \in 0..1 : <<m, k>> \in object =>
         \/ work[m].at \in {"index", "end", "undo"} /\ k = work[m].tries
         \/ work[m].at = "done" /\ entered[m] = 1
         \/ m \in gaps["uncompensated"] \cup gaps["undoFailed"]
HoldFits(m) ==
    /\ m \in temp => work[m].at \in {"twin", "save", "index", "end"}
    /\ m \in blockers => work[m].at = "disk"
    /\ holder = m => work[m].at \in {"save", "index", "end", "undo"}
FileFits(m) == StatusFits(m) /\ RowFits(m) /\ ObjectFits(m) /\ HoldFits(m)

AlbumInv == HandsFit /\ SnapsFit /\ QueuesFit
FilesFit == \A m \in Messages : FileFits(m)
SendInv == AlbumTypes /\ FileTypes /\ AlbumInv /\ FilesFit

LEMMA SendIs ==
  /\ Send!Messages = Messages /\ Send!None = "none"
  /\ Send!Gaps = {"orphan", "refused", "quota", "gaveUp", "uncompensated", "undoFailed"}
BY DEF Send!Messages, Messages, Send!None, Send!Gaps

\* What happens to one file leaves the others alone.
SameTask(m) == work'[m] = work[m] /\ file'[m] = file[m] /\ entered'[m] = entered[m]
SameHold(m) ==
    /\ m \in aborted' <=> m \in aborted
    /\ m \in temp' <=> m \in temp
    /\ m \in blockers' <=> m \in blockers
    /\ holder' = m <=> holder = m
SameStore(m) ==
    /\ \A k \in 0..1 : <<m, k>> \in object' <=> <<m, k>> \in object
    /\ \A g \in Send!Gaps : m \in gaps[g] => m \in gaps'[g]
SameFile(m) == SameTask(m) /\ SameHold(m) /\ SameStore(m)

LEMMA FileStands ==
  ASSUME FileTypes, NEW m \in Messages, FileFits(m), SameFile(m)
  PROVE  FileFits(m)'
<1>1. work[m].tries \in 0..1
  BY DEF FileTypes, WorkType
<1>2. \A g \in {"gaveUp", "uncompensated", "undoFailed"} : m \in gaps[g] => m \in gaps'[g]
  BY SendIs DEF SameFile, SameStore
<1>3. StatusFits(m)'
  BY <1>2 DEF FileFits, StatusFits, SameFile, SameTask
<1>4. RowFits(m)'
  BY <1>2 DEF FileFits, RowFits, SameFile, SameTask, SameHold, SameStore
<1>5. ObjectFits(m)'
  BY <1>1, <1>2 DEF FileFits, ObjectFits, SameFile, SameTask, SameStore
<1>6. HoldFits(m)'
  BY DEF FileFits, HoldFits, SameFile, SameTask, SameHold
<1> QED
  BY <1>3, <1>4, <1>5, <1>6 DEF FileFits

\* The task of a file goes on: its queue and the other files stay as they are.
LEMMA TaskGoes ==
  ASSUME SendInv, NEW m \in Messages, work[m].at # "none", file'[m] \notin {"none", "pending"},
         hand' = hand, map' = map, creating' = creating, made' = made, proc' = proc,
         FileTypes', \A n \in Messages \ {m} : SameFile(n), FileFits(m)'
  PROVE  SendInv'
<1>1. AlbumTypes'
  BY DEF SendInv, AlbumTypes, HandType, ProcType, Lines, Send!Queues, Messages
<1>2. FilesFit'
  <2>1. \A n \in Messages \ {m} : FileFits(n)'
    BY FileStands DEF SendInv, FilesFit
  <2> QED
    BY <2>1 DEF FilesFit
<1>3. file[m] \notin {"none", "pending"}
  BY DEF SendInv, FilesFit, FileFits, StatusFits
<1>4. \A n \in Messages \ {m} : file'[n] = file[n]
  BY DEF SameFile, SameTask
<1>5. HandsFit'
  BY <1>3, <1>4 DEF SendInv, AlbumInv, HandsFit
<1>6. SnapsFit'
  <2>1. \A q \in Lines : proc[q].snap \subseteq Messages
    BY DEF SendInv, AlbumTypes, ProcType, Messages
  <2>2. ASSUME NEW q \in Lines, NEW n \in proc[q].snap
        PROVE  /\ hand'[n] = [at |-> "in", queue |-> q]
               /\ proc[q].at = "admit" => file'[n] = "pending"
    BY <1>3, <1>4, <2>1, <2>2 DEF SendInv, AlbumInv, SnapsFit
  <2> QED
    BY <2>2 DEF SnapsFit, Lines, Send!Queues
<1>7. QueuesFit'
  BY DEF SendInv, AlbumInv, QueuesFit
<1> QED
  BY <1>1, <1>2, <1>5, <1>6, <1>7 DEF SendInv, AlbumInv

\* The stage and the status of one file.
LEMMA ToIs ==
  ASSUME FileTypes, NEW m \in Messages, NEW l \in TaskStages, Send!To(m, l)
  PROVE  /\ work' \in [Messages -> WorkType] /\ work'[m].at = l /\ work'[m].tries = work[m].tries
         /\ \A n \in Messages \ {m} : work'[n] = work[n]
<1> DEFINE w == [work[m] EXCEPT !.at = l]
<1>1. work[m] \in WorkType /\ work \in [Messages -> WorkType]
  BY DEF FileTypes
<1>2. w \in WorkType /\ w.at = l /\ w.tries = work[m].tries
  BY <1>1 DEF WorkType
<1>3. work' = [work EXCEPT ![m] = w]
  BY DEF Send!To
<1> HIDE DEF w
<1> QED
  BY <1>1, <1>2, <1>3

LEMMA TriesIs ==
  ASSUME FileTypes, NEW m \in Messages, NEW w \in WorkType, work' = [work EXCEPT ![m] = w]
  PROVE  /\ work' \in [Messages -> WorkType] /\ work'[m] = w
         /\ \A n \in Messages \ {m} : work'[n] = work[n]
BY DEF FileTypes

LEMMA StatusIs ==
  ASSUME FileTypes, NEW m \in Messages, NEW st \in FileStages, file' = [file EXCEPT ![m] = st]
  PROVE  /\ file' \in [Messages -> FileStages] /\ file'[m] = st
         /\ \A n \in Messages \ {m} : file'[n] = file[n]
BY DEF FileTypes

LEMMA EndsIs ==
  ASSUME FileTypes, NEW m \in Messages, NEW st \in FileStages, Send!Ends(m, st)
  PROVE  /\ work' \in [Messages -> WorkType] /\ work'[m].at = "done"
         /\ file' \in [Messages -> FileStages] /\ file'[m] = st
         /\ \A n \in Messages \ {m} : work'[n] = work[n] /\ file'[n] = file[n]
<1>1. Send!To(m, "done") /\ file' = [file EXCEPT ![m] = st] /\ "done" \in TaskStages
  BY DEF Send!Ends, TaskStages
<1> QED
  BY <1>1, ToIs, StatusIs

LEMMA GapIs ==
  ASSUME FileTypes, NEW m \in Messages, NEW g \in Send!Gaps, Send!Gap(g, m)
  PROVE  /\ gaps' \in [Send!Gaps -> SUBSET Messages] /\ m \in gaps'[g]
         /\ \A h \in Send!Gaps : gaps[h] \subseteq gaps'[h]
<1> DEFINE x == gaps[g] \cup {m}
<1>1. x \in SUBSET Messages /\ m \in x /\ gaps[g] \subseteq x /\ gaps \in [Send!Gaps -> SUBSET Messages]
  BY DEF FileTypes
<1>2. gaps' = [gaps EXCEPT ![g] = x]
  BY DEF Send!Gap
<1> HIDE DEF x
<1> QED
  BY <1>1, <1>2

LEMMA UnlockIs ==
  ASSUME FileTypes, AlbumTypes, NEW m \in Messages, Send!Unlock(m)
  PROVE  /\ holder' \in Album \cup {"none"} /\ holder' # m
         /\ \A n \in Messages \ {m} : holder' = n <=> holder = n
BY SendIs DEF FileTypes, AlbumTypes, Send!Unlock

\* A working task of a message, with what its stage implies.
LEMMA WorkingIs ==
  ASSUME SendInv, NEW m \in Messages, work[m].at \in Working
  PROVE  /\ FileTypes /\ AlbumTypes /\ FileFits(m) /\ file[m] = "uploading" /\ work[m].at # "none"
         /\ work[m].tries \in 0..1 /\ entered[m] \in 0..1
BY DEF SendInv, FilesFit, FileFits, StatusFits, Working, FileTypes, WorkType

\* An attempt that failed is tried again or was the last one; it holds nothing.
LEMMA AttemptIs ==
  ASSUME SendInv, NEW m \in Messages, work[m].at \in Working, Send!AttemptFails(m)
  PROVE  /\ work' \in [Messages -> WorkType] /\ file' \in [Messages -> FileStages]
         /\ \A n \in Messages \ {m} : work'[n] = work[n] /\ file'[n] = file[n]
         /\ \/ m \notin aborted /\ work'[m].at = "check" /\ file'[m] = "uploading"
            \/ work'[m].at = "done" /\ file'[m] = "failed"
         /\ temp' = temp \ {m} /\ blockers' = blockers \ {m}
         /\ holder' \in Album \cup {"none"} /\ holder' # m
         /\ \A n \in Messages \ {m} : holder' = n <=> holder = n
<1>1. /\ FileTypes /\ AlbumTypes /\ file[m] = "uploading" /\ Send!Unlock(m)
      /\ temp' = temp \ {m} /\ blockers' = blockers \ {m}
  BY WorkingIs DEF Send!AttemptFails
<1>2. CASE Send!MayRetry(m)
  <2> DEFINE w == [at |-> "check", tries |-> 1]
  <2>1. work' = [work EXCEPT ![m] = w] /\ file' = file /\ m \notin aborted
    BY <1>2 DEF Send!AttemptFails, Send!MayRetry, Send!Aborted
  <2>2. w \in WorkType /\ w.at = "check"
    BY DEF WorkType, TaskStages
  <2> HIDE DEF w
  <2>3. /\ work' \in [Messages -> WorkType] /\ work'[m] = w
        /\ \A n \in Messages \ {m} : work'[n] = work[n]
    BY <1>1, <2>1, <2>2, TriesIs
  <2>4. file \in [Messages -> FileStages]
    BY <1>1 DEF FileTypes
  <2> QED
    BY <1>1, <2>1, <2>2, <2>3, <2>4, UnlockIs
<1>3. CASE ~Send!MayRetry(m)
  <2>1. Send!Ends(m, "failed") /\ "failed" \in FileStages
    BY <1>3 DEF Send!AttemptFails, FileStages
  <2> QED
    BY <1>1, <2>1, EndsIs, UnlockIs
<1> QED
  BY <1>2, <1>3

\* What is left behind is accounted for.
Accounted(m) ==
    /\ entered'[m] = 0
    /\ \A k \in 0..1 : <<m, k>> \in object' => m \in gaps'["uncompensated"] \cup gaps'["undoFailed"]

LEMMA FailedFits ==
  ASSUME SendInv, NEW m \in Messages, work[m].at \in Working, Send!AttemptFails(m), Accounted(m)
  PROVE  FileFits(m)'
<1>1. /\ work'[m].at \in {"check", "done"} /\ (work'[m].at = "check" => file'[m] = "uploading")
      /\ (work'[m].at = "done" => file'[m] = "failed")
      /\ m \notin temp' /\ m \notin blockers' /\ holder' # m
  BY AttemptIs
<1>2. StatusFits(m)'
  BY <1>1 DEF StatusFits, Working, TaskStages
<1>3. RowFits(m)'
  BY <1>1 DEF RowFits, Accounted
<1>4. ObjectFits(m)'
  BY <1>1 DEF ObjectFits, Accounted
<1>5. HoldFits(m)'
  BY <1>1 DEF HoldFits
<1> QED
  BY <1>2, <1>3, <1>4, <1>5 DEF FileFits

\* The quota: a single file waits, a file of an album is given up.
LEMMA QuotaIs ==
  ASSUME SendInv, NEW m \in Messages, work[m].at \in Working, Send!Quota(m)
  PROVE  /\ work' \in [Messages -> WorkType] /\ file' \in [Messages -> FileStages]
         /\ \A n \in Messages \ {m} : work'[n] = work[n] /\ file'[n] = file[n]
         /\ work'[m].at \in {"cool", "done"} /\ file'[m] = "uploading"
         /\ temp' = temp \ {m} /\ blockers' = blockers
         /\ gaps' \in [Send!Gaps -> SUBSET Messages] /\ \A g \in Send!Gaps : gaps[g] \subseteq gaps'[g]
         /\ holder' \in Album \cup {"none"} /\ holder' # m
         /\ \A n \in Messages \ {m} : holder' = n <=> holder = n
<1>1. /\ FileTypes /\ AlbumTypes /\ file[m] = "uploading" /\ Send!Unlock(m)
      /\ temp' = temp \ {m} /\ blockers' = blockers
  BY WorkingIs DEF Send!Quota
<1>2. CASE m \in Singles
  <2> DEFINE w == [at |-> "cool", tries |-> 1]
  <2>1. work' = [work EXCEPT ![m] = w] /\ file' = file /\ gaps' = gaps
    BY <1>2 DEF Send!Quota
  <2>2. w \in WorkType /\ w.at = "cool"
    BY DEF WorkType, TaskStages
  <2> HIDE DEF w
  <2>3. /\ work' \in [Messages -> WorkType] /\ work'[m] = w
        /\ \A n \in Messages \ {m} : work'[n] = work[n]
    BY <1>1, <2>1, <2>2, TriesIs
  <2>4. file \in [Messages -> FileStages] /\ gaps \in [Send!Gaps -> SUBSET Messages]
    BY <1>1 DEF FileTypes
  <2> QED
    BY <1>1, <2>1, <2>2, <2>3, <2>4, UnlockIs
<1>3. CASE m \notin Singles
  <2>1. Send!Ends(m, "uploading") /\ Send!Gap("quota", m) /\ "uploading" \in FileStages /\ "quota" \in Send!Gaps
    BY <1>3, SendIs DEF Send!Quota, FileStages
  <2>2. gaps' \in [Send!Gaps -> SUBSET Messages] /\ \A g \in Send!Gaps : gaps[g] \subseteq gaps'[g]
    BY <1>1, <2>1, GapIs
  <2> QED
    BY <1>1, <2>1, <2>2, EndsIs, UnlockIs
<1> QED
  BY <1>2, <1>3

LEMMA QuotaFits ==
  ASSUME SendInv, NEW m \in Messages, work[m].at \in {"check", "save"}, Send!Quota(m),
         entered' = entered, object' = object
  PROVE  FileFits(m)'
<1>1. work[m].at \in Working
  BY DEF Working, TaskStages
<1>2. /\ work'[m].at \in {"cool", "done"} /\ file'[m] = "uploading" /\ m \notin temp'
      /\ holder' # m /\ blockers' = blockers /\ \A g \in Send!Gaps : gaps[g] \subseteq gaps'[g]
  BY <1>1, QuotaIs
<1>3. FileFits(m) /\ entered[m] = 0 /\ m \notin blockers
  BY <1>1, WorkingIs DEF FileFits, RowFits, HoldFits
<1>4. \A k \in 0..1 : <<m, k>> \in object' => m \in gaps'["uncompensated"] \cup gaps'["undoFailed"]
  BY <1>2, <1>3, SendIs DEF FileFits, ObjectFits
<1>5. StatusFits(m)'
  BY <1>2 DEF StatusFits, Working, TaskStages
<1>6. RowFits(m)'
  BY <1>2, <1>3 DEF RowFits
<1>7. ObjectFits(m)'
  BY <1>2, <1>4 DEF ObjectFits
<1>8. HoldFits(m)'
  BY <1>2, <1>3 DEF HoldFits
<1> QED
  BY <1>5, <1>6, <1>7, <1>8 DEF FileFits

\* An attempt fails before there is an object of it.
LEMMA FailsEarly ==
  ASSUME SendInv, NEW m \in Messages, work[m].at \in Working \ {"index", "end", "undo"}, Send!AttemptFails(m),
         hand' = hand, map' = map, creating' = creating, made' = made, proc' = proc,
         aborted' = aborted, object' = object, entered' = entered, gaps' = gaps
  PROVE  SendInv'
<1>1. FileFits(m) /\ entered[m] = 0 /\ FileTypes
  BY WorkingIs DEF FileFits, RowFits, Working
<1>2. Accounted(m)
  BY <1>1 DEF Accounted, FileFits, ObjectFits, Working
<1>3. FileFits(m)'
  BY <1>2, FailedFits
<1>4. FileTypes'
  BY <1>1, AttemptIs DEF FileTypes
<1>5. \A n \in Messages \ {m} : SameFile(n)
  BY AttemptIs DEF SameFile, SameTask, SameHold, SameStore
<1>6. work[m].at # "none" /\ file'[m] \notin {"none", "pending"}
  BY AttemptIs DEF Working
<1> QED
  BY <1>3, <1>4, <1>5, <1>6, TaskGoes

LEMMA QuotaKeeps ==
  ASSUME SendInv, NEW m \in Messages, work[m].at \in {"check", "save"}, Send!Quota(m),
         hand' = hand, map' = map, creating' = creating, made' = made, proc' = proc,
         aborted' = aborted, object' = object, entered' = entered
  PROVE  SendInv'
<1>1. work[m].at \in Working /\ work[m].at # "none" /\ FileTypes
  BY WorkingIs DEF Working, TaskStages
<1>2. FileFits(m)'
  BY QuotaFits
<1>3. FileTypes'
  BY <1>1, QuotaIs DEF FileTypes
<1>4. \A n \in Messages \ {m} : SameFile(n)
  BY <1>1, QuotaIs DEF SameFile, SameTask, SameHold, SameStore
<1>5. file'[m] \notin {"none", "pending"}
  BY <1>1, QuotaIs
<1> QED
  BY <1>1, <1>2, <1>3, <1>4, <1>5, TaskGoes

\* The task of a file, step by step.
AlbumRests == hand' = hand /\ map' = map /\ creating' = creating /\ made' = made /\ proc' = proc

LEMMA StartKeeps ==
  ASSUME SendInv, NEW m \in Messages, Send!Start(m)
  PROVE  SendInv'
<1>1. /\ work[m].at = "queue" /\ Send!To(m, "check") /\ file' = [file EXCEPT ![m] = "uploading"] /\ AlbumRests
      /\ aborted' = aborted /\ temp' = temp /\ object' = object /\ entered' = entered
      /\ holder' = holder /\ blockers' = blockers /\ gaps' = gaps
  BY DEF Send!Start, Send!At, Send!albumVars, AlbumRests
<1>2. FileTypes /\ FileFits(m) /\ "check" \in TaskStages /\ "uploading" \in FileStages
  BY DEF SendInv, FilesFit, TaskStages, FileStages
<1>3. /\ work' \in [Messages -> WorkType] /\ work'[m].at = "check"
      /\ \A n \in Messages \ {m} : work'[n] = work[n]
  BY <1>1, <1>2, ToIs
<1>4. /\ file' \in [Messages -> FileStages] /\ file'[m] = "uploading"
      /\ \A n \in Messages \ {m} : file'[n] = file[n]
  BY <1>1, <1>2, StatusIs
<1>5. StatusFits(m)' /\ RowFits(m)' /\ ObjectFits(m)' /\ HoldFits(m)'
  BY <1>1, <1>2, <1>3, <1>4 DEF FileFits, StatusFits, RowFits, ObjectFits, HoldFits
<1>6. FileTypes'
  BY <1>1, <1>2, <1>3, <1>4 DEF FileTypes
<1>7. \A n \in Messages \ {m} : SameFile(n)
  BY <1>1, <1>3, <1>4 DEF SameFile, SameTask, SameHold, SameStore
<1> QED
  BY <1>1, <1>4, <1>5, <1>6, <1>7, TaskGoes DEF FileFits, AlbumRests

\* A step that only moves the task on.
LEMMA MovesOn ==
  ASSUME SendInv, NEW m \in Messages, work[m].at \in Working, NEW l \in Working, Send!To(m, l), file' = file,
         AlbumRests, temp' \in SUBSET Messages, blockers' \in SUBSET Messages,
         object' \in SUBSET (Messages \X (0..1)), entered' \in [Messages -> 0..1],
         holder' \in Album \cup {"none"}, aborted' = aborted, gaps' = gaps,
         \A n \in Messages \ {m} : /\ n \in temp' <=> n \in temp
                                   /\ n \in blockers' <=> n \in blockers
                                   /\ holder' = n <=> holder = n
                                   /\ entered'[n] = entered[n]
                                   /\ \A k \in 0..1 : <<n, k>> \in object' <=> <<n, k>> \in object,
         (RowFits(m) /\ ObjectFits(m) /\ HoldFits(m))'
  PROVE  SendInv'
<1>1. FileTypes /\ FileFits(m) /\ l \in TaskStages /\ file[m] = "uploading" /\ work[m].at # "none"
  BY WorkingIs DEF Working
<1>2. /\ work' \in [Messages -> WorkType] /\ work'[m].at = l
      /\ \A n \in Messages \ {m} : work'[n] = work[n]
  BY <1>1, ToIs
<1>3. StatusFits(m)'
  BY <1>1, <1>2 DEF StatusFits, Working
<1>4. FileTypes'
  BY <1>1, <1>2 DEF FileTypes
<1>5. \A n \in Messages \ {m} : SameFile(n)
  BY <1>2 DEF SameFile, SameTask, SameHold, SameStore
<1> QED
  BY <1>1, <1>3, <1>4, <1>5, TaskGoes DEF FileFits, AlbumRests

LEMMA CheckKeeps ==
  ASSUME SendInv, NEW m \in Messages, Send!Check(m)
  PROVE  SendInv'
<1>1. /\ work[m].at = "check" /\ AlbumRests /\ aborted' = aborted /\ object' = object /\ entered' = entered
  BY DEF Send!Check, Send!At, Send!albumVars, AlbumRests
<1>2. work[m].at \in Working \ {"index", "end", "undo"} /\ "disk" \in Working
  BY <1>1 DEF Working, TaskStages
<1>3. FileTypes /\ FileFits(m) /\ work[m].tries \in 0..1
  BY <1>2, WorkingIs
<1>4. CASE /\ Send!To(m, "disk") /\ file' = file /\ temp' = temp /\ holder' = holder
           /\ blockers' = blockers /\ gaps' = gaps
  <2>1. work'[m].at = "disk" /\ work'[m].tries = work[m].tries
    BY <1>2, <1>3, <1>4, ToIs DEF Working
  <2>2. RowFits(m)' /\ HoldFits(m)'
    BY <1>1, <1>3, <1>4, <2>1 DEF FileFits, RowFits, HoldFits
  <2>3. ObjectFits(m)'
    BY <1>1, <1>3, <1>4, <2>1 DEF FileFits, ObjectFits
  <2> QED
    BY <1>1, <1>2, <1>3, <1>4, <2>2, <2>3, MovesOn DEF FileTypes
<1>5. CASE Send!AttemptFails(m) /\ gaps' = gaps
  BY <1>1, <1>2, <1>5, FailsEarly DEF AlbumRests
<1>6. CASE Send!Quota(m)
  BY <1>1, <1>6, QuotaKeeps DEF AlbumRests
<1> QED
  BY <1>4, <1>5, <1>6 DEF Send!Check

LEMMA DiskKeeps ==
  ASSUME SendInv, NEW m \in Messages, Send!Disk(m)
  PROVE  SendInv'
<1>1. /\ work[m].at = "disk" /\ AlbumRests /\ aborted' = aborted /\ object' = object /\ entered' = entered
      /\ gaps' = gaps
  BY DEF Send!Disk, Send!At, Send!albumVars, AlbumRests
<1>2. work[m].at \in Working \ {"index", "end", "undo"} /\ "download" \in Working
  BY <1>1 DEF Working, TaskStages
<1>3. FileTypes /\ FileFits(m) /\ work[m].tries \in 0..1 /\ file[m] = "uploading"
  BY <1>2, WorkingIs
<1>4. CASE /\ Send!To(m, "download") /\ blockers' = blockers \ {m} /\ file' = file /\ temp' = temp /\ holder' = holder
  <2>1. work'[m].at = "download" /\ work'[m].tries = work[m].tries
    BY <1>2, <1>3, <1>4, ToIs DEF Working
  <2>2. RowFits(m)' /\ HoldFits(m)'
    BY <1>1, <1>3, <1>4, <2>1 DEF FileFits, RowFits, HoldFits
  <2>3. ObjectFits(m)'
    BY <1>1, <1>3, <1>4, <2>1 DEF FileFits, ObjectFits
  <2>4. blockers' \in SUBSET Messages
    BY <1>3, <1>4 DEF FileTypes
  <2> QED
    BY <1>1, <1>2, <1>3, <1>4, <2>2, <2>3, <2>4, MovesOn DEF FileTypes
<1>5. CASE /\ blockers' = blockers \cup {m} /\ work' = work /\ file' = file /\ temp' = temp /\ holder' = holder
  <2>1. StatusFits(m)' /\ RowFits(m)' /\ ObjectFits(m)' /\ HoldFits(m)'
    BY <1>1, <1>3, <1>5 DEF FileFits, StatusFits, RowFits, ObjectFits, HoldFits
  <2>2. FileTypes'
    BY <1>1, <1>3, <1>5 DEF FileTypes
  <2>3. \A n \in Messages \ {m} : SameFile(n)
    BY <1>1, <1>5 DEF SameFile, SameTask, SameHold, SameStore
  <2> QED
    BY <1>1, <1>3, <1>5, <2>1, <2>2, <2>3, TaskGoes DEF FileFits, AlbumRests
<1>6. CASE Send!AttemptFails(m)
  BY <1>1, <1>2, <1>6, FailsEarly DEF AlbumRests
<1> QED
  BY <1>4, <1>5, <1>6 DEF Send!Disk

LEMMA DownloadKeeps ==
  ASSUME SendInv, NEW m \in Messages, Send!Download(m)
  PROVE  SendInv'
<1>1. /\ work[m].at = "download" /\ AlbumRests /\ aborted' = aborted /\ object' = object /\ entered' = entered
      /\ gaps' = gaps
  BY DEF Send!Download, Send!At, Send!albumVars, AlbumRests
<1>2. work[m].at \in Working \ {"index", "end", "undo"} /\ "twin" \in Working
  BY <1>1 DEF Working, TaskStages
<1>3. FileTypes /\ FileFits(m) /\ work[m].tries \in 0..1
  BY <1>2, WorkingIs
<1>4. CASE /\ Send!To(m, "twin") /\ temp' = temp \cup {m} /\ file' = file /\ blockers' = blockers /\ holder' = holder
  <2>1. work'[m].at = "twin" /\ work'[m].tries = work[m].tries
    BY <1>2, <1>3, <1>4, ToIs DEF Working
  <2>2. RowFits(m)' /\ HoldFits(m)'
    BY <1>1, <1>3, <1>4, <2>1 DEF FileFits, RowFits, HoldFits
  <2>3. ObjectFits(m)'
    BY <1>1, <1>3, <1>4, <2>1 DEF FileFits, ObjectFits
  <2>4. temp' \in SUBSET Messages
    BY <1>3, <1>4 DEF FileTypes
  <2> QED
    BY <1>1, <1>2, <1>3, <1>4, <2>2, <2>3, <2>4, MovesOn DEF FileTypes
<1>5. CASE Send!AttemptFails(m)
  BY <1>1, <1>2, <1>5, FailsEarly DEF AlbumRests
<1> QED
  BY <1>4, <1>5 DEF Send!Download

LEMMA TwinKeeps ==
  ASSUME SendInv, NEW m \in Messages, Send!Twin(m)
  PROVE  SendInv'
<1>1. /\ work[m].at = "twin" /\ AlbumRests /\ aborted' = aborted /\ object' = object /\ entered' = entered
      /\ gaps' = gaps
  BY DEF Send!Twin, Send!At, Send!albumVars, AlbumRests
<1>2. work[m].at \in Working \ {"index", "end", "undo"} /\ "save" \in Working
  BY <1>1 DEF Working, TaskStages
<1>3. FileTypes /\ FileFits(m) /\ work[m].tries \in 0..1 /\ m # "none" /\ work[m].at # "none"
  BY <1>1, <1>2, WorkingIs DEF AlbumTypes
<1>4. CASE Send!HasTwin(m) /\ Send!Ends(m, "success") /\ temp' = temp \ {m} /\ holder' = holder /\ blockers' = blockers
  <2>1. /\ work' \in [Messages -> WorkType] /\ work'[m].at = "done"
        /\ file' \in [Messages -> FileStages] /\ file'[m] = "success"
        /\ \A n \in Messages \ {m} : work'[n] = work[n] /\ file'[n] = file[n]
    BY <1>3, <1>4, EndsIs DEF FileStages
  <2>2. SkipTwins /\ m \in Twins
    BY <1>4 DEF Send!HasTwin
  <2>3. entered[m] = 0 /\ \A k \in 0..1 : <<m, k>> \in object => m \in gaps["uncompensated"] \cup gaps["undoFailed"]
    BY <1>1, <1>3 DEF FileFits, RowFits, ObjectFits
  <2>4. StatusFits(m)'
    BY <2>1, <2>2 DEF StatusFits, Working
  <2>5. RowFits(m)' /\ ObjectFits(m)' /\ HoldFits(m)'
    BY <1>1, <1>3, <1>4, <2>1, <2>3 DEF FileFits, RowFits, ObjectFits, HoldFits
  <2>6. FileTypes'
    BY <1>1, <1>3, <1>4, <2>1 DEF FileTypes
  <2>7. \A n \in Messages \ {m} : SameFile(n)
    BY <1>1, <1>4, <2>1 DEF SameFile, SameTask, SameHold, SameStore
  <2> QED
    BY <1>1, <1>3, <2>1, <2>4, <2>5, <2>6, <2>7, TaskGoes DEF FileFits, AlbumRests
<1>5. CASE Send!AttemptFails(m)
  BY <1>1, <1>2, <1>5, FailsEarly DEF AlbumRests
<1>6. CASE /\ m \in Album => holder = "none"
           /\ holder' = (IF m \in Album THEN m ELSE holder)
           /\ Send!To(m, "save") /\ file' = file /\ temp' = temp /\ blockers' = blockers
  <2>1. work'[m].at = "save" /\ work'[m].tries = work[m].tries
    BY <1>2, <1>3, <1>6, ToIs DEF Working
  <2>2. RowFits(m)' /\ HoldFits(m)'
    BY <1>1, <1>3, <1>6, <2>1 DEF FileFits, RowFits, HoldFits
  <2>3. ObjectFits(m)'
    BY <1>1, <1>3, <1>6, <2>1 DEF FileFits, ObjectFits
  <2>4. holder' \in Album \cup {"none"} /\ \A n \in Messages \ {m} : holder' = n <=> holder = n
    BY <1>3, <1>6 DEF FileTypes, SendInv, AlbumTypes
  <2> QED
    BY <1>1, <1>2, <1>3, <1>6, <2>2, <2>3, <2>4, MovesOn DEF FileTypes
<1> QED
  BY <1>4, <1>5, <1>6, SendIs DEF Send!Twin

LEMMA SaveKeeps ==
  ASSUME SendInv, NEW m \in Messages, Send!Save(m)
  PROVE  SendInv'
<1>1. /\ work[m].at = "save" /\ AlbumRests /\ aborted' = aborted /\ entered' = entered
  BY DEF Send!Save, Send!At, Send!albumVars, AlbumRests
<1>2. work[m].at \in Working \ {"index", "end", "undo"} /\ "index" \in Working
  BY <1>1 DEF Working, TaskStages
<1>3. FileTypes /\ FileFits(m) /\ work[m].tries \in 0..1
  BY <1>2, WorkingIs
<1>4. CASE /\ Send!To(m, "index") /\ object' = object \cup {<<m, work[m].tries>>} /\ file' = file /\ temp' = temp
           /\ holder' = holder /\ blockers' = blockers /\ gaps' = gaps
  <2>1. work'[m].at = "index" /\ work'[m].tries = work[m].tries
    BY <1>2, <1>3, <1>4, ToIs DEF Working
  <2>2. RowFits(m)' /\ HoldFits(m)'
    BY <1>1, <1>3, <1>4, <2>1 DEF FileFits, RowFits, HoldFits
  <2>3. \A k \in 0..1 : <<m, k>> \in object' <=> <<m, k>> \in object \/ k = work[m].tries
    BY <1>4
  <2>4. ObjectFits(m)'
    BY <1>1, <1>3, <1>4, <2>1, <2>3 DEF FileFits, ObjectFits
  <2>5. object' \in SUBSET (Messages \X (0..1)) /\ \A n \in Messages \ {m}, k \in 0..1 : <<n, k>> \in object' <=> <<n, k>> \in object
    BY <1>3, <1>4 DEF FileTypes
  <2> QED
    BY <1>1, <1>2, <1>3, <1>4, <2>2, <2>4, <2>5, MovesOn DEF FileTypes
<1>5. CASE Send!AttemptFails(m) /\ object' = object /\ gaps' = gaps
  BY <1>1, <1>2, <1>5, FailsEarly DEF AlbumRests
<1>6. CASE Send!Quota(m) /\ object' = object
  BY <1>1, <1>6, QuotaKeeps DEF AlbumRests
<1> QED
  BY <1>4, <1>5, <1>6 DEF Send!Save

\* An attempt fails after there was an object of it.
LEMMA FailsLate ==
  ASSUME SendInv, NEW m \in Messages, work[m].at \in {"index", "undo"}, Send!AttemptFails(m), AlbumRests,
         aborted' = aborted, entered' \in [Messages -> 0..1], object' \in SUBSET object,
         gaps' \in [Send!Gaps -> SUBSET Messages], \A g \in Send!Gaps : gaps[g] \subseteq gaps'[g],
         \A n \in Messages \ {m} : /\ entered'[n] = entered[n]
                                   /\ \A k \in 0..1 : <<n, k>> \in object' <=> <<n, k>> \in object,
         FileFits(m)'
  PROVE  SendInv'
<1>1. work[m].at \in Working /\ work[m].at # "none"
  BY DEF Working, TaskStages
<1>2. FileTypes
  BY DEF SendInv
<1>3. FileTypes'
  BY <1>1, <1>2, AttemptIs DEF FileTypes
<1>4. \A n \in Messages \ {m} : SameFile(n)
  BY <1>1, AttemptIs DEF SameFile, SameTask, SameHold, SameStore
<1>5. file'[m] \notin {"none", "pending"}
  BY <1>1, AttemptIs
<1> QED
  BY <1>1, <1>3, <1>4, <1>5, TaskGoes DEF AlbumRests

\* What is taken from the objects is that of the attempt.
LEMMA Removed ==
  ASSUME FileTypes, NEW m \in Messages, object' = object \ {<<m, work[m].tries>>}
  PROVE  /\ object' \in SUBSET object
         /\ \A n \in Messages \ {m}, k \in 0..1 : <<n, k>> \in object' <=> <<n, k>> \in object
         /\ \A k \in 0..1 : <<m, k>> \in object' <=> <<m, k>> \in object /\ k # work[m].tries
OBVIOUS

LEMMA IndexKeeps ==
  ASSUME SendInv, NEW m \in Messages, Send!Index(m)
  PROVE  SendInv'
<1>1. /\ work[m].at = "index" /\ AlbumRests /\ aborted' = aborted
  BY DEF Send!Index, Send!At, Send!albumVars, AlbumRests
<1>2. work[m].at \in Working /\ "end" \in Working
  BY <1>1 DEF Working, TaskStages
<1>3. FileTypes /\ FileFits(m) /\ work[m].tries \in 0..1 /\ entered[m] = 0
  BY <1>1, <1>2, WorkingIs DEF FileFits, RowFits
<1>4. CASE /\ entered' = [entered EXCEPT ![m] = entered[m] + 1] /\ Send!To(m, "end") /\ object' = object /\ file' = file
           /\ temp' = temp /\ holder' = holder /\ blockers' = blockers /\ gaps' = gaps
  <2>1. work'[m].at = "end" /\ work'[m].tries = work[m].tries
    BY <1>2, <1>3, <1>4, ToIs DEF Working
  <2>2. entered[m] + 1 = 1
    BY <1>3
  <2>3. entered' \in [Messages -> 0..1] /\ entered'[m] = 1 /\ \A n \in Messages \ {m} : entered'[n] = entered[n]
    BY <1>3, <1>4, <2>2 DEF FileTypes
  <2>4. RowFits(m)' /\ HoldFits(m)'
    BY <1>1, <1>3, <1>4, <2>1, <2>3 DEF FileFits, RowFits, HoldFits
  <2>5. ObjectFits(m)'
    BY <1>1, <1>3, <1>4, <2>1 DEF FileFits, ObjectFits
  <2> QED
    BY <1>1, <1>2, <1>3, <1>4, <2>3, <2>4, <2>5, MovesOn DEF FileTypes
<1>5. CASE Send!IndexFails(m) /\ entered' = entered
  <2>1. Send!AttemptFails(m)
    BY <1>5 DEF Send!IndexFails
  <2>2. CASE object' = object \ {<<m, work[m].tries>>} /\ gaps' = gaps
    <3>1. /\ object' \in SUBSET object
          /\ \A n \in Messages \ {m}, k \in 0..1 : <<n, k>> \in object' <=> <<n, k>> \in object
          /\ \A k \in 0..1 : <<m, k>> \in object' <=> <<m, k>> \in object /\ k # work[m].tries
      BY <1>3, <2>2, Removed
    <3>2. Accounted(m)
      BY <1>1, <1>3, <1>5, <2>2, <3>1 DEF Accounted, FileFits, ObjectFits
    <3>3. FileFits(m)'
      BY <1>2, <2>1, <3>2, FailedFits
    <3> QED
      BY <1>1, <1>3, <1>5, <2>1, <2>2, <3>1, <3>3, FailsLate DEF FileTypes
  <2>3. CASE Send!Gap("uncompensated", m) /\ object' = object
    <3>1. /\ gaps' \in [Send!Gaps -> SUBSET Messages] /\ m \in gaps'["uncompensated"]
          /\ \A g \in Send!Gaps : gaps[g] \subseteq gaps'[g]
      BY <1>3, <2>3, GapIs, SendIs
    <3>2. Accounted(m)
      BY <1>3, <1>5, <3>1 DEF Accounted
    <3>3. FileFits(m)'
      BY <1>2, <2>1, <3>2, FailedFits
    <3> QED
      BY <1>1, <1>3, <1>5, <2>1, <2>3, <3>1, <3>3, FailsLate DEF FileTypes
  <2> QED
    BY <1>5, <2>2, <2>3 DEF Send!IndexFails
<1> QED
  BY <1>4, <1>5 DEF Send!Index

LEMMA EndKeeps ==
  ASSUME SendInv, NEW m \in Messages, Send!End(m)
  PROVE  SendInv'
<1>1. /\ work[m].at = "end" /\ temp' = temp \ {m} /\ AlbumRests /\ aborted' = aborted /\ object' = object
      /\ entered' = entered /\ blockers' = blockers /\ gaps' = gaps
  BY DEF Send!End, Send!At, Send!albumVars, AlbumRests
<1>2. work[m].at \in Working /\ "undo" \in Working /\ work[m].at # "none"
  BY <1>1 DEF Working, TaskStages
<1>3. FileTypes /\ AlbumTypes /\ FileFits(m) /\ work[m].tries \in 0..1 /\ temp' \in SUBSET Messages
  BY <1>1, <1>2, WorkingIs DEF FileTypes
<1>4. entered[m] = 1 /\ <<m, work[m].tries>> \in object
  BY <1>1, <1>3 DEF FileFits, RowFits, ObjectFits
<1>5. CASE m \in aborted /\ Send!To(m, "undo") /\ file' = file /\ holder' = holder
  <2>1. work'[m].at = "undo" /\ work'[m].tries = work[m].tries
    BY <1>2, <1>3, <1>5, ToIs DEF Working
  <2>2. RowFits(m)' /\ HoldFits(m)'
    BY <1>1, <1>3, <1>4, <1>5, <2>1 DEF FileFits, RowFits, HoldFits
  <2>3. ObjectFits(m)'
    BY <1>1, <1>3, <1>5, <2>1 DEF FileFits, ObjectFits
  <2> QED
    BY <1>1, <1>2, <1>3, <1>5, <2>2, <2>3, MovesOn DEF FileTypes
<1>6. CASE m \notin aborted /\ Send!Ends(m, "success") /\ Send!Unlock(m)
  <2>1. /\ work' \in [Messages -> WorkType] /\ work'[m].at = "done"
        /\ file' \in [Messages -> FileStages] /\ file'[m] = "success"
        /\ \A n \in Messages \ {m} : work'[n] = work[n] /\ file'[n] = file[n]
    BY <1>3, <1>6, EndsIs DEF FileStages
  <2>2. /\ holder' \in Album \cup {"none"} /\ holder' # m
        /\ \A n \in Messages \ {m} : holder' = n <=> holder = n
    BY <1>3, <1>6, UnlockIs
  <2>3. StatusFits(m)'
    BY <1>1, <1>4, <2>1 DEF StatusFits, Working
  <2>4. RowFits(m)'
    BY <1>1, <1>3, <1>4, <1>6, <2>1 DEF RowFits
  <2>5. ObjectFits(m)' /\ HoldFits(m)'
    BY <1>1, <1>3, <1>4, <2>1, <2>2 DEF FileFits, ObjectFits, HoldFits
  <2>6. FileTypes'
    BY <1>1, <1>3, <2>1, <2>2 DEF FileTypes
  <2>7. \A n \in Messages \ {m} : SameFile(n)
    BY <1>1, <2>1, <2>2 DEF SameFile, SameTask, SameHold, SameStore
  <2> QED
    BY <1>1, <1>2, <2>1, <2>3, <2>4, <2>5, <2>6, <2>7, TaskGoes DEF FileFits, AlbumRests
<1> QED
  BY <1>5, <1>6 DEF Send!End, Send!Aborted

LEMMA UndoKeeps ==
  ASSUME SendInv, NEW m \in Messages, Send!Undo(m)
  PROVE  SendInv'
<1>1. /\ work[m].at = "undo" /\ Send!AttemptFails(m) /\ AlbumRests /\ aborted' = aborted
  BY DEF Send!Undo, Send!At, Send!albumVars, AlbumRests
<1>2. work[m].at \in Working
  BY <1>1 DEF Working, TaskStages
<1>3. FileTypes /\ FileFits(m) /\ work[m].tries \in 0..1 /\ entered[m] = 1 /\ m \in aborted
  BY <1>1, <1>2, WorkingIs DEF FileFits, RowFits
<1>4. work'[m].at = "done" /\ file'[m] = "failed" /\ m \notin temp' /\ m \notin blockers' /\ holder' # m
  BY <1>1, <1>2, <1>3, AttemptIs
<1>5. CASE object' = object \ {<<m, work[m].tries>>} /\ entered' = [entered EXCEPT ![m] = entered[m] - 1] /\ gaps' = gaps
  <2>1. /\ object' \in SUBSET object
        /\ \A n \in Messages \ {m}, k \in 0..1 : <<n, k>> \in object' <=> <<n, k>> \in object
        /\ \A k \in 0..1 : <<m, k>> \in object' <=> <<m, k>> \in object /\ k # work[m].tries
    BY <1>3, <1>5, Removed
  <2>2. entered[m] - 1 = 0
    BY <1>3
  <2>3. entered' \in [Messages -> 0..1] /\ entered'[m] = 0 /\ \A n \in Messages \ {m} : entered'[n] = entered[n]
    BY <1>3, <1>5, <2>2 DEF FileTypes
  <2>4. Accounted(m)
    BY <1>1, <1>3, <1>5, <2>1, <2>3 DEF Accounted, FileFits, ObjectFits
  <2>5. FileFits(m)'
    BY <1>1, <1>2, <2>4, FailedFits
  <2> QED
    BY <1>1, <1>3, <1>5, <2>1, <2>3, <2>5, FailsLate DEF FileTypes
<1>6. CASE Send!Gap("undoFailed", m) /\ entered' = entered /\ object' \in {object, object \ {<<m, work[m].tries>>}}
  <2>1. /\ gaps' \in [Send!Gaps -> SUBSET Messages] /\ m \in gaps'["undoFailed"]
        /\ \A g \in Send!Gaps : gaps[g] \subseteq gaps'[g]
    BY <1>3, <1>6, GapIs, SendIs
  <2>2. /\ object' \in SUBSET object
        /\ \A n \in Messages \ {m}, k \in 0..1 : <<n, k>> \in object' <=> <<n, k>> \in object
    <3>1. CASE object' = object
      BY <3>1
    <3>2. CASE object' = object \ {<<m, work[m].tries>>}
      BY <1>3, <3>2, Removed
    <3> QED
      BY <1>6, <3>1, <3>2
  <2>3. StatusFits(m)'
    BY <1>4 DEF StatusFits, Working
  <2>4. RowFits(m)'
    BY <1>4, <2>1 DEF RowFits
  <2>5. ObjectFits(m)' /\ HoldFits(m)'
    BY <1>4, <2>1 DEF ObjectFits, HoldFits
  <2> QED
    BY <1>1, <1>3, <1>6, <2>1, <2>2, <2>3, <2>4, <2>5, FailsLate DEF FileTypes, FileFits
<1> QED
  BY <1>5, <1>6 DEF Send!Undo

LEMMA CooledKeeps ==
  ASSUME SendInv, NEW m \in Messages, Send!Cooled(m)
  PROVE  SendInv'
<1>1. /\ work[m].at = "cool" /\ temp' = temp /\ AlbumRests /\ aborted' = aborted /\ object' = object
      /\ entered' = entered /\ holder' = holder /\ blockers' = blockers
  BY DEF Send!Cooled, Send!At, Send!albumVars, AlbumRests
<1>2. work[m].at \in Working /\ "check" \in Working /\ work[m].at # "none"
  BY <1>1 DEF Working, TaskStages
<1>3. FileTypes /\ FileFits(m) /\ work[m].tries \in 0..1 /\ entered[m] = 0
  BY <1>1, <1>2, WorkingIs DEF FileFits, RowFits
<1>4. CASE Send!Ends(m, "success") /\ Send!Gap("gaveUp", m)
  <2>1. /\ work' \in [Messages -> WorkType] /\ work'[m].at = "done"
        /\ file' \in [Messages -> FileStages] /\ file'[m] = "success"
        /\ \A n \in Messages \ {m} : work'[n] = work[n] /\ file'[n] = file[n]
    BY <1>3, <1>4, EndsIs DEF FileStages
  <2>2. /\ gaps' \in [Send!Gaps -> SUBSET Messages] /\ m \in gaps'["gaveUp"]
        /\ \A g \in Send!Gaps : gaps[g] \subseteq gaps'[g]
    BY <1>3, <1>4, GapIs, SendIs
  <2>3. StatusFits(m)'
    BY <2>1, <2>2 DEF StatusFits, Working
  <2>4. ObjectFits(m)'
    BY <1>1, <1>3, <2>1, <2>2, SendIs DEF FileFits, ObjectFits
  <2>5. RowFits(m)' /\ HoldFits(m)'
    BY <1>1, <1>3, <2>1 DEF FileFits, RowFits, HoldFits
  <2>6. FileTypes'
    BY <1>1, <1>3, <2>1, <2>2 DEF FileTypes
  <2>7. \A n \in Messages \ {m} : SameFile(n)
    BY <1>1, <2>1, <2>2 DEF SameFile, SameTask, SameHold, SameStore
  <2> QED
    BY <1>1, <1>2, <2>1, <2>3, <2>4, <2>5, <2>6, <2>7, TaskGoes DEF FileFits, AlbumRests
<1>5. CASE Send!To(m, "check") /\ file' = file /\ gaps' = gaps
  <2>1. work'[m].at = "check" /\ work'[m].tries = work[m].tries
    BY <1>2, <1>3, <1>5, ToIs DEF Working
  <2>2. RowFits(m)' /\ HoldFits(m)'
    BY <1>1, <1>3, <1>5, <2>1 DEF FileFits, RowFits, HoldFits
  <2>3. ObjectFits(m)'
    BY <1>1, <1>3, <1>5, <2>1 DEF FileFits, ObjectFits
  <2> QED
    BY <1>1, <1>2, <1>3, <1>5, <2>2, <2>3, MovesOn DEF FileTypes
<1> QED
  BY <1>4, <1>5 DEF Send!Cooled

LEMMA CancelKeeps ==
  ASSUME SendInv, NEW m \in Messages, Send!Cancel(m)
  PROVE  SendInv'
<1>1. /\ work[m].at \notin {"none", "done"} /\ temp' = temp /\ AlbumRests /\ object' = object
      /\ entered' = entered /\ holder' = holder /\ blockers' = blockers /\ gaps' = gaps
  BY DEF Send!Cancel, Send!albumVars, AlbumRests
<1>2. FileTypes /\ FileFits(m) /\ work[m].at \in TaskStages
  BY DEF SendInv, FilesFit, FileTypes, WorkType
<1>3. CASE work[m].at = "queue" /\ Send!Ends(m, "failed") /\ aborted' = aborted
  <2>1. /\ work' \in [Messages -> WorkType] /\ work'[m].at = "done"
        /\ file' \in [Messages -> FileStages] /\ file'[m] = "failed"
        /\ \A n \in Messages \ {m} : work'[n] = work[n] /\ file'[n] = file[n]
    BY <1>2, <1>3, EndsIs DEF FileStages
  <2>2. StatusFits(m)' /\ RowFits(m)' /\ ObjectFits(m)' /\ HoldFits(m)'
    BY <1>1, <1>2, <1>3, <2>1 DEF FileFits, StatusFits, RowFits, ObjectFits, HoldFits, Working
  <2>3. FileTypes'
    BY <1>1, <1>2, <1>3, <2>1 DEF FileTypes
  <2>4. \A n \in Messages \ {m} : SameFile(n)
    BY <1>1, <1>3, <2>1 DEF SameFile, SameTask, SameHold, SameStore
  <2> QED
    BY <1>1, <2>1, <2>2, <2>3, <2>4, TaskGoes DEF FileFits, AlbumRests
<1>4. CASE work[m].at # "queue" /\ aborted' = aborted \cup {m} /\ work' = work /\ file' = file
  <2>1. work[m].at \in Working /\ file[m] = "uploading"
    BY <1>1, <1>2, <1>4 DEF Working, FileFits, StatusFits
  <2>2. StatusFits(m)' /\ RowFits(m)' /\ ObjectFits(m)' /\ HoldFits(m)'
    BY <1>1, <1>2, <1>4, <2>1 DEF FileFits, StatusFits, RowFits, ObjectFits, HoldFits
  <2>3. FileTypes'
    BY <1>1, <1>2, <1>4 DEF FileTypes
  <2>4. \A n \in Messages \ {m} : SameFile(n)
    BY <1>1, <1>4 DEF SameFile, SameTask, SameHold, SameStore
  <2> QED
    BY <1>1, <1>4, <2>1, <2>2, <2>3, <2>4, TaskGoes DEF FileFits, AlbumRests
<1> QED
  BY <1>3, <1>4 DEF Send!Cancel, Send!At

\* The album: what is done with queues leaves the files as they are, and gaps grow.
FilesRest ==
    /\ aborted' = aborted /\ temp' = temp /\ object' = object /\ entered' = entered
    /\ holder' = holder /\ blockers' = blockers

LEMMA FilesStay ==
  ASSUME SendInv, FilesRest, file' = file, work' = work, gaps' \in [Send!Gaps -> SUBSET Messages],
         \A g \in Send!Gaps : gaps[g] \subseteq gaps'[g]
  PROVE  FileTypes' /\ FilesFit'
<1>1. FileTypes'
  BY DEF SendInv, FileTypes, FilesRest
<1>2. \A n \in Messages : SameFile(n)
  BY DEF FilesRest, SameFile, SameTask, SameHold, SameStore
<1>3. FileTypes /\ \A n \in Messages : FileFits(n)
  BY DEF SendInv, FilesFit
<1> QED
  BY <1>1, <1>2, <1>3, FileStands DEF FilesFit

LEMMA LinesIs ==
  ASSUME AlbumTypes
  PROVE  /\ Cardinality(Album) \in Nat /\ Lines = 1..Cardinality(Album)
         /\ Album \subseteq Messages /\ made \in Nat
<1>1. \A S : Send!Cardinality(S) = Cardinality(S)
  BY DEF Send!Cardinality, Cardinality
<1>2. Cardinality(Album) \in Nat /\ Lines = 1..Cardinality(Album)
  BY <1>1, FS_CardinalityType DEF AlbumTypes, Lines, Send!Queues
<1> QED
  BY <1>2 DEF AlbumTypes, Messages

LEMMA HandIs ==
  ASSUME AlbumTypes, NEW m \in Messages, NEW h \in HandType, hand' = [hand EXCEPT ![m] = h]
  PROVE  hand' \in [Messages -> HandType] /\ hand'[m] = h /\ \A n \in Messages \ {m} : hand'[n] = hand[n]
BY DEF AlbumTypes

LEMMA InIs ==
  ASSUME AlbumTypes, NEW m \in Messages, hand' = [hand EXCEPT ![m].at = "in"]
  PROVE  /\ hand' \in [Messages -> HandType] /\ hand'[m].at = "in" /\ hand'[m].queue = hand[m].queue
         /\ \A n \in Messages \ {m} : hand'[n] = hand[n]
<1> DEFINE h == [hand[m] EXCEPT !.at = "in"]
<1>1. hand[m] \in HandType /\ hand' = [hand EXCEPT ![m] = h]
  BY DEF AlbumTypes
<1>2. h \in HandType /\ h.at = "in" /\ h.queue = hand[m].queue
  BY <1>1 DEF HandType
<1> HIDE DEF h
<1> QED
  BY <1>1, <1>2, HandIs

LEMMA SnapIs ==
  ASSUME AlbumTypes, SnapsFit, NEW q \in Lines, NEW n \in proc[q].snap
  PROVE  /\ n \in Album /\ n \in Messages /\ hand[n].at = "in" /\ hand[n].queue = q
         /\ proc[q].at = "admit" => file[n] = "pending"
<1>1. proc[q] \in ProcType
  BY DEF AlbumTypes
<1>2. n \in Album /\ n \in Messages
  BY <1>1 DEF ProcType, Messages
<1>3. hand[n] = [at |-> "in", queue |-> q] /\ (proc[q].at = "admit" => file[n] = "pending")
  BY DEF SnapsFit
<1> QED
  BY <1>2, <1>3

LEMMA SnapsNow ==
  ASSUME \A q \in Lines : \A n \in proc'[q].snap :
             hand'[n] = [at |-> "in", queue |-> q] /\ (proc'[q].at = "admit" => file'[n] = "pending")
  PROVE  SnapsFit'
BY DEF SnapsFit, Lines, Send!Queues

LEMMA SnapsStay ==
  ASSUME AlbumTypes, SnapsFit, proc' = proc,
         \A n \in Messages : hand[n].at = "in" => hand'[n] = hand[n] /\ file'[n] = file[n]
  PROVE  SnapsFit'
<1>1. ASSUME NEW q \in Lines, NEW n \in proc[q].snap
      PROVE  hand'[n] = [at |-> "in", queue |-> q] /\ (proc[q].at = "admit" => file'[n] = "pending")
  <2>1. hand'[n] = hand[n] /\ file'[n] = file[n] /\ (proc[q].at = "admit" => file[n] = "pending")
    BY SnapIs
  <2>2. hand[n] = [at |-> "in", queue |-> q]
    BY DEF SnapsFit
  <2> QED
    BY <2>1, <2>2
<1> QED
  BY <1>1, SnapsNow

LEMMA ArriveKeeps ==
  ASSUME SendInv, NEW m \in Messages, Send!Arrive(m)
  PROVE  SendInv'
<1> DEFINE h == [at |-> "asking", queue |-> map]
<1>1. /\ m \in Album /\ hand[m].at = "new" /\ hand' = [hand EXCEPT ![m] = h] /\ creating' = (creating \/ map = 0)
      /\ map' = map /\ made' = made /\ proc' = proc /\ FilesRest /\ file' = file /\ work' = work /\ gaps' = gaps
  BY DEF Send!Arrive, Send!taskVars, FilesRest
<1>2. AlbumTypes /\ FileTypes /\ HandsFit /\ SnapsFit /\ QueuesFit
  BY DEF SendInv, AlbumInv
<1>3. h \in HandType /\ h.at = "asking" /\ h.queue = map
  BY <1>2 DEF HandType, AlbumTypes
<1>4. map = 0 => h = [at |-> "asking", queue |-> 0]
  OBVIOUS
<1> HIDE DEF h
<1>5. hand' \in [Messages -> HandType] /\ hand'[m] = h /\ \A n \in Messages \ {m} : hand'[n] = hand[n]
  BY <1>1, <1>2, <1>3, HandIs
<1>6. file[m] = "none" /\ hand[m].queue = 0 /\ Album \subseteq Messages /\ made \in Nat
  BY <1>1, <1>2, LinesIs DEF HandsFit
<1>7. AlbumTypes'
  BY <1>1, <1>2, <1>5 DEF AlbumTypes, Lines, Send!Queues, HandType, ProcType, Messages
<1>8. HandsFit'
  BY <1>1, <1>2, <1>3, <1>5, <1>6 DEF HandsFit
<1>9. SnapsFit'
  <2>1. \A n \in Messages : hand[n].at = "in" => hand'[n] = hand[n] /\ file'[n] = file[n]
    BY <1>1, <1>5
  <2> QED
    BY <1>1, <1>2, <2>1, SnapsStay
<1>10. QueuesFit'
  <2>1. creating' => \E n \in Album : hand'[n] = [at |-> "asking", queue |-> 0]
    <3>1. CASE creating
      <4>1. PICK n \in Album : hand[n] = [at |-> "asking", queue |-> 0]
        BY <1>2, <3>1 DEF QueuesFit
      <4>2. n \in Messages \ {m}
        BY <1>1, <1>6, <4>1
      <4> QED
        BY <1>5, <4>1, <4>2
    <3>2. CASE map = 0
      BY <1>1, <1>4, <1>5, <3>2
    <3> QED
      BY <1>1, <3>1, <3>2
  <2>2. ASSUME NEW q \in 1..made
        PROVE  \E n \in Album : hand'[n].queue = q
    <3>1. PICK n \in Album : hand[n].queue = q
      BY <1>2 DEF QueuesFit
    <3>2. n \in Messages \ {m}
      BY <1>6, <3>1
    <3> QED
      BY <1>5, <3>1, <3>2
  <2> QED
    BY <1>1, <2>1, <2>2 DEF QueuesFit
<1>11. FileTypes' /\ FilesFit'
  BY <1>1, <1>2, FilesStay DEF FileTypes
<1> QED
  BY <1>7, <1>8, <1>9, <1>10, <1>11 DEF SendInv, AlbumInv

\* While a queue is being made there is a message without one, so that there are
\* never more queues than messages of the album.
LEMMA RoomForQueue ==
  ASSUME AlbumTypes, QueuesFit, creating
  PROVE  made + 1 \in Lines
<1>1. PICK w \in Album : hand[w] = [at |-> "asking", queue |-> 0]
  BY DEF QueuesFit
<1> DEFINE S == {n \in Album \ {w} : hand[n].queue \in 1..made}
           f == [n \in S |-> hand[n].queue]
<1>2. made \in Nat /\ Cardinality(Album) \in Nat /\ Lines = 1..Cardinality(Album) /\ IsFiniteSet(Album)
  BY LinesIs DEF AlbumTypes
<1>3. IsFiniteSet(Album \ {w}) /\ Cardinality(Album \ {w}) = Cardinality(Album) - 1
  BY <1>2, FS_RemoveElement
<1>4. IsFiniteSet(S) /\ Cardinality(S) <= Cardinality(Album \ {w}) /\ Cardinality(S) \in Nat
  BY <1>3, FS_Subset, FS_CardinalityType
<1>5. f \in Surjection(S, 1..made)
  <2>1. f \in [S -> 1..made]
    OBVIOUS
  <2>2. ASSUME NEW q \in 1..made
        PROVE  \E n \in S : f[n] = q
    <3>1. PICK n \in Album : hand[n].queue = q
      BY DEF QueuesFit
    <3>2. n # w
      BY <1>1, <1>2, <3>1
    <3> QED
      BY <3>1, <3>2
  <2> HIDE DEF f, S
  <2> QED
    BY <2>1, <2>2 DEF Surjection
<1>6. Cardinality(1..made) <= Cardinality(S)
  <2> HIDE DEF f, S
  <2> QED
    BY <1>4, <1>5, FS_Surjection
<1>7. Cardinality(1..made) = made
  <2>1. 1 \in Int /\ made \in Int /\ 1 <= made + 1
    BY <1>2
  <2>2. Cardinality(1..made) = IF 1 > made THEN 0 ELSE made - 1 + 1
    BY <2>1, FS_Interval
  <2> QED
    BY <1>2, <2>2
<1> HIDE DEF f, S
<1> QED
  BY <1>2, <1>3, <1>4, <1>6, <1>7

\* The types of the album, whatever becomes of its hands, queues and rounds.
LEMMA AlbumTyped ==
  ASSUME AlbumTypes, hand' \in [Messages -> HandType], map' \in {0} \cup Lines, made' \in {0} \cup Lines,
         proc' \in [Lines -> ProcType]
  PROVE  AlbumTypes'
BY DEF AlbumTypes, Lines, Send!Queues, HandType, ProcType, Messages

LEMMA CreatedKeeps ==
  ASSUME SendInv, NEW ok \in BOOLEAN, Send!Created(ok)
  PROVE  SendInv'
<1> DEFINE W == {m \in Album : hand[m] = [at |-> "asking", queue |-> 0]}
           h == IF ok THEN [at |-> "asking", queue |-> made + 1] ELSE [at |-> "in", queue |-> 0]
<1>1. /\ creating /\ creating' = FALSE /\ proc' = proc /\ FilesRest /\ file' = file /\ work' = work
      /\ ok => made' = made + 1 /\ map' = made + 1 /\ gaps' = gaps
      /\ ~ok => made' = made /\ map' = map /\ gaps' = [gaps EXCEPT !["refused"] = gaps["refused"] \cup W]
  BY DEF Send!Created, FilesRest
<1>2. AlbumTypes /\ FileTypes /\ HandsFit /\ SnapsFit /\ QueuesFit
  BY DEF SendInv, AlbumInv
<1>3. made + 1 \in Lines /\ made \in Nat /\ Album \subseteq Messages
  BY <1>1, <1>2, RoomForQueue, LinesIs
<1>4. hand' = [m \in Messages |-> IF m \in W THEN h ELSE hand[m]]
  <2>1. \A m \in W : [hand[m] EXCEPT !.queue = made + 1] = [at |-> "asking", queue |-> made + 1]
    OBVIOUS
  <2> QED
    BY <2>1, SendIs DEF Send!Created
<1>5. h \in HandType /\ (ok => h.at = "asking" /\ h.queue = made + 1) /\ (~ok => h.at = "in" /\ h.queue = 0)
  BY <1>3 DEF HandType
<1>6. \A m \in W : m \in Messages /\ hand[m].at = "asking" /\ hand[m].queue = 0 /\ file[m] = "none"
  BY <1>2, <1>3 DEF HandsFit
<1>7. W # {}
  BY <1>1, <1>2 DEF QueuesFit
<1> HIDE DEF h, W
<1>8. hand' \in [Messages -> HandType] /\ \A m \in Messages : hand'[m] = IF m \in W THEN h ELSE hand[m]
  BY <1>2, <1>4, <1>5 DEF AlbumTypes
<1>9. AlbumTypes'
  <2>1. made' \in {0} \cup Lines /\ map' \in {0} \cup Lines /\ proc' \in [Lines -> ProcType]
    BY <1>1, <1>2, <1>3 DEF AlbumTypes
  <2> QED
    BY <1>2, <1>8, <2>1, AlbumTyped
<1>10. HandsFit'
  BY <1>1, <1>2, <1>5, <1>6, <1>8 DEF HandsFit
<1>11. SnapsFit'
  <2>1. \A n \in Messages : hand[n].at = "in" => hand'[n] = hand[n] /\ file'[n] = file[n]
    BY <1>1, <1>6, <1>8
  <2> QED
    BY <1>1, <1>2, <2>1, SnapsStay
<1>12. QueuesFit'
  <2>1. ASSUME NEW q \in 1..made
        PROVE  \E n \in Album : hand'[n].queue = q
    <3>1. PICK n \in Album : hand[n].queue = q
      BY <1>2 DEF QueuesFit
    <3>2. n \notin W /\ n \in Messages
      BY <1>3, <1>6, <3>1
    <3> QED
      BY <1>8, <3>1, <3>2
  <2>2. ASSUME ok
        PROVE  \E n \in Album : hand'[n].queue = made + 1
    <3>1. PICK n \in W : TRUE
      BY <1>7
    <3>2. n \in Album
      BY <3>1 DEF W
    <3> QED
      BY <1>5, <1>6, <1>8, <2>2, <3>1, <3>2
  <2>3. \A q \in 1..made' : q \in 1..made \/ (ok /\ q = made + 1)
    BY <1>1, <1>3
  <2> QED
    BY <1>1, <2>1, <2>2, <2>3 DEF QueuesFit
<1>13. gaps' \in [Send!Gaps -> SUBSET Messages] /\ \A g \in Send!Gaps : gaps[g] \subseteq gaps'[g]
  <2> DEFINE x == gaps["refused"] \cup W
  <2>1. x \in SUBSET Messages /\ gaps["refused"] \subseteq x /\ gaps \in [Send!Gaps -> SUBSET Messages]
    BY <1>2, <1>6, SendIs DEF FileTypes
  <2>2. gaps' = gaps \/ gaps' = [gaps EXCEPT !["refused"] = x]
    BY <1>1
  <2> HIDE DEF x
  <2> QED
    BY <2>1, <2>2, SendIs
<1>14. FileTypes' /\ FilesFit'
  BY <1>1, <1>13, FilesStay
<1> QED
  BY <1>9, <1>10, <1>11, <1>12, <1>14 DEF SendInv, AlbumInv

\* One message enters: its hand is in, and its file waits or is queued.
Enters(m, l, st) ==
    /\ hand[m].at # "in" /\ (hand[m].at = "asking" => hand[m].queue # 0)
    /\ hand' = [hand EXCEPT ![m].at = "in"]
    /\ Send!To(m, l) /\ file' = [file EXCEPT ![m] = st]
    /\ <<l, st>> \in {<<"none", "none">>, <<"none", "pending">>, <<"queue", "queued">>}
LEMMA EntersKeeps ==
  ASSUME SendInv, NEW m \in Messages, NEW l, NEW st, Enters(m, l, st),
         map' = map, creating' = creating, made' = made, proc' = proc, FilesRest,
         gaps' \in [Send!Gaps -> SUBSET Messages], \A g \in Send!Gaps : gaps[g] \subseteq gaps'[g]
  PROVE  SendInv'
<1>1. AlbumTypes /\ FileTypes /\ HandsFit /\ SnapsFit /\ QueuesFit /\ FilesFit
  BY DEF SendInv, AlbumInv
<1>13. /\ hand[m].at # "in" /\ (hand[m].at = "asking" => hand[m].queue # 0)
      /\ hand' = [hand EXCEPT ![m].at = "in"]
      /\ Send!To(m, l) /\ file' = [file EXCEPT ![m] = st]
  BY DEF Enters
<1>14. /\ l \in {"none", "queue"} /\ st \in {"none", "pending", "queued"}
      /\ (l = "none" <=> st \in {"none", "pending"}) /\ l \in TaskStages /\ st \in FileStages
  BY DEF Enters, TaskStages, FileStages
<1>2. /\ hand' \in [Messages -> HandType] /\ hand'[m].at = "in" /\ hand'[m].queue = hand[m].queue
      /\ \A n \in Messages \ {m} : hand'[n] = hand[n]
  BY <1>13, <1>1, InIs
<1>3. /\ work' \in [Messages -> WorkType] /\ work'[m].at = l /\ work'[m].tries = work[m].tries
      /\ \A n \in Messages \ {m} : work'[n] = work[n]
  BY <1>13, <1>14, <1>1, ToIs
<1>4. /\ file' \in [Messages -> FileStages] /\ file'[m] = st /\ \A n \in Messages \ {m} : file'[n] = file[n]
  BY <1>13, <1>14, <1>1, StatusIs
<1>5. FileFits(m) /\ file[m] = "none" /\ work[m].at = "none" /\ Album \subseteq Messages /\ made \in Nat
  BY <1>13, <1>1, LinesIs DEF FilesFit, FileFits, StatusFits, HandsFit
<1>6. AlbumTypes'
  BY <1>1, <1>2, AlbumTyped DEF AlbumTypes
<1>7. FileTypes'
  BY <1>1, <1>3, <1>4 DEF FileTypes, FilesRest
<1>8. HandsFit'
  BY <1>1, <1>2, <1>4 DEF HandsFit
<1>9. SnapsFit'
  <2>1. \A n \in Messages : hand[n].at = "in" => hand'[n] = hand[n] /\ file'[n] = file[n]
    BY <1>13, <1>2, <1>4
  <2> QED
    BY <1>1, <2>1, SnapsStay
<1>10. QueuesFit'
  <2>1. ASSUME creating
        PROVE  \E n \in Album : hand'[n] = [at |-> "asking", queue |-> 0]
    <3>1. PICK n \in Album : hand[n] = [at |-> "asking", queue |-> 0]
      BY <1>1, <2>1 DEF QueuesFit
    <3>2. n # m /\ n \in Messages
      BY <1>13, <1>5, <3>1
    <3> QED
      BY <1>2, <3>1, <3>2
  <2>2. ASSUME NEW q \in 1..made
        PROVE  \E n \in Album : hand'[n].queue = q
    <3>1. PICK n \in Album : hand[n].queue = q
      BY <1>1 DEF QueuesFit
    <3> QED
      BY <1>2, <1>5, <3>1
  <2> QED
    BY <2>1, <2>2 DEF QueuesFit
<1>11. FileFits(m)'
  <2>1. /\ entered[m] = 0 /\ m \notin temp /\ m \notin blockers /\ holder # m
        /\ \A k \in 0..1 : <<m, k>> \in object => m \in gaps["uncompensated"] \cup gaps["undoFailed"]
    BY <1>5 DEF FileFits, RowFits, ObjectFits, HoldFits
  <2>2. StatusFits(m)'
    BY <1>14, <1>3, <1>4 DEF StatusFits, Working
  <2>3. RowFits(m)' /\ HoldFits(m)'
    BY <1>14, <1>3, <2>1 DEF RowFits, HoldFits, FilesRest
  <2>4. ObjectFits(m)'
    BY <1>14, <1>3, <2>1, SendIs DEF ObjectFits, FilesRest
  <2> QED
    BY <2>2, <2>3, <2>4 DEF FileFits
<1>12. FilesFit'
  <2>1. \A n \in Messages \ {m} : SameFile(n)
    BY <1>3, <1>4 DEF FilesRest, SameFile, SameTask, SameHold, SameStore
  <2>2. \A n \in Messages \ {m} : FileFits(n)'
    BY <1>1, <2>1, FileStands DEF FilesFit
  <2> QED
    BY <1>11, <2>2 DEF FilesFit
<1> QED
  BY <1>6, <1>7, <1>8, <1>9, <1>10, <1>12 DEF SendInv, AlbumInv

\* A message that has nothing yet stays without it.
LEMMA NothingYet ==
  ASSUME SendInv, NEW m \in Messages, hand[m].at # "in"
  PROVE  /\ FileTypes /\ file[m] = "none" /\ work[m].at = "none" /\ (hand[m].at = "new" => hand[m].queue = 0)
         /\ work' = work => Send!To(m, "none")
         /\ file' = file => file' = [file EXCEPT ![m] = "none"]
         /\ gaps \in [Send!Gaps -> SUBSET Messages]
<1>1. FileTypes /\ file[m] = "none" /\ work[m].at = "none" /\ (hand[m].at = "new" => hand[m].queue = 0)
  BY DEF SendInv, AlbumInv, HandsFit, FilesFit, FileFits, StatusFits
<1>2. work[m] \in WorkType /\ work \in [Messages -> WorkType] /\ file \in [Messages -> FileStages]
  BY <1>1 DEF FileTypes
<1>3. work[m] = [work[m] EXCEPT !.at = "none"]
  BY <1>1, <1>2 DEF WorkType
<1>4. work = [work EXCEPT ![m].at = "none"]
  BY <1>2, <1>3
<1> QED
  BY <1>1, <1>2, <1>4 DEF Send!To, FileTypes

LEMMA PushKeeps ==
  ASSUME SendInv, NEW m \in Messages, Send!Push(m)
  PROVE  SendInv'
<1>1. /\ hand[m].at = "asking" /\ hand[m].queue # 0 /\ hand' = [hand EXCEPT ![m].at = "in"]
      /\ file' = [file EXCEPT ![m] = "pending"] /\ work' = work
      /\ map' = map /\ creating' = creating /\ made' = made /\ proc' = proc /\ FilesRest
  BY DEF Send!Push, FilesRest
<1>2. FileTypes /\ Send!To(m, "none") /\ gaps \in [Send!Gaps -> SUBSET Messages]
  BY <1>1, NothingYet
<1>3. gaps' \in [Send!Gaps -> SUBSET Messages] /\ \A g \in Send!Gaps : gaps[g] \subseteq gaps'[g]
  <2>1. gaps' = gaps \/ Send!Gap("orphan", m)
    BY DEF Send!Push
  <2> QED
    BY <1>2, <2>1, GapIs, SendIs
<1>4. Enters(m, "none", "pending")
  BY <1>1, <1>2 DEF Enters
<1> QED
  BY <1>1, <1>3, <1>4, EntersKeeps

LEMMA SingleKeeps ==
  ASSUME SendInv, NEW m \in Messages, NEW ok \in BOOLEAN, Send!Single(m, ok)
  PROVE  SendInv'
<1>1. /\ hand[m].at = "new" /\ hand' = [hand EXCEPT ![m].at = "in"]
      /\ map' = map /\ creating' = creating /\ made' = made /\ proc' = proc /\ FilesRest
  BY DEF Send!Single, FilesRest
<1>2. /\ FileTypes /\ gaps \in [Send!Gaps -> SUBSET Messages]
      /\ (work' = work => Send!To(m, "none")) /\ (file' = file => file' = [file EXCEPT ![m] = "none"])
  BY <1>1, NothingYet
<1>3. CASE Send!To(m, "queue") /\ file' = [file EXCEPT ![m] = "queued"] /\ gaps' = gaps
  <2>1. Enters(m, "queue", "queued")
    BY <1>1, <1>3 DEF Enters
  <2> QED
    BY <1>1, <1>2, <1>3, <2>1, EntersKeeps
<1>4. CASE Send!Gap("refused", m) /\ work' = work /\ file' = file
  <2>1. gaps' \in [Send!Gaps -> SUBSET Messages] /\ \A g \in Send!Gaps : gaps[g] \subseteq gaps'[g]
    BY <1>2, <1>4, GapIs, SendIs
  <2>2. Enters(m, "none", "none")
    BY <1>1, <1>2, <1>4 DEF Enters
  <2> QED
    BY <1>1, <2>1, <2>2, EntersKeeps
<1> QED
  BY <1>3, <1>4 DEF Send!Single, Send!To

\* A round of a queue: its record is another, the hands stay.
LEMMA RoundIs ==
  ASSUME AlbumTypes, NEW q \in Lines, NEW r \in ProcType, proc' = [proc EXCEPT ![q] = r]
  PROVE  proc' \in [Lines -> ProcType] /\ proc'[q] = r /\ \A p \in Lines \ {q} : proc'[p] = proc[p]
BY DEF AlbumTypes

LEMMA RoundKeeps ==
  ASSUME SendInv, hand' = hand, creating' = creating, made' = made, map' \in {0} \cup Lines, FilesRest,
         file' = file, work' = work, gaps' = gaps, proc' \in [Lines -> ProcType], SnapsFit'
  PROVE  SendInv'
<1>1. AlbumTypes /\ FileTypes /\ HandsFit /\ QueuesFit
  BY DEF SendInv, AlbumInv
<1>2. AlbumTypes'
  BY <1>1, AlbumTyped DEF AlbumTypes
<1>3. FileTypes' /\ FilesFit'
  BY <1>1, FilesStay DEF FileTypes
<1>4. HandsFit' /\ QueuesFit'
  BY <1>1 DEF HandsFit, QueuesFit
<1> QED
  BY <1>2, <1>3, <1>4 DEF SendInv, AlbumInv

LEMMA FireKeeps ==
  ASSUME SendInv, Send!Fire
  PROVE  SendInv'
<1> DEFINE P == Send!Pending(map)
           r == [started |-> TRUE, at |-> IF P = {} THEN "idle" ELSE "admit", snap |-> P]
<1>1. hand' = hand /\ creating' = creating /\ made' = made /\ FilesRest /\ file' = file /\ work' = work /\ gaps' = gaps
  BY DEF Send!Fire, Send!taskVars, FilesRest
<1>2. AlbumTypes /\ SnapsFit
  BY DEF SendInv, AlbumInv
<1>3. CASE map' = map /\ proc' = proc
  <2>1. SnapsFit'
    BY <1>1, <1>2, <1>3, SnapsStay
  <2> QED
    BY <1>1, <1>2, <1>3, <2>1, RoundKeeps DEF AlbumTypes
<1>4. CASE map # 0 /\ proc' = [proc EXCEPT ![map] = r] /\ map' = IF P = {} THEN 0 ELSE map
  <2>1. map \in Lines
    BY <1>2, <1>4 DEF AlbumTypes
  <2>2. P \in SUBSET Album /\ \A m \in P : hand[m].queue = map /\ hand[m].at = "in" /\ file[m] = "pending"
    BY DEF Send!Pending
  <2>3. \A m \in P : hand[m] = [at |-> "in", queue |-> map]
    <3>1. \A m \in P : hand[m] \in HandType
      BY <1>2, <2>2 DEF AlbumTypes, Messages
    <3> QED
      BY <2>2, <3>1 DEF HandType
  <2> HIDE DEF P
  <2>4. r \in ProcType /\ r.snap = P
    BY <2>2 DEF ProcType
  <2> HIDE DEF r
  <2>5. proc' \in [Lines -> ProcType] /\ proc'[map] = r /\ \A p \in Lines \ {map} : proc'[p] = proc[p]
    BY <1>2, <1>4, <2>1, <2>4, RoundIs
  <2>6. SnapsFit'
    <3>1. ASSUME NEW q \in Lines, NEW n \in proc'[q].snap
          PROVE  hand[n] = [at |-> "in", queue |-> q] /\ (proc'[q].at = "admit" => file[n] = "pending")
      <4>1. CASE q = map
        BY <2>2, <2>3, <2>4, <2>5, <3>1, <4>1
      <4>2. CASE q # map
        BY <1>2, <2>5, <3>1, <4>2 DEF SnapsFit
      <4> QED
        BY <4>1, <4>2
    <3> QED
      BY <1>1, <3>1, SnapsNow
  <2>7. map' \in {0} \cup Lines
    BY <1>4, <2>1
  <2> QED
    BY <1>1, <2>5, <2>6, <2>7, RoundKeeps
<1> QED
  BY <1>3, <1>4 DEF Send!Fire

LEMMA WrapUpKeeps ==
  ASSUME SendInv, NEW q \in Lines, Send!WrapUp(q)
  PROVE  SendInv'
<1>1. hand' = hand /\ creating' = creating /\ made' = made /\ FilesRest /\ file' = file /\ work' = work /\ gaps' = gaps
  BY DEF Send!WrapUp, Send!taskVars, FilesRest
<1>2. AlbumTypes /\ SnapsFit /\ proc[q] \in ProcType
  BY DEF SendInv, AlbumInv, AlbumTypes
<1>3. PICK r \in ProcType : /\ proc' = [proc EXCEPT ![q] = r] /\ r.snap \in {{}, proc[q].snap} /\ r.at = "idle"
                            /\ map' \in {0, map}
  <2>1. CASE map' = 0 /\ proc' = [proc EXCEPT ![q].at = "idle"]
    <3> DEFINE r == [proc[q] EXCEPT !.at = "idle"]
    <3>1. r \in ProcType /\ r.snap = proc[q].snap /\ r.at = "idle" /\ proc' = [proc EXCEPT ![q] = r]
      BY <1>2, <2>1 DEF ProcType
    <3> HIDE DEF r
    <3> QED
      BY <2>1, <3>1
  <2>2. CASE map' = map /\ proc' = [proc EXCEPT ![q] = Send!NoProc]
    <3>1. Send!NoProc \in ProcType /\ Send!NoProc.snap = {} /\ Send!NoProc.at = "idle"
      BY DEF Send!NoProc, ProcType
    <3> QED
      BY <2>2, <3>1
  <2> QED
    BY <2>1, <2>2 DEF Send!WrapUp
<1>4. proc' \in [Lines -> ProcType] /\ proc'[q] = r /\ \A p \in Lines \ {q} : proc'[p] = proc[p]
  BY <1>2, <1>3, RoundIs
<1>5. SnapsFit'
  <2>1. ASSUME NEW p \in Lines, NEW n \in proc'[p].snap
        PROVE  hand[n] = [at |-> "in", queue |-> p] /\ (proc'[p].at = "admit" => file[n] = "pending")
    <3>1. CASE p = q
      <4>1. n \in proc[q].snap /\ proc'[p].at = "idle"
        BY <1>3, <1>4, <2>1, <3>1
      <4> QED
        BY <1>2, <3>1, <4>1 DEF SnapsFit
    <3>2. CASE p # q
      BY <1>2, <1>4, <2>1, <3>2 DEF SnapsFit
    <3> QED
      BY <3>1, <3>2
  <2> QED
    BY <1>1, <2>1, SnapsNow
<1>6. map' \in {0} \cup Lines
  BY <1>2, <1>3 DEF AlbumTypes
<1> QED
  BY <1>1, <1>4, <1>5, <1>6, RoundKeeps

LEMMA AdmitFails ==
  ASSUME SendInv, NEW q \in Lines, Send!Admit(q, FALSE)
  PROVE  SendInv'
<1>1. /\ hand' = hand /\ creating' = creating /\ made' = made /\ map' = map /\ FilesRest /\ file' = file /\ work' = work
      /\ gaps' = gaps /\ proc' = [proc EXCEPT ![q] = Send!NoProc]
  BY DEF Send!Admit, FilesRest
<1>2. AlbumTypes /\ SnapsFit
  BY DEF SendInv, AlbumInv
<1>3. Send!NoProc \in ProcType /\ Send!NoProc.snap = {}
  BY DEF Send!NoProc, ProcType
<1>4. proc' \in [Lines -> ProcType] /\ proc'[q].snap = {} /\ \A p \in Lines \ {q} : proc'[p] = proc[p]
  BY <1>1, <1>2, <1>3, RoundIs
<1>5. SnapsFit'
  <2>1. ASSUME NEW p \in Lines, NEW n \in proc'[p].snap
        PROVE  hand[n] = [at |-> "in", queue |-> p] /\ (proc'[p].at = "admit" => file[n] = "pending")
    BY <1>2, <1>4, <2>1 DEF SnapsFit
  <2> QED
    BY <1>1, <2>1, SnapsNow
<1> QED
  BY <1>1, <1>2, <1>4, <1>5, RoundKeeps DEF AlbumTypes

LEMMA AlbumAdmitKeeps ==
  ASSUME SendInv, NEW q \in Lines, Send!Admit(q, TRUE)
  PROVE  SendInv'
<1> DEFINE S == proc[q].snap
           w == [at |-> "queue", tries |-> 0]
           r == [proc[q] EXCEPT !.at = "files"]
<1>1. /\ proc[q].at = "admit" /\ proc' = [proc EXCEPT ![q] = r]
      /\ file' = [m \in Messages |-> IF m \in S THEN "queued" ELSE file[m]]
      /\ work' = [m \in Messages |-> IF m \in S THEN w ELSE work[m]]
      /\ hand' = hand /\ creating' = creating /\ made' = made /\ map' = map /\ FilesRest /\ gaps' = gaps
  BY SendIs DEF Send!Admit, FilesRest
<1>2. AlbumTypes /\ FileTypes /\ HandsFit /\ SnapsFit /\ QueuesFit /\ FilesFit /\ proc[q] \in ProcType
  BY DEF SendInv, AlbumInv, AlbumTypes
<1>3. \A m \in S : m \in Messages /\ hand[m].at = "in" /\ hand[m].queue = q /\ file[m] = "pending"
  BY <1>1, <1>2, SnapIs
<1>4. w \in WorkType /\ w.at = "queue" /\ "queued" \in FileStages
  BY DEF WorkType, TaskStages, FileStages
<1>5. r \in ProcType /\ r.snap = S /\ r.at = "files"
  BY <1>2 DEF ProcType
<1> HIDE DEF w, r
<1>6. proc' \in [Lines -> ProcType] /\ proc'[q] = r /\ \A p \in Lines \ {q} : proc'[p] = proc[p]
  BY <1>1, <1>2, <1>5, RoundIs
<1>7. file' \in [Messages -> FileStages] /\ work' \in [Messages -> WorkType]
  BY <1>1, <1>2, <1>4 DEF FileTypes
<1>8. AlbumTypes' /\ FileTypes'
  BY <1>1, <1>2, <1>6, <1>7, AlbumTyped DEF AlbumTypes, FileTypes, FilesRest
<1>9. HandsFit' /\ QueuesFit'
  BY <1>1, <1>2, <1>3 DEF HandsFit, QueuesFit
<1>10. SnapsFit'
  <2>1. ASSUME NEW p \in Lines, NEW n \in proc'[p].snap
        PROVE  hand[n] = [at |-> "in", queue |-> p] /\ (proc'[p].at = "admit" => file'[n] = "pending")
    <3>1. CASE p = q
      BY <1>2, <1>5, <1>6, <2>1, <3>1 DEF SnapsFit
    <3>2. CASE p # q
      <4>1. n \in proc[p].snap /\ proc'[p] = proc[p]
        BY <1>6, <2>1, <3>2
      <4>2. n \in Messages /\ hand[n].queue = p /\ (proc[p].at = "admit" => file[n] = "pending")
        BY <1>2, <4>1, SnapIs
      <4>3. n \notin S
        BY <1>3, <3>2, <4>2
      <4>4. file'[n] = file[n]
        BY <1>1, <4>2, <4>3
      <4>5. hand[n] = [at |-> "in", queue |-> p]
        BY <1>2, <4>1 DEF SnapsFit
      <4> QED
        BY <4>1, <4>2, <4>4, <4>5
    <3> QED
      BY <3>1, <3>2
  <2> QED
    BY <1>1, <2>1, SnapsNow
<1>11. FilesFit'
  <2>1. ASSUME NEW m \in Messages, m \in S
        PROVE  FileFits(m)'
    <3>1. FileFits(m) /\ file[m] = "pending" /\ work[m].at = "none"
      BY <1>2, <1>3, <2>1 DEF FilesFit, FileFits, StatusFits
    <3>2. /\ entered[m] = 0 /\ m \notin temp /\ m \notin blockers /\ holder # m
          /\ \A k \in 0..1 : <<m, k>> \in object => m \in gaps["uncompensated"] \cup gaps["undoFailed"]
      BY <3>1 DEF FileFits, RowFits, ObjectFits, HoldFits
    <3>3. work'[m].at = "queue" /\ file'[m] = "queued"
      BY <1>1, <1>4, <2>1
    <3>4. StatusFits(m)'
      BY <3>3 DEF StatusFits, Working
    <3>5. RowFits(m)' /\ HoldFits(m)'
      BY <1>1, <3>2, <3>3 DEF RowFits, HoldFits, FilesRest
    <3>6. ObjectFits(m)'
      BY <1>1, <3>2, <3>3 DEF ObjectFits, FilesRest
    <3> QED
      BY <3>4, <3>5, <3>6 DEF FileFits
  <2>2. ASSUME NEW m \in Messages, m \notin S
        PROVE  FileFits(m)'
    <3>1. SameFile(m)
      BY <1>1, <2>2 DEF FilesRest, SameFile, SameTask, SameHold, SameStore
    <3> QED
      BY <1>2, <3>1, FileStands DEF FilesFit
  <2> QED
    BY <2>1, <2>2 DEF FilesFit
<1> QED
  BY <1>8, <1>9, <1>10, <1>11 DEF SendInv, AlbumInv

LEMMA DiskChanges ==
  ASSUME SendInv, hand' = hand, map' = map, creating' = creating, made' = made, proc' = proc, FilesRest,
         file' = file, work' = work, gaps' = gaps
  PROVE  SendInv'
<1>1. AlbumTypes /\ SnapsFit
  BY DEF SendInv, AlbumInv
<1>2. SnapsFit'
  BY <1>1, SnapsStay
<1> QED
  BY <1>1, <1>2, RoundKeeps DEF AlbumTypes

LEMMA SendStarts ==
  ASSUME Send!UploadAssumption, Send!Init
  PROVE  SendInv
<1>1. IsFiniteSet(Messages) /\ "none" \notin Messages
  BY SendIs DEF Send!UploadAssumption, Send!IsFiniteSet, IsFiniteSet
<1>2. IsFiniteSet(Album) /\ Album \subseteq Messages
  BY <1>1, FS_Subset DEF Messages
<1>3. /\ hand = [m \in Messages |-> [at |-> "new", queue |-> 0]] /\ map = 0 /\ creating = FALSE /\ made = 0
      /\ proc = [q \in Lines |-> Send!NoProc] /\ file = [m \in Messages |-> "none"]
      /\ work = [m \in Messages |-> [at |-> "none", tries |-> 0]]
      /\ aborted = {} /\ temp = {} /\ object = {} /\ entered = [m \in Messages |-> 0]
      /\ holder = "none" /\ blockers = {} /\ gaps = [g \in Send!Gaps |-> {}]
  BY SendIs DEF Send!Init, Lines
<1>4. /\ [at |-> "new", queue |-> 0] \in HandType /\ Send!NoProc \in ProcType /\ Send!NoProc.snap = {}
      /\ [at |-> "none", tries |-> 0] \in WorkType /\ "none" \in FileStages
  BY DEF HandType, ProcType, Send!NoProc, WorkType, TaskStages, FileStages
<1>5. AlbumTypes
  BY <1>1, <1>2, <1>3, <1>4 DEF AlbumTypes
<1>6. FileTypes
  BY <1>3, <1>4 DEF FileTypes
<1>7. HandsFit /\ SnapsFit /\ QueuesFit
  BY <1>3, <1>4 DEF HandsFit, SnapsFit, QueuesFit
<1>8. FilesFit
  <2> SUFFICES ASSUME NEW m \in Messages  PROVE FileFits(m)
    BY DEF FilesFit
  <2>1. work[m].at = "none" /\ file[m] = "none" /\ entered[m] = 0 /\ holder # m
    BY <1>1, <1>3
  <2> QED
    BY <1>3, <2>1 DEF FileFits, StatusFits, RowFits, ObjectFits, HoldFits, Working
<1> QED
  BY <1>5, <1>6, <1>7, <1>8 DEF SendInv, AlbumInv

LEMMA SendStep ==
  ASSUME SendInv, [Send!Next]_Send!vars
  PROVE  SendInv'
<1>1. CASE UNCHANGED Send!vars
  BY <1>1, DiskChanges DEF Send!vars, FilesRest
<1>2. CASE \E m \in Messages : \/ Send!Arrive(m) \/ Send!Push(m) \/ Send!TaskStep(m) \/ Send!Cancel(m)
                               \/ \E ok \in BOOLEAN : Send!Single(m, ok)
  <2>1. PICK m \in Messages : \/ Send!Arrive(m) \/ Send!Push(m) \/ Send!TaskStep(m) \/ Send!Cancel(m)
                              \/ \E ok \in BOOLEAN : Send!Single(m, ok)
    BY <1>2
  <2>2. CASE Send!TaskStep(m)
    BY <2>2, StartKeeps, CheckKeeps, DiskKeeps, DownloadKeeps, TwinKeeps, SaveKeeps, IndexKeeps, EndKeeps,
       UndoKeeps, CooledKeeps DEF Send!TaskStep
  <2> QED
    BY <2>1, <2>2, ArriveKeeps, PushKeeps, CancelKeeps, SingleKeeps
<1>3. CASE Send!AlbumStep
  BY <1>3, CreatedKeeps, FireKeeps, AlbumAdmitKeeps, WrapUpKeeps DEF Send!AlbumStep, Lines
<1>4. CASE Send!Created(FALSE)
  BY <1>4, CreatedKeeps
<1>5. CASE \E q \in Lines : Send!Admit(q, FALSE)
  BY <1>5, AdmitFails
<1>6. CASE Send!DiskFills \/ Send!DiskFrees
  BY <1>6, DiskChanges DEF Send!DiskFills, Send!DiskFrees, Send!albumVars, FilesRest
<1> QED
  BY <1>1, <1>2, <1>3, <1>4, <1>5, <1>6, SendIs DEF Send!Next, Lines

\* The stage of a file's task tells what there is of the file: its status, row, objects
\* and what it holds; and a queue of an album takes only what was put into it.
THEOREM SendInvariant == Send!UploadAssumption /\ Send!Spec => []SendInv
<1>1. Send!UploadAssumption /\ Send!Init => SendInv
  BY SendStarts
<1>2. SendInv /\ [Send!Next]_Send!vars => SendInv'
  BY SendStep
<1> QED
  BY <1>1, <1>2, PTL DEF Send!Spec

\* Every variable has its type; no more queues are made for an album than it has messages.
THEOREM SendTypeCorrect == Send!UploadAssumption /\ Send!Spec => []Send!TypeOK
<1>1. ASSUME SendInv
      PROVE  Send!TypeOK
  <2>1. AlbumTypes /\ FileTypes
    BY <1>1 DEF SendInv
  <2>2. entered \in [Messages -> 0..2]
    BY <2>1 DEF FileTypes
  <2> QED
    BY <2>1, <2>2, SendIs DEF AlbumTypes, FileTypes, Send!TypeOK, Lines, HandType, ProcType, FileStages
<1> QED
  BY <1>1, SendInvariant, PTL

\* What SendInv says of one file.
LEMMA FileIs ==
  ASSUME SendInv, NEW m \in Messages
  PROVE  /\ StatusFits(m) /\ RowFits(m) /\ ObjectFits(m) /\ HoldFits(m)
         /\ entered[m] \in 0..1 /\ work[m].tries \in 0..1 /\ work[m].at \in TaskStages
BY DEF SendInv, FilesFit, FileFits, FileTypes, WorkType

\* A row of the table names an object that exists, unless taking both back failed half-way.
THEOREM RowsHaveObject == Send!UploadAssumption /\ Send!Spec => []Send!RowHasObject
<1>1. ASSUME SendInv
      PROVE  Send!RowHasObject
  <2>1. ASSUME NEW m \in Messages, entered[m] > 0
        PROVE  m \in gaps["undoFailed"] \/ \E k \in 0..1 : <<m, k>> \in object
    <3>1. RowFits(m) /\ ObjectFits(m) /\ entered[m] \in 0..1 /\ work[m].tries \in 0..1
      BY <1>1, FileIs
    <3>2. CASE work[m].at \in {"end", "undo"}
      BY <3>1, <3>2 DEF ObjectFits
    <3>3. CASE work[m].at \notin {"end", "undo"}
      BY <2>1, <3>1, <3>3 DEF RowFits
    <3> QED
      BY <3>2, <3>3
  <2> QED
    BY <2>1, SendIs DEF Send!RowHasObject
<1> QED
  BY <1>1, SendInvariant, PTL

\* An object has its row, or its task is still between the two, or it is one of those that
\* the code does not take back.
THEOREM ObjectsHaveRow == Send!UploadAssumption /\ Send!Spec => []Send!ObjectHasRow
<1>1. ASSUME SendInv
      PROVE  Send!ObjectHasRow
  <2>1. ASSUME NEW m \in Messages, NEW k \in 0..1, <<m, k>> \in object
        PROVE  \/ entered[m] > 0 \/ work[m].at \in {"index", "end", "undo"}
               \/ m \in gaps["uncompensated"] \cup gaps["undoFailed"]
    <3>1. ObjectFits(m) /\ entered[m] \in 0..1
      BY <1>1, FileIs
    <3> QED
      BY <2>1, <3>1 DEF ObjectFits
  <2> QED
    BY <2>1, SendIs DEF Send!ObjectHasRow
<1> QED
  BY <1>1, SendInvariant, PTL

\* A file that was cancelled leaves no row, and no file is entered twice.
THEOREM CancelledLeaves == Send!UploadAssumption /\ Send!Spec => []Send!CancelledLeavesNothing
<1>1. ASSUME SendInv
      PROVE  Send!CancelledLeavesNothing
  <2>1. ASSUME NEW m \in Messages
        PROVE  /\ entered[m] <= 1
               /\ work[m].at = "done" /\ m \in aborted /\ entered[m] = 1 => m \in gaps["undoFailed"]
    <3>1. RowFits(m) /\ entered[m] \in 0..1
      BY <1>1, FileIs
    <3> QED
      BY <3>1 DEF RowFits
  <2> QED
    BY <2>1, SendIs DEF Send!CancelledLeavesNothing, Send!Done, Send!Aborted
<1> QED
  BY <1>1, SendInvariant, PTL

\* A task that ended, in whichever way, holds no temporary file, no lock, and not the queue.
THEOREM NothingIsHeld == Send!UploadAssumption /\ Send!Spec => []Send!NothingHeld
<1>1. ASSUME SendInv
      PROVE  Send!NothingHeld
  <2>1. ASSUME NEW m \in Messages, work[m].at \in {"none", "queue", "done"}
        PROVE  m \notin temp \cup blockers /\ holder # m
    <3>1. HoldFits(m)
      BY <1>1, FileIs
    <3> QED
      BY <2>1, <3>1 DEF HoldFits
  <2> QED
    BY <2>1, SendIs DEF Send!NothingHeld, Send!Running
<1> QED
  BY <1>1, SendInvariant, PTL

\* What is reported as done is in the table, or was there before, or was given up while it
\* waited for the quota.
THEOREM SuccessStored == Send!UploadAssumption /\ Send!Spec => []Send!SuccessIsStored
<1>1. ASSUME SendInv
      PROVE  Send!SuccessIsStored
  <2>1. ASSUME NEW m \in Messages, file[m] = "success"
        PROVE  entered[m] > 0 \/ m \in gaps["gaveUp"] \/ (SkipTwins /\ m \in Twins)
    <3>1. StatusFits(m) /\ entered[m] \in 0..1
      BY <1>1, FileIs
    <3> QED
      BY <2>1, <3>1 DEF StatusFits
  <2> QED
    BY <2>1, SendIs DEF Send!SuccessIsStored
<1> QED
  BY <1>1, SendInvariant, PTL
-----------------------------------------------------------------------------
(* The accounts of clouds (CloudProviders)                                  *)

CONSTANTS Sessions, MaxFlows, Writers, Chunks
VARIABLES pending, issued, redeemed, callback, config, provider, writer, folder, session,
          late, cloudEvents
Cloud == INSTANCE CloudProviders WITH
    Uploads <- Writers, upload <- writer, odd <- late, events <- cloudEvents

Flows == Cloud!Flows
Grant == [grant : Flows, token : Flows]
CallbackStages == {"none", "exchange", "insert", "update", "over"}
WriterStages ==
    {"new", "token", "rotated", "folder", "find", "create", "await folder", "send", "done",
     "failed", "gone"}
WriterType == [at : WriterStages, row : Nat, grant : {0} \cup Flows, got : {0} \cup Flows, sent : Nat]

FlowTypes ==
    /\ MaxFlows \in Nat /\ issued \in Seq(Sessions) /\ Len(issued) <= MaxFlows
    /\ pending \in [Sessions -> 0..MaxFlows] /\ redeemed \in [Flows -> 0..1]
    /\ callback \in [Flows -> CallbackStages]
GrantTypes == config \in Seq(Grant) /\ provider \in Seq(Grant)
WriterTypes ==
    /\ Chunks \in Nat /\ writer \in [Writers -> WriterType]
    /\ folder \in [cached : BOOLEAN, lock : SUBSET Writers, made : Nat]
    /\ session \in [Writers -> {"none", "open", "complete", "cancelled", "left"}]
    /\ late \in [twice : BOOLEAN, late : BOOLEAN]

\* The flow of a session was issued to it, and neither it nor one of the future was redeemed.
FlowsFit ==
    /\ \A s \in Sessions : pending[s] # 0 =>
         /\ pending[s] <= Len(issued) /\ issued[pending[s]] = s /\ redeemed[pending[s]] = 0
    /\ \A f \in Flows : f > Len(issued) => redeemed[f] = 0

\* A provider is of the grant of its row; a row is there once a callback decided to update it
\* and while an upload uses it, and a token that was received is of the upload's grant.
RowsFit ==
    /\ Len(provider) = Len(config)
    /\ \A i \in 1..Len(config) : provider[i].grant = config[i].grant
    /\ ~late.late => \A i \in 1..Len(config) : config[i].token = config[i].grant
    /\ ~late.twice => Len(config) <= 1
    /\ \A f \in Flows : callback[f] = "update" => Len(config) > 0
WriterFits(u) ==
    /\ writer[u].at # "new" => writer[u].row \in 1..Len(config) /\ writer[u].grant \in Flows
    /\ writer[u].at = "rotated" => writer[u].got \in Flows
    /\ session[u] = "open" => writer[u].at \in {"send", "gone"}

\* Who looks for the folder or creates it holds the lock, alone, and creates it only if it
\* is not there; nobody waits without the folder and without a holder.
LockFits ==
    /\ \A u \in Writers : writer[u].at \in {"find", "create"} <=> u \in folder.lock
    /\ \A u, v \in folder.lock : u = v
MadeFits == folder.made <= 1 /\ \A u \in Writers : writer[u].at = "create" => folder.made = 0
WaitFits ==
    /\ folder.cached => folder.lock = {}
    /\ (\E u \in Writers : writer[u].at = "await folder") => folder.cached \/ folder.lock # {}
FolderFits == LockFits /\ MadeFits /\ WaitFits

WritersFit == \A u \in Writers : WriterFits(u)
CloudTypes == FlowTypes /\ GrantTypes /\ WriterTypes
CloudInv == CloudTypes /\ FlowsFit /\ RowsFit /\ WritersFit /\ FolderFits
-----------------------------------------------------------------------------
LEMMA CloudIs ==
  /\ Cloud!Flows = 1..MaxFlows /\ Flows = 1..MaxFlows
  /\ \A f \in Flows : f # 0 /\ f \in Nat
BY DEF Cloud!Flows, Flows

LEMMA CloudStarts ==
  ASSUME Cloud!CloudAssumption, Cloud!Init
  PROVE  CloudInv
<1>1. FlowTypes
  BY CloudIs DEF Cloud!CloudAssumption, Cloud!Init, FlowTypes, CallbackStages
<1>2. GrantTypes
  BY DEF Cloud!Init, GrantTypes
<1>3. WriterTypes
  BY DEF Cloud!CloudAssumption, Cloud!Init, Cloud!NoUpload, WriterTypes, WriterType, WriterStages
<1>4. FlowsFit
  BY CloudIs DEF Cloud!Init, FlowsFit
<1>5. RowsFit
  BY CloudIs DEF Cloud!Init, RowsFit
<1>6. WritersFit
  BY DEF Cloud!Init, Cloud!NoUpload, WritersFit, WriterFits
<1>7. FolderFits
  <2>1. ~folder.cached /\ folder.lock = {} /\ folder.made = 0 /\ \A u \in Writers : writer[u].at = "new"
    BY DEF Cloud!Init, Cloud!NoUpload
  <2>2. LockFits
    BY <2>1 DEF LockFits
  <2>3. MadeFits
    BY <2>1 DEF MadeFits
  <2>4. WaitFits
    BY <2>1 DEF WaitFits
  <2> QED
    BY <2>2, <2>3, <2>4 DEF FolderFits
<1> QED
  BY <1>1, <1>2, <1>3, <1>4, <1>5, <1>6, <1>7 DEF CloudInv, CloudTypes

\* The flows do not touch uploads, nor rows before the callback is over.
LEMMA FlowGoes ==
  ASSUME CloudInv, FlowTypes', FlowsFit', config' = config, provider' = provider, late' = late,
         writer' = writer, folder' = folder, session' = session,
         \A f \in Flows : callback'[f] = "update" => callback[f] = "update" \/ config # << >>
  PROVE  CloudInv'
<1>1. CloudTypes'
  BY DEF CloudInv, CloudTypes, GrantTypes, WriterTypes, Grant, Flows, Cloud!Flows, WriterType
<1>2. config # << >> => Len(config) > 0
  BY DEF CloudInv, CloudTypes, GrantTypes
<1>3. RowsFit'
  BY <1>2 DEF CloudInv, RowsFit, Flows, Cloud!Flows
<1>4. WritersFit'
  BY DEF CloudInv, WritersFit, WriterFits, Flows, Cloud!Flows
<1>5. FolderFits'
  BY DEF CloudInv, FolderFits, LockFits, MadeFits, WaitFits
<1> QED
  BY <1>1, <1>3, <1>4, <1>5 DEF CloudInv

LEMMA BackIs ==
  ASSUME FlowTypes, NEW f \in Flows, NEW v \in CallbackStages, Cloud!Back(f, v)
  PROVE  /\ callback' \in [Flows -> CallbackStages]
         /\ callback'[f] = v /\ \A g \in Flows \ {f} : callback'[g] = callback[g]
BY DEF FlowTypes, Cloud!Back

LEMMA IssueStep ==
  ASSUME CloudInv, NEW s \in Sessions, Cloud!Issue(s)
  PROVE  CloudInv'
<1> DEFINE n == Len(issued) + 1
<1>1. /\ n \in 1..MaxFlows /\ n \in Flows /\ issued \in Seq(Sessions) /\ Len(issued) \in Nat /\ MaxFlows \in Nat
      /\ pending \in [Sessions -> 0..MaxFlows]
  BY CloudIs DEF CloudInv, CloudTypes, FlowTypes, Cloud!Issue
<1>2. /\ issued' = Append(issued, s) /\ pending' = [pending EXCEPT ![s] = n]
      /\ redeemed' = redeemed /\ callback' = callback
  BY DEF Cloud!Issue
<1>3. /\ issued' \in Seq(Sessions) /\ Len(issued') = n /\ issued'[n] = s
      /\ \A i \in 1..Len(issued) : issued'[i] = issued[i]
  BY <1>1, <1>2
<1> HIDE DEF n
<1>4. FlowTypes'
  BY <1>1, <1>2, <1>3 DEF CloudInv, CloudTypes, FlowTypes, Flows, Cloud!Flows
<1>5. FlowsFit'
  <2>1. ASSUME NEW r \in Sessions, pending'[r] # 0
        PROVE  /\ pending'[r] <= Len(issued') /\ issued'[pending'[r]] = r /\ redeemed'[pending'[r]] = 0
    <3>1. CASE r = s
      <4>1. pending'[r] = n
        BY <1>1, <1>2, <3>1
      <4>2. n > Len(issued) /\ redeemed[n] = 0
        BY <1>1 DEF CloudInv, FlowsFit, n
      <4> QED
        BY <1>1, <1>2, <1>3, <3>1, <4>1, <4>2
    <3>2. CASE r # s
      <4>1. pending'[r] = pending[r] /\ pending[r] \in 1..Len(issued)
        BY <1>1, <1>2, <2>1, <3>2 DEF CloudInv, FlowsFit
      <4> QED
        BY <1>1, <1>2, <1>3, <2>1, <4>1 DEF CloudInv, FlowsFit, n
    <3> QED
      BY <3>1, <3>2
  <2>2. ASSUME NEW f \in Flows, f > Len(issued')
        PROVE  redeemed'[f] = 0
    <3>1. f > Len(issued)
      BY <1>1, <1>3, <2>2, CloudIs DEF n
    <3> QED
      BY <1>2, <3>1 DEF CloudInv, FlowsFit
  <2> QED
    BY <2>1, <2>2 DEF FlowsFit, Flows, Cloud!Flows
<1> QED
  BY <1>2, <1>4, <1>5, FlowGoes DEF Cloud!Issue, Cloud!accountVars, Cloud!uploadVars

LEMMA LapseStep ==
  ASSUME CloudInv, NEW s \in Sessions, Cloud!Lapse(s)
  PROVE  CloudInv'
<1>1. /\ pending' = [pending EXCEPT ![s] = 0]
      /\ issued' = issued /\ redeemed' = redeemed /\ callback' = callback
      /\ pending \in [Sessions -> 0..MaxFlows] /\ MaxFlows \in Nat
  BY DEF Cloud!Lapse, CloudInv, CloudTypes, FlowTypes
<1>2. FlowTypes'
  BY <1>1 DEF CloudInv, CloudTypes, FlowTypes, Flows, Cloud!Flows
<1>3. FlowsFit'
  BY <1>1 DEF CloudInv, FlowsFit, Flows, Cloud!Flows
<1> QED
  BY <1>1, <1>2, <1>3, FlowGoes DEF Cloud!Lapse, Cloud!accountVars, Cloud!uploadVars

LEMMA CallbackStep ==
  ASSUME CloudInv, NEW s \in Sessions, NEW f \in Flows, Cloud!Callback(s, f)
  PROVE  CloudInv'
<1>1. /\ pending[s] = f /\ pending' = [pending EXCEPT ![s] = 0]
      /\ redeemed' = [redeemed EXCEPT ![f] = @ + 1] /\ issued' = issued
      /\ Cloud!Back(f, "exchange") /\ "exchange" \in CallbackStages
  BY DEF Cloud!Callback, Cloud!Consume, CallbackStages
<1>2. FlowTypes /\ MaxFlows \in Nat /\ pending \in [Sessions -> 0..MaxFlows] /\ redeemed \in [Flows -> 0..1]
  BY DEF CloudInv, CloudTypes, FlowTypes
<1>3. /\ callback' \in [Flows -> CallbackStages] /\ callback'[f] = "exchange"
      /\ \A g \in Flows \ {f} : callback'[g] = callback[g]
  BY <1>1, <1>2, BackIs
<1>4. f <= Len(issued) /\ issued[f] = s /\ redeemed[f] = 0
  BY <1>1, CloudIs DEF CloudInv, FlowsFit
<1>5. /\ redeemed' \in [Flows -> 0..1] /\ \A g \in Flows \ {f} : redeemed'[g] = redeemed[g]
      /\ pending' \in [Sessions -> 0..MaxFlows] /\ pending'[s] = 0
      /\ \A r \in Sessions \ {s} : pending'[r] = pending[r]
  BY <1>1, <1>2, <1>4
<1>6. FlowTypes'
  BY <1>1, <1>2, <1>3, <1>5 DEF FlowTypes, Flows, Cloud!Flows
<1>7. FlowsFit'
  <2>1. ASSUME NEW r \in Sessions, pending'[r] # 0
        PROVE  /\ pending'[r] <= Len(issued) /\ issued[pending'[r]] = r /\ redeemed'[pending'[r]] = 0
    <3>1. r # s /\ pending'[r] = pending[r]
      BY <1>5, <2>1
    <3>2. pending[r] <= Len(issued) /\ issued[pending[r]] = r /\ redeemed[pending[r]] = 0
      BY <2>1, <3>1 DEF CloudInv, FlowsFit
    <3>3. pending[r] \in Flows /\ pending[r] # f
      BY <1>2, <1>4, <2>1, <3>1, <3>2, CloudIs
    <3> QED
      BY <1>5, <3>1, <3>2, <3>3
  <2>2. \A g \in Flows : g > Len(issued) => redeemed'[g] = 0
    <3>1. ~(f > Len(issued))
      BY <1>2, <1>4, CloudIs DEF FlowTypes
    <3> QED
      BY <1>5, <3>1 DEF CloudInv, FlowsFit
  <2> QED
    BY <1>1, <2>1, <2>2 DEF FlowsFit, Flows, Cloud!Flows
<1> QED
  BY <1>3, <1>6, <1>7, FlowGoes DEF Cloud!Callback, Cloud!accountVars, Cloud!uploadVars

LEMMA ExchangeStep ==
  ASSUME CloudInv, NEW f \in Flows, NEW ok \in BOOLEAN, Cloud!Exchange(f, ok)
  PROVE  CloudInv'
<1>1. /\ pending' = pending /\ issued' = issued /\ redeemed' = redeemed /\ FlowTypes
      /\ \/ Cloud!Back(f, "over")
         \/ Cloud!Back(f, "insert")
         \/ Cloud!Back(f, "update") /\ config # << >>
  BY DEF Cloud!Exchange, CloudInv, CloudTypes
<1>2. {"over", "insert", "update"} \subseteq CallbackStages
  BY DEF CallbackStages
<1>3. /\ callback' \in [Flows -> CallbackStages]
      /\ \A g \in Flows : callback'[g] = "update" => callback[g] = "update" \/ config # << >>
  BY <1>1, <1>2, BackIs
<1>4. FlowTypes'
  BY <1>1, <1>3 DEF FlowTypes, Flows, Cloud!Flows
<1>5. FlowsFit'
  BY <1>1 DEF CloudInv, FlowsFit, Flows, Cloud!Flows
<1> QED
  BY <1>3, <1>4, <1>5, FlowGoes DEF Cloud!Exchange, Cloud!accountVars, Cloud!uploadVars
-----------------------------------------------------------------------------
\* A row is added or authorised again, in the table and in memory alike.
LEMMA AddAccountStep ==
  ASSUME CloudInv, NEW f \in Flows, Cloud!AddAccount(f)
  PROVE  CloudInv'
<1> DEFINE g == [grant |-> f, token |-> f]
<1>1. /\ callback[f] \in {"insert", "update"} /\ Cloud!Back(f, "over") /\ "over" \in CallbackStages
      /\ pending' = pending /\ issued' = issued /\ redeemed' = redeemed
      /\ writer' = writer /\ folder' = folder /\ session' = session
  BY DEF Cloud!AddAccount, Cloud!uploadVars, CallbackStages
<1>2. FlowTypes /\ GrantTypes /\ WriterTypes /\ Len(provider) = Len(config)
  BY DEF CloudInv, CloudTypes, RowsFit
<1>3. /\ callback' \in [Flows -> CallbackStages] /\ callback'[f] = "over"
      /\ \A h \in Flows \ {f} : callback'[h] = callback[h]
  BY <1>1, <1>2, BackIs
<1>4. g \in Grant /\ g.grant = f /\ g.token = f
  BY DEF Grant
<1>5. /\ callback[f] = "insert" => config' = Append(config, g) /\ provider' = Append(provider, g)
      /\ callback[f] = "update" => config' = [config EXCEPT ![1] = g] /\ provider' = [provider EXCEPT ![1] = g]
  BY DEF Cloud!AddAccount, Cloud!Updated
<1>6. /\ late' \in [twice : BOOLEAN, late : BOOLEAN]
      /\ late'.twice = (late.twice \/ (callback[f] = "insert" /\ config # << >>))
      /\ late.late => late'.late
  <2> DEFINE a == late.twice \/ (callback[f] = "insert" /\ config # << >>)
             b == late.late \/ \E u \in Writers : writer[u].got # 0
  <2>1. late' = [late EXCEPT !.twice = a, !.late = b] /\ late \in [twice : BOOLEAN, late : BOOLEAN]
    BY <1>2 DEF Cloud!AddAccount, WriterTypes
  <2>2. a \in BOOLEAN /\ b \in BOOLEAN /\ (late.late => b)
    BY <2>1
  <2> HIDE DEF a, b
  <2>3. late' \in [twice : BOOLEAN, late : BOOLEAN] /\ late'.twice = a /\ (late.late => late'.late)
    BY <2>1, <2>2
  <2> QED
    BY <2>3 DEF a
<1> HIDE DEF g
<1>7. /\ config' \in Seq(Grant) /\ provider' \in Seq(Grant) /\ Len(provider') = Len(config')
      /\ Len(config) <= Len(config') /\ Len(config') > 0
      /\ \A i \in 1..Len(config') : /\ provider'[i].grant = config'[i].grant
                                    /\ ~late.late => config'[i].token = config'[i].grant
  <2>1. /\ config \in Seq(Grant) /\ provider \in Seq(Grant) /\ Len(config) \in Nat
        /\ \A i \in 1..Len(config) : /\ provider[i].grant = config[i].grant
                                     /\ ~late.late => config[i].token = config[i].grant
    BY <1>2 DEF GrantTypes, CloudInv, RowsFit
  <2>2. CASE callback[f] = "insert"
    <3>1. config' = Append(config, g) /\ provider' = Append(provider, g)
      BY <1>5, <2>2
    <3>2. /\ config' \in Seq(Grant) /\ Len(config') = Len(config) + 1 /\ config'[Len(config) + 1] = g
          /\ \A i \in 1..Len(config) : config'[i] = config[i]
      BY <1>4, <2>1, <3>1
    <3>3. Len(provider) = Len(config)
      BY <1>2
    <3>4. /\ provider' \in Seq(Grant) /\ Len(provider') = Len(config) + 1 /\ provider'[Len(config) + 1] = g
          /\ \A i \in 1..Len(config) : provider'[i] = provider[i]
      BY <1>4, <2>1, <3>1, <3>3
    <3>5. ASSUME NEW i \in 1..Len(config')
          PROVE  /\ provider'[i].grant = config'[i].grant
                 /\ ~late.late => config'[i].token = config'[i].grant
      <4>1. CASE i \in 1..Len(config)
        BY <2>1, <3>2, <3>4, <4>1
      <4>2. CASE i = Len(config) + 1
        BY <1>4, <3>2, <3>4, <4>2
      <4> QED
        BY <2>1, <3>2, <4>1, <4>2
    <3>6. Len(config') > 0 /\ Len(config) <= Len(config')
      BY <2>1, <3>2
    <3> QED
      BY <3>2, <3>4, <3>5, <3>6
  <2>3. CASE callback[f] = "update"
    <3>1. Len(config) > 0
      BY <2>3 DEF CloudInv, RowsFit
    <3>2. /\ config' \in Seq(Grant) /\ Len(config') = Len(config) /\ config'[1] = g
          /\ \A i \in 1..Len(config) : i # 1 => config'[i] = config[i]
      BY <1>4, <1>5, <2>1, <2>3, <3>1
    <3>3. Len(provider) = Len(config)
      BY <1>2
    <3>4. /\ provider' \in Seq(Grant) /\ Len(provider') = Len(config) /\ provider'[1] = g
          /\ \A i \in 1..Len(config) : i # 1 => provider'[i] = provider[i]
      BY <1>4, <1>5, <2>1, <2>3, <3>1, <3>3
    <3> QED
      BY <1>4, <2>1, <3>1, <3>2, <3>4
  <2> QED
    BY <1>1, <2>2, <2>3
<1>8. CloudTypes'
  BY <1>1, <1>2, <1>3, <1>6, <1>7 DEF CloudTypes, FlowTypes, GrantTypes, WriterTypes, Grant, Flows, Cloud!Flows, WriterType
<1>9. RowsFit'
  <2>1. ~late'.late => ~late.late
    BY <1>6
  <2>2. ~late'.twice => Len(config') <= 1
    <3>1. CASE callback[f] = "insert"
      <4>1. ~late'.twice => config = << >>
        BY <1>6, <3>1
      <4>2. config = << >> => Len(config') = 1
        BY <1>2, <1>4, <1>5, <3>1 DEF GrantTypes
      <4>3. Len(config') = 1 => Len(config') <= 1
        OBVIOUS
      <4> QED
        BY <4>1, <4>2, <4>3, Zenon
    <3>2. CASE callback[f] = "update"
      <4>1. Len(config') = Len(config)
        BY <1>2, <1>5, <3>2 DEF GrantTypes
      <4> QED
        BY <1>6, <4>1 DEF CloudInv, RowsFit
    <3> QED
      BY <1>1, <3>1, <3>2
  <2> QED
    BY <1>7, <2>1, <2>2 DEF RowsFit, Flows, Cloud!Flows
<1>10. FlowsFit'
  BY <1>1 DEF CloudInv, FlowsFit, Flows, Cloud!Flows
<1>11. WritersFit'
  <2>1. 1..Len(config) \subseteq 1..Len(config')
    BY <1>2, <1>7 DEF GrantTypes
  <2> QED
    BY <1>1, <2>1 DEF CloudInv, WritersFit, WriterFits, Flows, Cloud!Flows
<1>12. FolderFits'
  BY <1>1 DEF CloudInv, FolderFits, LockFits, MadeFits, WaitFits
<1> QED
  BY <1>8, <1>9, <1>10, <1>11, <1>12 DEF CloudInv

-----------------------------------------------------------------------------
\* The uploads.  One of them goes on; the flows and the rows stay as they are.
FolderType == [cached : BOOLEAN, lock : SUBSET Writers, made : Nat]
SessionType == [Writers -> {"none", "open", "complete", "cancelled", "left"}]
OthersStand ==
    /\ pending' = pending /\ issued' = issued /\ redeemed' = redeemed /\ callback' = callback
    /\ config' = config /\ provider' = provider /\ late' = late
Moves(u, w) ==
    /\ writer' = [writer EXCEPT ![u] = w]
    /\ w.at # "new" => w.row \in 1..Len(config) /\ w.grant \in Flows
    /\ w.at = "rotated" => w.got \in Flows
SessionMoves(u, w) ==
    /\ session' \in SessionType
    /\ \A v \in Writers \ {u} : session'[v] = session[v]
    /\ session'[u] = "open" => w.at \in {"send", "gone"}
FolderMoves == folder' \in FolderType /\ FolderFits'

LEMMA WriterGoes ==
  ASSUME CloudInv, NEW u \in Writers, NEW w \in WriterType, Moves(u, w), SessionMoves(u, w),
         FolderMoves, OthersStand
  PROVE  CloudInv'
<1>1. /\ writer \in [Writers -> WriterType] /\ writer' \in [Writers -> WriterType] /\ writer'[u] = w
      /\ \A v \in Writers \ {u} : writer'[v] = writer[v]
  BY DEF CloudInv, CloudTypes, WriterTypes, Moves
<1>2. CloudTypes'
  BY <1>1 DEF CloudInv, CloudTypes, FlowTypes, GrantTypes, WriterTypes, Grant, Flows, Cloud!Flows,
              WriterType, OthersStand, SessionMoves, FolderMoves, FolderType, SessionType
<1>3. FlowsFit' /\ RowsFit'
  BY DEF CloudInv, FlowsFit, RowsFit, Flows, Cloud!Flows, OthersStand
<1>4. WritersFit'
  BY <1>1 DEF CloudInv, WritersFit, WriterFits, Flows, Cloud!Flows, Moves, SessionMoves, OthersStand
<1> QED
  BY <1>2, <1>3, <1>4 DEF CloudInv, FolderMoves

\* An upload that is not at the folder keeps away from it.
LEMMA FolderStands ==
  ASSUME CloudInv, NEW u \in Writers, NEW w \in WriterType, writer' = [writer EXCEPT ![u] = w],
         folder' = folder, writer[u].at \notin {"find", "create"},
         w.at \notin {"find", "create", "await folder"}
  PROVE  FolderMoves
<1>1. /\ writer'[u] = w /\ \A v \in Writers \ {u} : writer'[v] = writer[v]
      /\ folder' \in FolderType /\ FolderFits
  BY DEF CloudInv, CloudTypes, WriterTypes, FolderType
<1>2. \A v \in Writers : /\ writer'[v].at \in {"find", "create"} <=> writer[v].at \in {"find", "create"}
                         /\ writer'[v].at = "create" => writer[v].at = "create"
                         /\ writer'[v].at = "await folder" => writer[v].at = "await folder"
  BY <1>1
<1>3. LockFits'
  BY <1>1, <1>2 DEF FolderFits, LockFits
<1>4. MadeFits'
  BY <1>1, <1>2 DEF FolderFits, MadeFits
<1>5. WaitFits'
  BY <1>1, <1>2 DEF FolderFits, WaitFits
<1> QED
  BY <1>1, <1>3, <1>4, <1>5 DEF FolderFits, FolderMoves

LEMMA StageIs ==
  ASSUME CloudInv, NEW u \in Writers, NEW st \in WriterStages, Cloud!Stage(u, st)
  PROVE  /\ \E w \in WriterType : /\ writer' = [writer EXCEPT ![u] = w] /\ w.at = st
                                  /\ w.row = writer[u].row /\ w.grant = writer[u].grant
                                  /\ w.got = writer[u].got
         /\ writer'[u].at = st /\ \A v \in Writers \ {u} : writer'[v] = writer[v]
<1> DEFINE w == [writer[u] EXCEPT !.at = st]
<1>1. writer[u] \in WriterType /\ writer \in [Writers -> WriterType]
  BY DEF CloudInv, CloudTypes, WriterTypes
<1>2. w \in WriterType /\ w.at = st /\ w.row = writer[u].row /\ w.grant = writer[u].grant /\ w.got = writer[u].got
  BY <1>1 DEF WriterType
<1>3. writer' = [writer EXCEPT ![u] = w]
  BY DEF Cloud!Stage
<1> HIDE DEF w
<1> QED
  BY <1>1, <1>2, <1>3

LEMMA WriterIs ==
  ASSUME CloudInv, NEW u \in Writers
  PROVE  /\ writer[u] \in WriterType
         /\ writer[u].at # "new" => writer[u].row \in 1..Len(config) /\ writer[u].grant \in Flows
         /\ writer[u].at = "rotated" => writer[u].got \in Flows
         /\ session[u] = "open" => writer[u].at \in {"send", "gone"}
         /\ session \in SessionType /\ folder \in FolderType
BY DEF CloudInv, CloudTypes, WriterTypes, WritersFit, WriterFits, SessionType, FolderType

LEMMA SessionStands ==
  ASSUME CloudInv, NEW u \in Writers, NEW w, session' = session, writer[u].at \notin {"send", "gone"}
  PROVE  SessionMoves(u, w)
BY WriterIs DEF SessionMoves

LEMMA BeginStep ==
  ASSUME CloudInv, NEW u \in Writers, NEW i \in Flows, Cloud!Begin(u, i)
  PROVE  CloudInv'
<1> DEFINE w == [writer[u] EXCEPT !.at = "token", !.row = i, !.grant = provider[i].grant]
<1>1. /\ writer[u].at = "new" /\ i \in 1..Len(config) /\ writer' = [writer EXCEPT ![u] = w]
      /\ folder' = folder /\ session' = session
  BY DEF Cloud!Begin, CloudInv, RowsFit
<1>2. provider[i].grant \in Flows /\ i \in Nat
  <2>1. provider \in Seq(Grant) /\ i \in 1..Len(provider)
    BY <1>1 DEF CloudInv, CloudTypes, GrantTypes, RowsFit
  <2>2. provider[i] \in Grant
    BY <2>1
  <2> QED
    BY <2>2, CloudIs DEF Grant
<1>3. writer[u] \in WriterType
  BY WriterIs
<1>4. w \in WriterType /\ w.at = "token" /\ w.row = i /\ w.grant = provider[i].grant
  BY <1>2, <1>3 DEF WriterType, WriterStages
<1> HIDE DEF w
<1>5. FolderMoves /\ SessionMoves(u, w)
  BY <1>1, <1>3, <1>4, FolderStands, SessionStands
<1>6. Moves(u, w)
  BY <1>1, <1>2, <1>4 DEF Moves
<1>7. OthersStand
  BY DEF Cloud!Begin, Cloud!flowVars, Cloud!accountVars, OthersStand
<1> QED
  BY <1>4, <1>5, <1>6, <1>7, WriterGoes

LEMMA TokenStep ==
  ASSUME CloudInv, NEW u \in Writers, NEW rotated \in BOOLEAN, Cloud!Token(u, rotated)
  PROVE  CloudInv'
<1> DEFINE st == IF rotated THEN "rotated" ELSE "folder"
           t == IF rotated THEN writer[u].grant ELSE 0
           w == [writer[u] EXCEPT !.at = st, !.got = t]
<1>1. /\ writer[u].at = "token" /\ writer' = [writer EXCEPT ![u] = w] /\ folder' = folder /\ session' = session
  BY DEF Cloud!Token
<1>2. writer[u] \in WriterType
  BY WriterIs
<1>3. /\ writer[u].row \in 1..Len(config) /\ writer[u].grant \in Flows
  BY <1>1, WriterIs
<1>4. st \in {"rotated", "folder"} /\ t \in {0} \cup Flows /\ (st = "rotated" => t \in Flows)
  BY <1>3
<1> HIDE DEF st, t
<1>5. w \in WriterType /\ w.at = st /\ w.row = writer[u].row /\ w.grant = writer[u].grant /\ w.got = t
  BY <1>2, <1>4 DEF WriterType, WriterStages
<1> HIDE DEF w
<1>6. FolderMoves /\ SessionMoves(u, w)
  BY <1>1, <1>2, <1>4, <1>5, FolderStands, SessionStands
<1>7. Moves(u, w)
  BY <1>1, <1>3, <1>4, <1>5 DEF Moves
<1>8. OthersStand
  BY DEF Cloud!Token, Cloud!flowVars, Cloud!accountVars, OthersStand
<1> QED
  BY <1>5, <1>6, <1>7, <1>8, WriterGoes

\* A stage of an upload at the folder.
LEMMA AtFolder ==
  ASSUME CloudInv, NEW u \in Writers, NEW st \in WriterStages, Cloud!Stage(u, st),
         st \in {"find", "create", "await folder", "send"},
         writer[u].at \in {"folder", "find", "await folder"}, FolderMoves, OthersStand, session' = session
  PROVE  CloudInv'
<1> DEFINE w == [writer[u] EXCEPT !.at = st]
<1>1. st \notin {"new", "rotated"} /\ writer[u] \in WriterType /\ writer' = [writer EXCEPT ![u] = w]
  BY WriterIs DEF Cloud!Stage
<1>2. w \in WriterType /\ w.at = st /\ w.row = writer[u].row /\ w.grant = writer[u].grant
  BY <1>1 DEF WriterType
<1> HIDE DEF w
<1>3. SessionMoves(u, w)
  BY SessionStands
<1>4. Moves(u, w)
  BY <1>1, <1>2, WriterIs DEF Moves
<1> QED
  BY <1>2, <1>3, <1>4, WriterGoes

LEMMA FolderStep ==
  ASSUME CloudInv, NEW u \in Writers, Cloud!Folder(u)
  PROVE  CloudInv'
<1>1. /\ writer[u].at = "folder" /\ LockFits /\ MadeFits /\ WaitFits /\ folder \in FolderType
      /\ OthersStand /\ session' = session
  BY WriterIs DEF Cloud!Folder, CloudInv, FolderFits, Cloud!flowVars, Cloud!accountVars, OthersStand
<1>2. {"find", "await folder", "send"} \subseteq WriterStages
  BY DEF WriterStages
<1>3. CASE folder.cached /\ Cloud!Stage(u, "send") /\ folder' = folder
  <2>1. writer'[u].at = "send" /\ \A v \in Writers \ {u} : writer'[v] = writer[v]
    BY <1>2, <1>3, StageIs
  <2>2. LockFits'
    BY <1>1, <1>3, <2>1 DEF LockFits
  <2>3. MadeFits'
    BY <1>1, <1>3, <2>1 DEF MadeFits
  <2>4. WaitFits'
    BY <1>1, <1>3, <2>1 DEF WaitFits
  <2>5. FolderMoves
    BY <1>1, <1>3, <2>2, <2>3, <2>4 DEF FolderMoves, FolderFits, FolderType
  <2> QED
    BY <1>1, <1>2, <1>3, <2>5, AtFolder
<1>4. CASE folder.lock # {} /\ Cloud!Stage(u, "await folder") /\ folder' = folder
  <2>1. writer'[u].at = "await folder" /\ \A v \in Writers \ {u} : writer'[v] = writer[v]
    BY <1>2, <1>4, StageIs
  <2>2. LockFits'
    BY <1>1, <1>4, <2>1 DEF LockFits
  <2>3. MadeFits'
    BY <1>1, <1>4, <2>1 DEF MadeFits
  <2>4. WaitFits'
    BY <1>1, <1>4, <2>1 DEF WaitFits
  <2>5. FolderMoves
    BY <1>1, <1>4, <2>2, <2>3, <2>4 DEF FolderMoves, FolderFits, FolderType
  <2> QED
    BY <1>1, <1>2, <1>4, <2>5, AtFolder
<1>5. CASE /\ ~folder.cached /\ folder.lock = {} /\ Cloud!Stage(u, "find")
           /\ folder' = [folder EXCEPT !.lock = {u}]
  <2>1. writer'[u].at = "find" /\ \A v \in Writers \ {u} : writer'[v] = writer[v]
    BY <1>2, <1>5, StageIs
  <2>2. folder' \in FolderType /\ folder'.lock = {u} /\ folder'.cached = folder.cached /\ folder'.made = folder.made
    BY <1>1, <1>5 DEF FolderType
  <2>3. LockFits'
    BY <1>1, <1>5, <2>1, <2>2 DEF LockFits
  <2>4. MadeFits'
    BY <1>1, <2>1, <2>2 DEF MadeFits
  <2>5. WaitFits'
    BY <1>5, <2>2 DEF WaitFits
  <2>6. FolderMoves
    BY <2>2, <2>3, <2>4, <2>5 DEF FolderMoves, FolderFits
  <2> QED
    BY <1>1, <1>2, <1>5, <2>6, AtFolder
<1> QED
  BY <1>3, <1>4, <1>5 DEF Cloud!Folder

LEMMA FindStep ==
  ASSUME CloudInv, NEW u \in Writers, Cloud!Find(u)
  PROVE  CloudInv'
<1>1. /\ writer[u].at = "find" /\ LockFits /\ MadeFits /\ WaitFits /\ folder \in FolderType
      /\ OthersStand /\ session' = session
  BY WriterIs DEF Cloud!Find, Cloud!Found, CloudInv, FolderFits, Cloud!flowVars, Cloud!accountVars, OthersStand
<1>2. /\ {"send", "create"} \subseteq WriterStages
      /\ u \in folder.lock /\ \A v \in folder.lock : v = u
  BY <1>1 DEF WriterStages, LockFits
<1>3. CASE Cloud!Stage(u, "send") /\ folder' = [folder EXCEPT !.cached = TRUE, !.lock = {}]
  <2>1. writer'[u].at = "send" /\ \A v \in Writers \ {u} : writer'[v] = writer[v]
    BY <1>2, <1>3, StageIs
  <2>2. folder' \in FolderType /\ folder'.lock = {} /\ folder'.cached = TRUE /\ folder'.made = folder.made
    BY <1>1, <1>3 DEF FolderType
  <2>3. LockFits'
    BY <1>1, <1>2, <2>1, <2>2 DEF LockFits
  <2>4. MadeFits'
    BY <1>1, <2>1, <2>2 DEF MadeFits
  <2>5. WaitFits'
    BY <2>2 DEF WaitFits
  <2>6. FolderMoves
    BY <2>2, <2>3, <2>4, <2>5 DEF FolderMoves, FolderFits
  <2> QED
    BY <1>1, <1>2, <1>3, <2>6, AtFolder
<1>4. CASE ~(folder.made > 0) /\ Cloud!Stage(u, "create") /\ folder' = folder
  <2>1. writer'[u].at = "create" /\ \A v \in Writers \ {u} : writer'[v] = writer[v]
    BY <1>2, <1>4, StageIs
  <2>2. folder.made = 0
    BY <1>1, <1>4 DEF FolderType
  <2>3. LockFits'
    BY <1>1, <1>4, <2>1 DEF LockFits
  <2>4. MadeFits'
    BY <1>1, <1>4, <2>1, <2>2 DEF MadeFits
  <2>5. WaitFits'
    BY <1>1, <1>4, <2>1 DEF WaitFits
  <2>6. FolderMoves
    BY <1>1, <1>4, <2>3, <2>4, <2>5 DEF FolderMoves, FolderFits, FolderType
  <2> QED
    BY <1>1, <1>2, <1>4, <2>6, AtFolder
<1> QED
  BY <1>3, <1>4 DEF Cloud!Find, Cloud!Found

LEMMA JoinStep ==
  ASSUME CloudInv, NEW u \in Writers, Cloud!Join(u)
  PROVE  CloudInv'
<1>1. /\ writer[u].at = "await folder" /\ LockFits /\ MadeFits /\ WaitFits /\ folder \in FolderType
      /\ OthersStand /\ session' = session /\ folder' = folder /\ Cloud!Stage(u, "send")
  BY WriterIs DEF Cloud!Join, CloudInv, FolderFits, Cloud!flowVars, Cloud!accountVars, OthersStand
<1>2. "send" \in WriterStages
  BY DEF WriterStages
<1>3. writer'[u].at = "send" /\ \A v \in Writers \ {u} : writer'[v] = writer[v]
  BY <1>1, <1>2, StageIs
<1>4. LockFits'
  BY <1>1, <1>3 DEF LockFits
<1>5. MadeFits'
  BY <1>1, <1>3 DEF MadeFits
<1>6. WaitFits'
  BY <1>1, <1>3 DEF WaitFits
<1>7. FolderMoves
  BY <1>1, <1>4, <1>5, <1>6 DEF FolderMoves, FolderFits, FolderType
<1> QED
  BY <1>1, <1>2, <1>7, AtFolder

\* Creating the folder, or failing to, ends the wait of everybody who waits for it.
LEMMA CreateStep ==
  ASSUME CloudInv, NEW u \in Writers, NEW ok \in BOOLEAN, Cloud!Create(u, ok)
  PROVE  CloudInv'
<1> DEFINE st == IF ok THEN "send" ELSE "failed"
           ended == Cloud!Waiting \cup {u}
           new(v) == [writer[v] EXCEPT !.at = st]
<1>1. /\ writer[u].at = "create" /\ LockFits /\ MadeFits /\ WaitFits /\ folder \in FolderType
      /\ OthersStand /\ session' = session /\ session \in SessionType
  BY WriterIs DEF Cloud!Create, CloudInv, FolderFits, Cloud!flowVars, Cloud!accountVars, OthersStand
<1>2. st \in {"send", "failed"} /\ st \in WriterStages
  BY DEF WriterStages
<1>3. \A v \in Writers : v \in ended <=> writer[v].at = "await folder" \/ v = u
  BY DEF Cloud!Waiting
<1>4. writer' = [v \in Writers |-> IF v \in ended THEN new(v) ELSE writer[v]]
  BY DEF Cloud!Create
<1> HIDE DEF st, ended
<1>5. ASSUME NEW v \in Writers
      PROVE  /\ new(v) \in WriterType /\ new(v).at = st
             /\ new(v).row = writer[v].row /\ new(v).grant = writer[v].grant
  BY <1>2, WriterIs DEF WriterType
<1> HIDE DEF new
<1>6. /\ writer' \in [Writers -> WriterType]
      /\ \A v \in Writers : IF writer[v].at = "await folder" \/ v = u
                            THEN /\ writer'[v].at = st /\ writer'[v].row = writer[v].row
                                 /\ writer'[v].grant = writer[v].grant
                            ELSE writer'[v] = writer[v]
  BY <1>3, <1>4, <1>5, WriterIs
<1>7. u \in folder.lock /\ folder.made = 0 /\ \A v \in folder.lock : v = u
  BY <1>1 DEF LockFits, MadeFits
<1>8. folder' \in FolderType /\ folder'.lock = {} /\ folder'.made <= 1
  <2>1. CASE folder' = [cached |-> TRUE, lock |-> {}, made |-> folder.made + 1]
    BY <1>7, <2>1 DEF FolderType
  <2>2. CASE folder' = [folder EXCEPT !.lock = {}]
    BY <1>1, <1>7, <2>2 DEF FolderType
  <2> QED
    BY <2>1, <2>2 DEF Cloud!Create
<1>9. ASSUME NEW v \in Writers
      PROVE  writer'[v].at \notin {"find", "create", "await folder"}
  <2>1. CASE writer[v].at = "await folder" \/ v = u
    BY <1>2, <1>6, <2>1
  <2>2. CASE ~(writer[v].at = "await folder" \/ v = u)
    <3>1. writer'[v] = writer[v]
      BY <1>6, <2>2
    <3>2. writer[v].at \notin {"find", "create"}
      BY <1>1, <1>7, <2>2 DEF LockFits
    <3> QED
      BY <2>2, <3>1, <3>2
  <2> QED
    BY <2>1, <2>2
<1>10. FolderFits'
  <2>1. LockFits'
    BY <1>8, <1>9 DEF LockFits
  <2>2. MadeFits'
    BY <1>8, <1>9 DEF MadeFits
  <2>3. WaitFits'
    BY <1>8, <1>9 DEF WaitFits
  <2> QED
    BY <2>1, <2>2, <2>3 DEF FolderFits
<1>11. WritersFit'
  <2>1. ASSUME NEW v \in Writers
        PROVE  WriterFits(v)'
    BY <1>1, <1>2, <1>6, WriterIs DEF OthersStand, WriterFits, Flows, Cloud!Flows
  <2> QED
    BY <2>1 DEF WritersFit
<1>12. CloudTypes'
  BY <1>1, <1>6, <1>8 DEF CloudInv, CloudTypes, FlowTypes, GrantTypes, WriterTypes, Grant, Flows, Cloud!Flows,
     WriterType, OthersStand, FolderType, SessionType
<1>13. FlowsFit' /\ RowsFit'
  BY <1>1 DEF CloudInv, FlowsFit, RowsFit, Flows, Cloud!Flows, OthersStand
<1> QED
  BY <1>10, <1>11, <1>12, <1>13 DEF CloudInv

LEMMA SendChunkStep ==
  ASSUME CloudInv, NEW u \in Writers, NEW ok \in BOOLEAN, Cloud!Send(u, ok)
  PROVE  CloudInv'
<1>1. /\ writer[u].at = "send" /\ writer[u] \in WriterType /\ session \in SessionType
      /\ writer[u].row \in 1..Len(config) /\ writer[u].grant \in Flows
      /\ folder' = folder /\ OthersStand
  BY WriterIs DEF Cloud!Send, Cloud!flowVars, Cloud!accountVars, OthersStand
<1>2. CASE ok
  <2> DEFINE n == writer[u].sent + 1
             st == IF n = Chunks THEN "done" ELSE "send"
             x == IF n = Chunks THEN "complete" ELSE "open"
             w == [writer[u] EXCEPT !.sent = n, !.at = st]
  <2>1. /\ writer' = [writer EXCEPT ![u] = w] /\ session' = [session EXCEPT ![u] = x]
    BY <1>2 DEF Cloud!Send
  <2>2. n \in Nat /\ st \in {"done", "send"} /\ x \in {"complete", "open"} /\ (x = "open" => st = "send")
    BY <1>1 DEF WriterType
  <2> HIDE DEF n, st, x
  <2>3. w \in WriterType /\ w.at = st /\ w.row = writer[u].row /\ w.grant = writer[u].grant
    BY <1>1, <2>2 DEF WriterType, WriterStages
  <2> HIDE DEF w
  <2>4. SessionMoves(u, w)
    BY <1>1, <2>1, <2>2, <2>3 DEF SessionMoves, SessionType
  <2>5. Moves(u, w)
    BY <1>1, <2>1, <2>2, <2>3 DEF Moves
  <2>6. FolderMoves
    BY <1>1, <2>1, <2>2, <2>3, FolderStands
  <2> QED
    BY <1>1, <2>3, <2>4, <2>5, <2>6, WriterGoes
<1>3. CASE ~ok
  <2>1. /\ Cloud!Stage(u, "failed") /\ "failed" \in WriterStages
        /\ \E x \in {"cancelled", "left"} : session' = [session EXCEPT ![u] = x]
    BY <1>3 DEF Cloud!Send, Cloud!CancelSession, WriterStages
  <2>2. PICK w \in WriterType : /\ writer' = [writer EXCEPT ![u] = w] /\ w.at = "failed"
                                /\ w.row = writer[u].row /\ w.grant = writer[u].grant
                                /\ w.got = writer[u].got
    BY <2>1, StageIs, Zenon
  <2>3. PICK x \in {"cancelled", "left"} : session' = [session EXCEPT ![u] = x]
    BY <2>1
  <2>4. SessionMoves(u, w)
    BY <1>1, <2>3 DEF SessionMoves, SessionType
  <2>5. Moves(u, w)
    BY <1>1, <2>2 DEF Moves
  <2>6. FolderMoves
    BY <1>1, <2>2, FolderStands
  <2> QED
    BY <1>1, <2>2, <2>4, <2>5, <2>6, WriterGoes
<1> QED
  BY <1>2, <1>3

\* A token that arrives after its row got another grant is counted as late.
LEMMA RotatedStep ==
  ASSUME CloudInv, NEW u \in Writers, Cloud!Rotated(u)
  PROVE  CloudInv'
<1> DEFINE r == writer[u].row
           g == [config[r] EXCEPT !.token = writer[u].got]
           b == late.late \/ writer[u].got # config[r].grant
           w == [writer[u] EXCEPT !.at = "folder", !.got = 0]
<1>1. /\ writer[u].at = "rotated" /\ writer[u] \in WriterType
      /\ r \in 1..Len(config) /\ writer[u].grant \in Flows /\ writer[u].got \in Flows
      /\ config \in Seq(Grant) /\ late \in [twice : BOOLEAN, late : BOOLEAN]
  BY WriterIs DEF Cloud!Rotated, CloudInv, CloudTypes, GrantTypes, WriterTypes
<1>2. /\ config' = [config EXCEPT ![r] = g] /\ writer' = [writer EXCEPT ![u] = w]
      /\ late' = [late EXCEPT !.late = b]
      /\ pending' = pending /\ issued' = issued /\ redeemed' = redeemed /\ callback' = callback
      /\ provider' = provider /\ folder' = folder /\ session' = session
  BY DEF Cloud!Rotated, Cloud!flowVars
<1>3. g \in Grant /\ g.grant = config[r].grant /\ g.token = writer[u].got
  <2>1. config[r] \in Grant
    BY <1>1
  <2> QED
    BY <1>1, <2>1 DEF Grant
<1>4. w \in WriterType /\ w.at = "folder" /\ w.row = r /\ w.grant = writer[u].grant
  BY <1>1 DEF WriterType, WriterStages
<1>5. /\ late' \in [twice : BOOLEAN, late : BOOLEAN] /\ late'.twice = late.twice
      /\ ~late'.late => ~late.late /\ writer[u].got = config[r].grant
  <2>1. b \in BOOLEAN /\ (~b => ~late.late /\ writer[u].got = config[r].grant)
    BY <1>1
  <2> HIDE DEF b
  <2>2. late' \in [twice : BOOLEAN, late : BOOLEAN] /\ late'.twice = late.twice /\ late'.late = b
    BY <1>1, <1>2, <2>1
  <2> QED
    BY <2>1, <2>2
<1> HIDE DEF r, g, b, w
<1>6. /\ config' \in Seq(Grant) /\ Len(config') = Len(config) /\ config'[r] = g
      /\ \A i \in 1..Len(config) : i # r => config'[i] = config[i]
  BY <1>1, <1>2, <1>3
<1>7. /\ writer \in [Writers -> WriterType] /\ writer' \in [Writers -> WriterType] /\ writer'[u] = w
      /\ \A v \in Writers \ {u} : writer'[v] = writer[v]
  BY <1>2, <1>4 DEF CloudInv, CloudTypes, WriterTypes
<1>8. RowsFit'
  <2>1. \A i \in 1..Len(config) : config'[i].grant = config[i].grant
    BY <1>3, <1>6
  <2>2. ASSUME ~late'.late, NEW i \in 1..Len(config)
        PROVE  config'[i].token = config'[i].grant
    <3>1. ~late.late /\ writer[u].got = config[r].grant
      BY <1>5, <2>2
    <3>2. config[i].token = config[i].grant
      BY <3>1 DEF CloudInv, RowsFit
    <3> QED
      BY <1>3, <1>6, <3>1, <3>2
  <2>3. ~late'.twice => Len(config') <= 1
    BY <1>5, <1>6 DEF CloudInv, RowsFit
  <2>4. /\ Len(provider') = Len(config') /\ \A i \in 1..Len(config') : provider'[i].grant = config'[i].grant
    BY <1>2, <1>6, <2>1 DEF CloudInv, RowsFit
  <2>5. \A f \in Flows : callback'[f] = "update" => Len(config') > 0
    BY <1>2, <1>6 DEF CloudInv, RowsFit
  <2> QED
    BY <1>6, <2>2, <2>3, <2>4, <2>5 DEF RowsFit, Flows, Cloud!Flows
<1>9. CloudTypes'
  BY <1>2, <1>5, <1>6, <1>7 DEF CloudInv, CloudTypes, FlowTypes, GrantTypes, WriterTypes, Grant, Flows, Cloud!Flows, WriterType
<1>10. FlowsFit'
  BY <1>2 DEF CloudInv, FlowsFit, Flows, Cloud!Flows
<1>11. WritersFit'
  <2>1. ASSUME NEW v \in Writers
        PROVE  WriterFits(v)'
    <3>1. CASE v = u
      BY <1>1, <1>2, <1>4, <1>6, <1>7, <3>1, WriterIs DEF WriterFits, Flows, Cloud!Flows
    <3>2. CASE v # u
      BY <1>2, <1>6, <1>7, <3>2 DEF CloudInv, WritersFit, WriterFits, Flows, Cloud!Flows
    <3> QED
      BY <3>1, <3>2
  <2> QED
    BY <2>1 DEF WritersFit
<1>12. FolderFits'
  <2>1. FolderMoves
    BY <1>1, <1>2, <1>4, FolderStands
  <2> QED
    BY <2>1 DEF FolderMoves
<1> QED
  BY <1>8, <1>9, <1>10, <1>11, <1>12 DEF CloudInv

\* After a restart no upload is at work and nobody holds the folder.
LEMMA CloudCrashStep ==
  ASSUME CloudInv, Cloud!Crash
  PROVE  CloudInv'
<1> DEFINE gone(u) == [writer[u] EXCEPT !.at = "gone", !.got = 0]
<1>1. /\ pending' = pending /\ issued' = issued /\ redeemed' = redeemed /\ config' = config
      /\ session' = session /\ late' = late /\ provider' = config
      /\ callback' = [f \in Flows |-> IF callback[f] = "none" THEN "none" ELSE "over"]
      /\ folder' = [folder EXCEPT !.cached = FALSE, !.lock = {}]
      /\ writer' = [u \in Writers |-> IF writer[u].at = "new" THEN Cloud!NoUpload ELSE gone(u)]
  BY DEF Cloud!Crash, Flows
<1>2. ASSUME NEW u \in Writers
      PROVE  /\ gone(u) \in WriterType /\ gone(u).at = "gone"
             /\ gone(u).row = writer[u].row /\ gone(u).grant = writer[u].grant
  BY WriterIs DEF WriterType, WriterStages
<1>3. Cloud!NoUpload \in WriterType /\ Cloud!NoUpload.at = "new"
  BY DEF Cloud!NoUpload, WriterType, WriterStages
<1> HIDE DEF gone
<1>4. /\ writer' \in [Writers -> WriterType]
      /\ \A u \in Writers : IF writer[u].at = "new" THEN writer'[u].at = "new"
                            ELSE /\ writer'[u].at = "gone" /\ writer'[u].row = writer[u].row
                                 /\ writer'[u].grant = writer[u].grant
  BY <1>1, <1>2, <1>3
<1>5. /\ callback' \in [Flows -> CallbackStages] /\ \A f \in Flows : callback'[f] # "update"
  BY <1>1 DEF CallbackStages
<1>6. folder' \in FolderType /\ folder'.lock = {} /\ folder'.cached = FALSE /\ folder'.made = folder.made
  BY <1>1 DEF CloudInv, CloudTypes, WriterTypes, FolderType
<1>7. CloudTypes'
  BY <1>1, <1>4, <1>5, <1>6 DEF CloudInv, CloudTypes, FlowTypes, GrantTypes, WriterTypes, Grant, Flows, Cloud!Flows, WriterType, FolderType
<1>8. FlowsFit' /\ RowsFit'
  BY <1>1, <1>5 DEF CloudInv, FlowsFit, RowsFit, Flows, Cloud!Flows
<1>9. WritersFit'
  <2>1. ASSUME NEW u \in Writers
        PROVE  WriterFits(u)'
    BY <1>1, <1>4, WriterIs DEF WriterFits, Flows, Cloud!Flows
  <2> QED
    BY <2>1 DEF WritersFit
<1>10. FolderFits'
  <2>1. \A u \in Writers : writer'[u].at \in {"new", "gone"}
    BY <1>4
  <2>2. LockFits'
    BY <1>6, <2>1 DEF LockFits
  <2>3. MadeFits'
    BY <1>6, <2>1 DEF MadeFits, CloudInv, FolderFits
  <2>4. WaitFits'
    BY <1>6, <2>1 DEF WaitFits
  <2> QED
    BY <2>2, <2>3, <2>4 DEF FolderFits
<1> QED
  BY <1>7, <1>8, <1>9, <1>10 DEF CloudInv

LEMMA CloudStep ==
  ASSUME CloudInv, [Cloud!Next]_Cloud!vars
  PROVE  CloudInv'
<1>1. CASE UNCHANGED Cloud!vars
  <2>1. /\ pending' = pending /\ issued' = issued /\ redeemed' = redeemed /\ callback' = callback
        /\ config' = config /\ provider' = provider /\ late' = late
        /\ writer' = writer /\ folder' = folder /\ session' = session
    BY <1>1 DEF Cloud!vars
  <2>2. FlowTypes'
    BY <2>1 DEF CloudInv, CloudTypes, FlowTypes, Flows, Cloud!Flows
  <2>3. FlowsFit'
    BY <2>1 DEF CloudInv, FlowsFit, Flows, Cloud!Flows
  <2> QED
    BY <2>1, <2>2, <2>3, FlowGoes
<1>2. ASSUME NEW s \in Sessions, Cloud!Issue(s) \/ Cloud!Lapse(s) \/ \E f \in Flows : Cloud!Callback(s, f)
      PROVE  CloudInv'
  BY <1>2, IssueStep, LapseStep, CallbackStep
<1>3. ASSUME NEW f \in Flows, Cloud!AddAccount(f) \/ \E ok \in BOOLEAN : Cloud!Exchange(f, ok)
      PROVE  CloudInv'
  BY <1>3, AddAccountStep, ExchangeStep
<1>4. ASSUME NEW u \in Writers, Cloud!Step(u)
      PROVE  CloudInv'
  BY <1>4, RotatedStep, FolderStep, FindStep, CreateStep, JoinStep, SendChunkStep DEF Cloud!Step
<1>5. ASSUME NEW u \in Writers, Cloud!Create(u, FALSE) \/ Cloud!Send(u, FALSE)
      PROVE  CloudInv'
  BY <1>5, CreateStep, SendChunkStep
<1>6. ASSUME NEW u \in Writers, \/ \E i \in Flows : Cloud!Begin(u, i)
                                \/ \E r \in BOOLEAN : Cloud!Token(u, r)
      PROVE  CloudInv'
  BY <1>6, BeginStep, TokenStep
<1> QED
  BY <1>1, <1>2, <1>3, <1>4, <1>5, <1>6, CloudCrashStep DEF Cloud!Next, Flows
-----------------------------------------------------------------------------
\* A flow is redeemed by the session it was issued to, a row keeps the token of its grant,
\* and who is at the folder holds its lock.
THEOREM CloudInvariant == Cloud!CloudAssumption /\ Cloud!Spec => []CloudInv
<1>1. Cloud!CloudAssumption /\ Cloud!Init => CloudInv
  BY CloudStarts
<1>2. CloudInv /\ [Cloud!Next]_Cloud!vars => CloudInv'
  BY CloudStep
<1> QED
  BY <1>1, <1>2, PTL DEF Cloud!Spec

\* Every variable has its type, and there is one provider in memory for each row.
THEOREM CloudTypeCorrect == Cloud!CloudAssumption /\ Cloud!Spec => []Cloud!TypeOK
<1>1. ASSUME CloudInv
      PROVE  Cloud!TypeOK
  <2>1. /\ FlowTypes /\ WriterTypes /\ Len(provider) = Len(config)
    BY <1>1 DEF CloudInv, CloudTypes, RowsFit
  <2>2. redeemed \in [Cloud!Flows -> 0..2]
    BY <2>1 DEF FlowTypes, Flows
  <2>3. folder.lock \subseteq Writers
    BY <2>1 DEF WriterTypes
  <2> QED
    BY <2>1, <2>2, <2>3 DEF FlowTypes, WriterTypes, Cloud!TypeOK, Flows, CallbackStages
<1> QED
  BY <1>1, CloudInvariant, PTL

\* A flow is redeemed at most once, by the session it was issued to, and never after a later
\* one was issued to that session.
THEOREM FlowsRedeemedOnce == Cloud!CloudAssumption /\ Cloud!Spec => []Cloud!OneRedemption
<1>1. ASSUME CloudInv
      PROVE  Cloud!OneRedemption
  <2>1. \A f \in Flows : redeemed[f] <= 1
    <3>1. redeemed \in [Flows -> 0..1]
      BY <1>1 DEF CloudInv, CloudTypes, FlowTypes
    <3> QED
      BY <3>1
  <2> QED
    BY <1>1, <2>1 DEF CloudInv, FlowsFit, Cloud!OneRedemption, Flows
<1> QED
  BY <1>1, CloudInvariant, PTL

\* The refresh token of a row is of its grant, unless an upload brought one of the grant
\* before; a client id has one account, unless two callbacks both found none.
THEOREM TokensFit == Cloud!CloudAssumption /\ Cloud!Spec => []Cloud!TokenFitsGrant
<1>1. ASSUME CloudInv
      PROVE  Cloud!TokenFitsGrant
  BY <1>1 DEF CloudInv, RowsFit, Cloud!TokenFitsGrant
<1> QED
  BY <1>1, CloudInvariant, PTL

\* Uploads that need the folder at the same time create it once, over errors and restarts.
THEOREM FolderMadeOnce == Cloud!CloudAssumption /\ Cloud!Spec => []Cloud!OneFolder
<1>1. ASSUME CloudInv
      PROVE  Cloud!OneFolder
  BY <1>1 DEF CloudInv, FolderFits, MadeFits, Cloud!OneFolder
<1> QED
  BY <1>1, CloudInvariant, PTL

\* An upload session is open only while its upload sends, or the server stopped; nobody
\* waits for a folder that nobody looks for or creates.
THEOREM NothingStaysOpen == Cloud!CloudAssumption /\ Cloud!Spec => []Cloud!NothingLeftOpen
<1>1. ASSUME CloudInv
      PROVE  Cloud!NothingLeftOpen
  <2>1. \A u \in Writers : session[u] = "open" => writer[u].at \in {"send", "gone"}
    BY <1>1, WriterIs
  <2>2. ASSUME Cloud!Waiting # {}, ~folder.cached
        PROVE  \E u \in folder.lock : writer[u].at \in {"find", "create"}
    <3>1. LockFits /\ WaitFits /\ folder.lock \subseteq Writers
      BY <1>1 DEF CloudInv, FolderFits, CloudTypes, WriterTypes
    <3>2. PICK u \in folder.lock : TRUE
      BY <2>2, <3>1 DEF WaitFits, Cloud!Waiting
    <3> QED
      BY <3>1, <3>2 DEF LockFits
  <2> QED
    BY <2>1, <2>2 DEF Cloud!NothingLeftOpen
<1> QED
  BY <1>1, CloudInvariant, PTL
-----------------------------------------------------------------------------
(* Thumbnails and previews (MediaDerivatives)                               *)

CONSTANTS Files, Remote, Slots, Batch, Requests
VARIABLES derived, source, shown, job, queue, saved, deleting, request, halfDone, mediaEvents
Media == INSTANCE MediaDerivatives WITH
    row <- derived, upload <- saved, events <- mediaEvents, lost <- halfDone

Unsettled == {"queued", "processing"}
Waits == {"queue", "claim"}
Works == {"thumbnail", "dimensions", "preview", "store", "fail"}
JobStages == {"none", "clean"} \cup Waits \cup Works
DerivedType == [status : {"none", "queued", "processing", "ready", "failed"}, preview : Nat]
JobType == [at : JobStages, late : BOOLEAN, made : Nat]

DerivedTypes ==
    /\ Media!DerivativesAssumption /\ derived \in [Files -> DerivedType]
    /\ source \in SUBSET Files /\ halfDone \in SUBSET Files
    /\ saved \in [Files -> {"none", "indexed", "done"}]
    /\ deleting \in [Files -> Nat \cup {-1}] /\ request \in [Requests -> Files \cup {"none"}]
JobTypes == job \in [Files -> JobType] /\ queue \in Seq(Files)
ShownTypes == shown \in SUBSET (Files \X Nat) /\ \E b \in Nat : \A p \in shown : p[2] <= b

\* Every file of the queue waits in it, once.
QueueFits ==
    /\ \A i \in 1..Len(queue) : job[queue[i]].at = "queue"
    /\ \A i, j \in 1..Len(queue) : queue[i] = queue[j] => i = j

\* How far a job is tells the status of its row, if the row is still there.
StageFits(f) ==
    /\ saved[f] = "none" => derived[f].status = "none" /\ job[f].at = "none" /\ deleting[f] = -1
    /\ saved[f] = "indexed" => derived[f].status = "queued" /\ job[f].at = "none" /\ deleting[f] = -1
    /\ derived[f].status = "none" => derived[f].preview = 0
    /\ job[f].at \in Waits => derived[f].status \in {"queued", "none"}
    /\ job[f].at \in Works => derived[f].status \in {"processing", "none"}
    /\ job[f].at = "clean" => derived[f].status \notin Unsettled \/ f \in halfDone

\* What a job works on is there, and a temporary copy does not outlive its job.
SourceFits(f) ==
    /\ derived[f].status \in Unsettled /\ deleting[f] = -1 /\ job[f].at # "clean" /\ f \notin halfDone =>
         f \in source
    /\ f \in Remote \cap source /\ derived[f].status \in {"ready", "failed"} =>
         job[f].at = "clean" \/ f \in halfDone

\* While nothing deletes the file, the preview that its row names, or is to name, is there.
PreviewFits(f) ==
    deleting[f] = -1 /\ f \notin halfDone /\ derived[f].status # "none" =>
        /\ derived[f].status = "ready" => << f, derived[f].preview >> \in shown
        /\ job[f].at = "store" => << f, job[f].made >> \in shown

DerivedFits(f) == StageFits(f) /\ SourceFits(f) /\ PreviewFits(f)
MediaInv == DerivedTypes /\ JobTypes /\ ShownTypes /\ QueueFits /\ \A f \in Files : DerivedFits(f)
-----------------------------------------------------------------------------
LEMMA MediaIs ==
  /\ Media!NoJob = [at |-> "none", late |-> FALSE, made |-> 0]
  /\ Media!NoRow = [status |-> "none", preview |-> 0]
  /\ Media!Working = {"claim", "thumbnail", "dimensions", "preview", "store", "fail", "clean"}
  /\ Media!Generating = {"thumbnail", "dimensions", "preview"}
  /\ \A S : Media!Cardinality(S) = Cardinality(S)
  /\ \A S : Media!IsFiniteSet(S) = IsFiniteSet(S)
BY DEF Media!NoJob, Media!NoRow, Media!Working, Media!Generating, Media!Cardinality, Cardinality,
       Media!IsFiniteSet, IsFiniteSet

LEMMA HasMinimum ==
  ASSUME NEW T \in SUBSET Nat, T # {}
  PROVE  \E m \in T : \A n \in T : m <= n
<1> DEFINE Below == {ss \in Nat \X Nat : ss[1] < ss[2]}
<1>1. IsWellFoundedOn(Below, Nat)
  BY NatLessThanWellFounded DEF OpToRel
<1> HIDE DEF Below
<1>2. PICK m \in T : \A n \in T : <<n, m>> \notin Below
  BY <1>1, WFMin
<1>3. \A n \in T : ~(n < m)
  BY <1>2 DEF Below
<1> QED
  BY <1>3

\* A set of numbers with a bound has a greatest one.
LEMMA TopIs ==
  ASSUME NEW S \in SUBSET Nat, S # {}, NEW b \in Nat, \A n \in S : n <= b
  PROVE  Media!Max(S) \in S /\ \A n \in S : Media!Max(S) >= n
<1> DEFINE T == {t \in Nat : \A n \in S : n <= t}
<1>1. b \in T /\ T \in SUBSET Nat
  OBVIOUS
<1>2. PICK m \in T : \A t \in T : m <= t
  BY <1>1, HasMinimum
<1>3. m \in S
  <2>1. CASE m = 0
    <3>1. PICK n \in S : TRUE
      OBVIOUS
    <3> QED
      BY <1>2, <2>1, <3>1
  <2>2. CASE m > 0 /\ m \notin S
    <3>1. m - 1 \in T
      BY <1>2, <2>2
    <3> QED
      BY <1>2, <3>1
  <2> QED
    BY <1>2, <2>1, <2>2
<1>4. \E x \in S : \A n \in S : x >= n
  BY <1>2, <1>3
<1> QED
  BY <1>4 DEF Media!Max

\* The number of a new preview of a file.
LEMMA NewIs ==
  ASSUME ShownTypes, NEW f \in Files
  PROVE  \E n \in Nat : Media!New(f) = <<f, n>>
<1> DEFINE S == {0} \cup {p[2] : p \in {q \in shown : q[1] = f}}
<1>1. S \in SUBSET Nat /\ S # {}
  BY DEF ShownTypes
<1>2. PICK b \in Nat : \A p \in shown : p[2] <= b
  BY DEF ShownTypes
<1>3. \A n \in S : n <= b
  BY <1>2
<1>4. Media!New(f) = <<f, 1 + Media!Max(S)>>
  BY DEF Media!New
<1> HIDE DEF S
<1>5. Media!Max(S) \in Nat
  BY <1>1, <1>2, <1>3, TopIs
<1> QED
  BY <1>4, <1>5

LEMMA ShownIs ==
  ASSUME ShownTypes, NEW f \in Files, NEW n \in Nat, NEW s, s = shown \cup {<<f, n>>}
  PROVE  s \in SUBSET (Files \X Nat) /\ \E b \in Nat : \A p \in s : p[2] <= b
<1>1. PICK b \in Nat : \A p \in shown : p[2] <= b
  BY DEF ShownTypes
<1>2. PICK c \in Nat : b <= c /\ n <= c
  <2>1. CASE b <= n
    BY <2>1
  <2>2. CASE n <= b
    BY <2>2
  <2> QED
    BY <2>1, <2>2
<1>3. shown \in SUBSET (Files \X Nat) /\ s \in SUBSET (Files \X Nat)
  BY DEF ShownTypes
<1>4. \A p \in s : p[2] <= c
  <2>1. ASSUME NEW p \in shown
        PROVE  p[2] <= c
    <3>1. p[2] <= b /\ p[2] \in Nat
      BY <1>1, <1>3
    <3> QED
      BY <1>2, <3>1
  <2> QED
    BY <1>2, <2>1
<1> QED
  BY <1>3, <1>4

-----------------------------------------------------------------------------
\* The beginning of a queue and the rest.
LEMMA TakenIs ==
  ASSUME NEW S, NEW q \in Seq(S), NEW k \in Int, k <= Len(q)
  PROVE  \E m \in 0..Len(q) :
            /\ SubSeq(q, 1, k) \in Seq(S) /\ Len(SubSeq(q, 1, k)) = m
            /\ \A i \in 1..m : SubSeq(q, 1, k)[i] = q[i]
<1>1. CASE k >= 0
  <2>1. SubSeq(q, 1, k) \in Seq(S) /\ Len(SubSeq(q, 1, k)) = k /\ \A i \in 1..k : SubSeq(q, 1, k)[i] = q[i]
    BY <1>1
  <2> QED
    BY <1>1, <2>1
<1>2. CASE k < 0
  <2>1. SubSeq(q, 1, k) = << >>
    BY <1>2 
  <2>2. SubSeq(q, 1, k) \in Seq(S) /\ Len(SubSeq(q, 1, k)) = 0
    BY <2>1
  <2> QED
    BY <2>2
<1> QED
  BY <1>1, <1>2

LEMMA RestIs ==
  ASSUME NEW S, NEW q \in Seq(S), NEW m \in 0..Len(q)
  PROVE  /\ SubSeq(q, m + 1, Len(q)) \in Seq(S) /\ Len(SubSeq(q, m + 1, Len(q))) = Len(q) - m
         /\ \A i \in 1..(Len(q) - m) : SubSeq(q, m + 1, Len(q))[i] = q[i + m]
OBVIOUS

LEMMA LeastIs ==
  ASSUME NEW a \in Int, NEW b \in Int
  PROVE  Media!Min({a, b}) \in {a, b} /\ Media!Min({a, b}) <= a /\ Media!Min({a, b}) <= b
<1>1. \E x \in {a, b} : \A y \in {a, b} : x =< y
  <2>1. CASE a <= b
    BY <2>1
  <2>2. CASE b <= a
    BY <2>2
  <2> QED
    BY <2>1, <2>2
<1> QED
  BY <1>1 DEF Media!Min

\* drain takes the first jobs of the queue and leaves the others in it.
InQueue(j, q) ==
    /\ \A i \in 1..Len(q) : j[q[i]].at = "queue"
    /\ \A i, k \in 1..Len(q) : q[i] = q[k] => i = k

LEMMA DrainIs ==
  ASSUME DerivedTypes, NEW j \in [Files -> JobType], NEW q \in Seq(Files), InQueue(j, q), Media!Drain(j, q)
  PROVE  /\ JobTypes' /\ QueueFits'
         /\ \A f \in Files : job'[f] = j[f] \/ (j[f].at = "queue" /\ job'[f].at = "claim")
<1> DEFINE atWork == Media!Active(j)
           k == Media!Min({Slots - Media!Cardinality(atWork), Len(q)})
           taken == SubSeq(q, 1, k)
           new == [Media!NoJob EXCEPT !.at = "claim"]
<1>1. /\ queue' = SubSeq(q, Len(taken) + 1, Len(q))
      /\ job' = [f \in Files |-> IF Media!Contains(taken, f) THEN new ELSE j[f]]
  BY DEF Media!Drain
<1>2. k \in Int /\ k <= Len(q)
  <2>1. Slots \in Nat /\ IsFiniteSet(Files) /\ atWork \subseteq Files
    BY MediaIs DEF DerivedTypes, Media!DerivativesAssumption, Media!Active
  <2> HIDE DEF atWork
  <2>2. Media!Cardinality(atWork) \in Nat
    BY <2>1, MediaIs, FS_Subset, FS_CardinalityType
  <2> DEFINE free == Slots - Media!Cardinality(atWork)
  <2>3. free \in Int /\ Len(q) \in Int
    BY <2>1, <2>2
  <2> HIDE DEF free
  <2>4. Media!Min({free, Len(q)}) \in {free, Len(q)} /\ Media!Min({free, Len(q)}) <= Len(q)
    BY <2>3, LeastIs
  <2> QED
    BY <2>3, <2>4 DEF free
<1>3. new \in JobType /\ new.at = "claim"
  BY MediaIs DEF JobType, JobStages, Waits
<1> HIDE DEF k, atWork, new
<1>4. PICK m \in 0..Len(q) : /\ Len(taken) = m
                             /\ \A i \in 1..m : taken[i] = q[i]
  BY <1>2, TakenIs
<1> HIDE DEF taken
<1>5. \A f \in Files : Media!Contains(taken, f) <=> \E i \in 1..m : q[i] = f
  BY <1>4 DEF Media!Contains
<1>6. /\ queue' \in Seq(Files) /\ Len(queue') = Len(q) - m
      /\ \A i \in 1..(Len(q) - m) : queue'[i] = q[i + m]
  BY <1>1, <1>4, RestIs
<1>7. job' \in [Files -> JobType]
  BY <1>1, <1>3
<1>8. \A f \in Files : job'[f] = IF \E i \in 1..m : q[i] = f THEN new ELSE j[f]
  BY <1>1, <1>5
<1>9. QueueFits'
  <2>1. ASSUME NEW i \in 1..Len(queue')
        PROVE  job'[queue'[i]].at = "queue"
    <3>1. i + m \in 1..Len(q) /\ queue'[i] = q[i + m] /\ q[i + m] \in Files
      <4>1. i \in 1..(Len(q) - m) /\ Len(q) \in Nat /\ m \in 0..Len(q)
        BY <1>6
      <4>2. i + m \in 1..Len(q)
        BY <4>1
      <4> QED
        BY <1>6, <4>1, <4>2
    <3>2. ~ \E l \in 1..m : q[l] = q[i + m]
      BY <3>1 DEF InQueue
    <3> QED
      BY <1>8, <3>1, <3>2 DEF InQueue
  <2>2. ASSUME NEW i \in 1..Len(queue'), NEW l \in 1..Len(queue'), queue'[i] = queue'[l]
        PROVE  i = l
    <3>1. i + m \in 1..Len(q) /\ l + m \in 1..Len(q) /\ q[i + m] = q[l + m]
      <4>1. /\ i \in 1..(Len(q) - m) /\ l \in 1..(Len(q) - m)
            /\ Len(q) \in Nat /\ m \in 0..Len(q)
        BY <1>6
      <4>2. i + m \in 1..Len(q) /\ l + m \in 1..Len(q)
        BY <4>1
      <4> QED
        BY <1>6, <2>2, <4>1, <4>2
    <3>2. i + m = l + m
      BY <3>1 DEF InQueue
    <3> QED
      BY <3>2
  <2> QED
    BY <2>1, <2>2 DEF QueueFits
<1>10. ASSUME NEW f \in Files
       PROVE  job'[f] = j[f] \/ (j[f].at = "queue" /\ job'[f].at = "claim")
  <2>1. CASE \E i \in 1..m : q[i] = f
    BY <1>3, <1>8, <2>1 DEF InQueue
  <2>2. CASE ~ \E i \in 1..m : q[i] = f
    BY <1>8, <2>2
  <2> QED
    BY <2>1, <2>2
<1> QED
  BY <1>6, <1>7, <1>9, <1>10 DEF JobTypes

-----------------------------------------------------------------------------
\* What happens to one file leaves the others alone; drain may take up their jobs.
SameRow(f) ==
    /\ derived'[f] = derived[f] /\ saved'[f] = saved[f] /\ deleting'[f] = deleting[f]
    /\ f \in source' <=> f \in source
    /\ f \in halfDone' <=> f \in halfDone
    /\ \A n \in Nat : <<f, n>> \in shown => <<f, n>> \in shown'
SameJob(f) == job'[f] = job[f] \/ (job[f].at = "queue" /\ job'[f].at = "claim")

LEMMA DerivedStands ==
  ASSUME DerivedTypes, JobTypes, NEW f \in Files, DerivedFits(f), SameRow(f), SameJob(f)
  PROVE  DerivedFits(f)'
<1>1. derived[f].preview \in Nat /\ job[f].made \in Nat
  BY DEF DerivedTypes, JobTypes, DerivedType, JobType
<1>2. StageFits(f)'
  BY DEF DerivedFits, StageFits, SameRow, SameJob, Waits, Works
<1>3. SourceFits(f)'
  BY DEF DerivedFits, SourceFits, SameRow, SameJob
<1>4. PreviewFits(f)'
  BY <1>1 DEF DerivedFits, PreviewFits, SameRow, SameJob
<1> QED
  BY <1>2, <1>3, <1>4 DEF DerivedFits

LEMMA DerivedGoes ==
  ASSUME MediaInv, NEW f \in Files, DerivedTypes', JobTypes', ShownTypes', QueueFits',
         \A g \in Files \ {f} : SameRow(g) /\ SameJob(g), DerivedFits(f)'
  PROVE  MediaInv'
<1>1. \A g \in Files \ {f} : DerivedFits(g)'
  BY DerivedStands DEF MediaInv
<1> QED
  BY <1>1 DEF MediaInv

LEMMA MediaAssumed ==
  ASSUME DerivedTypes
  PROVE  Media!DerivativesAssumption'
BY DEF DerivedTypes, Media!DerivativesAssumption

\* One record of a function of records.
LEMMA RowPut ==
  ASSUME DerivedTypes, NEW f \in Files, NEW r \in DerivedType, derived' = [derived EXCEPT ![f] = r]
  PROVE  /\ derived' \in [Files -> DerivedType] /\ derived'[f] = r
         /\ \A g \in Files \ {f} : derived'[g] = derived[g]
BY DEF DerivedTypes

\* A job at work goes to another stage; the queue stays.
LEMMA JobPut ==
  ASSUME JobTypes, QueueFits, NEW f \in Files, NEW r \in JobType, job' = [job EXCEPT ![f] = r],
         queue' = queue, job[f].at # "queue"
  PROVE  /\ JobTypes' /\ QueueFits' /\ job'[f] = r
         /\ \A g \in Files \ {f} : job'[g] = job[g]
<1>1. /\ job' \in [Files -> JobType] /\ job'[f] = r /\ \A g \in Files \ {f} : job'[g] = job[g]
      /\ queue \in Seq(Files)
  BY DEF JobTypes
<1>2. \A i \in 1..Len(queue) : queue[i] \in Files /\ queue[i] # f
  BY <1>1 DEF QueueFits
<1>3. QueueFits'
  BY <1>1, <1>2 DEF QueueFits
<1> QED
  BY <1>1, <1>3 DEF JobTypes

LEMMA StepIs ==
  ASSUME JobTypes, QueueFits, NEW f \in Files, NEW st \in JobStages, Media!Step(f, st),
         queue' = queue, job[f].at # "queue"
  PROVE  /\ JobTypes' /\ QueueFits' /\ job'[f].at = st /\ job'[f].made = job[f].made
         /\ \A g \in Files \ {f} : job'[g] = job[g]
<1> DEFINE r == [job[f] EXCEPT !.at = st, !.late = FALSE]
<1>1. job[f] \in JobType
  BY DEF JobTypes
<1>2. r \in JobType /\ r.at = st /\ r.made = job[f].made
  BY <1>1 DEF JobType
<1>3. job' = [job EXCEPT ![f] = r]
  BY DEF Media!Step
<1> HIDE DEF r
<1> QED
  BY <1>2, <1>3, JobPut

\* A job is over; drain takes the next one.
LEMMA LeaveIs ==
  ASSUME DerivedTypes, JobTypes, QueueFits, NEW f \in Files, Media!Leave(f), job[f].at # "queue"
  PROVE  /\ JobTypes' /\ QueueFits' /\ job'[f].at = "none"
         /\ \A g \in Files \ {f} : SameJob(g)
<1>1. Media!NoJob \in JobType /\ Media!NoJob.at = "none"
  BY MediaIs DEF JobType, JobStages
<1>2. PICK j : j = [job EXCEPT ![f] = Media!NoJob]
  OBVIOUS
<1>3. PICK q : q = queue
  OBVIOUS
<1>4. Media!Drain(j, q)
  BY <1>2, <1>3 DEF Media!Leave
<1>5. /\ j \in [Files -> JobType] /\ j[f] = Media!NoJob /\ \A g \in Files \ {f} : j[g] = job[g]
      /\ q \in Seq(Files)
  BY <1>1, <1>2, <1>3 DEF JobTypes
<1>6. InQueue(j, q)
  <2>1. \A i \in 1..Len(q) : q[i] \in Files /\ q[i] # f
    BY <1>3, <1>5 DEF QueueFits
  <2> QED
    BY <1>3, <1>5, <2>1 DEF QueueFits, InQueue
<1>7. /\ JobTypes' /\ QueueFits'
      /\ \A g \in Files : job'[g] = j[g] \/ (j[g].at = "queue" /\ job'[g].at = "claim")
  BY <1>4, <1>5, <1>6, DrainIs
<1>8. job'[f].at = "none"
  BY <1>1, <1>5, <1>7
<1> QED
  BY <1>5, <1>7, <1>8 DEF SameJob

-----------------------------------------------------------------------------
LEMMA DerivedIs ==
  ASSUME MediaInv, NEW f \in Files
  PROVE  /\ DerivedTypes /\ JobTypes /\ ShownTypes /\ QueueFits
         /\ StageFits(f) /\ SourceFits(f) /\ PreviewFits(f)
         /\ derived[f] \in DerivedType /\ job[f] \in JobType
         /\ derived[f] = Media!NoRow <=> derived[f].status = "none"
         /\ Media!NoRow \in DerivedType /\ Media!NoRow.status = "none" /\ Media!NoRow.preview = 0
<1>1. /\ DerivedTypes /\ JobTypes /\ ShownTypes /\ QueueFits
      /\ StageFits(f) /\ SourceFits(f) /\ PreviewFits(f)
  BY DEF MediaInv, DerivedFits
<1>2. derived[f] \in DerivedType /\ job[f] \in JobType
  BY <1>1 DEF DerivedTypes, JobTypes
<1>3. Media!NoRow \in DerivedType /\ Media!NoRow.status = "none" /\ Media!NoRow.preview = 0
  BY MediaIs DEF DerivedType
<1>4. derived[f].status = "none" => derived[f] = Media!NoRow
  <2>1. derived[f].status = "none" => derived[f].preview = 0
    BY <1>1 DEF StageFits
  <2> QED
    BY <1>2, <2>1, MediaIs DEF DerivedType
<1> QED
  BY <1>1, <1>2, <1>3, <1>4

LEMMA SetRowIs ==
  ASSUME MediaInv, NEW f \in Files, NEW st \in {"processing", "failed"}, Media!SetRow(f, st)
  PROVE  /\ derived' \in [Files -> DerivedType] /\ derived'[f].preview = derived[f].preview
         /\ derived'[f].status = IF derived[f].status = "none" THEN "none" ELSE st
         /\ \A g \in Files \ {f} : derived'[g] = derived[g]
<1> DEFINE r == [derived[f] EXCEPT !.status = st]
<1>1. r \in DerivedType /\ r.status = st /\ r.preview = derived[f].preview
  BY DerivedIs DEF DerivedType
<1>2. derived' = IF derived[f] = Media!NoRow THEN derived ELSE [derived EXCEPT ![f] = r]
  BY DEF Media!SetRow
<1> HIDE DEF r
<1>3. CASE derived[f].status = "none"
  BY <1>2, <1>3, DerivedIs DEF DerivedTypes
<1>4. CASE derived[f].status # "none"
  <2>1. derived' = [derived EXCEPT ![f] = r]
    BY <1>2, <1>4, DerivedIs
  <2> QED
    BY <1>1, <1>4, <2>1, DerivedIs, RowPut
<1> QED
  BY <1>3, <1>4

\* A file is saved: its row is queued, its source is there.
LEMMA MediaUploadStep ==
  ASSUME MediaInv, NEW f \in Files, Media!Upload(f)
  PROVE  MediaInv'
<1> DEFINE r == [status |-> "queued", preview |-> 0]
<1>1. /\ saved[f] = "none" /\ saved' = [saved EXCEPT ![f] = "indexed"] /\ source' = source \cup {f}
      /\ derived' = [derived EXCEPT ![f] = r]
      /\ shown' = shown /\ job' = job /\ queue' = queue /\ deleting' = deleting /\ request' = request
      /\ halfDone' = halfDone
  BY DEF Media!Upload
<1>2. r \in DerivedType /\ r.status = "queued" /\ r.preview = 0
  BY DEF DerivedType
<1> HIDE DEF r
<1>3. /\ derived' \in [Files -> DerivedType] /\ derived'[f] = r
      /\ \A g \in Files \ {f} : derived'[g] = derived[g]
  BY <1>1, <1>2, RowPut, DerivedIs
<1>4. /\ saved' \in [Files -> {"none", "indexed", "done"}] /\ saved'[f] = "indexed"
      /\ \A g \in Files \ {f} : saved'[g] = saved[g]
  BY <1>1, DerivedIs DEF DerivedTypes
<1>5. DerivedTypes' /\ JobTypes' /\ ShownTypes' /\ QueueFits'
  BY <1>1, <1>3, <1>4, DerivedIs, MediaAssumed DEF DerivedTypes, JobTypes, ShownTypes, QueueFits
<1>6. job[f].at = "none" /\ deleting[f] = -1
  BY <1>1, DerivedIs DEF StageFits
<1>7. StageFits(f)' /\ SourceFits(f)' /\ PreviewFits(f)'
  BY <1>1, <1>2, <1>3, <1>4, <1>6 DEF StageFits, SourceFits, PreviewFits, Waits, Works, Unsettled
<1>8. \A g \in Files \ {f} : SameRow(g) /\ SameJob(g)
  BY <1>1, <1>3, <1>4 DEF SameRow, SameJob
<1> QED
  BY <1>5, <1>7, <1>8, DerivedGoes DEF DerivedFits

LEMMA EnqueueStep ==
  ASSUME MediaInv, NEW f \in Files, Media!Enqueue(f)
  PROVE  MediaInv'
<1> DEFINE r == [job[f] EXCEPT !.at = "queue"]
<1>1. /\ saved[f] = "indexed" /\ saved' = [saved EXCEPT ![f] = "done"]
      /\ derived' = derived /\ source' = source /\ shown' = shown /\ deleting' = deleting
      /\ request' = request /\ halfDone' = halfDone
  BY DEF Media!Enqueue
<1>2. job[f].at = "none" /\ deleting[f] = -1 /\ derived[f].status = "queued"
  BY <1>1, DerivedIs DEF StageFits
<1>3. r \in JobType /\ r.at = "queue"
  BY DerivedIs DEF JobType, JobStages, Waits
<1>4. Media!Drain([job EXCEPT ![f] = r], Append(queue, f))
  BY <1>2 DEF Media!Enqueue, Media!Known
<1> HIDE DEF r
<1>5. PICK j : j = [job EXCEPT ![f] = r]
  OBVIOUS
<1>6. PICK q : q = Append(queue, f)
  OBVIOUS
<1>7. /\ j \in [Files -> JobType] /\ j[f] = r /\ \A g \in Files \ {f} : j[g] = job[g]
  BY <1>3, <1>5, DerivedIs DEF JobTypes
<1>8. /\ q \in Seq(Files) /\ Len(q) = Len(queue) + 1 /\ q[Len(queue) + 1] = f /\ Len(queue) \in Nat
      /\ \A i \in 1..Len(queue) : q[i] = queue[i] /\ queue[i] \in Files
  BY <1>6, DerivedIs DEF JobTypes
<1>9. InQueue(j, q)
  <2>1. \A i \in 1..Len(queue) : q[i] \in Files /\ q[i] # f /\ job[q[i]].at = "queue"
    BY <1>2, <1>8, DerivedIs DEF QueueFits
  <2>2. \A i \in 1..Len(q) : j[q[i]].at = "queue"
    BY <1>3, <1>7, <1>8, <2>1
  <2>3. ASSUME NEW i \in 1..Len(q), NEW k \in 1..Len(q), q[i] = q[k]
        PROVE  i = k
    <3>1. CASE i \in 1..Len(queue) /\ k \in 1..Len(queue)
      BY <1>8, <2>3, <3>1, DerivedIs DEF QueueFits
    <3>2. CASE i = Len(queue) + 1 \/ k = Len(queue) + 1
      BY <1>8, <2>1, <2>3, <3>2
    <3> QED
      BY <1>8, <3>1, <3>2
  <2> QED
    BY <2>2, <2>3 DEF InQueue
<1>10. /\ JobTypes' /\ QueueFits'
       /\ \A g \in Files : job'[g] = j[g] \/ (j[g].at = "queue" /\ job'[g].at = "claim")
  BY <1>4, <1>5, <1>6, <1>7, <1>8, <1>9, DerivedIs, DrainIs
<1>11. job'[f].at \in {"queue", "claim"} /\ \A g \in Files \ {f} : SameJob(g)
  BY <1>3, <1>7, <1>10 DEF SameJob
<1>12. /\ saved' \in [Files -> {"none", "indexed", "done"}] /\ saved'[f] = "done"
       /\ \A g \in Files \ {f} : saved'[g] = saved[g]
  BY <1>1, DerivedIs DEF DerivedTypes
<1>13. DerivedTypes' /\ ShownTypes'
  BY <1>1, <1>12, DerivedIs, MediaAssumed DEF DerivedTypes, ShownTypes
<1>14. StageFits(f)' /\ SourceFits(f)' /\ PreviewFits(f)'
  BY <1>1, <1>2, <1>11, <1>12, DerivedIs DEF StageFits, SourceFits, PreviewFits, Waits, Works, Unsettled
<1>15. \A g \in Files \ {f} : SameRow(g)
  BY <1>1, <1>12 DEF SameRow
<1> QED
  BY <1>10, <1>11, <1>13, <1>14, <1>15, DerivedGoes DEF DerivedFits

\* A job claims its row, or leaves a row that was deleted meanwhile.
LEMMA ClaimStep ==
  ASSUME MediaInv, NEW f \in Files, Media!Claim(f)
  PROVE  MediaInv'
<1>1. /\ job[f].at = "claim" /\ derived[f].status \in {"queued", "none"}
      /\ source' = source /\ shown' = shown /\ saved' = saved /\ deleting' = deleting
      /\ request' = request /\ halfDone' = halfDone
  BY DerivedIs DEF Media!Claim, StageFits, Waits
<1>2. ShownTypes'
  BY <1>1, DerivedIs DEF ShownTypes
<1>3. CASE derived[f].status = "queued"
  <2>1. Media!SetRow(f, "processing") /\ Media!Step(f, "thumbnail") /\ queue' = queue /\ "thumbnail" \in JobStages
    BY <1>3 DEF Media!Claim, JobStages, Works
  <2>2. /\ derived' \in [Files -> DerivedType] /\ derived'[f].preview = derived[f].preview
        /\ derived'[f].status = "processing" /\ \A g \in Files \ {f} : derived'[g] = derived[g]
    BY <1>3, <2>1, SetRowIs
  <2>3. /\ JobTypes' /\ QueueFits' /\ job'[f].at = "thumbnail" /\ \A g \in Files \ {f} : job'[g] = job[g]
    BY <1>1, <2>1, DerivedIs, StepIs
  <2>4. DerivedTypes'
    BY <1>1, <2>2, DerivedIs, MediaAssumed DEF DerivedTypes
  <2>5. StageFits(f)' /\ SourceFits(f)' /\ PreviewFits(f)'
    BY <1>1, <1>3, <2>2, <2>3, DerivedIs DEF StageFits, SourceFits, PreviewFits, Waits, Works, Unsettled
  <2>6. \A g \in Files \ {f} : SameRow(g) /\ SameJob(g)
    BY <1>1, <2>2, <2>3 DEF SameRow, SameJob
  <2> QED
    BY <1>2, <2>3, <2>4, <2>5, <2>6, DerivedGoes DEF DerivedFits
<1>4. CASE derived[f].status = "none"
  <2>1. Media!Leave(f) /\ derived' = derived
    BY <1>4 DEF Media!Claim
  <2>2. /\ JobTypes' /\ QueueFits' /\ job'[f].at = "none" /\ \A g \in Files \ {f} : SameJob(g)
    BY <1>1, <2>1, DerivedIs, LeaveIs
  <2>3. DerivedTypes'
    BY <1>1, <2>1, DerivedIs, MediaAssumed DEF DerivedTypes
  <2>4. StageFits(f)' /\ SourceFits(f)' /\ PreviewFits(f)'
    BY <1>1, <1>4, <2>1, <2>2, DerivedIs DEF StageFits, SourceFits, PreviewFits, Waits, Works, Unsettled
  <2>5. \A g \in Files \ {f} : SameRow(g)
    BY <1>1, <2>1 DEF SameRow
  <2> QED
    BY <1>2, <2>2, <2>3, <2>4, <2>5, DerivedGoes DEF DerivedFits
<1> QED
  BY <1>1, <1>3, <1>4

\* A job at work goes on without touching its row.
LEMMA WorkGoes ==
  ASSUME MediaInv, NEW f \in Files, job[f].at \in Works, job'[f].at \in Works,
         JobTypes', QueueFits', ShownTypes', \A g \in Files \ {f} : job'[g] = job[g],
         shown \subseteq shown',
         job'[f].at = "store" => <<f, job'[f].made>> \in shown',
         derived' = derived, source' = source, saved' = saved, deleting' = deleting,
         request' = request, halfDone' = halfDone
  PROVE  MediaInv'
<1>1. DerivedTypes'
  BY DerivedIs, MediaAssumed DEF DerivedTypes
<1>2. StageFits(f)' /\ SourceFits(f)' /\ PreviewFits(f)'
  BY DerivedIs DEF StageFits, SourceFits, PreviewFits, Waits, Works, Unsettled
<1>3. \A g \in Files \ {f} : SameRow(g) /\ SameJob(g)
  BY DEF SameRow, SameJob
<1> QED
  BY <1>1, <1>2, <1>3, DerivedGoes DEF DerivedFits

LEMMA DeadlineStep ==
  ASSUME MediaInv, NEW f \in Files, Media!Deadline(f)
  PROVE  MediaInv'
<1> DEFINE r == [job[f] EXCEPT !.late = TRUE]
<1>1. /\ job[f].at \in {"thumbnail", "dimensions", "preview"} /\ job' = [job EXCEPT ![f] = r]
      /\ derived' = derived /\ source' = source /\ shown' = shown /\ queue' = queue
      /\ saved' = saved /\ deleting' = deleting /\ request' = request /\ halfDone' = halfDone
  BY MediaIs DEF Media!Deadline
<1>2. r \in JobType /\ r.at = job[f].at
  BY DerivedIs DEF JobType
<1> HIDE DEF r
<1>3. /\ JobTypes' /\ QueueFits' /\ job'[f] = r /\ \A g \in Files \ {f} : job'[g] = job[g]
  BY <1>1, <1>2, DerivedIs, JobPut
<1>4. ShownTypes'
  BY <1>1, DerivedIs DEF ShownTypes
<1> QED
  BY <1>1, <1>2, <1>3, <1>4, WorkGoes DEF Works

LEMMA GeneratorFailsStep ==
  ASSUME MediaInv, NEW f \in Files, Media!GeneratorFails(f)
  PROVE  MediaInv'
<1>1. /\ job[f].at \in {"thumbnail", "dimensions", "preview"} /\ Media!Step(f, "fail")
      /\ derived' = derived /\ source' = source /\ shown' = shown /\ queue' = queue
      /\ saved' = saved /\ deleting' = deleting /\ request' = request /\ halfDone' = halfDone
      /\ "fail" \in JobStages
  BY MediaIs DEF Media!GeneratorFails, Media!Settled, Media!NoResult, JobStages, Works
<1>2. /\ JobTypes' /\ QueueFits' /\ job'[f].at = "fail" /\ \A g \in Files \ {f} : job'[g] = job[g]
  BY <1>1, DerivedIs, StepIs
<1>3. ShownTypes'
  BY <1>1, DerivedIs DEF ShownTypes
<1> QED
  BY <1>1, <1>2, <1>3, WorkGoes DEF Works

\* What was made after the deadline is not stored; a preview stays on the disk.
LEMMA GeneratedStep ==
  ASSUME MediaInv, NEW f \in Files, Media!Generated(f)
  PROVE  MediaInv'
<1> DEFINE new == IF job[f].at = "preview" THEN Media!New(f) ELSE <<f, 0>>
           st == IF job[f].late THEN "fail" ELSE Media!After(f)
           r == [at |-> st, late |-> FALSE, made |-> new[2]]
<1>1. /\ job[f].at \in {"thumbnail", "dimensions", "preview"} /\ job' = [job EXCEPT ![f] = r]
      /\ shown' = IF job[f].at = "preview" THEN shown \cup {new} ELSE shown
      /\ derived' = derived /\ source' = source /\ queue' = queue
      /\ saved' = saved /\ deleting' = deleting /\ request' = request /\ halfDone' = halfDone
  BY MediaIs DEF Media!Generated, Media!Settled
<1>2. PICK n \in Nat : new = <<f, n>>
  BY NewIs, DerivedIs
<1>3. st \in Works /\ (st = "store" => job[f].at = "preview")
  BY <1>1 DEF Media!After, Works
<1> HIDE DEF new, st
<1>4. r \in JobType /\ r.at = st /\ r.made = n
  BY <1>2, <1>3 DEF JobType, JobStages
<1> HIDE DEF r
<1>5. /\ JobTypes' /\ QueueFits' /\ job'[f] = r /\ \A g \in Files \ {f} : job'[g] = job[g]
  BY <1>1, <1>4, DerivedIs, JobPut
<1>6. ShownTypes'
  BY <1>1, <1>2, DerivedIs, ShownIs DEF ShownTypes
<1>7. shown \subseteq shown' /\ (job'[f].at = "store" => <<f, job'[f].made>> \in shown')
  BY <1>1, <1>2, <1>3, <1>4, <1>5
<1> QED
  BY <1>1, <1>3, <1>4, <1>5, <1>6, <1>7, WorkGoes DEF Works

LEMMA StoreStep ==
  ASSUME MediaInv, NEW f \in Files, Media!Store(f)
  PROVE  MediaInv'
<1>1. /\ job[f].at = "store" /\ derived[f].status \in {"processing", "none"}
      /\ source' = source /\ shown' = shown /\ queue' = queue /\ saved' = saved
      /\ deleting' = deleting /\ request' = request /\ halfDone' = halfDone
      /\ {"clean", "fail"} \subseteq JobStages
  BY DerivedIs DEF Media!Store, StageFits, Works, JobStages
<1>2. ShownTypes'
  BY <1>1, DerivedIs DEF ShownTypes
<1>3. CASE Media!Step(f, "fail") /\ derived' = derived
  <2>1. /\ JobTypes' /\ QueueFits' /\ job'[f].at = "fail" /\ \A g \in Files \ {f} : job'[g] = job[g]
    BY <1>1, <1>3, DerivedIs, StepIs
  <2> QED
    BY <1>1, <1>2, <1>3, <2>1, WorkGoes DEF Works
<1> DEFINE r == [status |-> "ready", preview |-> job[f].made]
<1>4. CASE /\ Media!Step(f, "clean")
           /\ derived' = IF derived[f] = Media!NoRow THEN derived ELSE [derived EXCEPT ![f] = r]
  <2>1. /\ JobTypes' /\ QueueFits' /\ job'[f].at = "clean" /\ \A g \in Files \ {f} : job'[g] = job[g]
    BY <1>1, <1>4, DerivedIs, StepIs
  <2>2. r \in DerivedType /\ r.status = "ready" /\ r.preview = job[f].made
    BY DerivedIs DEF DerivedType, JobType
  <2> HIDE DEF r
  <2>3. /\ derived' \in [Files -> DerivedType]
        /\ IF derived[f].status = "none" THEN derived'[f] = derived[f] ELSE derived'[f] = r
        /\ \A g \in Files \ {f} : derived'[g] = derived[g]
    <3>1. CASE derived[f].status = "none"
      BY <1>4, <3>1, DerivedIs DEF DerivedTypes
    <3>2. CASE derived[f].status # "none"
      <4>1. derived' = [derived EXCEPT ![f] = r]
        BY <1>4, <3>2, DerivedIs
      <4> QED
        BY <2>2, <3>2, <4>1, DerivedIs, RowPut
    <3> QED
      BY <3>1, <3>2
  <2>4. DerivedTypes'
    BY <1>1, <2>3, DerivedIs, MediaAssumed DEF DerivedTypes
  <2>5. StageFits(f)'
    BY <1>1, <2>1, <2>2, <2>3, DerivedIs DEF StageFits, Waits, Works, Unsettled
  <2>6. SourceFits(f)'
    BY <1>1, <2>1, <2>2, <2>3, DerivedIs DEF SourceFits, Unsettled
  <2>7. PreviewFits(f)'
    BY <1>1, <2>1, <2>2, <2>3, DerivedIs DEF PreviewFits
  <2>8. \A g \in Files \ {f} : SameRow(g) /\ SameJob(g)
    BY <1>1, <2>1, <2>3 DEF SameRow, SameJob
  <2> QED
    BY <1>2, <2>1, <2>4, <2>5, <2>6, <2>7, <2>8, DerivedGoes DEF DerivedFits
<1> QED
  BY <1>3, <1>4 DEF Media!Store

LEMMA FailStep ==
  ASSUME MediaInv, NEW f \in Files, Media!Fail(f)
  PROVE  MediaInv'
<1>1. /\ job[f].at = "fail" /\ derived[f].status \in {"processing", "none"} /\ Media!Step(f, "clean")
      /\ source' = source /\ shown' = shown /\ queue' = queue /\ saved' = saved
      /\ deleting' = deleting /\ request' = request /\ "clean" \in JobStages
  BY DerivedIs DEF Media!Fail, StageFits, Works, JobStages
<1>2. ShownTypes'
  BY <1>1, DerivedIs DEF ShownTypes
<1>3. /\ JobTypes' /\ QueueFits' /\ job'[f].at = "clean" /\ \A g \in Files \ {f} : job'[g] = job[g]
  BY <1>1, DerivedIs, StepIs
<1>4. /\ derived' \in [Files -> DerivedType] /\ derived'[f].preview = derived[f].preview
      /\ \A g \in Files \ {f} : derived'[g] = derived[g]
      /\ halfDone' \in SUBSET Files /\ \A g \in Files \ {f} : g \in halfDone' <=> g \in halfDone
      /\ \/ f \in halfDone' /\ derived'[f] = derived[f]
         \/ /\ halfDone' = halfDone
            /\ derived'[f].status = IF derived[f].status = "none" THEN "none" ELSE "failed"
  <2>1. CASE Media!SetRow(f, "failed") /\ halfDone' = halfDone
    BY <2>1, SetRowIs, DerivedIs DEF DerivedTypes
  <2>2. CASE derived' = derived /\ halfDone' = halfDone \cup {f}
    BY <2>2, DerivedIs DEF DerivedTypes
  <2> QED
    BY <2>1, <2>2 DEF Media!Fail
<1>5. DerivedTypes'
  BY <1>1, <1>4, DerivedIs, MediaAssumed DEF DerivedTypes
<1>6. StageFits(f)'
  BY <1>1, <1>3, <1>4, DerivedIs DEF StageFits, Waits, Works, Unsettled
<1>7. SourceFits(f)'
  BY <1>1, <1>3, <1>4, DerivedIs DEF SourceFits, Unsettled
<1>8. PreviewFits(f)'
  BY <1>1, <1>3, <1>4, DerivedIs DEF PreviewFits
<1>9. \A g \in Files \ {f} : SameRow(g) /\ SameJob(g)
  BY <1>1, <1>3, <1>4 DEF SameRow, SameJob
<1> QED
  BY <1>2, <1>3, <1>5, <1>6, <1>7, <1>8, <1>9, DerivedGoes DEF DerivedFits

LEMMA CleanStep ==
  ASSUME MediaInv, NEW f \in Files, Media!Clean(f)
  PROVE  MediaInv'
<1>1. /\ job[f].at = "clean" /\ Media!Leave(f) /\ source' = source \ (Remote \cap {f})
      /\ derived' = derived /\ shown' = shown /\ saved' = saved
      /\ deleting' = deleting /\ request' = request /\ halfDone' = halfDone
      /\ derived[f].status \notin Unsettled \/ f \in halfDone
  BY DerivedIs DEF Media!Clean, Media!Cleaned, StageFits
<1>2. /\ JobTypes' /\ QueueFits' /\ job'[f].at = "none" /\ \A g \in Files \ {f} : SameJob(g)
  BY <1>1, DerivedIs, LeaveIs
<1>3. DerivedTypes' /\ ShownTypes'
  BY <1>1, DerivedIs, MediaAssumed DEF DerivedTypes, ShownTypes
<1>4. StageFits(f)' /\ SourceFits(f)' /\ PreviewFits(f)'
  BY <1>1, <1>2, DerivedIs DEF StageFits, SourceFits, PreviewFits, Waits, Works, Unsettled
<1>5. \A g \in Files \ {f} : SameRow(g)
  BY <1>1 DEF SameRow
<1> QED
  BY <1>2, <1>3, <1>4, <1>5, DerivedGoes DEF DerivedFits

\* A recovery reads some of the rows that are queued, each once.
LEMMA RecoveredIs ==
  ASSUME DerivedTypes, NEW S \in SUBSET Files, NEW q \in Media!SetToSeqs(S)
  PROVE  LET p == SubSeq(q, 1, Media!Min({Batch, Len(q)}))
         IN  /\ p \in Seq(Files) /\ \A i \in 1..Len(p) : p[i] \in S
             /\ \A i, k \in 1..Len(p) : p[i] = p[k] => i = k
<1> DEFINE n == Cardinality(S)
           b == Media!Min({Batch, Len(q)})
<1>1. IsFiniteSet(S) /\ n \in Nat
  BY MediaIs, FS_Subset, FS_CardinalityType DEF DerivedTypes, Media!DerivativesAssumption
<1>2. q \in [1..n -> S] /\ \A i, k \in 1..n : i # k => q[i] # q[k]
  BY <1>1, MediaIs DEF Media!SetToSeqs
<1> HIDE DEF n
<1>3. q \in [1..n -> Files] /\ \A i \in 1..n : q[i] \in S
  BY <1>2
<1>4. q \in Seq(Files) /\ Len(q) = n
  BY <1>1, <1>3
<1>5. b \in Int /\ b <= Len(q)
  <2>1. Batch \in Int /\ Len(q) \in Int
    BY <1>1, <1>4 DEF DerivedTypes, Media!DerivativesAssumption
  <2>2. b \in {Batch, Len(q)} /\ b <= Len(q)
    BY <2>1, LeastIs
  <2> QED
    BY <2>1, <2>2
<1> HIDE DEF b
<1>6. PICK m \in 0..Len(q) : /\ SubSeq(q, 1, b) \in Seq(Files) /\ Len(SubSeq(q, 1, b)) = m
                              /\ \A i \in 1..m : SubSeq(q, 1, b)[i] = q[i]
  BY <1>4, <1>5, TakenIs
<1>7. \A i \in 1..m : i \in 1..n
  BY <1>1, <1>4
<1>8. \A i \in 1..m : SubSeq(q, 1, b)[i] \in S
  BY <1>3, <1>6, <1>7
<1>9. ASSUME NEW i \in 1..m, NEW k \in 1..m, SubSeq(q, 1, b)[i] = SubSeq(q, 1, b)[k]
      PROVE  i = k
  BY <1>2, <1>6, <1>7, <1>9
<1> QED
  BY <1>6, <1>8, <1>9 DEF b

\* After a restart the only jobs are those of rows that are queued.
LEMMA RestartJobs ==
  ASSUME DerivedTypes, NEW S \in SUBSET Files, NEW p \in Seq(Files), \A i \in 1..Len(p) : p[i] \in S,
         \A i, k \in 1..Len(p) : p[i] = p[k] => i = k,
         NEW j, j = [f \in Files |-> IF Media!Contains(p, f) THEN [Media!NoJob EXCEPT !.at = "queue"]
                                     ELSE Media!NoJob],
         Media!Drain(j, p)
  PROVE  /\ JobTypes' /\ QueueFits'
         /\ \A f \in Files : job'[f].at = "none" \/ (job'[f].at \in Waits /\ f \in S)
<1> DEFINE new == [Media!NoJob EXCEPT !.at = "queue"]
<1>1. /\ new \in JobType /\ new.at = "queue" /\ Media!NoJob \in JobType /\ Media!NoJob.at = "none"
  BY MediaIs DEF JobType, JobStages, Waits
<1> HIDE DEF new
<1>2. \A f \in Files : j[f] = IF \E i \in 1..Len(p) : p[i] = f THEN new ELSE Media!NoJob
  BY DEF new, Media!Contains
<1>3. j \in [Files -> JobType]
  BY <1>1 DEF new
<1>4. \A i \in 1..Len(p) : p[i] \in Files /\ j[p[i]].at = "queue"
  BY <1>1, <1>2
<1>5. InQueue(j, p)
  BY <1>4 DEF InQueue
<1>6. /\ JobTypes' /\ QueueFits'
      /\ \A f \in Files : job'[f] = j[f] \/ (j[f].at = "queue" /\ job'[f].at = "claim")
  BY <1>3, <1>5, DrainIs
<1>7. \A f \in Files : j[f].at = "none" \/ (j[f].at = "queue" /\ f \in S)
  <2>1. ASSUME NEW f \in Files, NEW i \in 1..Len(p), p[i] = f
        PROVE  j[f].at = "queue" /\ f \in S
    <3>1. j[f] = new
      BY <1>2, <2>1
    <3>2. p[i] \in S
      OBVIOUS
    <3> QED
      BY <1>1, <2>1, <3>1, <3>2
  <2>2. ASSUME NEW f \in Files, ~ \E i \in 1..Len(p) : p[i] = f
        PROVE  j[f].at = "none"
    BY <1>1, <1>2, <2>2
  <2> QED
    BY <2>1, <2>2
<1>8. \A f \in Files : job'[f].at = "none" \/ (job'[f].at \in Waits /\ f \in S)
  BY <1>6, <1>7 DEF Waits
<1> QED
  BY <1>6, <1>8

LEMMA RestartStep ==
  ASSUME MediaInv, Media!Restart
  PROVE  MediaInv'
<1> DEFINE again(f) == [derived[f] EXCEPT !.status = "queued"]
<1>1. /\ derived' = [f \in Files |-> IF derived[f].status = "processing" THEN again(f) ELSE derived[f]]
      /\ saved' = [f \in Files |-> IF saved[f] = "indexed" THEN "done" ELSE saved[f]]
      /\ deleting' = [f \in Files |-> -1] /\ request' = [r \in Requests |-> "none"]
      /\ halfDone' = halfDone \cup {f \in Files : job[f].at = "clean" \/ deleting[f] # -1}
      /\ source' = source /\ shown' = shown
  BY DEF Media!Restart, Media!Requeued
<1>2. ASSUME NEW f \in Files
      PROVE  again(f) \in DerivedType /\ again(f).status = "queued" /\ again(f).preview = derived[f].preview
  BY DerivedIs DEF DerivedType
<1> HIDE DEF again
<1>3. /\ derived' \in [Files -> DerivedType]
      /\ \A f \in Files : /\ derived'[f].preview = derived[f].preview
                          /\ derived'[f].status = IF derived[f].status = "processing" THEN "queued"
                                                  ELSE derived[f].status
  <2>1. \A f \in Files : derived[f] \in DerivedType
    BY DerivedIs
  <2> QED
    BY <1>1, <1>2, <2>1
<1>4. /\ JobTypes' /\ QueueFits'
      /\ \A f \in Files : \/ job'[f].at = "none"
                          \/ job'[f].at \in Waits /\ derived'[f].status = "queued"
  <2>1. PICK S : S = {f \in Files : derived'[f].status = "queued"}
    OBVIOUS
  <2>2. PICK q \in Media!SetToSeqs(S) :
          Media!Drain([f \in Files |->
                         IF Media!Contains(SubSeq(q, 1, Media!Min({Batch, Len(q)})), f)
                         THEN [Media!NoJob EXCEPT !.at = "queue"] ELSE Media!NoJob],
                      SubSeq(q, 1, Media!Min({Batch, Len(q)})))
    BY <2>1 DEF Media!Restart
  <2>3. PICK p : p = SubSeq(q, 1, Media!Min({Batch, Len(q)}))
    OBVIOUS
  <2>4. PICK j : j = [f \in Files |-> IF Media!Contains(p, f) THEN [Media!NoJob EXCEPT !.at = "queue"]
                                      ELSE Media!NoJob]
    OBVIOUS
  <2>5. Media!Drain(j, p)
    BY <2>2, <2>3, <2>4
  <2>6. DerivedTypes /\ S \in SUBSET Files
    BY <2>1 DEF MediaInv
  <2>7. /\ p \in Seq(Files) /\ \A i \in 1..Len(p) : p[i] \in S
        /\ \A i, k \in 1..Len(p) : p[i] = p[k] => i = k
    BY <2>3, <2>6, RecoveredIs
  <2>8. /\ JobTypes' /\ QueueFits'
        /\ \A f \in Files : job'[f].at = "none" \/ (job'[f].at \in Waits /\ f \in S)
    BY <2>4, <2>5, <2>6, <2>7, RestartJobs
  <2> QED
    BY <2>1, <2>8
<1>5. /\ saved' \in [Files -> {"none", "indexed", "done"}]
      /\ \A f \in Files : saved'[f] = IF saved[f] = "indexed" THEN "done" ELSE saved[f]
  BY <1>1 DEF MediaInv, DerivedTypes
<1>6. DerivedTypes' /\ ShownTypes'
  BY <1>1, <1>3, <1>5, MediaAssumed DEF MediaInv, DerivedTypes, ShownTypes
<1>7. ASSUME NEW f \in Files
      PROVE  DerivedFits(f)'
  <2>1. /\ deleting'[f] = -1
        /\ f \in halfDone' <=> f \in halfDone \/ job[f].at = "clean" \/ deleting[f] # -1
        /\ job[f].at \in JobStages
    BY <1>1, DerivedIs DEF JobType
  <2>2. StageFits(f)'
    BY <1>3, <1>4, <1>5, <2>1, DerivedIs DEF StageFits, Waits, Works, Unsettled
  <2>3. SourceFits(f)'
    BY <1>1, <1>3, <1>4, <2>1, DerivedIs DEF SourceFits, StageFits, Waits, Works, Unsettled, JobStages
  <2>4. PreviewFits(f)'
    BY <1>1, <1>3, <1>4, <2>1, DerivedIs DEF PreviewFits, Waits
  <2> QED
    BY <2>2, <2>3, <2>4 DEF DerivedFits
<1> QED
  BY <1>4, <1>6, <1>7 DEF MediaInv

-----------------------------------------------------------------------------
\* Deletions and requests.
LEMMA DeleteReadsStep ==
  ASSUME MediaInv, NEW f \in Files, Media!DeleteReads(f)
  PROVE  MediaInv'
<1>1. /\ derived[f] # Media!NoRow /\ saved[f] = "done"
      /\ deleting' = [deleting EXCEPT ![f] = derived[f].preview]
      /\ source' = source \ ({f} \ Remote) /\ shown' = shown \ {<<f, derived[f].preview>>}
      /\ derived' = derived /\ job' = job /\ queue' = queue /\ saved' = saved
      /\ request' = request /\ halfDone' = halfDone
  BY DEF Media!DeleteReads
<1>2. derived[f].preview \in Nat
  BY DerivedIs DEF DerivedType
<1>3. /\ deleting' \in [Files -> Nat \cup {-1}] /\ deleting'[f] # -1
      /\ \A g \in Files \ {f} : deleting'[g] = deleting[g]
  BY <1>1, <1>2, DerivedIs DEF DerivedTypes
<1>4. DerivedTypes' /\ JobTypes' /\ QueueFits'
  BY <1>1, <1>3, DerivedIs, MediaAssumed DEF DerivedTypes, JobTypes, QueueFits
<1>5. ShownTypes'
  BY <1>1, DerivedIs DEF ShownTypes
<1>6. StageFits(f)' /\ SourceFits(f)' /\ PreviewFits(f)'
  BY <1>1, <1>3, DerivedIs DEF StageFits, SourceFits, PreviewFits, Unsettled
<1>7. \A g \in Files \ {f} : SameRow(g) /\ SameJob(g)
  BY <1>1, <1>3 DEF SameRow, SameJob
<1> QED
  BY <1>4, <1>5, <1>6, <1>7, DerivedGoes DEF DerivedFits

LEMMA DeleteRowStep ==
  ASSUME MediaInv, NEW f \in Files, Media!DeleteRow(f)
  PROVE  MediaInv'
<1>1. /\ deleting[f] # -1 /\ deleting' = [deleting EXCEPT ![f] = -1]
      /\ source' = source /\ shown' = shown /\ job' = job /\ queue' = queue /\ saved' = saved
      /\ request' = request
      /\ \/ derived' = [derived EXCEPT ![f] = Media!NoRow] /\ halfDone' = halfDone
         \/ derived' = derived /\ halfDone' = halfDone \cup {f}
  BY DEF Media!DeleteRow
<1>2. /\ deleting' \in [Files -> Nat \cup {-1}] /\ deleting'[f] = -1
      /\ \A g \in Files \ {f} : deleting'[g] = deleting[g]
  BY <1>1, DerivedIs DEF DerivedTypes
<1>3. /\ derived' \in [Files -> DerivedType]
      /\ \A g \in Files \ {f} : derived'[g] = derived[g] /\ (g \in halfDone' <=> g \in halfDone)
      /\ halfDone' \in SUBSET Files
      /\ derived'[f] = Media!NoRow \/ (derived'[f] = derived[f] /\ f \in halfDone')
  <2>1. CASE derived' = [derived EXCEPT ![f] = Media!NoRow] /\ halfDone' = halfDone
    BY <2>1, DerivedIs, RowPut DEF DerivedTypes
  <2>2. CASE derived' = derived /\ halfDone' = halfDone \cup {f}
    BY <2>2, DerivedIs DEF DerivedTypes
  <2> QED
    BY <1>1, <2>1, <2>2
<1>4. DerivedTypes' /\ JobTypes' /\ QueueFits' /\ ShownTypes'
  <2>1. DerivedTypes'
    BY <1>1, <1>2, <1>3, DerivedIs, MediaAssumed DEF DerivedTypes
  <2>2. JobTypes' /\ QueueFits' /\ ShownTypes'
    BY <1>1, DerivedIs DEF JobTypes, QueueFits, ShownTypes
  <2> QED
    BY <2>1, <2>2
<1>5. saved[f] = "done" /\ (f \in halfDone => f \in halfDone')
  BY <1>1, DerivedIs DEF StageFits, DerivedTypes
<1>6. StageFits(f)' /\ SourceFits(f)' /\ PreviewFits(f)'
  BY <1>1, <1>2, <1>3, <1>5, DerivedIs DEF StageFits, SourceFits, PreviewFits, Unsettled
<1>7. \A g \in Files \ {f} : SameRow(g) /\ SameJob(g)
  BY <1>1, <1>2, <1>3 DEF SameRow, SameJob
<1> QED
  BY <1>4, <1>6, <1>7, DerivedGoes DEF DerivedFits

LEMMA RequestPreviewStep ==
  ASSUME MediaInv, NEW r \in Requests, NEW f \in Files, Media!RequestPreview(r, f)
  PROVE  MediaInv'
<1>1. /\ request' = [request EXCEPT ![r] = f]
      /\ derived' = derived /\ source' = source /\ shown' = shown /\ job' = job /\ queue' = queue
      /\ saved' = saved /\ deleting' = deleting /\ halfDone' = halfDone
  BY DEF Media!RequestPreview
<1>2. DerivedTypes' /\ JobTypes' /\ QueueFits' /\ ShownTypes'
  BY <1>1, DerivedIs, MediaAssumed DEF DerivedTypes, JobTypes, QueueFits, ShownTypes
<1>3. DerivedFits(f)' /\ \A g \in Files : SameRow(g) /\ SameJob(g)
  <2>1. \A g \in Files : SameRow(g) /\ SameJob(g)
    BY <1>1 DEF SameRow, SameJob
  <2> QED
    BY <2>1, DerivedStands DEF MediaInv
<1> QED
  BY <1>2, <1>3, DerivedGoes

\* The preview of a request is recorded in the row, if both are still there.
LEMMA RequestMakesStep ==
  ASSUME MediaInv, NEW r \in Requests, Media!RequestMakes(r)
  PROVE  MediaInv'
<1>1. PICK f : f = request[r]
  OBVIOUS
<1>2. /\ request' = [request EXCEPT ![r] = "none"]
      /\ shown' = IF f \in source THEN shown \cup {Media!New(f)} ELSE shown
      /\ derived' = IF derived[f] = Media!NoRow \/ f \notin source THEN derived
                    ELSE [derived EXCEPT ![f].preview = Media!New(f)[2]]
      /\ source' = source /\ job' = job /\ queue' = queue /\ saved' = saved
      /\ deleting' = deleting /\ halfDone' = halfDone /\ f # "none"
  BY <1>1 DEF Media!RequestMakes
<1>3. f \in Files
  BY <1>1, <1>2 DEF MediaInv, DerivedTypes
<1>4. JobTypes' /\ QueueFits' /\ request' \in [Requests -> Files \cup {"none"}]
  BY <1>2 DEF MediaInv, JobTypes, QueueFits, DerivedTypes
<1>5. PICK n \in Nat : Media!New(f) = <<f, n>>
  BY <1>3, DerivedIs, NewIs
<1>6. /\ shown \subseteq shown' /\ ShownTypes'
  <2>1. CASE f \in source
    BY <1>2, <1>3, <1>5, <2>1, DerivedIs, ShownIs DEF ShownTypes
  <2>2. CASE f \notin source
    BY <1>2, <1>3, <2>2, DerivedIs DEF ShownTypes
  <2> QED
    BY <2>1, <2>2
<1>7. /\ derived' \in [Files -> DerivedType] /\ derived'[f].status = derived[f].status
      /\ \/ derived'[f] = derived[f]
         \/ derived'[f].preview = n /\ <<f, n>> \in shown' /\ derived[f].status # "none"
      /\ \A g \in Files \ {f} : derived'[g] = derived[g]
  <2>1. CASE derived[f] = Media!NoRow \/ f \notin source
    BY <1>2, <1>3, <2>1, DerivedIs DEF DerivedTypes
  <2>2. CASE ~(derived[f] = Media!NoRow \/ f \notin source)
    <3> DEFINE x == [derived[f] EXCEPT !.preview = n]
    <3>1. x \in DerivedType /\ x.preview = n /\ x.status = derived[f].status
      BY <1>3, DerivedIs DEF DerivedType
    <3>2. derived' = [derived EXCEPT ![f] = x] /\ <<f, n>> \in shown'
      BY <1>2, <1>5, <2>2
    <3> HIDE DEF x
    <3>3. derived[f].status # "none"
      BY <1>3, <2>2, DerivedIs
    <3> QED
      BY <1>3, <3>1, <3>2, <3>3, DerivedIs, RowPut
  <2> QED
    BY <2>1, <2>2
<1>8. DerivedTypes'
  BY <1>2, <1>4, <1>7, MediaAssumed DEF MediaInv, DerivedTypes
<1>9. StageFits(f)'
  BY <1>2, <1>3, <1>7, DerivedIs DEF StageFits
<1>10. SourceFits(f)'
  BY <1>2, <1>3, <1>7, DerivedIs DEF SourceFits
<1>11. PreviewFits(f)'
  BY <1>2, <1>3, <1>6, <1>7, DerivedIs DEF PreviewFits
<1>12. \A g \in Files \ {f} : SameRow(g) /\ SameJob(g)
  BY <1>2, <1>6, <1>7 DEF SameRow, SameJob
<1> QED
  BY <1>3, <1>4, <1>6, <1>8, <1>9, <1>10, <1>11, <1>12, DerivedGoes DEF DerivedFits
-----------------------------------------------------------------------------
LEMMA MediaStarts ==
  ASSUME Media!DerivativesAssumption, Media!Init
  PROVE  MediaInv
<1>1. /\ derived = [f \in Files |-> Media!NoRow] /\ source = {} /\ shown = {}
      /\ job = [f \in Files |-> Media!NoJob] /\ queue = << >> /\ saved = [f \in Files |-> "none"]
      /\ deleting = [f \in Files |-> -1] /\ request = [r \in Requests |-> "none"] /\ halfDone = {}
  BY DEF Media!Init
<1>2. DerivedTypes
  BY <1>1, MediaIs DEF DerivedTypes, DerivedType
<1>3. JobTypes
  BY <1>1, MediaIs DEF JobTypes, JobType, JobStages
<1>4. ShownTypes
  <2>1. 0 \in Nat /\ \A p \in shown : p[2] <= 0
    BY <1>1
  <2> QED
    BY <1>1, <2>1 DEF ShownTypes
<1>5. QueueFits
  BY <1>1 DEF QueueFits
<1>6. ASSUME NEW f \in Files
      PROVE  DerivedFits(f)
  <2>1. derived[f].status = "none" /\ derived[f].preview = 0 /\ job[f].at = "none"
    BY <1>1, MediaIs
  <2>2. deleting[f] = -1 /\ saved[f] = "none"
    BY <1>1
  <2> QED
    BY <2>1, <2>2 DEF DerivedFits, StageFits, SourceFits, PreviewFits, Waits, Works, Unsettled
<1> QED
  BY <1>2, <1>3, <1>4, <1>5, <1>6 DEF MediaInv

LEMMA MediaStep ==
  ASSUME MediaInv, [Media!Next]_Media!vars
  PROVE  MediaInv'
<1>1. CASE UNCHANGED Media!vars
  <2>1. /\ derived' = derived /\ source' = source /\ shown' = shown /\ job' = job /\ queue' = queue
        /\ saved' = saved /\ deleting' = deleting /\ request' = request /\ halfDone' = halfDone
    BY <1>1 DEF Media!vars
  <2>2. DerivedTypes' /\ JobTypes' /\ QueueFits' /\ ShownTypes'
    BY <2>1, MediaAssumed DEF MediaInv, DerivedTypes, JobTypes, QueueFits, ShownTypes
  <2>3. \A f \in Files : SameRow(f) /\ SameJob(f)
    BY <2>1 DEF SameRow, SameJob
  <2>4. \A f \in Files : DerivedFits(f)'
    BY <2>3, DerivedStands DEF MediaInv
  <2> QED
    BY <2>2, <2>4 DEF MediaInv
<1>2. ASSUME NEW f \in Files, \/ Media!Enqueue(f) \/ Media!Claim(f) \/ Media!Generated(f)
                              \/ Media!GeneratorFails(f) \/ Media!Store(f) \/ Media!Fail(f)
                              \/ Media!Clean(f) \/ Media!DeleteRow(f)
      PROVE  MediaInv'
  BY <1>2, EnqueueStep, ClaimStep, GeneratedStep, GeneratorFailsStep, StoreStep, FailStep, CleanStep,
     DeleteRowStep
<1>3. ASSUME NEW r \in Requests, Media!RequestMakes(r)
      PROVE  MediaInv'
  BY <1>3, RequestMakesStep
<1>4. ASSUME NEW f \in Files, Media!Upload(f) \/ Media!Deadline(f) \/ Media!DeleteReads(f)
      PROVE  MediaInv'
  BY <1>4, MediaUploadStep, DeadlineStep, DeleteReadsStep
<1>5. ASSUME NEW r \in Requests, NEW f \in Files, Media!RequestPreview(r, f)
      PROVE  MediaInv'
  BY <1>5, RequestPreviewStep
<1> QED
  BY <1>1, <1>2, <1>3, <1>4, <1>5, RestartStep DEF Media!Next, Media!Serve

\* How far a job is tells the status of its row, its source and the preview that is there,
\* and what waits in the queue waits in it once.
THEOREM MediaInvariant == Media!DerivativesAssumption /\ Media!Spec => []MediaInv
<1>1. Media!DerivativesAssumption /\ Media!Init => MediaInv
  BY MediaStarts
<1>2. MediaInv /\ [Media!Next]_Media!vars => MediaInv'
  BY MediaStep
<1> QED
  BY <1>1, <1>2, PTL DEF Media!Spec

\* Every variable has its type.
THEOREM MediaTypeCorrect == Media!DerivativesAssumption /\ Media!Spec => []Media!TypeOK
<1>1. ASSUME MediaInv
      PROVE  Media!TypeOK
  <2>1. DerivedTypes /\ JobTypes
    BY <1>1 DEF MediaInv
  <2>2. \A f \in Files : derived[f].status \in {"none", "queued", "processing", "ready", "failed"}
    BY <2>1 DEF DerivedTypes, DerivedType
  <2>3. \A f \in Files : job[f].at \in {"none", "queue"} \cup Media!Working
    BY <2>1, MediaIs DEF JobTypes, JobType, JobStages, Waits, Works
  <2> QED
    BY <2>1, <2>2, <2>3 DEF DerivedTypes, JobTypes, Media!TypeOK
<1> QED
  BY <1>1, MediaInvariant, PTL

\* The source of a row that is not settled is there for its job, also after a restart, unless
\* a deletion took it or a job could not write its outcome.
THEOREM SourcesStay == Media!DerivativesAssumption /\ Media!Spec => []Media!SourceKept
<1>1. ASSUME MediaInv
      PROVE  Media!SourceKept
  <2>1. \A f \in Files : SourceFits(f)
    BY <1>1, DerivedIs
  <2> QED
    BY <2>1 DEF SourceFits, Media!SourceKept, Unsettled
<1> QED
  BY <1>1, MediaInvariant, PTL

\* A temporary copy stays only for a row that waits for its job or is in it, unless the row
\* was deleted or the server stopped before the clean-up.
THEOREM CopiesAreRemoved == Media!DerivativesAssumption /\ Media!Spec => []Media!TempIsCleaned
<1>1. ASSUME MediaInv
      PROVE  Media!TempIsCleaned
  <2>1. ASSUME NEW f \in Remote \cap source
        PROVE  \/ derived[f].status \in {"queued", "processing"} \/ Media!Known(f)
               \/ f \in halfDone \/ derived[f] = Media!NoRow
    <3>1. f \in Files
      BY <1>1 DEF MediaInv, DerivedTypes
    <3>2. SourceFits(f) /\ derived[f] \in DerivedType /\ (derived[f].status = "none" => derived[f] = Media!NoRow)
      BY <1>1, <3>1, DerivedIs
    <3> QED
      BY <3>2 DEF SourceFits, DerivedType, Media!Known
  <2> QED
    BY <2>1 DEF Media!TempIsCleaned
<1> QED
  BY <1>1, MediaInvariant, PTL

\* A file shown as ready has the preview that its row names.
THEOREM ReadyIsShown == Media!DerivativesAssumption /\ Media!Spec => []Media!ReadyHasPreview
<1>1. ASSUME MediaInv
      PROVE  Media!ReadyHasPreview
  <2>1. \A f \in Files : PreviewFits(f)
    BY <1>1, DerivedIs
  <2> QED
    BY <2>1 DEF PreviewFits, Media!ReadyHasPreview
<1> QED
  BY <1>1, MediaInvariant, PTL

\* What the derivation of previews works on is there while it is needed, and gone once it is
\* not (processJob of mediaDerivatives.ts, deleteIndex): the three together.
THEOREM DerivativesAreKept ==
    Media!DerivativesAssumption /\ Media!Spec =>
        [](Media!SourceKept /\ Media!TempIsCleaned /\ Media!ReadyHasPreview)
<1> QED
  BY SourcesStay, CopiesAreRemoved, ReadyIsShown, PTL
=============================================================================
