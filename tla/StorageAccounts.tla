--------------------------- MODULE StorageAccounts ---------------------------
(***************************************************************************)
(* The cloud accounts files are stored in: the rows of the database and    *)
(* the StorageManager in memory, the switch of the default target, the     *)
(* leases that uploads take on their account, and the deletion of an       *)
(* account with its index after a confirmation (services/storage.ts,       *)
(* storageAccountLifecycle.ts, storageAccountOperation.ts,                 *)
(* routes/storage.ts, routes/upload.ts).                                   *)
(*                                                                         *)
(* A transaction that locks the row of the account is one step.  Other     *)
(* references to an account (jobs, subscriptions, journals) that refuse    *)
(* its deletion are one upload that holds a lease.                         *)
(***************************************************************************)
EXTENDS Integers, FiniteSets

CONSTANTS
    Accounts,    \* cloud accounts
    TypeOf,      \* the provider of each
    Switches,    \* calls of switchAccount
    Uploads,     \* uploads
    MaxEvents    \* bound on errors, crashes, deletions and late renewals

StorageAssumption ==
    /\ IsFiniteSet(Accounts) /\ IsFiniteSet(Switches) /\ IsFiniteSet(Uploads)
    /\ "local" \notin Accounts /\ DOMAIN TypeOf = Accounts /\ MaxEvents \in Nat
    /\ \A a \in Accounts : TypeOf[a] # "local"

VARIABLES
    account,   \* storage_accounts: "new" before and "gone" after there is a row
    setting,   \* active_storage_provider
    active,    \* activeProvider and activeAccountId in memory
    loaded,    \* the accounts with a provider in memory
    call,      \* the calls of switchAccount
    adding,    \* accounts whose row is written and whose provider is not loaded yet
    upload,    \* each upload: its stage and its account
    lease,     \* its row of storage_account_leases
    row,       \* its row of files
    delete,    \* the deletion under way: its stage, account and confirmed files
    odd,       \* for the properties
    events
vars == << account, setting, active, loaded, call, adding, upload, lease, row, delete, odd, events >>
dbVars == << account, setting >>
useVars == << upload, lease, row >>

Targets == Accounts \cup {"local"}
Exists(t) == t \in {"local"} \cup {a \in Accounts : account[a] \in {"idle", "active"}}
ActiveRows == {a \in Accounts : account[a] = "active"}
Idle == [at |-> "idle", target |-> "local", read |-> "local", rows |-> << >>]
NoDelete == [at |-> "idle", account |-> "local", files |-> {}]
TypeName(t) == IF t = "local" THEN "local" ELSE TypeOf[t]

\* The server has been started with accounts and the local target.
Init ==
    /\ account \in [Accounts -> {"new", "idle"}] /\ setting = "local"
    /\ active = "local" /\ loaded = {a \in Accounts : account[a] = "idle"}
    /\ call = [s \in Switches |-> Idle] /\ adding = {}
    /\ upload = [u \in Uploads |-> [at |-> "new", target |-> "local"]]
    /\ lease = [u \in Uploads |-> "none"] /\ row = [u \in Uploads |-> FALSE]
    /\ delete = NoDelete
    /\ odd = [overlap |-> FALSE, raced |-> {}, lost |-> {}]
    /\ events = 0
-----------------------------------------------------------------------------
Event == events < MaxEvents /\ events' = events + 1
Busy == {s \in Switches : call[s].at \in {"setting", "rows", "apply"}}
Call(s, v) == call' = [call EXCEPT ![s] = v]

\* switchAccount: the probe needs a provider; then one transaction.
Switch(s, t) ==
    /\ call[s].at = "idle" /\ t \in loaded \cup {"local"} /\ Exists(t)
    /\ account' = [a \in Accounts |-> IF ~Exists(a) THEN account[a]
                                      ELSE IF a = t THEN "active" ELSE "idle"]
    /\ setting' = TypeName(t)
    /\ Call(s, [Idle EXCEPT !.at = "setting", !.target = t])
    /\ odd' = [odd EXCEPT !.overlap = @ \/ Busy # {}]
    /\ UNCHANGED << active, loaded, adding, useVars, delete, events >>

\* init: the setting, and the rows, are read one after the other, ...
InitReads(s) ==
    /\ \/ call[s].at = "setting" /\ Call(s, [call[s] EXCEPT !.at = "rows", !.read = setting])
       \/ call[s].at = "rows" /\ Call(s, [call[s] EXCEPT !.at = "apply", !.rows = account])
    /\ UNCHANGED << dbVars, active, loaded, adding, useVars, delete, odd, events >>

ActiveIn(rows) == {a \in Accounts : rows[a] = "active"}
\* validateConfiguredStorageTarget.
Consistent(read, rows) ==
    IF read = "local" THEN ActiveIn(rows) = {}
    ELSE \E a \in Accounts : ActiveIn(rows) = {a} /\ TypeOf[a] = read

\* ... and applied after further queries; two reads that do not fit make the
\* call fail although its transaction is committed.
InitApplies(s) ==
    /\ call[s].at = "apply" /\ Call(s, [Idle EXCEPT !.at = "done"])
    /\ IF Consistent(call[s].read, call[s].rows)
       THEN /\ loaded' = loaded \cup {a \in Accounts : call[s].rows[a] \in {"idle", "active"}}
            /\ active' = IF call[s].read = "local" THEN "local"
                         ELSE CHOOSE a \in ActiveIn(call[s].rows) : TRUE
       ELSE UNCHANGED << loaded, active >>
    /\ UNCHANGED << dbVars, adding, useVars, delete, odd, events >>

\* Adding an account: the row, then the provider.
Add(a) ==
    /\ account[a] = "new" /\ Event
    /\ account' = [account EXCEPT ![a] = "idle"] /\ adding' = adding \cup {a}
    /\ UNCHANGED << setting, active, loaded, call, useVars, delete, odd >>
Added(a) ==
    /\ a \in adding /\ adding' = adding \ {a} /\ loaded' = loaded \cup {a}
    /\ UNCHANGED << dbVars, active, call, useVars, delete, odd, events >>
-----------------------------------------------------------------------------
(* An upload: its target is captured, then leased, then written. *)
Stage(u, st) == upload' = [upload EXCEPT ![u].at = st]

\* The default target, or one that the user chose.
Capture(u, t) ==
    /\ upload[u].at = "new" /\ (t = active \/ t \in {a \in Accounts : Exists(a)} \cap loaded)
    /\ upload' = [upload EXCEPT ![u] = [at |-> "captured", target |-> t]]
    /\ UNCHANGED << dbVars, active, loaded, call, adding, lease, row, delete, odd, events >>

\* acquireStorageAccountLease: an account that is gone ends the upload.
Lease(u) ==
    /\ upload[u].at = "captured"
    /\ IF ~Exists(upload[u].target) THEN Stage(u, "failed") /\ UNCHANGED lease
       ELSE /\ Stage(u, "writing")
            /\ lease' = [lease EXCEPT ![u] = IF upload[u].target = "local" THEN "none" ELSE "held"]
    /\ UNCHANGED << dbVars, active, loaded, call, adding, row, delete, odd, events >>

\* The object is stored and its row inserted, or neither.
Write(u, ok) ==
    /\ upload[u].at = "writing"
    /\ IF ok THEN row' = [row EXCEPT ![u] = TRUE] /\ UNCHANGED events
       ELSE Event /\ UNCHANGED row
    /\ Stage(u, "leaving")
    /\ odd' = [odd EXCEPT !.raced = IF ok /\ ~Exists(upload[u].target) THEN @ \cup {u} ELSE @]
    /\ UNCHANGED << dbVars, active, loaded, call, adding, lease, delete >>

\* The lease is released; an error is logged and the row stays.
Release(u, ok) ==
    /\ upload[u].at = "leaving" /\ Stage(u, "done")
    /\ IF ok THEN lease' = [lease EXCEPT ![u] = IF @ = "none" THEN "none" ELSE "released"]
                  /\ UNCHANGED events
       ELSE Event /\ UNCHANGED lease
    /\ UNCHANGED << dbVars, active, loaded, call, adding, row, delete, odd >>

\* The time of a lease runs out: its holder is gone, or its renewals fail.
Expire(u) ==
    /\ lease[u] = "held"
    /\ IF upload[u].at \in {"done", "failed"} THEN UNCHANGED events ELSE Event
    /\ lease' = [lease EXCEPT ![u] = "expired"]
    /\ UNCHANGED << dbVars, active, loaded, call, adding, upload, row, delete, odd >>
-----------------------------------------------------------------------------
(* The deletion of an account with its index. *)
FilesOf(a) == {u \in Uploads : row[u] /\ upload[u].target = a}

\* The preview and its one-time confirmation.
Confirm(a) ==
    /\ delete.at = "idle" /\ account[a] = "idle" /\ Event
    /\ delete' = [at |-> "confirmed", account |-> a, files |-> FilesOf(a)]
    /\ UNCHANGED << dbVars, active, loaded, call, adding, useVars, odd >>

\* Leases that were not released refuse the deletion, whether or not they expired.
InUse(a) == \E u \in Uploads : upload[u].target = a /\ lease[u] \in {"held", "expired"}

\* The fingerprint of the files is the one that was confirmed.
AsConfirmed(a) == FilesOf(a) = delete.files

\* DELETE /accounts/:id up to COMMIT.
Delete ==
    /\ delete.at = "confirmed"
    /\ LET a == delete.account IN
       IF account[a] = "idle" /\ AsConfirmed(a) /\ ~InUse(a) /\ active # a
       THEN /\ account' = [account EXCEPT ![a] = "gone"]
            /\ odd' = [odd EXCEPT !.lost = @ \cup (FilesOf(a) \ delete.files),
                                  !.overlap = @ \/ \E s \in Busy : call[s].at = "apply"]
            /\ row' = [u \in Uploads |-> row[u] /\ upload[u].target # a]
            /\ delete' = [delete EXCEPT !.at = "committed"]
       ELSE delete' = NoDelete /\ UNCHANGED << account, row, odd >>
    /\ UNCHANGED << setting, active, loaded, call, adding, upload, lease, events >>

RemoveProvider ==
    /\ delete.at = "committed" /\ delete' = NoDelete
    /\ loaded' = loaded \ {delete.account}
    /\ UNCHANGED << dbVars, active, call, adding, useVars, odd, events >>

\* The server stops and starts: memory is built from the rows, uploads are gone
\* and their leases stay until they expire.
Crash ==
    /\ Event /\ Consistent(setting, account)
    /\ active' = IF setting = "local" THEN "local" ELSE CHOOSE a \in ActiveRows : TRUE
    /\ loaded' = {a \in Accounts : Exists(a)}
    /\ call' = [s \in Switches |-> IF call[s].at = "idle" THEN Idle ELSE [Idle EXCEPT !.at = "done"]]
    /\ adding' = {} /\ delete' = NoDelete
    /\ upload' = [u \in Uploads |-> IF upload[u].at = "new" THEN upload[u]
                                    ELSE [upload[u] EXCEPT !.at = "done"]]
    /\ odd' = [odd EXCEPT !.overlap = FALSE]
    /\ UNCHANGED << dbVars, lease, row >>
-----------------------------------------------------------------------------
SwitchStep(s) == InitReads(s) \/ InitApplies(s)
UploadStep(u) == Lease(u) \/ Write(u, TRUE) \/ Release(u, TRUE)
Next ==
    \/ \E s \in Switches : SwitchStep(s) \/ \E t \in Targets : Switch(s, t)
    \/ \E a \in Accounts : Add(a) \/ Added(a) \/ Confirm(a)
    \/ \E u \in Uploads : UploadStep(u) \/ Write(u, FALSE) \/ Release(u, FALSE) \/ Expire(u)
                          \/ \E t \in Targets : Capture(u, t)
    \/ Delete \/ RemoveProvider \/ Crash
Spec == Init /\ [][Next]_vars
-----------------------------------------------------------------------------
AccountStatus == {"new", "idle", "active", "gone"}
TypeNames == {TypeName(t) : t \in Targets}
CallType ==
    [at : {"idle", "setting", "rows", "apply", "done"}, target : Targets, read : TypeNames,
     rows : {<< >>} \cup [Accounts -> AccountStatus]]
UploadType ==
    [at : {"new", "captured", "writing", "leaving", "done", "failed"}, target : Targets]
DeleteType ==
    [at : {"confirmed", "committed"}, account : Accounts, files : SUBSET Uploads] \cup {NoDelete}

\* Every variable has its type.
TypeOK ==
    /\ account \in [Accounts -> AccountStatus] /\ setting \in TypeNames
    /\ active \in Targets /\ loaded \subseteq Accounts /\ adding \subseteq Accounts
    /\ call \in [Switches -> CallType] /\ upload \in [Uploads -> UploadType]
    /\ lease \in [Uploads -> {"none", "held", "expired", "released"}]
    /\ row \in [Uploads -> BOOLEAN] /\ delete \in DeleteType
    /\ odd \in [overlap : BOOLEAN, raced : SUBSET Uploads, lost : SUBSET Uploads]

\* The setting and the active row always name one target, and the rows of files
\* belong to accounts that exist: an account that is being written to, or is the
\* default target, is not deleted.
TargetExists ==
    /\ Consistent(setting, account)
    /\ \A u \in Uploads : row[u] \/ upload[u].at \in {"writing", "leaving"} => Exists(upload[u].target)
    /\ odd.raced = {}

\* Deleting an account deletes the rows of the files that were shown, no others.
DeletedAsConfirmed == odd.lost = {}

\* Once the switches are over, memory has the target of the database, unless two
\* of them, or one and a deletion, overlapped.
MemoryFollowsRows ==
    Busy = {} /\ ~odd.overlap => active = (IF setting = "local" THEN "local"
                                          ELSE CHOOSE a \in ActiveRows : TRUE)

=============================================================================
