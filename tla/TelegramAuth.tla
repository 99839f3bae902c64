---------------------------- MODULE TelegramAuth ----------------------------
(***************************************************************************)
(* Who may use the bot (services/telegramState.ts, utils/authSettings.ts,   *)
(* the PIN and code handlers of services/telegramBot.ts): rows of           *)
(* telegram_auth and their cache in the memory of the server, the PIN and   *)
(* the list of allowed users in the settings, and the state of a login that *)
(* waits for its second factor.  A handler reads and writes them one await  *)
(* at a time, while the administrator changes the PIN or the list.          *)
(***************************************************************************)
EXTENDS Naturals, FiniteSets

CONSTANTS
    Users,
    Handlers,   \* updates of Telegram under way
    MaxFail,    \* wrong PINs after which a user is locked out
    MaxOps,     \* bound on what users and the administrator do
    MaxEvents   \* bound on failing statements and restarts

AuthAssumption ==
    /\ IsFiniteSet(Users) /\ IsFiniteSet(Handlers) /\ Handlers # {} /\ "admin" \notin Handlers
    /\ MaxFail \in Nat \ {0} /\ MaxOps \in Nat /\ MaxEvents \in Nat

VARIABLES
    pin,        \* the version of the PIN
    twoFactor,  \* whether the second factor is switched on
    allow,      \* the stored list of allowed users
    rows,       \* telegram_auth
    cache,      \* authenticatedUsers
    state,      \* userStates: a login or a setup that waits for a code, and the PIN it gave
    failed,     \* pinFailureState: wrong PINs of a user
    locked,     \* users that are locked out
    handler,
    tx,         \* the transaction that saves the list
    change,     \* a change of the PIN: committed and not yet cleared from memory
    grant,      \* the PIN by which a user was last let in
    late,       \* users whose login overlapped a change of the PIN
    met,        \* users for whom two steps on rows and cache overlapped
    ops, events
vars == << pin, twoFactor, allow, rows, cache, state, failed, locked, handler, tx, change,
           grant, late, met, ops, events >>
settings == << pin, twoFactor, allow >>
store == << rows, cache, grant >>
pinTries == << failed, locked >>
marks == << late, met >>

NoState == [what |-> "none", pin |-> 0]
\* "clears": whether the end of the handler drops the state of its user.
Free == [at |-> "free", user |-> "none", pin |-> 0, list |-> {}, clears |-> FALSE]
DropState(h) == IF handler[h].clears THEN [state EXCEPT ![handler[h].user] = NoState] ELSE state
NoTx == [at |-> "idle", by |-> "none", list |-> {}]

Init ==
    /\ pin = 1 /\ twoFactor \in BOOLEAN /\ allow \in SUBSET Users
    /\ rows = {} /\ cache = {} /\ grant = [u \in Users |-> 0]
    /\ state = [u \in Users |-> NoState]
    /\ failed = [u \in Users |-> 0] /\ locked = {}
    /\ handler = [h \in Handlers |-> Free] /\ tx = NoTx /\ change = "idle"
    /\ late = {} /\ met = {} /\ ops = 0 /\ events = 0
-----------------------------------------------------------------------------
Op == ops < MaxOps /\ ops' = ops + 1 /\ UNCHANGED events
Event == events < MaxEvents /\ events' = events + 1 /\ UNCHANGED ops
Goes == UNCHANGED << ops, events >>

Step(h, r) == handler' = [handler EXCEPT ![h] = r]
To(h, at) == Step(h, [handler[h] EXCEPT !.at = at])
End(h) == Step(h, Free)

\* A user that is no longer on the list.
Refused(u) == allow # {} /\ u \notin allow

\* Handlers between two steps on the row and the cache of a user.
Busy == {h \in Handlers : handler[h].at \in {"insert", "cache", "delete", "uncache"}}
BusyUsers == {handler[h].user : h \in Busy}
\* Handlers that have checked a PIN, or hold the state of one that did.
Proving == {h \in Handlers : handler[h].at \in {"list", "count", "add", "write", "saving", "second", "code", "insert", "cache"}}
Enters(u) == met' = IF u \in BusyUsers \/ change # "idle" \/ tx.at # "idle" THEN met \cup {u} ELSE met
-----------------------------------------------------------------------------
(* The PIN is typed on a keyboard of buttons.                               *)

\* handlePasswordCallback, up to the fourth digit; a user may type an old PIN.
TypePin(h, u) ==
    /\ handler[h] = Free /\ u \notin locked /\ Op
    /\ \E typed \in 0..pin : Step(h, [Free EXCEPT !.at = "verify", !.user = u, !.pin = typed])
    /\ UNCHANGED << settings, store, state, pinTries, tx, change, marks >>

Full(n) == n >= MaxFail

\* verifyTelegramPin and recordPinFailure.
Verify(h) ==
    LET u == handler[h].user IN
    /\ handler[h].at = "verify" /\ Goes
    /\ \/ handler[h].pin = pin /\ To(h, "list") /\ UNCHANGED pinTries
       \/ /\ handler[h].pin # pin /\ End(h)
          /\ failed' = [failed EXCEPT ![u] = @ + 1]
          /\ locked' = IF Full(failed[u] + 1) THEN locked \cup {u} ELSE locked
    /\ UNCHANGED << settings, store, state, tx, change, marks >>

\* The lock runs out, or the window of the failures.
FailuresEnd(u) ==
    /\ failed[u] > 0 /\ Event
    /\ failed' = [failed EXCEPT ![u] = 0] /\ locked' = locked \ {u}
    /\ UNCHANGED << settings, store, state, handler, tx, change, marks >>

\* A code that nobody sent in time is not waited for any longer.
StateExpires(u) ==
    /\ state[u] # NoState /\ Event
    /\ state' = [state EXCEPT ![u] = NoState]
    /\ UNCHANGED << settings, store, pinTries, handler, tx, change, marks >>

\* getConfiguredTelegramAllowedUsers: a read that fails gives the empty list.
ReadList(h) ==
    LET u == handler[h].user IN
    /\ handler[h].at = "list"
    /\ \E list \in {allow, {}} :
          /\ IF list = allow THEN Goes ELSE Event
          /\ Step(h, [handler[h] EXCEPT !.list = list, !.at = IF u \in list THEN "second" ELSE "count"])
    /\ UNCHANGED << settings, store, state, pinTries, tx, change, marks >>

\* shouldAutoAllowFirstTelegramUser.
Count(h) ==
    /\ handler[h].at = "count" /\ Goes
    /\ IF handler[h].list = {} /\ rows = {} THEN To(h, "add") ELSE End(h)
    /\ UNCHANGED << settings, store, state, pinTries, tx, change, marks >>

\* addTelegramAllowedUser reads the list and then writes all of it.
AddUser(h) ==
    /\ handler[h].at = "add" /\ Goes
    /\ Step(h, [handler[h] EXCEPT !.list = allow \cup {handler[h].user}, !.at = "write"])
    /\ UNCHANGED << settings, store, state, pinTries, tx, change, marks >>

\* is2FAEnabled.
Second(h) ==
    LET u == handler[h].user IN
    /\ handler[h].at = "second" /\ Goes
    /\ \/ /\ twoFactor
          /\ state' = [state EXCEPT ![u] = [what |-> "login", pin |-> handler[h].pin]]
          /\ End(h) /\ UNCHANGED met
       \/ ~twoFactor /\ To(h, "insert") /\ Enters(u) /\ UNCHANGED state
    /\ UNCHANGED << settings, store, pinTries, tx, change, late >>
-----------------------------------------------------------------------------
(* persistAuthenticatedUser: the row, then the cache.                       *)

\* The transaction that saves the list holds the rows it deletes.
Held(u) == tx.at = "open" /\ u \in rows /\ u \notin tx.list

Insert(h) ==
    LET u == handler[h].user IN
    /\ handler[h].at = "insert" /\ ~Held(u)
    /\ \/ /\ Goes /\ To(h, "cache")
          /\ rows' = rows \cup {u} /\ grant' = [grant EXCEPT ![u] = handler[h].pin]
          /\ UNCHANGED state
       \/ Event /\ End(h) /\ state' = DropState(h) /\ UNCHANGED << rows, grant >>
    /\ UNCHANGED << settings, cache, pinTries, tx, change, marks >>

Remember(h) ==
    /\ handler[h].at = "cache" /\ Goes
    /\ cache' = cache \cup {handler[h].user} /\ state' = DropState(h)
    /\ End(h)
    /\ UNCHANGED << settings, rows, grant, pinTries, tx, change, marks >>

(* A code of six digits is sent while a login or a setup waits for it.      *)
SendCode(h, u) ==
    /\ handler[h] = Free /\ state[u].what # "none" /\ Op
    /\ Step(h, [Free EXCEPT !.at = IF state[u].what = "login" THEN "code" ELSE "setup",
                            !.user = u, !.pin = state[u].pin, !.clears = TRUE])
    /\ late' = IF change = "clear" THEN late \cup {u} ELSE late
    /\ UNCHANGED << settings, store, state, pinTries, tx, change, met >>

CodeVerified(h) ==
    LET u == handler[h].user IN
    /\ handler[h].at = "code" /\ Goes
    /\ \/ End(h) /\ UNCHANGED met
       \/ To(h, "insert") /\ Enters(u)
    /\ UNCHANGED << settings, store, state, pinTries, tx, change, late >>

\* /setup_2fa, by a user that is let in.
Setup(u) ==
    /\ u \in cache /\ ~Refused(u) /\ ~twoFactor /\ Op
    /\ state' = [state EXCEPT ![u] = [what |-> "setup", pin |-> 0]]
    /\ UNCHANGED << settings, store, pinTries, handler, tx, change, marks >>

SetupVerified(h) ==
    LET u == handler[h].user IN
    /\ handler[h].at = "setup" /\ Goes
    /\ \/ UNCHANGED << state, twoFactor >>
       \/ /\ state' = [state EXCEPT ![u] = NoState]
          /\ twoFactor' = (twoFactor \/ (u \in cache /\ ~Refused(u)))
    /\ End(h)
    /\ UNCHANGED << pin, allow, store, pinTries, tx, change, marks >>
-----------------------------------------------------------------------------
(* revokeAuthenticatedUser, by /logout or because the user is no longer     *)
(* allowed (isAuthenticatedAsync): the row, then the cache.                 *)
Revoke(h, u) ==
    /\ handler[h] = Free /\ u \in cache /\ Op
    /\ Step(h, [Free EXCEPT !.at = "delete", !.user = u, !.clears = ~Refused(u)]) /\ Enters(u)
    /\ UNCHANGED << settings, store, state, pinTries, tx, change, late >>

Delete(h) ==
    LET u == handler[h].user IN
    /\ handler[h].at = "delete" /\ ~Held(u)
    /\ \/ Goes /\ rows' = rows \ {u} /\ To(h, "uncache")
       \/ Event /\ End(h) /\ UNCHANGED rows
    /\ UNCHANGED << settings, cache, grant, state, pinTries, tx, change, marks >>

Forgotten(u) == cache \ {u}

Forget(h) ==
    LET u == handler[h].user IN
    /\ handler[h].at = "uncache" /\ Goes
    /\ cache' = Forgotten(u) /\ state' = DropState(h)
    /\ End(h)
    /\ UNCHANGED << settings, rows, grant, pinTries, tx, change, marks >>
-----------------------------------------------------------------------------
(* The list is saved, by the administrator or for the first user: in a      *)
(* transaction whose effect on the cache comes before its end.              *)
Save(by, list) ==
    /\ tx = NoTx
    /\ tx' = [at |-> "open", by |-> by, list |-> list]
    /\ cache' = cache \ (rows \ list)
    /\ met' = met \cup BusyUsers

SaveList ==
    /\ Op /\ \E list \in SUBSET Users : Save("admin", list)
    /\ UNCHANGED << settings, rows, grant, state, pinTries, handler, change, late >>

SaveAdded(h) ==
    /\ handler[h].at = "write" /\ Goes
    /\ Save(h, handler[h].list) /\ To(h, "saving")
    /\ UNCHANGED << settings, rows, grant, state, pinTries, change, late >>

After(at) ==
    IF tx.by = "admin" THEN UNCHANGED handler
    ELSE handler' = [handler EXCEPT ![tx.by] = IF at = "free" THEN Free ELSE [@ EXCEPT !.at = at]]

Commit ==
    /\ tx.at = "open" /\ Goes
    /\ allow' = tx.list /\ rows' = rows \cap tx.list
    /\ met' = met \cup BusyUsers
    /\ After("second") /\ tx' = NoTx
    /\ UNCHANGED << pin, twoFactor, cache, grant, state, pinTries, change, late >>

Rollback ==
    /\ tx.at = "open" /\ Event
    /\ After("free") /\ tx' = NoTx
    /\ UNCHANGED << settings, store, state, pinTries, change, marks >>
-----------------------------------------------------------------------------
(* changeTelegramPin: a transaction, and then the memory.                   *)
ChangePin ==
    /\ change = "idle" /\ Op
    /\ pin' = pin + 1 /\ rows' = {} /\ change' = "clear"
    /\ late' = late \cup {handler[h].user : h \in Proving} /\ met' = met \cup BusyUsers
    /\ UNCHANGED << twoFactor, allow, cache, grant, state, pinTries, handler, tx >>

Cleared == [u \in Users |-> NoState]

ClearAll ==
    /\ change = "clear" /\ Goes
    /\ cache' = {} /\ state' = Cleared /\ change' = "idle"
    /\ late' = late \cup {handler[h].user : h \in Proving} /\ met' = met \cup BusyUsers
    /\ UNCHANGED << settings, rows, grant, pinTries, handler, tx >>

\* loadAuthenticatedUsers.
Restart ==
    /\ Event
    /\ rows' = IF allow = {} THEN rows ELSE rows \cap allow
    /\ cache' = rows' /\ state' = [u \in Users |-> NoState]
    /\ failed' = [u \in Users |-> 0] /\ locked' = {}
    /\ handler' = [h \in Handlers |-> Free] /\ tx' = NoTx /\ change' = "idle"
    /\ UNCHANGED << settings, grant, marks >>

Next ==
    \/ \E h \in Handlers, u \in Users : TypePin(h, u) \/ SendCode(h, u) \/ Revoke(h, u)
    \/ \E h \in Handlers :
          \/ Verify(h) \/ ReadList(h) \/ Count(h) \/ AddUser(h) \/ SaveAdded(h) \/ Second(h)
          \/ Insert(h) \/ Remember(h) \/ CodeVerified(h) \/ SetupVerified(h) \/ Delete(h) \/ Forget(h)
    \/ \E u \in Users : FailuresEnd(u) \/ StateExpires(u) \/ Setup(u)
    \/ SaveList \/ Commit \/ Rollback \/ ChangePin \/ ClearAll \/ Restart

Spec == Init /\ [][Next]_vars
-----------------------------------------------------------------------------
TypeOK ==
    /\ pin \in 1..(MaxOps + 1) /\ twoFactor \in BOOLEAN /\ allow \subseteq Users
    /\ rows \subseteq Users /\ cache \subseteq Users /\ locked \subseteq Users
    /\ \A u \in Users : state[u].what \in {"none", "login", "setup"} /\ grant[u] \in 0..pin
    /\ \A h \in Handlers : handler[h].at \in
          {"free", "verify", "list", "count", "add", "write", "saving", "second", "code", "setup",
           "insert", "cache", "delete", "uncache"}
    /\ tx.at \in {"idle", "open"} /\ change \in {"idle", "clear"}
    /\ ops \in 0..MaxOps /\ events \in 0..MaxEvents

(* Who has a grant gave the PIN that is valid now: a change of the PIN ends  *)
(* the grants, and the logins that waited for their code.  Left out are the  *)
(* users whose login was between two steps when the PIN changed: a login     *)
(* that has checked the old PIN still writes its row after the change.       *)
GrantsFitPin ==
    /\ \A u \in rows \ late : grant[u] = pin
    /\ change = "idle" => \A u \in cache \ late : grant[u] = pin

(* When nothing is under way the cache lets in only users that have a row,  *)
(* who are let in again after a restart, unless steps of one user           *)
(* overlapped.                                                              *)
CacheHasRow == Busy = {} /\ change = "idle" /\ tx = NoTx => cache \ met \subseteq rows

(* A user is locked out after MaxFail wrong PINs: those that were under way *)
(* when the last one failed are all that comes on top.                      *)
TriesAreBounded == \A u \in Users : failed[u] < MaxFail + Cardinality(Handlers)
=============================================================================
