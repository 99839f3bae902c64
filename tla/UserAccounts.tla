--------------------------- MODULE UserAccounts ---------------------------
(***************************************************************************)
(* The Telegram user accounts: their rows (telegramAccountRepository.ts),  *)
(* the pool of connected clients (telegramUserClientPool.ts), the choice of*)
(* an account for a download (telegramAccountScheduler.ts), and what stops *)
(* an account (telegramMultiAccountRuntime.ts, routes/storage.ts).         *)
(*                                                                         *)
(* Operations on the pool are chained by promises and run one at a time;   *)
(* the statements on the rows are not part of the chain.                   *)
(***************************************************************************)
EXTENDS Integers, Sequences, FiniteSets

CONSTANTS
    Accounts, Weight,  \* the accounts, and the weight of each
    MaxConnections,    \* max_connections, the same for all
    Downloads,         \* downloads, each with an account at a time
    Requests,          \* requests of the administrator
    Clients,           \* identities for client objects, used again when free
    MaxEvents          \* bound on requests, errors and revoked sessions

AccountsAssumption ==
    /\ Weight \in [Accounts -> Nat \ {0}]
    /\ {MaxConnections, Clients} \subseteq Nat \ {0} /\ MaxEvents \in Nat
    /\ IsFiniteSet(Downloads) /\ Downloads \cap Requests = {}

VARIABLES
    row,      \* telegram_user_accounts
    denied,   \* accounts without access to the source (telegram_account_source_access)
    revoked,  \* sessions that Telegram no longer accepts
    entry,    \* the pool's map, and the record an entry was made from
    client,   \* the TelegramClient objects
    chain,    \* operations that wait on initializationTail; the first one runs
    op,       \* what the running operation has read, and whom it connects
    req,      \* the administrator's requests
    use,      \* the downloads
    forgot,   \* cooldowns that were recorded while the account was connecting
    events

vars == << row, denied, revoked, entry, client, chain, op, req, use, forgot, events >>

ClientIds == 1..Clients
NoClient == [acct |-> "none", sess |-> 0, st |-> "free", active |-> 0]
NoOp == [at |-> "none", closing |-> {}, conn |-> {}]
NoUse == [at |-> "idle", acct |-> "none", client |-> 0, counted |-> FALSE]
NoRequest == [at |-> "idle", kind |-> "none", acct |-> "none"]

\* restoreEnabledTelegramUserAccountsAfterRestart is the first operation.
Init ==
    /\ row = [a \in Accounts |-> [there |-> TRUE, enabled |-> TRUE,
                                  health |-> "healthy", cool |-> FALSE, sess |-> 1]]
    /\ denied = {} /\ revoked = {}
    /\ entry = [a \in Accounts |-> [client |-> 0, cool |-> FALSE]]
    /\ client = [c \in ClientIds |-> NoClient]
    /\ chain = << [by |-> "boot", kind |-> "init", acct |-> "none"] >> /\ op = NoOp
    /\ req = [r \in Requests |-> NoRequest]
    /\ use = [d \in Downloads |-> NoUse]
    /\ forgot = {} /\ events = 0
-----------------------------------------------------------------------------
Event == events < MaxEvents /\ events' = events + 1
Entered(a) == entry[a].client # 0
Connecting == {client[c].acct : c \in op.conn}
Free == {c \in ClientIds : client[c].st \in {"free", "closed"}
                           /\ \A d \in Downloads : use[d].client # c}
Enqueue(by, kind, a) == chain' = Append(chain, [by |-> by, kind |-> kind, acct |-> a])
Enqueued(r) == \E i \in DOMAIN chain : chain[i].by = r

\* isRunnable: the entry's record, not the row, is asked.
IsRunnable(a) ==
    /\ Entered(a) /\ ~entry[a].cool /\ client[entry[a].client].st = "open"

\* One connection more, seen against the weight.
LessLoaded(a, b) == LET load(x) == client[entry[x].client].active + 1 IN
    load(a) * Weight[b] <= load(b) * Weight[a]

Candidates == {a \in Accounts :
    IsRunnable(a) /\ a \notin denied /\ client[entry[a].client].active < MaxConnections}
-----------------------------------------------------------------------------
(* The chain. *)
Head1 == Head(chain)
Targets == IF Head1.kind = "init" THEN Accounts ELSE {Head1.acct}

\* Mutant: an activation does not close the client it replaces.
OpBeginReplacing ==
    /\ chain # << >> /\ op.at = "none"
    /\ LET T == IF Head1.kind = "activate" THEN {} ELSE Targets IN
       /\ op' = [NoOp EXCEPT !.at = "close", !.closing = {entry[a].client : a \in T} \ {0}]
       /\ entry' = [a \in Accounts |-> IF a \in T THEN [client |-> 0, cool |-> FALSE]
                                       ELSE entry[a]]
    /\ UNCHANGED << row, denied, revoked, client, chain, req, use, forgot, events >>

\* shutdownEntries, expireEntry: the entries go at once, the clients later.
OpBegin ==
    /\ chain # << >> /\ op.at = "none"
    /\ op' = [NoOp EXCEPT !.at = "close", !.closing = {entry[a].client : a \in Targets} \ {0}]
    /\ entry' = [a \in Accounts |-> IF a \in Targets THEN [client |-> 0, cool |-> FALSE]
                                    ELSE entry[a]]
    /\ UNCHANGED << row, denied, revoked, client, chain, req, use, forgot, events >>

CloseClient(c) ==
    /\ c \in op.closing
    /\ op' = [op EXCEPT !.closing = @ \ {c}]
    /\ client' = [client EXCEPT ![c].st = "closed"]
    /\ UNCHANGED << row, denied, revoked, entry, chain, req, use, forgot, events >>

OpDone == chain' = Tail(chain) /\ op' = NoOp

\* connectAccount up to its first await; an account that may not run is left.
Eligible(a) == row[a].there /\ row[a].enabled /\ row[a].health # "expired" /\ ~row[a].cool

OpRead ==
    /\ op.at = "close" /\ op.closing = {}
    /\ IF Head1.kind = "expire" THEN OpDone /\ UNCHANGED client
       ELSE LET due == {a \in Targets : Eligible(a)}
                picks == {f \in [due -> Free] : \A a, b \in due : f[a] = f[b] => a = b}
                pick == CHOOSE f \in picks : TRUE
            IN
              /\ picks # {}  \* the bound on client objects
              /\ client' = [c \in ClientIds |->
                   IF \E a \in due : pick[a] = c
                   THEN LET a == CHOOSE x \in due : pick[x] = c IN
                        [acct |-> a, sess |-> row[a].sess, st |-> "connecting", active |-> 0]
                   ELSE client[c]]
              /\ op' = [op EXCEPT !.at = "connect", !.conn = {pick[a] : a \in due}]
              /\ UNCHANGED chain
    /\ UNCHANGED << row, denied, revoked, entry, req, use, forgot, events >>

Authorized(c) == <<client[c].acct, client[c].sess>> \notin revoked
Known(a, r) == IF row[a].there THEN r ELSE row[a]

\* The client is authorized; the entry gets the record that was read before.
\* A session that changed while connecting is written over the row's.
ConnectOk(c) ==
    /\ c \in op.conn /\ Authorized(c)
    /\ LET a == client[c].acct IN
       \E saves \in BOOLEAN :
         /\ IF saves THEN Event ELSE UNCHANGED events
         /\ row' = [row EXCEPT ![a] = Known(a, [row[a] EXCEPT !.health = "healthy",
                       !.sess = IF saves THEN client[c].sess ELSE row[a].sess])]
         /\ entry' = [entry EXCEPT ![a] = [client |-> c, cool |-> FALSE]]
    /\ client' = [client EXCEPT ![c].st = "open"]
    /\ op' = [op EXCEPT !.conn = @ \ {c}]
    /\ UNCHANGED << denied, revoked, chain, req, use, forgot >>

ConnectFails(c) ==
    /\ c \in op.conn
    /\ IF Authorized(c) THEN Event ELSE UNCHANGED events
    /\ LET a == client[c].acct IN
       row' = [row EXCEPT ![a] = Known(a,
                 IF Authorized(c) THEN [row[a] EXCEPT !.health = "degraded"]
                 ELSE [row[a] EXCEPT !.health = "expired", !.cool = FALSE])]
    /\ client' = [client EXCEPT ![c].st = "closed"]
    /\ op' = [op EXCEPT !.conn = @ \ {c}]
    /\ UNCHANGED << denied, revoked, entry, chain, req, use, forgot >>

OpEnds ==
    /\ op.at = "connect" /\ op.conn = {} /\ OpDone
    /\ UNCHANGED << row, denied, revoked, entry, client, req, use, forgot, events >>
-----------------------------------------------------------------------------
(* The administrator.  Enabling, disabling and logging in write the row and *)
(* then change the pool; deleting changes the pool and then writes the row. *)
Deleted(a) == Known(a, [row[a] EXCEPT !.there = FALSE, !.enabled = FALSE,
                                      !.health = "expired", !.cool = FALSE])

\* upsertAccount: also brings a deleted row back; a cooldown stays.
LoggedIn(a) == [row[a] EXCEPT !.there = TRUE, !.enabled = TRUE, !.health = "healthy",
                              !.sess = row[a].sess + 1]

\* What a request writes before it changes the pool.
Asked(kind, a) ==
    CASE kind \in {"enable", "start"} -> Known(a, [row[a] EXCEPT !.enabled = TRUE])
      [] kind = "disable" -> [row[a] EXCEPT !.enabled = FALSE]
      [] kind = "login" -> LoggedIn(a)
      [] kind = "delete" -> row[a]

Request(r, kind, a) ==
    /\ req[r].at = "idle" /\ Event
    /\ kind \in {"enable", "disable"} => row[a].there
    /\ row' = [row EXCEPT ![a] = Asked(kind, a)]
    /\ denied' = IF kind = "login" /\ ~row[a].there THEN denied \ {a} ELSE denied
    /\ Enqueue(r, CASE kind \in {"enable", "login"} -> "activate"
                    [] kind = "start" -> "init"
                    [] kind \in {"disable", "delete"} -> "expire", a)
    /\ req' = [req EXCEPT ![r] = [at |-> "pool", kind |-> kind, acct |-> a]]
    /\ UNCHANGED << revoked, entry, client, op, use, forgot >>

RequestEnds(r) ==
    /\ req[r].at = "pool" /\ ~Enqueued(r)
    /\ req' = [req EXCEPT ![r] = NoRequest]
    /\ LET a == req[r].acct IN
       IF req[r].kind = "delete"
       THEN row' = [row EXCEPT ![a] = Deleted(a)] /\ denied' = denied \ {a}
       ELSE UNCHANGED << row, denied >>
    /\ UNCHANGED << revoked, entry, client, chain, op, use, forgot, events >>
-----------------------------------------------------------------------------
(* Downloads (downloadTelegramChannelRange). *)
\* select: the least loaded of the candidates; ties, which priority and id
\* break, are left open.
Best == {a \in Candidates : \A b \in Candidates : LessLoaded(a, b)}

Take(d, a) ==
    /\ client' = [client EXCEPT ![entry[a].client].active = @ + 1]
    /\ use' = [use EXCEPT ![d] = [at |-> "use", acct |-> a, client |-> entry[a].client,
                                  counted |-> TRUE]]

Select(d) ==
    /\ use[d].at = "idle" /\ \E a \in Best : Take(d, a)
    /\ UNCHANGED << row, denied, revoked, entry, chain, op, req, forgot, events >>

\* No candidate: the default client is used all the same, and not counted.
UseDefault(d) ==
    /\ use[d].at = "idle" /\ Candidates = {}
    /\ \E a \in Accounts : /\ IsRunnable(a)
                           /\ use' = [use EXCEPT ![d] = [at |-> "use", acct |-> a,
                                        client |-> entry[a].client, counted |-> FALSE]]
    /\ UNCHANGED << row, denied, revoked, entry, client, chain, op, req, forgot, events >>

\* release: the entry object that was counted, wherever it is now.
Release(d) ==
    /\ client' = IF use[d].counted THEN [client EXCEPT ![use[d].client].active = @ - 1] ELSE client
    /\ use' = [use EXCEPT ![d] = NoUse]

\* It ends, for example because the client was closed under it, or it is
\* refused the source; nothing is recorded when the account was not counted.
Finish(d) ==
    /\ use[d].at = "use" /\ Release(d)
    /\ UNCHANGED << row, denied, revoked, entry, chain, op, req, forgot, events >>

AccessDenied(d) ==
    /\ use[d].at = "use" /\ use[d].counted /\ Event /\ Release(d)
    /\ denied' = denied \cup {use[d].acct}
    /\ UNCHANGED << row, revoked, entry, chain, op, req, forgot >>

\* markTelegramAccountCooldown: the row, then the entry that is there by then.
Flood(d) ==
    /\ use[d].at = "use" /\ use[d].counted /\ Event
    /\ LET a == use[d].acct IN
       /\ row' = [row EXCEPT ![a] = Known(a, [row[a] EXCEPT !.cool = TRUE, !.health = "degraded"])]
       /\ forgot' = IF a \in Connecting THEN forgot \cup {a} ELSE forgot
    /\ use' = [use EXCEPT ![d].at = "cool"]
    /\ UNCHANGED << denied, revoked, entry, client, chain, op, req >>

\* Mutant: only the row is told.
CoolEntryNot(d) ==
    /\ use[d].at = "cool" /\ Release(d)
    /\ UNCHANGED << row, denied, revoked, entry, chain, op, req, forgot, events >>

CoolEntry(d) ==
    /\ use[d].at = "cool" /\ Release(d)
    /\ LET a == use[d].acct IN
       entry' = IF Entered(a) /\ row[a].cool THEN [entry EXCEPT ![a].cool = TRUE] ELSE entry
    /\ UNCHANGED << row, denied, revoked, chain, op, req, forgot, events >>

\* markTelegramAccountSessionExpired: the pool, then the row.
Expired(d) ==
    /\ use[d].at = "use" /\ use[d].counted /\ ~Authorized(use[d].client)
    /\ Enqueue(d, "expire", use[d].acct) /\ use' = [use EXCEPT ![d].at = "expire"]
    /\ UNCHANGED << row, denied, revoked, entry, client, op, req, forgot, events >>

MarkExpired(d) ==
    /\ use[d].at = "expire" /\ ~Enqueued(d) /\ Release(d)
    /\ LET a == use[d].acct IN
       row' = [row EXCEPT ![a] = Known(a, [row[a] EXCEPT !.health = "expired", !.cool = FALSE])]
    /\ UNCHANGED << denied, revoked, entry, chain, op, req, forgot, events >>

CooldownEnds(a) ==
    /\ row[a].cool \/ entry[a].cool
    /\ \A d \in Downloads : use[d].at = "cool" => use[d].acct # a
    /\ row' = [row EXCEPT ![a].cool = FALSE] /\ entry' = [entry EXCEPT ![a].cool = FALSE]
    /\ forgot' = forgot \ {a}
    /\ UNCHANGED << denied, revoked, client, chain, op, req, use, events >>

Revoke(a) ==
    /\ Event /\ revoked' = revoked \cup {<<a, row[a].sess>>}
    /\ UNCHANGED << row, denied, entry, client, chain, op, req, use, forgot >>
-----------------------------------------------------------------------------
OpStep ==
    \/ OpBegin \/ OpRead \/ OpEnds
    \/ \E c \in ClientIds : CloseClient(c) \/ ConnectOk(c) \/ ConnectFails(c)
Ends(d) == Finish(d) \/ CoolEntry(d) \/ MarkExpired(d)

Next ==
    \/ OpStep
    \/ \E r \in Requests : RequestEnds(r)
    \/ \E r \in Requests, kind \in {"start", "enable", "disable", "login", "delete"},
         a \in Accounts : Request(r, kind, a)
    \/ \E d \in Downloads : Select(d) \/ UseDefault(d) \/ Ends(d) \/ AccessDenied(d)
                            \/ Flood(d) \/ Expired(d)
    \/ \E a \in Accounts : CooldownEnds(a) \/ Revoke(a)

Spec == Init /\ [][Next]_vars
-----------------------------------------------------------------------------
RowType ==
    [there : BOOLEAN, enabled : BOOLEAN, health : {"healthy", "degraded", "expired"},
     cool : BOOLEAN, sess : Nat]
EntryType == [client : 0..Clients, cool : BOOLEAN]
ClientType ==
    [acct : Accounts \cup {"none"}, sess : Nat, st : {"free", "connecting", "open", "closed"},
     active : Nat]
ChainType ==
    [by : Requests \cup Downloads \cup {"boot"}, kind : {"init", "activate", "expire"},
     acct : Accounts \cup {"none"}]
OpType == [at : {"none", "close", "connect"}, closing : SUBSET ClientIds, conn : SUBSET ClientIds]
RequestType ==
    [at : {"idle", "pool"}, kind : {"none", "start", "enable", "disable", "login", "delete"},
     acct : Accounts \cup {"none"}]
UseType ==
    [at : {"idle", "use", "cool", "expire"}, acct : Accounts \cup {"none"},
     client : 0..Clients, counted : BOOLEAN]

\* Every variable has its type.
TypeOK ==
    /\ row \in [Accounts -> RowType]
    /\ denied \subseteq Accounts /\ revoked \subseteq Accounts \X Nat
    /\ entry \in [Accounts -> EntryType]
    /\ client \in [ClientIds -> ClientType]
    /\ chain \in Seq(ChainType) /\ op \in OpType
    /\ req \in [Requests -> RequestType]
    /\ use \in [Downloads -> UseType]
    /\ forgot \subseteq Accounts /\ events \in 0..MaxEvents

\* One Telegram identity never has two running clients: the old one is closed
\* before its replacement connects, whoever asked for either.
OneRuntime ==
    \A c, d \in ClientIds :
        /\ {client[c].st, client[d].st} \subseteq {"connecting", "open"}
        /\ client[c].acct = client[d].acct
        => c = d

\* The count of an entry is that of the downloads that chose its client, over
\* reloads and late releases, and stays within the account's limit.
CountsAreHolders ==
    \A c \in ClientIds :
        /\ client[c].active = Cardinality({d \in Downloads : use[d].counted /\ use[d].client = c})
        /\ client[c].active <= MaxConnections

\* No operation is queued, and no request on the account is under way.
Quiet(a) == chain = << >> /\ \A r \in Requests : req[r].acct # a

\* A disabled account has no client once its request has been answered: the row
\* is written before the pool is changed, so that whoever connects later sees it.
DisabledIsDisconnected ==
    \A a \in Accounts : Quiet(a) /\ row[a].there /\ ~row[a].enabled => ~Entered(a)

Takes(d, a) == use[d].at = "idle" /\ use'[d].at = "use" /\ use'[d].acct = a

\* No download is given to an account that has to wait, unless the wait was
\* recorded while the account was being connected from an earlier record.
RespectsCooldown ==
    \A d \in Downloads, a \in Accounts : Takes(d, a) /\ row[a].cool =>
        a \in forgot \/ \E e \in Downloads : use[e].at = "cool" /\ use[e].acct = a

=============================================================================
