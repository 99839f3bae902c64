--------------------------- MODULE CloudProviders ---------------------------
(***************************************************************************)
(* How a OneDrive or Google Drive account is authorised and used:          *)
(* the pending OAuth flows and their callbacks (services/oauthFlowStore.ts,*)
(* routes/storage.ts), the account that a callback adds or updates, the    *)
(* refresh tokens that providers replace while they upload, the folder     *)
(* that uploads create together, and the upload session of a large file    *)
(* (services/storage.ts).                                                  *)
(*                                                                         *)
(* All flows are of one client id; all uploads go to one folder.           *)
(***************************************************************************)
EXTENDS Integers, FiniteSets, Sequences

CONSTANTS
    Sessions,   \* web sessions
    MaxFlows,   \* bound on flows issued
    Uploads,    \* uploads
    Chunks,     \* chunks of a large file
    MaxEvents   \* bound on expiries, errors and crashes

CloudAssumption ==
    /\ IsFiniteSet(Sessions) /\ IsFiniteSet(Uploads)
    /\ MaxFlows \in Nat /\ Chunks \in Nat \ {0} /\ MaxEvents \in Nat

VARIABLES
    pending,   \* oauth_pending_flows: the flow of each session, 0 if there is none
    issued,    \* the session of each flow issued so far
    redeemed,  \* how often each flow was consumed
    callback,  \* the callback of each flow
    config,    \* the rows of the client id: the grant of each, and of its refresh token
    provider,  \* the providers in memory, one a row: grant and refresh token
    upload,    \* uploads: stage, row and grant used, refresh token received, chunks sent
    folder,    \* folderIdCache and folderEnsureLocks, and the folders there are
    session,   \* the upload session of each upload
    odd,       \* for the properties
    events
vars == << pending, issued, redeemed, callback, config, provider, upload, folder, session, odd, events >>
flowVars == << pending, issued, redeemed, callback >>
accountVars == << config, provider >>
uploadVars == << upload, folder, session >>

Flows == 1..MaxFlows
NoUpload == [at |-> "new", row |-> 0, grant |-> 0, got |-> 0, sent |-> 0]

Init ==
    /\ pending = [s \in Sessions |-> 0] /\ issued = << >>
    /\ redeemed = [f \in Flows |-> 0] /\ callback = [f \in Flows |-> "none"]
    /\ config = << >> /\ provider = << >>
    /\ upload = [u \in Uploads |-> NoUpload]
    /\ folder = [cached |-> FALSE, lock |-> {}, made |-> 0]
    /\ session = [u \in Uploads |-> "none"]
    /\ odd = [twice |-> FALSE, late |-> FALSE] /\ events = 0
-----------------------------------------------------------------------------
Event == events < MaxEvents /\ events' = events + 1
Back(f, v) == callback' = [callback EXCEPT ![f] = v]

(* The flows. *)
\* issue: a session has one flow, the last.
Issue(s) ==
    /\ Len(issued) < MaxFlows /\ issued' = Append(issued, s)
    /\ pending' = [pending EXCEPT ![s] = Len(issued) + 1]
    /\ UNCHANGED << redeemed, callback, accountVars, uploadVars, odd, events >>

Lapse(s) ==
    /\ pending[s] # 0 /\ Event /\ pending' = [pending EXCEPT ![s] = 0]
    /\ UNCHANGED << issued, redeemed, callback, accountVars, uploadVars, odd >>

\* consume: one DELETE ... RETURNING.
Consume(s, f) ==
    /\ pending[s] = f /\ redeemed' = [redeemed EXCEPT ![f] = @ + 1]
    /\ pending' = [pending EXCEPT ![s] = 0]

\* The callback of a flow, in the browser of session s; it may come twice, late or
\* from another session.
Callback(s, f) ==
    /\ f \in 1..Len(issued) /\ redeemed[f] < 2
    /\ Consume(s, f) /\ Back(f, "exchange")
    /\ UNCHANGED << issued, accountVars, uploadVars, odd, events >>

\* The code is exchanged for tokens, or not; then the rows are looked through.
Exchange(f, ok) ==
    /\ callback[f] = "exchange"
    /\ IF ~ok THEN Event /\ Back(f, "over")
       ELSE Back(f, IF config = << >> THEN "insert" ELSE "update") /\ UNCHANGED events
    /\ UNCHANGED << pending, issued, redeemed, accountVars, uploadVars, odd >>

Updated(i, f) == [config EXCEPT ![i] = [grant |-> f, token |-> f]]

\* addOneDriveAccount writes what it decided on, and replaces the provider.
AddAccount(f) ==
    /\ callback[f] \in {"insert", "update"} /\ Back(f, "over")
    /\ config' = IF callback[f] = "insert" THEN Append(config, [grant |-> f, token |-> f])
                 ELSE Updated(1, f)
    /\ provider' = IF callback[f] = "insert" THEN Append(provider, [grant |-> f, token |-> f])
                   ELSE [provider EXCEPT ![1] = [grant |-> f, token |-> f]]
    /\ odd' = [odd EXCEPT !.twice = @ \/ (callback[f] = "insert" /\ config # << >>),
                          !.late = @ \/ \E u \in Uploads : upload[u].got # 0]
    /\ UNCHANGED << pending, issued, redeemed, uploadVars, events >>
-----------------------------------------------------------------------------
(* An upload with the provider it captured, which a later authorisation replaces. *)
Stage(u, st) == upload' = [upload EXCEPT ![u].at = st]

Begin(u, i) ==
    /\ upload[u].at = "new" /\ i \in 1..Len(provider)
    /\ upload' = [upload EXCEPT ![u].at = "token", ![u].row = i, ![u].grant = provider[i].grant]
    /\ UNCHANGED << flowVars, accountVars, folder, session, odd, events >>

\* getAccessToken: the token is still good, or it is refreshed and the new
\* refresh token, of the grant the provider has, is written afterwards.
Token(u, rotated) ==
    /\ upload[u].at = "token"
    /\ upload' = [upload EXCEPT ![u].at = IF rotated THEN "rotated" ELSE "folder",
                                ![u].got = IF rotated THEN upload[u].grant ELSE 0]
    /\ UNCHANGED << flowVars, accountVars, folder, session, odd, events >>

\* updateAccountToken merges the token into whatever the row has become.
Rotated(u) ==
    /\ upload[u].at = "rotated"
    /\ config' = [config EXCEPT ![upload[u].row].token = upload[u].got]
    /\ upload' = [upload EXCEPT ![u].at = "folder", ![u].got = 0]
    /\ odd' = [odd EXCEPT !.late = @ \/ upload[u].got # config[upload[u].row].grant]
    /\ UNCHANGED << flowVars, provider, folder, session, events >>

\* ensureChildFolder: the cache, a creation under way, or one of its own.
Folder(u) ==
    /\ upload[u].at = "folder"
    /\ IF folder.cached THEN Stage(u, "send") /\ UNCHANGED folder
       ELSE IF folder.lock # {} THEN Stage(u, "await folder") /\ UNCHANGED folder
       ELSE Stage(u, "find") /\ folder' = [folder EXCEPT !.lock = {u}]
    /\ UNCHANGED << flowVars, accountVars, session, odd, events >>

\* The folder is looked for, and created if it is not there.
Found(u) ==
    /\ upload[u].at = "find"
    /\ IF folder.made > 0 THEN Stage(u, "send") /\ folder' = [folder EXCEPT !.cached = TRUE, !.lock = {}]
       ELSE Stage(u, "create") /\ UNCHANGED folder
Find(u) == Found(u) /\ UNCHANGED << flowVars, accountVars, session, odd, events >>

Waiting == {w \in Uploads : upload[w].at = "await folder"}
\* Creating it ends the wait of the others, with the folder or with an error.
Create(u, ok) ==
    /\ upload[u].at = "create"
    /\ IF ok THEN folder' = [cached |-> TRUE, lock |-> {}, made |-> folder.made + 1] /\ UNCHANGED events
       ELSE Event /\ folder' = [folder EXCEPT !.lock = {}]
    /\ upload' = [w \in Uploads |-> IF w \in Waiting \cup {u}
                    THEN [upload[w] EXCEPT !.at = IF ok THEN "send" ELSE "failed"] ELSE upload[w]]
    /\ UNCHANGED << flowVars, accountVars, session, odd >>
\* Those who waited for somebody who found the folder go on as well.
Join(u) ==
    /\ upload[u].at = "await folder" /\ folder.cached /\ Stage(u, "send")
    /\ UNCHANGED << flowVars, accountVars, folder, session, odd, events >>

\* cancelUploadSession; its error is ignored.
CancelSession(u) == session' \in {[session EXCEPT ![u] = "cancelled"], [session EXCEPT ![u] = "left"]}

\* The chunks of a large file are sent in order; the last one completes it.
Send(u, ok) ==
    /\ upload[u].at = "send"
    /\ IF ok
       THEN /\ upload' = [upload EXCEPT ![u].sent = @ + 1,
                            ![u].at = IF upload[u].sent + 1 = Chunks THEN "done" ELSE "send"]
            /\ session' = [session EXCEPT ![u] = IF upload[u].sent + 1 = Chunks THEN "complete" ELSE "open"]
            /\ UNCHANGED events
       ELSE Event /\ Stage(u, "failed") /\ CancelSession(u)
    /\ UNCHANGED << flowVars, accountVars, folder, odd >>

\* The server stops and starts: the rows become the providers, the cache and the
\* locks are empty, and uploads and callbacks are gone.
Crash ==
    /\ Event
    /\ upload' = [u \in Uploads |-> IF upload[u].at = "new" THEN NoUpload
                                    ELSE [upload[u] EXCEPT !.at = "gone", !.got = 0]]
    /\ callback' = [f \in Flows |-> IF callback[f] = "none" THEN "none" ELSE "over"]
    /\ folder' = [folder EXCEPT !.cached = FALSE, !.lock = {}]
    /\ provider' = config
    /\ UNCHANGED << pending, issued, redeemed, config, session, odd >>
-----------------------------------------------------------------------------
Step(u) == Rotated(u) \/ Folder(u) \/ Find(u) \/ Create(u, TRUE) \/ Join(u) \/ Send(u, TRUE)
Next ==
    \/ \E s \in Sessions : Issue(s) \/ Lapse(s) \/ \E f \in Flows : Callback(s, f)
    \/ \E f \in Flows : AddAccount(f) \/ \E ok \in BOOLEAN : Exchange(f, ok)
    \/ \E u \in Uploads : \/ \E i \in Flows : Begin(u, i)
                           \/ Step(u) \/ Create(u, FALSE) \/ Send(u, FALSE)
                           \/ \E r \in BOOLEAN : Token(u, r)
    \/ Crash
Spec == Init /\ [][Next]_vars
-----------------------------------------------------------------------------
\* Every variable has its type.
TypeOK ==
    /\ pending \in [Sessions -> 0..MaxFlows] /\ redeemed \in [Flows -> 0..2]
    /\ \A f \in Flows : callback[f] \in {"none", "exchange", "insert", "update", "over"}
    /\ Len(provider) = Len(config) /\ folder.lock \subseteq Uploads
    /\ session \in [Uploads -> {"none", "open", "complete", "cancelled", "left"}]

\* A flow is redeemed at most once, by the session that it was issued to, and a
\* session's earlier flow is not redeemed after a later one was issued to it.
OneRedemption ==
    /\ \A f \in Flows : redeemed[f] <= 1
    /\ \A s \in Sessions : pending[s] # 0 => redeemed[pending[s]] = 0 /\ issued[pending[s]] = s

\* The refresh token of an account is of the grant that its row holds, unless an
\* upload still had a token of the grant before when the account was authorised
\* again; a client id has one account, unless two callbacks both found none.
TokenFitsGrant ==
    /\ ~odd.late => \A i \in 1..Len(config) : config[i].token = config[i].grant
    /\ ~odd.twice => Len(config) <= 1

\* Uploads that need the same folder at the same time create it once.
OneFolder == folder.made <= 1

\* An upload session is completed or cancelled, unless its cancellation failed or
\* the server stopped; nobody waits for a folder that nobody creates.
NothingLeftOpen ==
    /\ \A u \in Uploads : session[u] = "open" => upload[u].at \in {"send", "gone"}
    /\ Waiting # {} => folder.cached \/ \E u \in folder.lock : upload[u].at \in {"find", "create"}
=============================================================================
