---------------------------- MODULE LoginFlows ----------------------------
(***************************************************************************)
(* Logging a Telegram user in from the web: by phone number or QR code     *)
(* (telegramMultiAccountLoginFlows.ts) and by the older phone login        *)
(* (telegramUserWebLogin.ts).  One administrator, whose requests overlap:  *)
(* a handler per request, one step per await.                              *)
(*                                                                         *)
(* A flow holds a connected client until its session is handed to the pool,*)
(* it is cancelled, replaced, has failed too often, or its time is over.   *)
(***************************************************************************)
EXTENDS Integers, FiniteSets

CONSTANTS
    Handlers,   \* requests and events of the client that are being served
    MaxErrors,  \* maxErrors
    MaxFlows,   \* bound on logins
    MaxEvents   \* bound on errors, and on a time limit passing

VARIABLES
    flow,    \* the flows, and the clients they made
    h,       \* what each handler is doing, and with which flow
    events

vars == << flow, h, events >>

Flows == 1..MaxFlows
LoginAssumption ==
    {MaxErrors, MaxFlows} \subseteq Nat \ {0} /\ MaxEvents \in Nat /\ IsFiniteSet(Handlers)

NoFlow == [kind |-> "none", at |-> "none", listed |-> FALSE, held |-> FALSE,
           client |-> "none", timer |-> FALSE, fresh |-> TRUE, errors |-> 0,
           handed |-> FALSE,
           busy |-> FALSE, late |-> FALSE]
Idle == [at |-> "idle", flow |-> 0, kind |-> "none", todo |-> {}]

Init ==
    /\ flow = [f \in Flows |-> NoFlow]
    /\ h = [r \in Handlers |-> Idle]
    /\ events = 0
-----------------------------------------------------------------------------
Event == events < MaxEvents /\ events' = events + 1
F(r) == h[r].flow
Goto(r, at) == h' = [h EXCEPT ![r].at = at]
Leave(r) == h' = [h EXCEPT ![r] = Idle]
Set(f, rec) == flow' = [flow EXCEPT ![f] = rec]
\* The web login and the others keep their flows in two maps.
SameMap(k1, k2) == (k1 = "web") <=> (k2 = "web")

\* detachAndClose; a client that was handed on stays what it is: closed.
Detached(x) == [x EXCEPT !.held = FALSE, !.client = "closed"]
\* deleteAndClose
Deleted(x) == [Detached(x) EXCEPT !.listed = FALSE, !.timer = FALSE]

\* recordError; the web login deletes when the next request arrives.
Err(x) ==
    LET y == [x EXCEPT !.errors = @ + 1] IN
    IF y.errors >= MaxErrors /\ x.kind # "web" THEN Deleted(y) ELSE y
-----------------------------------------------------------------------------
(* startPhone, startQr, start: the owner's earlier flows go first. *)
Start(r, kind) ==
    /\ h[r].at = "idle" /\ \E f \in Flows : flow[f].at = "none"
    /\ h' = [h EXCEPT ![r] = [at |-> "remove", flow |-> 0, kind |-> kind,
              todo |-> {f \in Flows : flow[f].listed /\ SameMap(flow[f].kind, kind)}]]
    /\ UNCHANGED << flow, events >>

RemoveOne(r) ==
    /\ h[r].at = "remove"
    /\ \E f \in h[r].todo : /\ Set(f, Deleted(flow[f]))
                            /\ h' = [h EXCEPT ![r].todo = @ \ {f}]
    /\ UNCHANGED events

\* The QR flow is timed from here on, the phone flow when the code was sent.
Connect(r) ==
    /\ h[r].at = "remove" /\ h[r].todo = {}
    /\ \E f \in Flows :
         /\ flow[f].at = "none" /\ \A g \in Flows : g < f => flow[g].at # "none"
         /\ Set(f, [NoFlow EXCEPT !.kind = h[r].kind, !.at = "starting", !.held = TRUE,
                                  !.client = "open", !.timer = h[r].kind = "qr"])
         /\ h' = [h EXCEPT ![r].at = "connect", ![r].flow = f]
    /\ UNCHANGED events

Connected(r) ==
    /\ h[r].at = "connect"
    /\ LET x == flow[F(r)] IN
       IF x.kind = "qr"
       THEN /\ Set(F(r), [x EXCEPT !.listed = TRUE, !.at = "pending", !.late = ~x.timer])
            /\ Goto(r, "turn")
       ELSE /\ Set(F(r), [x EXCEPT !.listed = TRUE, !.at = "code", !.timer = x.kind = "phone"])
            /\ Leave(r)
    /\ UNCHANGED events

ConnectFails(r) ==
    /\ h[r].at = "connect" /\ Event
    /\ Set(F(r), [Deleted(flow[F(r)]) EXCEPT !.at = "error"]) /\ Leave(r)

\* The cleanup timer; a flow that is not in the map yet is not found.
Timer(f) ==
    /\ flow[f].timer /\ Event
    /\ Set(f, IF flow[f].listed THEN Deleted([flow[f] EXCEPT !.fresh = FALSE])
              ELSE [flow[f] EXCEPT !.timer = FALSE, !.fresh = FALSE])
    /\ UNCHANGED h

\* A timer fires at last, if nothing else ends the flow.
TimerAtLast(f) ==
    /\ flow[f].timer /\ flow[f].listed
    /\ Set(f, Deleted([flow[f] EXCEPT !.fresh = FALSE])) /\ UNCHANGED << h, events >>

Expires(f) ==
    /\ flow[f].listed /\ ~flow[f].timer /\ flow[f].fresh /\ Event
    /\ Set(f, [flow[f] EXCEPT !.fresh = FALSE]) /\ UNCHANGED h
-----------------------------------------------------------------------------
\* requireFlow refuses, and deletes, what is over.
Over(f) == flow[f].listed /\ (~flow[f].fresh \/ flow[f].errors >= MaxErrors)
Refuse(r, f) ==
    /\ h[r].at = "idle" /\ Over(f) /\ Set(f, Deleted(flow[f]))
    /\ UNCHANGED << h, events >>
Usable(f) == flow[f].listed /\ ~Over(f)

\* submitCode and submitPassword up to the call of Telegram.
Submit(r, f) ==
    /\ h[r].at = "idle" /\ Usable(f) /\ flow[f].at \in {"code", "password"}
    /\ IF flow[f].held
       THEN h' = [h EXCEPT ![r] = [Idle EXCEPT !.at = "sign", !.flow = f]] /\ UNCHANGED flow
       ELSE Set(f, Err(flow[f])) /\ UNCHANGED h
    /\ UNCHANGED events

\* A wrong code or password; a client that was closed meanwhile.
SignFails(r) ==
    /\ h[r].at = "sign"
    /\ IF flow[F(r)].client = "open" THEN Event ELSE UNCHANGED events
    /\ Set(F(r), Err(flow[F(r)])) /\ Leave(r)

PasswordNeeded(r) ==
    /\ h[r].at = "sign" /\ flow[F(r)].client = "open" /\ flow[F(r)].at = "code"
    /\ Set(F(r), [flow[F(r)] EXCEPT !.at = "password"]) /\ Leave(r) /\ UNCHANGED events

SignedIn(r) ==
    /\ h[r].at = "sign" /\ flow[F(r)].client = "open"
    /\ Goto(r, "me") /\ UNCHANGED << flow, events >>

\* refreshQr, and the client's login token event.
Advance(r, f) ==
    /\ h[r].at = "idle" /\ flow[f].kind = "qr" /\ Usable(f) /\ flow[f].at = "pending"
    /\ h' = [h EXCEPT ![r] = [Idle EXCEPT !.at = "turn", !.flow = f]]
    /\ UNCHANGED << flow, events >>

\* advanceQr: one at a time, by the chain of flow.operation.
Turn(r) ==
    /\ h[r].at = "turn" /\ ~flow[F(r)].busy
    /\ IF flow[F(r)].at = "pending" /\ flow[F(r)].listed
       THEN IF flow[F(r)].held
            THEN Set(F(r), [flow[F(r)] EXCEPT !.busy = TRUE]) /\ Goto(r, "export")
            ELSE Set(F(r), [flow[F(r)] EXCEPT !.at = "error"]) /\ Leave(r)
       ELSE Leave(r) /\ UNCHANGED flow
    /\ UNCHANGED events

Exported(r) ==
    /\ h[r].at = "export" /\ flow[F(r)].client = "open"
    /\ \/ Set(F(r), [flow[F(r)] EXCEPT !.busy = FALSE]) /\ Leave(r)
       \/ Set(F(r), [flow[F(r)] EXCEPT !.busy = FALSE, !.at = "password"]) /\ Leave(r)
       \/ Goto(r, "me") /\ UNCHANGED flow
    /\ UNCHANGED events

\* failQr; a flow that is gone, or complete, is left as it is.
Failed(x) ==
    LET y == [x EXCEPT !.busy = FALSE] IN
    IF ~x.listed \/ x.at = "complete" THEN y ELSE [Detached(y) EXCEPT !.at = "error"]

ExportFails(r) ==
    /\ h[r].at = "export"
    /\ IF flow[F(r)].client = "open" THEN Event ELSE UNCHANGED events
    /\ Set(F(r), Failed(flow[F(r)])) /\ Leave(r)
-----------------------------------------------------------------------------
(* authorize: who it is, the session, the hand-off, the pool. *)
Me(r) ==
    /\ h[r].at = "me" /\ flow[F(r)].client = "open" /\ flow[F(r)].held
    /\ Goto(r, "handoff") /\ UNCHANGED << flow, events >>

\* closeTelegramLoginForHandoff: nothing is handed on unless it succeeds.
HandOff(r) ==
    /\ h[r].at = "handoff" /\ Goto(r, "save")
    /\ Set(F(r), [Detached(flow[F(r)]) EXCEPT !.handed = TRUE])
    /\ UNCHANGED events

\* The row is written and the account activated; a QR flow stays to be asked.
Saved(r) ==
    /\ h[r].at = "save" /\ Leave(r) /\ UNCHANGED events
    /\ LET x == [flow[F(r)] EXCEPT !.at = "complete", !.busy = FALSE] IN
       Set(F(r), IF x.kind = "qr" THEN x ELSE [x EXCEPT !.listed = FALSE, !.timer = FALSE])

\* Each of the three can fail; the client is closed in any case.
AuthorizeFails(r) ==
    /\ h[r].at \in {"me", "handoff", "save"}
    /\ IF h[r].at = "me" /\ ~(flow[F(r)].client = "open" /\ flow[F(r)].held)
       THEN UNCHANGED events ELSE Event
    /\ LET x == Detached(flow[F(r)]) IN
       Set(F(r), IF x.kind = "qr" /\ x.busy THEN Failed(x) ELSE Err(x))
    /\ Leave(r)

Cancel(r, f) ==
    /\ h[r].at = "idle" /\ Usable(f) /\ flow[f].kind # "web"
    /\ Set(f, Deleted(flow[f])) /\ UNCHANGED << h, events >>
-----------------------------------------------------------------------------
Serve(r) ==
    \/ RemoveOne(r) \/ Connect(r) \/ Connected(r) \/ ConnectFails(r)
    \/ SignFails(r) \/ PasswordNeeded(r) \/ SignedIn(r)
    \/ Turn(r) \/ Exported(r) \/ ExportFails(r)
    \/ Me(r) \/ HandOff(r) \/ Saved(r) \/ AuthorizeFails(r)

Next ==
    \/ \E r \in Handlers : Serve(r)
    \/ \E r \in Handlers, kind \in {"phone", "qr", "web"} : Start(r, kind)
    \/ \E r \in Handlers, f \in Flows :
         Submit(r, f) \/ Advance(r, f) \/ Cancel(r, f) \/ Refuse(r, f)
    \/ \E f \in Flows : Timer(f) \/ TimerAtLast(f) \/ Expires(f)

Spec == Init /\ [][Next]_vars
-----------------------------------------------------------------------------
FlowType ==
    [kind : {"none", "phone", "qr", "web"}, listed : BOOLEAN, held : BOOLEAN,
     at : {"none", "starting", "code", "password", "pending", "complete", "error"},
     client : {"none", "open", "closed"}, timer : BOOLEAN, fresh : BOOLEAN,
     errors : Nat, handed : BOOLEAN, busy : BOOLEAN, late : BOOLEAN]
HandlerType ==
    [at : {"idle", "remove", "connect", "sign", "turn", "export", "me", "handoff", "save"},
     flow : 0..MaxFlows, todo : SUBSET Flows, kind : {"none", "phone", "qr", "web"}]

\* Every variable has its type.
TypeOK ==
    flow \in [Flows -> FlowType] /\ h \in [Handlers -> HandlerType] /\ events \in 0..MaxEvents

\* A connected client can always be found again: through the map of flows, or
\* by the handler that is connecting it.
ClientIsOwned ==
    \A f \in Flows : flow[f].client = "open" =>
        \/ flow[f].listed /\ flow[f].held
        \/ \E r \in Handlers : F(r) = f /\ h[r].at = "connect"

\* A session that was handed to the pool is not in use by the login any more.
HandedOffIsClosed == \A f \in Flows : flow[f].handed => flow[f].client = "closed"

\* A flow allows MaxErrors wrong answers, plus those that were under way.
ErrorsAreBounded ==
    \A f \in Flows : flow[f].errors <= MaxErrors + Cardinality(Handlers) - 1

=============================================================================
