---------------------------- MODULE BotLifecycle ----------------------------
(***************************************************************************)
(* The Telegram bot of the server: how its configuration is saved,         *)
(* replaced, migrated, disabled and deleted (routes/storage.ts,            *)
(* services/telegramBotConfig.ts), how its client is started and stopped   *)
(* (services/telegramBot.ts), and how user accounts and background workers *)
(* come back some time after a start (index.ts, scheduleTelegramBotPost-   *)
(* Startup).                                                               *)
(*                                                                         *)
(* The operations of the settings page form one chain; the start of the    *)
(* server is not part of it.  Credentials are numbers: 0 is none, 1 those  *)
(* of the environment, larger ones come from the web.                      *)
(***************************************************************************)
EXTENDS Integers, FiniteSets

CONSTANTS
    HasEnvironment,  \* the environment has credentials
    Required,        \* the server needs the bot
    WebCreds,        \* credentials that the web page saves
    MaxOps,          \* bound on operations of the settings page
    MaxEvents        \* bound on failed starts and crashes

BotAssumption ==
    /\ HasEnvironment \in BOOLEAN /\ Required \in BOOLEAN /\ MaxOps \in Nat /\ MaxEvents \in Nat
    /\ WebCreds \subseteq Nat \ {0, 1} /\ IsFiniteSet(WebCreds)

VARIABLES
    config,    \* the settings: web credentials (0: none) and enabled
    client,    \* the client of the module, 0 if there is none
    bots,      \* the clients created so far: credentials, handlers, connected
    status,    \* telegramBotStatus
    init,      \* initTelegramBot of the start of the server and of an operation
    op,        \* the operation that the chain runs
    timer,     \* the start of accounts and workers that is scheduled
    resume,    \* ... and the one that runs
    workers,   \* the client that the background workers use, 0 if they are stopped
    restored,  \* the user accounts were restored since the server started
    odd,       \* for the properties
    ops, events
vars == << config, client, bots, status, init, op, timer, resume, workers, restored, odd, ops, events >>
laterVars == << timer, resume, workers, restored >>
counters == << ops, events >>

None == 0
Actors == {"boot", "op"}
NoInit == [at |-> "idle", creds |-> 0, bot |-> 0]
NoOp == [at |-> "idle", kind |-> "none", creds |-> 0, bot |-> 0, previous |-> [web |-> 0, enabled |-> TRUE]]
NoResume == [at |-> "idle", bot |-> 0, accounts |-> FALSE, current |-> FALSE]

\* getEffectiveTelegramBotConfig.
Creds(c) == IF c.web # 0 THEN c.web ELSE IF HasEnvironment THEN 1 ELSE 0
Enabled(c) == c.enabled /\ Creds(c) # 0
Ids == DOMAIN bots

Init ==
    /\ config \in [web : {0} \cup WebCreds, enabled : BOOLEAN]
    /\ client = None /\ bots = << >> /\ status = "not_configured"
    /\ init = [a \in Actors |-> IF a = "boot" THEN [NoInit EXCEPT !.at = "begin"] ELSE NoInit]
    /\ op = NoOp /\ timer = NoResume /\ resume = NoResume /\ workers = None /\ restored = FALSE
    /\ odd = [overlap |-> FALSE, migrated |-> FALSE, replaced |-> FALSE, kept |-> TRUE]
    /\ ops = 0 /\ events = 0
-----------------------------------------------------------------------------
Event == events < MaxEvents /\ events' = events + 1
At(a, st) == init' = [init EXCEPT ![a].at = st]
Running(a) == init[a].at \in {"storage", "start", "setup", "identity"}
Overlapping == odd.overlap \/ Running("boot")

(* initTelegramBot.  Between its awaits it uses the client of the module. *)
Create(a) ==
    /\ init[a].at = "storage"
    /\ LET id == Cardinality(Ids) + 1 IN
       /\ bots' = [b \in Ids \cup {id} |-> IF b = id THEN [creds |-> init[a].creds, handlers |-> 0, up |-> TRUE]
                                           ELSE bots[b]]
       /\ client' = id /\ init' = [init EXCEPT ![a].at = "start", ![a].bot = id]
    /\ UNCHANGED << config, status, op, laterVars, odd, counters >>

\* Whatever the client of the module is now, it is disconnected.
Fail(a) ==
    /\ At(a, "failed") /\ client' = None /\ status' = "error"
    /\ bots' = [b \in Ids |-> IF b = client THEN [bots[b] EXCEPT !.up = FALSE] ELSE bots[b]]

\* client.start: a client that was disconnected meanwhile does not start.
Start(a, ok) ==
    /\ init[a].at = "start"
    /\ IF ok THEN /\ bots[init[a].bot].up /\ client # None /\ At(a, "setup")
                  /\ UNCHANGED << client, bots, status, events >>
       ELSE /\ Fail(a) /\ IF bots[init[a].bot].up /\ client # None THEN Event ELSE UNCHANGED events
    /\ UNCHANGED << config, op, laterVars, odd, ops >>

\* Authorised users, the menu, then the handlers.
SetUp(a) ==
    /\ init[a].at = "setup"
    /\ IF client = None THEN Fail(a)
       ELSE /\ bots' = [bots EXCEPT ![client].handlers = @ + 1]
            /\ At(a, "identity") /\ UNCHANGED << client, status >>
    /\ UNCHANGED << config, op, laterVars, odd, counters >>

Identify(a) ==
    /\ init[a].at = "identity"
    /\ IF client = None THEN Fail(a)
       ELSE status' = "ready" /\ At(a, "ready") /\ UNCHANGED << client, bots >>
    /\ UNCHANGED << config, op, laterVars, odd, counters >>
-----------------------------------------------------------------------------
(* The start of the server (startTelegramRuntime). *)
Boot ==
    /\ init["boot"].at = "begin"
    /\ IF Enabled(config)
       THEN /\ init' = [init EXCEPT !["boot"] = [NoInit EXCEPT !.at = "storage", !.creds = Creds(config)]]
            /\ status' = "starting" /\ UNCHANGED restored
       ELSE At("boot", "over") /\ restored' = TRUE /\ UNCHANGED status
    /\ UNCHANGED << config, client, bots, op, timer, resume, workers, odd, counters >>

\* Mutant: only the workers are scheduled.
ScheduledWorkers(accounts) == [at |-> "set", bot |-> client, accounts |-> FALSE, current |-> TRUE]
\* scheduleTelegramBotPostStartup: what was scheduled before is cancelled.
Scheduled(accounts) == [at |-> "set", bot |-> client, accounts |-> accounts, current |-> TRUE]
BootEnds ==
    /\ init["boot"].at \in {"ready", "failed"} /\ At("boot", "over")
    /\ IF init["boot"].at = "ready"
       THEN timer' = Scheduled(TRUE) /\ resume' = [resume EXCEPT !.current = FALSE] /\ UNCHANGED restored
       ELSE restored' = (restored \/ ~Required) /\ UNCHANGED << timer, resume >>
    /\ UNCHANGED << config, client, bots, status, op, workers, odd, counters >>
-----------------------------------------------------------------------------
(* One operation of the settings page, which is served once the bot starts. *)
To(st) == op' = [op EXCEPT !.at = st]
Begin(kind, creds) ==
    /\ op.at = "idle" /\ init["boot"].at # "begin" /\ ops < MaxOps /\ ops' = ops + 1
    /\ op' = [at |-> IF kind = "delete" THEN "stop" ELSE "save", kind |-> kind, creds |-> creds, bot |-> 0,
              previous |-> config]
    /\ odd' = [odd EXCEPT !.overlap = Overlapping]
    /\ UNCHANGED << config, client, bots, status, init, laterVars, events >>

\* PUT and POST of the settings page.
Put == \E c \in WebCreds, kind \in {"put", "put disabled"} : Begin(kind, c)
Migrate == HasEnvironment /\ Begin("migrate", 1)
Disable == Begin("disable", 0)
Delete == config.web # 0 /\ Begin("delete", 0)

Save ==
    /\ op.at = "save" /\ To("stop")
    /\ config' = IF op.kind = "disable" THEN [config EXCEPT !.enabled = FALSE]
                 ELSE [web |-> op.creds, enabled |-> op.kind # "put disabled"]
    /\ UNCHANGED << client, bots, status, init, laterVars, odd, counters >>

Stopping == op.at \in {"stop", "stop again"}
\* stopTelegramBotInternal: what is scheduled is cancelled, the workers are awaited, ...
StopBegin ==
    /\ Stopping
    /\ op' = [op EXCEPT !.at = IF op.at = "stop" THEN "stopping" ELSE "stopping again", !.bot = client]
    /\ odd' = [odd EXCEPT !.replaced = @ \/ (timer.at = "set" /\ timer.accounts)]
    /\ timer' = NoResume /\ resume' = [resume EXCEPT !.current = FALSE]
    /\ UNCHANGED << config, client, bots, status, init, workers, restored, counters >>

StopWorkers == workers' = None

\* ... and the client is disconnected.
After == IF op.at = "stopping" THEN (CASE op.kind \in {"put", "migrate"} -> "restart"
                                      [] op.kind = "delete" -> "delete" [] OTHER -> "done")
         ELSE IF op.kind = "migrate" \/ Enabled(config) THEN "restart again" ELSE "failed"
StopEnd ==
    /\ op.at \in {"stopping", "stopping again"} /\ StopWorkers
    /\ client' = None /\ status' = "not_configured" /\ To(After)
    /\ bots' = [b \in Ids |-> IF b = op.bot THEN [bots[b] EXCEPT !.up = FALSE] ELSE bots[b]]
    /\ UNCHANGED << config, init, timer, resume, restored, odd, counters >>

\* The credentials that the operation starts the bot with.
Wanted == CASE op.at = "restart" -> IF op.kind = "delete" THEN Creds(config) ELSE op.creds
            [] op.at = "restart again" -> IF op.kind = "migrate" THEN op.creds ELSE Creds(config)
Restart ==
    /\ op.at \in {"restart", "restart again"} /\ ~Running("op")
    /\ init' = [init EXCEPT !["op"] = [NoInit EXCEPT !.at = "storage", !.creds = Wanted]]
    /\ status' = "starting" /\ To(IF op.at = "restart" THEN "starting" ELSE "starting again")
    /\ odd' = [odd EXCEPT !.overlap = Overlapping,
                          !.migrated = @ \/ (op.at = "restart again" /\ (~Enabled(config) \/ Wanted # Creds(config)))]
    /\ UNCHANGED << config, client, bots, laterVars, counters >>

\* The settings are gone, and the bot of the environment takes over.
DeleteConfig ==
    /\ op.at = "delete" /\ config' = [web |-> 0, enabled |-> TRUE]
    /\ To(IF HasEnvironment THEN "restart" ELSE "done")
    /\ UNCHANGED << client, bots, status, init, laterVars, odd, counters >>

RolledBack == config' = op.previous

\* A restart ends: workers resume later, without the accounts; or the settings are put back.
Restarted ==
    /\ op.at \in {"starting", "starting again"} /\ init["op"].at \in {"ready", "failed"}
    /\ init' = [init EXCEPT !["op"] = NoInit]
    /\ odd' = [odd EXCEPT !.replaced = @ \/ (timer.at = "set" /\ timer.accounts)]
    /\ IF init["op"].at = "ready"
       THEN /\ timer' = Scheduled(FALSE) /\ resume' = [resume EXCEPT !.current = FALSE]
            /\ To(IF op.at = "starting" THEN "done" ELSE "failed") /\ UNCHANGED config
       ELSE /\ UNCHANGED << timer, resume >>
            /\ IF op.at = "starting" /\ op.kind # "delete" THEN RolledBack /\ To("stop again")
               ELSE To("failed") /\ UNCHANGED config
    /\ UNCHANGED << client, bots, status, workers, restored, counters >>

Answer ==
    /\ op.at \in {"done", "failed"} /\ op' = NoOp
    /\ odd' = [odd EXCEPT !.kept = op.at = "failed" /\ op.kind # "delete" => config = op.previous]
    /\ UNCHANGED << config, client, bots, status, init, laterVars, counters >>
-----------------------------------------------------------------------------
(* Accounts and workers, after the isolation window. *)
Fire ==
    /\ timer.at = "set" /\ resume.at = "idle"
    /\ resume' = [timer EXCEPT !.at = "accounts"] /\ timer' = NoResume
    /\ UNCHANGED << config, client, bots, status, init, op, workers, restored, odd, counters >>

StillCurrent == resume.current /\ client = resume.bot /\ client # None /\ bots[client].up /\ status = "ready"

Resume ==
    /\ resume.at = "accounts" /\ resume' = NoResume
    /\ restored' = (restored \/ resume.accounts)
    /\ workers' = IF StillCurrent THEN resume.bot ELSE workers
    /\ UNCHANGED << config, client, bots, status, init, op, timer, odd, counters >>

\* The server stops at any point, and starts again.
Crash ==
    /\ Event
    /\ client' = None /\ bots' = << >> /\ status' = "not_configured" /\ op' = NoOp
    /\ init' = [a \in Actors |-> IF a = "boot" THEN [NoInit EXCEPT !.at = "begin"] ELSE NoInit]
    /\ timer' = NoResume /\ resume' = NoResume /\ workers' = None /\ restored' = FALSE
    /\ odd' = [overlap |-> FALSE, migrated |-> FALSE, replaced |-> FALSE, kept |-> TRUE]
    /\ UNCHANGED << config, ops >>
-----------------------------------------------------------------------------
InitStep(a) == Create(a) \/ Start(a, TRUE) \/ Start(a, FALSE) \/ SetUp(a) \/ Identify(a)
OpStep == Save \/ StopBegin \/ StopEnd \/ Restart \/ DeleteConfig \/ Restarted \/ Answer
LaterStep == Fire \/ Resume
Next ==
    \/ \E a \in Actors : InitStep(a)
    \/ Boot \/ BootEnds \/ Put \/ Migrate \/ Disable \/ Delete \/ OpStep \/ LaterStep \/ Crash
Spec == Init /\ [][Next]_vars
-----------------------------------------------------------------------------
\* Every variable has its type.
TypeOK ==
    /\ config.web \in {0} \cup WebCreds \cup {1} /\ config.enabled \in BOOLEAN
    /\ client \in {0} \cup Ids /\ workers \in {0} \cup Ids
    /\ status \in {"not_configured", "starting", "ready", "error"}
    /\ \A b \in Ids : bots[b].up \in BOOLEAN /\ bots[b].handlers \in 0..2

Quiet == op.at = "idle" /\ ~Running("boot") /\ init["boot"].at # "begin"
\* The bot that serves is the one that the settings name (a test: "activation
\* failure restores persisted and runtime configuration").
ServedAsConfigured == Quiet /\ status = "ready" => Enabled(config) /\ bots[client].creds = Creds(config)

\* It is, unless the start of the server overlapped an operation or a migration was
\* rolled back; and an operation that fails leaves the settings as they were.
ServedUnlessOverlapped ==
    /\ ~odd.overlap /\ ~odd.migrated => ServedAsConfigured
    /\ odd.kept

\* At most one client is connected, it handles a message once, and workers never
\* outlive their client, unless the start of the server overlapped an operation.
OneBot ==
    ~odd.overlap => /\ \A b \in Ids : bots[b].up => b = client /\ bots[b].handlers <= 1
                    /\ workers # None => workers = client /\ bots[client].up

\* Every operation is answered, and the user accounts come back after a start of
\* the server that does not need the bot, or has it, unless the bot was replaced first.
Answered == op.at = "idle"
Restored == init["boot"].at \in {"ready", "over"} => restored \/ odd.replaced \/ Required
=============================================================================
