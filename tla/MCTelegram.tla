----------------------------- MODULE MCTelegram ------------------------------
(***************************************************************************)
(* The components on the side of Telegram: who uses it and by which client, *)
(* the bot, and what it shows of its tasks and lets its users do with them. *)
(* They do not share state, so that one run checks them one beside the      *)
(* other: "part" says which of them a behaviour is about, and the cells c1, *)
(* c2 ... stand for its variables.                                          *)
(***************************************************************************)
EXTENDS Naturals

VARIABLES
    part,   \* the component that the behaviour is about
    c1, c2, c3, c4, c5, c6, c7, c8, c9, c10, c11, c12, c13, c14, c15, c16   \* its state
vars == << part, c1, c2, c3, c4, c5, c6, c7, c8, c9, c10, c11, c12, c13, c14, c15, c16 >>

Pool == INSTANCE UserAccounts WITH
    Accounts <- {"a", "b"}, Weight <- [a |-> 1, b |-> 1], MaxConnections <- 1,
    Downloads <- {"d1", "d2"}, Requests <- {"r1", "r2"}, Clients <- 4, MaxEvents <- 2,
    row <- c1, denied <- c2, revoked <- c3, entry <- c4, client <- c5, chain <- c6,
    op <- c7, req <- c8, use <- c9, forgot <- c10, events <- c11
Login == INSTANCE LoginFlows WITH
    Handlers <- {"h1", "h2"}, MaxErrors <- 1, MaxFlows <- 2, MaxEvents <- 1, flow <- c1,
    h <- c2, events <- c3
Sweep == INSTANCE AccessSweep WITH
    Accounts <- 2, Items <- 2, Workers <- 2, MaxSweeps <- 2, MaxEvents <- 2, sweep <- c1,
    worker <- c2, tail <- c3, shown <- c4, stopped <- c5, events <- c6
Auth == INSTANCE TelegramAuth WITH
    Users <- {"u1", "u2"}, Handlers <- {"h1", "h2"}, MaxFail <- 1, MaxOps <- 3,
    MaxEvents <- 1, pin <- c1, twoFactor <- c2, allow <- c3, rows <- c4, cache <- c5,
    state <- c6, failed <- c7, locked <- c8, handler <- c9, tx <- c10, change <- c11,
    grant <- c12, late <- c13, met <- c14, ops <- c15, events <- c16
Bot == INSTANCE BotLifecycle WITH
    HasEnvironment <- TRUE, Required <- FALSE, WebCreds <- {2}, MaxOps <- 2, MaxEvents <- 1,
    config <- c1, client <- c2, bots <- c3, status <- c4, init <- c5, op <- c6, timer <- c7,
    resume <- c8, workers <- c9, restored <- c10, odd <- c11, ops <- c12, events <- c13
Wizard == INSTANCE BotWizard WITH
    Handlers <- {"h1", "h2"}, Kinds <- {"download", "add"}, MaxWizards <- 2, MaxEvents <- 1,
    wizards <- c1, store <- c2, handler <- c3, once <- c4, jobs <- c5, odd <- c6,
    events <- c7
Chat == INSTANCE ChatStatus WITH
    Files <- {"a", "b", "c"}, Few <- 1, step <- c1, entry <- c2, total <- c3, known <- c4,
    card <- c5, cards <- c6, scope <- c7, odd <- c8
Cards == INSTANCE TaskCards WITH
    Memory <- {"m"}, Channel <- {"i", "j"}, Users <- {"u1"},
    OwnerOf <- [x \in {"m", "i", "j"} |-> "u1"], Cards <- {"k"}, Handlers <- {"h1", "h2"},
    MaxOps <- 3, MaxEvents <- 1, job <- c1, exec <- c2, card <- c3, pending <- c4,
    handler <- c5, bulk <- c6, met <- c7, left <- c8, idle <- c9, ops <- c10, events <- c11

ASSUME
    /\ Pool!AccountsAssumption
    /\ Login!LoginAssumption
    /\ Sweep!SweepAssumption
    /\ Auth!AuthAssumption
    /\ Bot!BotAssumption
    /\ Wizard!WizardAssumption
    /\ Chat!ChatAssumption
    /\ Cards!CardsAssumption

Init ==
    \/ part = "pool" /\ Pool!Init
       /\ c12 = 0 /\ c13 = 0 /\ c14 = 0 /\ c15 = 0 /\ c16 = 0
    \/ part = "login" /\ Login!Init
       /\ c4 = 0 /\ c5 = 0 /\ c6 = 0 /\ c7 = 0 /\ c8 = 0 /\ c9 = 0 /\ c10 = 0 /\ c11 = 0 /\ c12 = 0
       /\ c13 = 0 /\ c14 = 0 /\ c15 = 0 /\ c16 = 0
    \/ part = "sweep" /\ Sweep!Init
       /\ c7 = 0 /\ c8 = 0 /\ c9 = 0 /\ c10 = 0 /\ c11 = 0 /\ c12 = 0 /\ c13 = 0 /\ c14 = 0 /\ c15 = 0
       /\ c16 = 0
    \/ part = "auth" /\ Auth!Init
    \/ part = "bot" /\ Bot!Init
       /\ c14 = 0 /\ c15 = 0 /\ c16 = 0
    \/ part = "wizard" /\ Wizard!Init
       /\ c8 = 0 /\ c9 = 0 /\ c10 = 0 /\ c11 = 0 /\ c12 = 0 /\ c13 = 0 /\ c14 = 0 /\ c15 = 0 /\ c16 = 0
    \/ part = "chat" /\ Chat!Init
       /\ c9 = 0 /\ c10 = 0 /\ c11 = 0 /\ c12 = 0 /\ c13 = 0 /\ c14 = 0 /\ c15 = 0 /\ c16 = 0
    \/ part = "cards" /\ Cards!Init
       /\ c12 = 0 /\ c13 = 0 /\ c14 = 0 /\ c15 = 0 /\ c16 = 0

PoolNext == part = "pool" /\ Pool!Next /\ UNCHANGED << part, c12, c13, c14, c15, c16 >>
LoginNext ==
    /\ part = "login" /\ Login!Next
    /\ UNCHANGED << part, c4, c5, c6, c7, c8, c9, c10, c11, c12, c13, c14, c15, c16 >>
SweepNext ==
    /\ part = "sweep" /\ Sweep!Next
    /\ UNCHANGED << part, c7, c8, c9, c10, c11, c12, c13, c14, c15, c16 >>
AuthNext == part = "auth" /\ Auth!Next /\ UNCHANGED << part >>
BotNext == part = "bot" /\ Bot!Next /\ UNCHANGED << part, c14, c15, c16 >>
WizardNext ==
    /\ part = "wizard" /\ Wizard!Next
    /\ UNCHANGED << part, c8, c9, c10, c11, c12, c13, c14, c15, c16 >>
ChatNext ==
    /\ part = "chat" /\ Chat!Next
    /\ UNCHANGED << part, c9, c10, c11, c12, c13, c14, c15, c16 >>
CardsNext == part = "cards" /\ Cards!Next /\ UNCHANGED << part, c12, c13, c14, c15, c16 >>

Next ==
    \/ PoolNext \/ LoginNext \/ SweepNext \/ AuthNext \/ BotNext \/ WizardNext \/ ChatNext \/ CardsNext
Spec == Init /\ [][Next]_vars
-----------------------------------------------------------------------------
\* Every component keeps its types.
TypesOK ==
    /\ part = "pool" => Pool!TypeOK
    /\ part = "login" => Login!TypeOK
    /\ part = "sweep" => Sweep!TypeOK
    /\ part = "auth" => Auth!TypeOK
    /\ part = "bot" => Bot!TypeOK
    /\ part = "wizard" => Wizard!TypeOK
    /\ part = "chat" => Chat!TypeOK
    /\ part = "cards" => Cards!TypeOK

(* Nobody connects to Telegram whom nothing holds or closes: one client per  *)
(* user account, counted by the downloads that hold it, one owner of the     *)
(* client of a login, one bot.                                               *)
ClientsAreAccountedFor ==
    /\ part = "pool" => Pool!OneRuntime /\ Pool!CountsAreHolders
    /\ part = "login" => Login!ClientIsOwned /\ Login!HandedOffIsClosed
    /\ part = "bot" => Bot!OneBot

(* Disabled accounts are disconnected and accounts that have to wait get no   *)
(* download; a change of the PIN or of the list ends what was granted before, *)
(* and tries are counted.                                                     *)
RightsAreRespected ==
    /\ [](/\ part = "pool" => Pool!DisabledIsDisconnected
          /\ part = "login" => Login!ErrorsAreBounded
          /\ part = "auth" => Auth!GrantsFitPin /\ Auth!CacheHasRow /\ Auth!TriesAreBounded)
    /\ [][part = "pool" => Pool!RespectsCooldown]_vars

(* What a user or an administrator asked for is done as asked, and once: the  *)
(* probes of a sweep and its summary, the task of a wizard, the configuration *)
(* of the bot; the status of a chat counts every file once, and a command for *)
(* tasks changes the row of a job and its group alike.                        *)
WhatIsAskedIsDone ==
    /\ part = "sweep" => Sweep!OneProbeUnlessLeft /\ Sweep!SummaryIsTrue
    /\ part = "wizard" =>
        /\ Wizard!SubmittedOnce /\ Wizard!SubmittedIsComplete
        /\ Wizard!BoundToOwnMessage
    /\ part = "bot" => Bot!ServedUnlessOverlapped
    /\ part = "chat" => Chat!TotalIsFiles /\ Chat!ScopesHaveSession
    /\ part = "cards" => Cards!AgreeUnlessOverlapped /\ Cards!StopsAllUnlessIdle
=============================================================================
