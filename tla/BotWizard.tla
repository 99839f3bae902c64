----------------------------- MODULE BotWizard -----------------------------
(***************************************************************************)
(* The wizards of the Telegram bot (services/telegramBot.ts): a user is    *)
(* asked one thing after the other and at last confirms a download, a      *)
(* subscription or its folder.  The store of interactions                  *)
(* (services/telegramInteractionState.ts) keeps one wizard per user and    *)
(* chat, bound to the message whose buttons may be pressed; this is the    *)
(* entry of one user in one chat.                                          *)
(*                                                                         *)
(* Telegram delivers messages without waiting for the handlers of earlier  *)
(* ones, so that handlers of one user interleave at their awaits.  The     *)
(* record of a wizard is shared by them.                                   *)
(***************************************************************************)
EXTENDS Integers, Sequences, FiniteSets, SequencesExt

CONSTANTS
    Handlers,    \* handlers of messages that run at a time
    Kinds,       \* the wizards that the user starts
    MaxWizards,  \* bound on wizards
    MaxEvents    \* bound on buttons pressed and entries forgotten

WizardAssumption ==
    /\ IsFiniteSet(Handlers) /\ Kinds \subseteq {"download", "date", "tag", "add", "folder", "backfill"}
    /\ MaxWizards \in Nat /\ MaxEvents \in Nat

VARIABLES
    wizards,   \* the records of the wizards, in the order of their start
    store,     \* the wizard that the store has, and the message it is bound to:
               \* the wizard that sent it, and its buttons
    handler,   \* the handlers: where they wait, and for which wizard
    once,      \* telegram_target_states has a target for one use
    jobs,      \* what was submitted
    odd,       \* a handler put an older wizard back; changed the kind of a wizard in use
    events
vars == << wizards, store, handler, once, jobs, odd, events >>

Nothing == [wizard |-> 0, origin |-> 0, keys |-> "none"]
Idle == [at |-> "idle", wizard |-> 0]
W(h) == wizards[handler[h].wizard]

Init ==
    /\ wizards = << >> /\ store = Nothing /\ jobs = << >>
    /\ handler = [h \in Handlers |-> Idle] /\ once = TRUE
    /\ odd = [revived |-> FALSE, switched |-> FALSE] /\ events = 0
-----------------------------------------------------------------------------
New(kind) ==
    [kind |-> CASE kind = "backfill" -> "date" [] OTHER -> kind,
     step |-> CASE kind = "download" -> "mode" [] kind = "folder" -> "path"
                [] kind = "backfill" -> "start" [] OTHER -> "source",
     has |-> IF kind \in {"backfill", "folder"} THEN {"source"} ELSE {},
     target |-> "none"]

Event == events < MaxEvents /\ events' = events + 1
Go(h, st) == handler' = [handler EXCEPT ![h].at = st]
Done(h) == handler' = [handler EXCEPT ![h] = Idle]
Put(w, origin, keys) == store' = [wizard |-> w, origin |-> origin, keys |-> keys]

(* startTelegramWizard, and the buttons of the list of subscriptions: what *)
(* is asked first is sent, then the store gets the wizard.                 *)
Start(h, kind) ==
    /\ handler[h].at = "idle" /\ Len(wizards) < MaxWizards
    /\ wizards' = Append(wizards, New(kind))
    /\ handler' = [handler EXCEPT ![h] = [at |-> "start", wizard |-> Len(wizards) + 1]]
    /\ UNCHANGED << store, once, jobs, odd, events >>

Started(h) ==
    /\ handler[h].at = "start" /\ Done(h)
    /\ Put(handler[h].wizard, handler[h].wizard, IF W(h).step = "mode" THEN "mode" ELSE "none")
    /\ UNCHANGED << wizards, once, jobs, odd, events >>
-----------------------------------------------------------------------------
(* handleTelegramWizardMessage.  The lookup, and the change of a step that *)
(* waits for nothing, are one piece.                                       *)
Current == wizards[store.wizard]
Asked(h, step) == handler[h].at = "idle" /\ store.wizard # 0 /\ Current.step = step
Set(f, step, fields) == wizards' = [wizards EXCEPT ![store.wizard] =
                            [@ EXCEPT !.kind = f, !.step = step, !.has = @ \cup fields]]
AfterComments(kind) == IF kind = "tag" THEN "tag" ELSE "start"
Wait(h, st) == handler' = [handler EXCEPT ![h] = [at |-> st, wizard |-> store.wizard]]

CancelInput(h) ==
    /\ handler[h].at = "idle" /\ store.wizard # 0 /\ store' = Nothing
    /\ UNCHANGED << wizards, handler, once, jobs, odd, events >>

ModeInput(h) ==
    /\ Asked(h, "mode") /\ \E k \in {"date", "tag"} : Set(k, "source", {})
    /\ UNCHANGED << store, handler, once, jobs, odd, events >>

\* The source, which may say at once whether comments are wanted.
SourceInput(h) ==
    /\ Asked(h, "source")
    /\ \E c \in {{}, {"comments"}} : Set(Current.kind, "path", {"source"} \cup c)
    /\ UNCHANGED << store, handler, once, jobs, odd, events >>

\* The number of a subscription: its cancelling is asked about instead, if there is one.
ChooseInput(h) ==
    /\ Asked(h, "source") /\ Current.kind = "add" /\ Wait(h, "choose")
    /\ UNCHANGED << wizards, store, once, jobs, odd, events >>
Chosen(h) ==
    /\ handler[h].at = "choose" /\ Done(h)
    /\ store' = Nothing \/ UNCHANGED store
    /\ UNCHANGED << wizards, once, jobs, odd, events >>

CommentsInput(h) ==
    /\ Asked(h, "comments") /\ Set(Current.kind, AfterComments(Current.kind), {"comments"})
    /\ UNCHANGED << store, handler, once, jobs, odd, events >>

StartDateInput(h) ==
    /\ Asked(h, "start") /\ Set(Current.kind, "end", {"start"})
    /\ UNCHANGED << store, handler, once, jobs, odd, events >>

\* A path is remembered before it counts; skipping it does not wait.
PathInput(h) ==
    /\ Asked(h, "path") /\ Wait(h, "path")
    /\ UNCHANGED << wizards, store, once, jobs, odd, events >>

\* A download goes on; for a subscription the wizard of the user is over.
PathKnown(h) ==
    LET w == W(h) IN
    /\ handler[h].at = "path"
    /\ IF w.kind \in {"add", "folder"}
       THEN store' = Nothing /\ Go(h, "submit") /\ UNCHANGED wizards
       ELSE /\ wizards' = [wizards EXCEPT ![handler[h].wizard].step =
                              IF "comments" \in w.has THEN AfterComments(w.kind) ELSE "comments"]
            /\ Go(h, "reply") /\ UNCHANGED store
    /\ UNCHANGED << once, jobs, odd, events >>

\* refreshTelegramWizardState: whatever wizard the store has now is replaced.
Refresh(h, keys) == store.wizard # 0 /\ Put(handler[h].wizard, handler[h].wizard, keys)
Replied(h) ==
    /\ handler[h].at = "reply" /\ Done(h)
    /\ \/ Refresh(h, IF W(h).step = "comments" THEN "comments" ELSE "none")
       \/ store.wizard = 0 /\ UNCHANGED store
    /\ odd' = [odd EXCEPT !.revived = @ \/ store.wizard \notin {0, handler[h].wizard}]
    /\ UNCHANGED << wizards, once, jobs, events >>

\* The tag or the last day; the target of the download is looked up.
LastInput(h) ==
    /\ \/ Asked(h, "tag") /\ Set(Current.kind, "tag", {"tag"})
       \/ Asked(h, "end") /\ Set(Current.kind, "end", {"end"})
    /\ Wait(h, "target")
    /\ UNCHANGED << store, once, jobs, odd, events >>

\* consumeOrGetTelegramTargetState.
TargetKnown(h) ==
    /\ handler[h].at = "target" /\ Done(h) /\ once' = FALSE
    /\ wizards' = [wizards EXCEPT ![handler[h].wizard].step = "confirm",
                                  ![handler[h].wizard].target = IF once THEN "once" ELSE "active"]
    /\ UNCHANGED << store, jobs, odd, events >>

\* Mutant: the wizard is forgotten once it has been submitted.
ForgetLater == UNCHANGED store
ForgetWizard == store' = Nothing
ConfirmInput(h) ==
    /\ Asked(h, "confirm") /\ ForgetWizard /\ Wait(h, "submit")
    /\ UNCHANGED << wizards, once, jobs, odd, events >>

\* The job is enqueued, the subscription saved, or its folder.
Submit(h) ==
    /\ handler[h].at = "submit" /\ Done(h)
    /\ jobs' = Append(jobs, [wizard |-> handler[h].wizard, what |-> W(h)])
    /\ UNCHANGED << wizards, store, once, odd, events >>
-----------------------------------------------------------------------------
(* handleTelegramDownloadModeCallback: the buttons of the message that the *)
(* wizard is bound to; those of any other message are refused.             *)
InUse == \E h \in Handlers : handler[h].wizard = store.wizard
PressMode ==
    /\ Event /\ store.keys = "mode" /\ \E k \in {"date", "tag"} : Set(k, "source", {})
    /\ odd' = [odd EXCEPT !.switched = @ \/ InUse]
    /\ UNCHANGED << store, handler, once, jobs >>

PressComments ==
    /\ Event /\ store.keys = "comments"
    /\ Set(Current.kind, AfterComments(Current.kind), {"comments"})
    /\ UNCHANGED << store, handler, once, jobs, odd >>

PressCancel ==
    /\ Event /\ store.keys # "none" /\ store' = Nothing
    /\ UNCHANGED << wizards, handler, once, jobs, odd >>

\* The entry runs out, or gives way to the wizard of another user.
Forget ==
    /\ Event /\ store.wizard # 0 /\ store' = Nothing
    /\ UNCHANGED << wizards, handler, once, jobs, odd >>
-----------------------------------------------------------------------------
Input(h) ==
    \/ CancelInput(h) \/ ModeInput(h) \/ SourceInput(h) \/ CommentsInput(h) \/ StartDateInput(h)
    \/ ChooseInput(h) \/ PathInput(h) \/ LastInput(h) \/ ConfirmInput(h)
Continue(h) ==
    Started(h) \/ Chosen(h) \/ PathKnown(h) \/ Replied(h) \/ TargetKnown(h) \/ Submit(h)
Press == PressMode \/ PressComments \/ PressCancel
Next ==
    \/ \E h \in Handlers : Input(h) \/ Continue(h) \/ \E k \in Kinds : Start(h, k)
    \/ Press \/ Forget
Spec == Init /\ [][Next]_vars
-----------------------------------------------------------------------------
\* Every variable has its type.
TypeOK ==
    /\ \A w \in DOMAIN wizards :
          /\ wizards[w].kind \in {"download", "date", "tag", "add", "folder"}
          /\ wizards[w].step \in {"mode", "source", "path", "comments", "tag", "start", "end", "confirm"}
          /\ wizards[w].has \subseteq {"source", "comments", "tag", "start", "end"}
    /\ store.wizard \in 0..Len(wizards) /\ store.origin \in 0..Len(wizards)
    /\ once \in BOOLEAN

\* A download is submitted at most once, unless a handler that waited put its wizard
\* back over a newer one (Replied).
Download(i) == jobs[i].what.kind \in {"date", "tag"}
SubmittedOnce ==
    odd.revived \/ \A i, j \in DOMAIN jobs : Download(i) /\ jobs[i].wizard = jobs[j].wizard => i = j

Needed(kind) == {"source"} \cup (CASE kind = "tag" -> {"tag"} [] kind = "date" -> {"start", "end"} [] OTHER -> {})
\* What is submitted was asked for completely, a download with the target that was
\* looked up, unless the mode was pressed again while an answer was handled.
SubmittedIsComplete ==
    odd.switched \/ \A i \in DOMAIN jobs :
        LET w == jobs[i].what IN Needed(w.kind) \subseteq w.has /\ (Download(i) => w.target # "none")

\* The buttons of a message belong to the wizard that the store binds to it: an old
\* message never steers a newer wizard.
BoundToOwnMessage == store.wizard # 0 => store.origin = store.wizard
=============================================================================
