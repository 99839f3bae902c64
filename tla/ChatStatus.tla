----------------------------- MODULE ChatStatus -----------------------------
(***************************************************************************)
(* What the bot shows of the files of one chat (telegramUpload.ts): the    *)
(* entries of the files under way, the totals of the transfer session, and *)
(* the silent session with one card for all files, which replaces the      *)
(* single messages when there are many and ends with the last file.        *)
(*                                                                         *)
(* Everything here is memory of one process; what interleaves are the      *)
(* awaits of handlers and tasks on Telegram.  A batch counts like a file.  *)
(***************************************************************************)
EXTENDS Integers, FiniteSets

CONSTANTS
    Files,      \* files sent to the chat
    Few         \* the number of files that are shown one by one (3)

ChatAssumption == IsFiniteSet(Files) /\ Few \in Nat

VARIABLES
    step,     \* where the handler or the task of each file is
    entry,    \* chatActiveUploads
    total,    \* of the transfer session
    known,    \* its knownTaskKeys
    card,     \* the silent session, 0 if there is none
    cards,    \* sessions started so far
    scope,    \* taskIdControlScopes: the cards that control tasks
    odd       \* sessions overtaken, and whether a running file was stopped, for the properties

vars == << step, entry, total, known, card, cards, scope, odd >>

Init ==
    /\ step = [f \in Files |-> "new"]
    /\ entry = [f \in Files |-> "none"]
    /\ total = 0 /\ known = {} /\ card = 0 /\ cards = 0 /\ scope = {}
    /\ odd = [overtaken |-> {}, aborted |-> FALSE]
-----------------------------------------------------------------------------
Entered == {f \in Files : entry[f] # "none"}
Outstanding == {f \in Files : entry[f] = "queued"}
Step(f, l) == step' = [step EXCEPT ![f] = l]

\* Mutant: a file is counted at every change.
SyncAgain(es) == total' = total + Cardinality(es) /\ known' = known \cup es
\* syncChatTransferSession, updateTaskCount: a file is counted once.
Sync(es) == total' = total + Cardinality(es \ known) /\ known' = known \cup es

\* checkAndResetSession: a session without files is cleared, and so are the
\* entries, once the old message has been deleted.
Reset(f) ==
    /\ step[f] = "new"
    /\ IF card # 0 /\ Outstanding = {}
       THEN card' = 0 /\ scope' = scope \ {card} /\ Step(f, "register")
       ELSE /\ Step(f, IF card = 0 /\ Outstanding = {} THEN "clearing" ELSE "register")
            /\ UNCHANGED << card, scope >>
    /\ UNCHANGED << entry, total, known, cards, odd >>

\* Whoever was entered while the message was being deleted is dropped.
Clear(f) ==
    /\ step[f] = "clearing" /\ Step(f, "register")
    /\ entry' = [g \in Files |-> "none"] /\ total' = 0 /\ known' = {}
    /\ UNCHANGED << card, cards, scope, odd >>

\* registerUpload, and trySilentMode up to its first await.
Register(f) ==
    /\ step[f] = "register"
    /\ entry' = [entry EXCEPT ![f] = "queued"] /\ Sync({g \in Files : entry'[g] # "none"})
    /\ Step(f, IF card = 0 /\ Cardinality({g \in Files : entry'[g] = "queued"}) > Few
               THEN "silencing" ELSE "under way")
    /\ UNCHANGED << card, cards, scope, odd >>

\* startSilentSession; two handlers may both have seen that there was none.
Silence(f) ==
    /\ step[f] = "silencing"
    /\ cards' = cards + 1 /\ card' = cards + 1 /\ scope' = scope \cup {cards + 1}
    /\ odd' = [odd EXCEPT !.overtaken = IF card = 0 THEN @ ELSE @ \cup {card}]
    /\ Sync(Entered) /\ Step(f, "under way")
    /\ UNCHANGED entry

Update(f, phase) ==
    IF entry[f] = "none" THEN UNCHANGED << entry, total, known >>
    ELSE entry' = [entry EXCEPT ![f] = phase] /\ Sync(Entered)

\* The task ends, or is cancelled before it began; then it looks whether it was
\* the last of the session.
Finish(f, phase) ==
    /\ step[f] = "under way" /\ phase \in {"success", "failed"}
    /\ Update(f, phase) /\ Step(f, "last")
    /\ UNCHANGED << card, cards, scope, odd >>

\* A running task that is told to stop does not look.
FinishAborted(f) ==
    /\ step[f] = "under way" /\ Update(f, "failed") /\ Step(f, "fading")
    /\ odd' = [odd EXCEPT !.aborted = TRUE]
    /\ UNCHANGED << card, cards, scope >>

\* finalizeSilentSessionIfDone, up to the edit of the card.
Last(f) ==
    /\ step[f] = "last"
    /\ Step(f, IF card # 0 /\ Outstanding = {} THEN "closing" ELSE "fading")
    /\ UNCHANGED << entry, total, known, card, cards, scope, odd >>

\* After the edit; a file that came meanwhile loses its session.
Close(f) ==
    /\ step[f] = "closing" /\ card' = 0 /\ scope' = scope \ {card}
    /\ Step(f, "fading")
    /\ UNCHANGED << entry, total, known, cards, odd >>

\* Eight seconds later.
Remove(f) ==
    /\ step[f] = "fading" /\ Step(f, "over")
    /\ entry' = [entry EXCEPT ![f] = "none"]
    /\ UNCHANGED << total, known, card, cards, scope, odd >>

\* cancelSilentTask: whoever holds a card stops the files of the chat.
Cancel(c) ==
    /\ c \in scope
    /\ step' = [f \in Files |-> IF step[f] = "under way" THEN "stopping" ELSE step[f]]
    /\ card' = 0 /\ scope' = scope \ {card, c}
    /\ entry' = [f \in Files |-> "none"] /\ total' = 0 /\ known' = {}
    /\ UNCHANGED << cards, odd >>

Stop(f) ==
    /\ step[f] = "stopping" /\ Step(f, "last")
    /\ UNCHANGED << entry, total, known, card, cards, scope, odd >>
-----------------------------------------------------------------------------
Handle(f) == Clear(f) \/ Register(f) \/ Silence(f)
Task(f) == (\E phase \in {"success", "failed"} : Finish(f, phase)) \/ Last(f) \/ Close(f)
           \/ Remove(f) \/ Stop(f)
Next == (\E f \in Files : Reset(f) \/ Handle(f) \/ Task(f) \/ FinishAborted(f)) \/ \E c \in scope : Cancel(c)
Spec == Init /\ [][Next]_vars
-----------------------------------------------------------------------------
\* Every variable has its type.
TypeOK ==
    /\ entry \in [Files -> {"none", "queued", "success", "failed"}]
    /\ total \in 0..Cardinality(Files) /\ known \subseteq Files
    /\ card \in 0..cards /\ scope \subseteq 1..cards
    /\ step \in [Files -> {"new", "clearing", "register", "silencing", "under way", "last",
                           "closing", "fading", "over", "stopping"}]

\* The total of the card is the number of files it stands for.
TotalIsFiles == total = Cardinality(known) /\ Entered \subseteq known

\* A card controls tasks only while its session lasts; a session that a second
\* handler overtook keeps its card for good.
ScopesHaveSession == scope \subseteq {card} \cup odd.overtaken

\* A session comes to an end with its files, unless one of them was stopped while
\* it ran, which leaves the session to the next file.
SessionOver == card = 0 \/ odd.aborted
=============================================================================
