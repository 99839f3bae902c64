---------------------------- MODULE AccessSweep ----------------------------
(***************************************************************************)
(* The sweep that finds out which account can read which source            *)
(* (telegramAccountAccessSweep.ts and its adapter): triggers are chained,  *)
(* a sweep runs several workers, each worker one account at a time, and    *)
(* the probes of an account one after the other.                           *)
(***************************************************************************)
EXTENDS Integers, Sequences, FiniteSets

CONSTANTS
    Accounts,     \* the enabled accounts, in their order
    Items,        \* sources times scopes
    Workers,      \* the concurrency
    MaxSweeps,    \* bound on triggers
    MaxEvents     \* bound on failing statements and account-wide errors

VARIABLES
    sweep,    \* the sweeps
    worker,   \* the workers of each sweep
    tail,     \* the triggers that wait for triggerTail, in order
    shown,    \* currentSummary: the sweep it was copied from, and its status
    stopped,  \* accounts the pool does not give out, after an account-wide error
    events

vars == << sweep, worker, tail, shown, stopped, events >>

Sweeps == 1..MaxSweeps
Idle == [at |-> "idle", acct |-> 0, item |-> 0]
SweepAssumption ==
    {Accounts, Items, Workers, MaxSweeps} \subseteq Nat \ {0} /\ MaxEvents \in Nat

Init ==
    /\ sweep = [s \in Sweeps |-> [at |-> "none", cursor |-> 0, probes |-> 0, results |-> 0,
                                  error |-> FALSE]]
    /\ worker = [s \in Sweeps |-> [w \in 1..Workers |-> Idle]]
    /\ tail = << >> /\ shown = [sweep |-> 0, status |-> "idle"]
    /\ stopped = {} /\ events = 0
-----------------------------------------------------------------------------
Event == events < MaxEvents /\ events' = events + 1
Put(s, w, rec) == worker' = [worker EXCEPT ![s][w] = rec]
Running == {s \in Sweeps : sweep[s].at \in {"list", "probe"}}

\* triggerTelegramAccountAccessSweep
Trigger(s) ==
    /\ sweep[s].at = "none" /\ \A t \in Sweeps : t < s => sweep[t].at # "none"
    /\ sweep' = [sweep EXCEPT ![s].at = "queued"]
    /\ tail' = Append(tail, s) /\ shown' = [shown EXCEPT !.status = "queued"]
    /\ UNCHANGED << worker, stopped, events >>

\* The promise before it is settled.
Begin ==
    /\ tail # << >> /\ Running = {}
    /\ LET s == Head(tail) IN
       /\ sweep' = [sweep EXCEPT ![s].at = "list"]
       /\ shown' = [sweep |-> s, status |-> "running"]
    /\ tail' = Tail(tail) /\ UNCHANGED << worker, stopped, events >>

List(s) ==
    /\ sweep[s].at = "list" /\ sweep' = [sweep EXCEPT ![s].at = "probe"]
    /\ UNCHANGED << worker, tail, shown, stopped, events >>

\* A worker takes the next account; there may be none left.
Next1(s, w) ==
    /\ sweep[s].at \in {"probe", "failed"} /\ worker[s][w].at = "idle"
    /\ sweep[s].cursor < Accounts
    /\ sweep[s].at = "failed" => worker[s][w].acct # 0
    /\ sweep' = [sweep EXCEPT ![s].cursor = @ + 1]
    /\ Put(s, w, [at |-> "acquire", acct |-> sweep[s].cursor + 1, item |-> 1])
    /\ UNCHANGED << tail, shown, stopped, events >>

Rest(s, w) == [worker[s][w] EXCEPT !.at = "idle", !.item = 0]

\* acquireAccount: an account that is not runnable ends its probes.
Acquire(s, w) ==
    /\ worker[s][w].at = "acquire"
    /\ \/ /\ worker[s][w].acct \notin stopped
          /\ sweep' = [sweep EXCEPT ![s].probes = @ + 1]
          /\ Put(s, w, [worker[s][w] EXCEPT !.at = "probe"])
       \/ UNCHANGED sweep /\ Put(s, w, Rest(s, w))
    /\ UNCHANGED << tail, shown, stopped, events >>

\* allowed, denied, or an error that concerns the source only.
Probed(s, w) ==
    /\ worker[s][w].at = "probe"
    /\ sweep' = [sweep EXCEPT ![s].results = @ + 1]
    /\ Put(s, w, [worker[s][w] EXCEPT !.at = "mark"])
    /\ UNCHANGED << tail, shown, stopped, events >>

\* A flood wait or an expired session: the account is stopped, and its last
\* result recorded.
AccountError(s, w) ==
    /\ worker[s][w].at = "probe" /\ Event
    /\ sweep' = [sweep EXCEPT ![s].results = @ + 1, ![s].error = TRUE]
    /\ stopped' = stopped \cup {worker[s][w].acct}
    /\ Put(s, w, [worker[s][w] EXCEPT !.at = "mark", !.item = Items])
    /\ UNCHANGED << tail, shown >>

Mark(s, w) ==
    /\ worker[s][w].at = "mark"
    /\ Put(s, w, IF worker[s][w].item < Items
                 THEN [worker[s][w] EXCEPT !.at = "acquire", !.item = @ + 1]
                 ELSE Rest(s, w))
    /\ UNCHANGED << sweep, tail, shown, stopped, events >>

Failing(s) ==
    /\ sweep' = [sweep EXCEPT ![s].at = "failed", ![s].error = TRUE]
    /\ shown' = [sweep |-> s, status |-> "failed"]

\* The row cannot be written: the sweep fails at once, but Promise.all does not
\* stop the other workers, which go on.
MarkFails(s, w) ==
    /\ worker[s][w].at = "mark" /\ Event
    /\ IF sweep[s].at = "probe" THEN Failing(s) ELSE UNCHANGED << sweep, shown >>
    /\ Put(s, w, [Rest(s, w) EXCEPT !.at = "dead"])
    /\ UNCHANGED << tail, stopped >>

ListFails(s) ==
    /\ sweep[s].at = "list" /\ Event /\ Failing(s)
    /\ UNCHANGED << worker, tail, stopped >>

\* Every worker has come to the end of the accounts.
Finish(s) ==
    /\ sweep[s].at = "probe" /\ sweep[s].cursor = Accounts
    /\ \A w \in 1..Workers : worker[s][w].at = "idle"
    /\ sweep' = [sweep EXCEPT ![s].at = "completed"]
    /\ shown' = [sweep |-> s, status |-> IF sweep[s].error THEN "failed" ELSE "completed"]
    /\ UNCHANGED << worker, tail, stopped, events >>

\* The cooldown is over, or the user has logged in again.
Runnable ==
    /\ stopped # {} /\ Running = {} /\ stopped' = {}
    /\ UNCHANGED << sweep, worker, tail, shown, events >>
-----------------------------------------------------------------------------
SweepStep(s) == List(s) \/ Finish(s) \/ \E w \in 1..Workers :
    Next1(s, w) \/ Acquire(s, w) \/ Probed(s, w) \/ Mark(s, w)

Next ==
    \/ Begin \/ Runnable
    \/ \E s \in Sweeps :
         \/ Trigger(s) \/ SweepStep(s) \/ ListFails(s)
         \/ \E w \in 1..Workers : AccountError(s, w) \/ MarkFails(s, w)

Spec == Init /\ [][Next]_vars
-----------------------------------------------------------------------------
\* Every variable has its type.
TypeOK ==
    /\ \A s \in Sweeps :
         /\ sweep[s].at \in {"none", "queued", "list", "probe", "completed", "failed"}
         /\ sweep[s].cursor \in 0..Accounts /\ {sweep[s].probes, sweep[s].results} \subseteq Nat
         /\ worker[s] \in [1..Workers -> [at : {"idle", "acquire", "probe", "mark", "dead"},
                                          acct : 0..Accounts, item : 0..Items]]
    /\ stopped \subseteq 1..Accounts
    /\ shown.status \in {"idle", "queued", "running", "completed", "failed"}

Probes == {p \in Sweeps \X (1..Workers) : worker[p[1]][p[2]].at \in {"acquire", "probe", "mark"}}

\* One account is asked one thing at a time: by one worker of one sweep, but for the
\* workers that a failed sweep has left behind.
OneProbeUnlessLeft ==
    \A p, q \in Probes : worker[p[1]][p[2]].acct = worker[q[1]][q[2]].acct =>
        p = q \/ "failed" \in {sweep[p[1]].at, sweep[q[1]].at}

\* A sweep that has run to its end has a result for each probe, and what is
\* shown when nothing is under way is a sweep's end.
SummaryIsTrue ==
    /\ \A s \in Sweeps : sweep[s].at = "completed" => sweep[s].probes = sweep[s].results
    /\ tail = << >> /\ Running = {} => shown.status \notin {"queued", "running"}

\* Whoever asked for a sweep gets an answer.
SweepOver(s) == sweep[s].at \in {"none", "completed", "failed"}
=============================================================================
