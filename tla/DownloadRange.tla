---------------------------- MODULE DownloadRange ----------------------------
(***************************************************************************)
(* One call of downloadTelegramChannelRange (services/telegramUpload.ts):  *)
(* the references of a job are looked up, divided into segments, and the   *)
(* files of a segment are downloaded side by side with one Telegram        *)
(* account; the call tells the job how each file ended and returns lists.  *)
(*                                                                         *)
(* The job and its leases are ChannelJobs, the download of one file is     *)
(* TelegramWrites, the account's slot is UserAccounts.                     *)
(***************************************************************************)
EXTENDS Integers, FiniteSets

CONSTANTS
    Count,      \* references of the call, 1..Count
    Segment,    \* files of a segment (TG_LARGE_TASK_SEGMENT_SIZE)
    NoFile,     \* references without a file
    Vanished,   \* references whose message is gone when it is read again
    MaxEvents   \* bound on errors and on changes of the job's control state

RangeAssumption ==
    /\ Count \in Nat \ {0} /\ Segment \in Nat \ {0} /\ MaxEvents \in Nat
    /\ NoFile \subseteq 1..Count /\ Vanished \subseteq 1..Count

VARIABLES
    call,       \* the call: its stage, and how far the segments are
    item,       \* the stage of each reference
    list,       \* successfulMessageIds, failedMessageIds, skippedMessageIds
    tally,      \* the counters returned: successful, failed, completed
    told,       \* what the job was told of each reference (onItemSettled)
    account,    \* the account is held
    control,    \* the execution control state of the job
    odd,        \* for the properties: references whose outcome could not be told, or left
    events
vars == << call, item, list, tally, told, account, control, odd, events >>

Refs == 1..Count
Files == Refs \ NoFile
Outcomes == {"success", "failed", "skipped"}
\* The n-th segment of the downloadable references.
Nth(r) == Cardinality({f \in Files : f <= r})
InSegment(n) == {f \in Files : Nth(f) > (n - 1) * Segment /\ Nth(f) <= n * Segment}
Segments == (Cardinality(Files) + Segment - 1) \div Segment

Init ==
    /\ call = [at |-> "select", segment |-> 0]
    /\ item = [r \in Refs |-> "waiting"]
    /\ list = [o \in Outcomes |-> {}]
    /\ tally = [successful |-> 0, failed |-> 0, completed |-> 0]
    /\ told = [r \in Refs |-> {}]
    /\ account = FALSE /\ control = "run"
    /\ odd = [untold |-> {}, left |-> {}] /\ events = 0
-----------------------------------------------------------------------------
Event == events < MaxEvents /\ events' = events + 1
Ok == UNCHANGED events
Stage(s) == call' = [call EXCEPT !.at = s]
Running(r) == item[r] \in {"asking", "working", "success", "failed"}

\* selectTelegramDownloadAccount and the start of the attempt; without an account
\* the call ends before it holds one.
Select(ok) ==
    /\ call.at = "select"
    /\ IF ok THEN account' = TRUE /\ Stage("scan") /\ Ok
       ELSE Event /\ Stage("thrown") /\ UNCHANGED account
    /\ UNCHANGED << item, list, tally, told, control, odd >>

\* References without a file are skipped before anything is downloaded.
Scan ==
    /\ call.at = "scan" /\ Stage("admit")
    /\ list' = [list EXCEPT !["skipped"] = NoFile]
    /\ told' = [r \in Refs |-> IF r \in NoFile THEN {"skipped"} ELSE {}]
    /\ item' = [r \in Refs |-> IF r \in NoFile THEN "over" ELSE "waiting"]
    /\ UNCHANGED << tally, account, control, odd, events >>

\* A job that is not to run returns at once, and one that was cancelled is told
\* that its files are skipped; otherwise the group and the batch are entered.
Admit ==
    /\ call.at = "admit"
    /\ IF control = "run" THEN Stage("next") /\ UNCHANGED << list, told, odd, account >>
       ELSE /\ Stage("returned") /\ account' = FALSE
            /\ IF control = "cancelled"
               THEN /\ list' = [list EXCEPT !["skipped"] = Files]
                    /\ told' = [r \in Refs |-> told[r] \cup (IF r \in Files THEN {"skipped"} ELSE {})]
                    /\ odd' = [odd EXCEPT !.left = NoFile]
               ELSE odd' = [odd EXCEPT !.left = Files] /\ UNCHANGED << list, told >>
    /\ UNCHANGED << item, tally, control, events >>

\* The space and the messages of the next segment; then its files run side by side.
Prefetch ==
    /\ call.at = "next" /\ call.segment < Segments
    /\ call' = [at |-> "segment", segment |-> call.segment + 1]
    /\ item' = [r \in Refs |-> IF r \in InSegment(call.segment + 1) THEN "asking" ELSE item[r]]
    /\ UNCHANGED << list, tally, told, account, control, odd, events >>

\* The wait for space is given up, or the messages cannot be read.
PrefetchFails ==
    /\ call.at = "next" /\ call.segment < Segments /\ Event
    /\ Stage("thrown") /\ account' = FALSE
    /\ UNCHANGED << item, list, tally, told, control, odd >>

Listed(r, o) == list' = [list EXCEPT ![o] = @ \cup {r}]
Count1(s, f) == tally' = [tally EXCEPT !.successful = @ + s, !.failed = @ + f]
\* One file is behind the call.
Over(r) == item' = [item EXCEPT ![r] = "over"]

\* A file of a paused job is left as it is.
AskPaused(r) ==
    /\ item[r] = "asking" /\ control \in {"paused", "cooldown"}
    /\ Over(r) /\ odd' = [odd EXCEPT !.left = @ \cup {r}] /\ UNCHANGED << list, tally, told >>

\* Each file asks for permission once more, and for its message.
Ask(r) ==
    /\ \/ AskPaused(r)
       \/ /\ item[r] = "asking" /\ control = "cancelled" /\ Over(r) /\ Listed(r, "skipped")
          /\ told' = [told EXCEPT ![r] = @ \cup {"skipped"}]
          /\ tally' = [tally EXCEPT !.completed = @ + 1] /\ UNCHANGED odd
       \/ /\ item[r] = "asking" /\ control = "run" /\ r \in Vanished /\ Over(r) /\ Listed(r, "failed")
          /\ told' = [told EXCEPT ![r] = @ \cup {"failed"}]
          /\ tally' = [tally EXCEPT !.failed = @ + 1, !.completed = @ + 1] /\ UNCHANGED odd
       \/ /\ item[r] = "asking" /\ control = "run" /\ r \notin Vanished
          /\ item' = [item EXCEPT ![r] = "working"] /\ UNCHANGED << list, told, tally, odd >>
    /\ UNCHANGED << call, account, control, events >>

\* processFileUpload ends.
Work(r, o) ==
    /\ item[r] = "working" /\ Listed(r, o) /\ item' = [item EXCEPT ![r] = o]
    /\ IF o = "success" THEN Count1(1, 0) ELSE Count1(0, 1)
    /\ UNCHANGED << call, told, account, control, odd, events >>

\* Telling the job of a success fails: the file is counted as failed as well, and
\* the job is told so.
TellFails(r) ==
    /\ item[r] = "success" /\ Event /\ Count1(0, 1) /\ Listed(r, "failed")
    /\ item' = [item EXCEPT ![r] = "failed"]
    /\ odd' = [odd EXCEPT !.untold = @ \cup {r}]
    /\ UNCHANGED << call, told, account, control >>

Tell(r, o) ==
    /\ item[r] = o /\ Over(r)
    /\ told' = [told EXCEPT ![r] = @ \cup {o}]
    /\ tally' = [tally EXCEPT !.completed = @ + 1]
    /\ UNCHANGED << call, list, account, control, odd, events >>

\* A lost lease, a quota, a FloodWait of one file, or a failure that cannot be
\* told: the call throws, and lets go of the account, whatever its siblings do.
Throw(r) ==
    /\ item[r] \in {"working", "failed"} /\ Event /\ Over(r)
    /\ IF call.at = "segment" THEN Stage("thrown") /\ account' = FALSE
       ELSE UNCHANGED << call, account >>
    /\ odd' = [odd EXCEPT !.left = @ \cup {r}]
    /\ UNCHANGED << list, tally, told, control >>

\* Promise.all of a segment.
SegmentEnds ==
    /\ call.at = "segment" /\ \A r \in InSegment(call.segment) : item[r] = "over"
    /\ Stage("next")
    /\ UNCHANGED << item, list, tally, told, account, control, odd, events >>

Return ==
    /\ call.at = "next" /\ call.segment = Segments
    /\ Stage("returned") /\ account' = FALSE
    /\ UNCHANGED << item, list, tally, told, control, odd, events >>

\* The job is paused, cooled down, cancelled or resumed.
Control(c) ==
    /\ c # control /\ control # "cancelled" /\ Event /\ control' = c
    /\ UNCHANGED << call, item, list, tally, told, account, odd >>
-----------------------------------------------------------------------------
ItemStep(r) == Ask(r) \/ (\E o \in {"success", "failed"} : Work(r, o) \/ Tell(r, o))
CallStep == Select(TRUE) \/ Scan \/ Admit \/ Prefetch \/ SegmentEnds \/ Return
Next ==
    \/ CallStep \/ Select(FALSE) \/ PrefetchFails
    \/ \E r \in Refs : ItemStep(r) \/ TellFails(r) \/ Throw(r)
    \/ \E c \in {"run", "paused", "cooldown", "cancelled"} : Control(c)
Spec == Init /\ [][Next]_vars
-----------------------------------------------------------------------------
\* Every variable has its type.
TypeOK ==
    /\ call.at \in {"select", "scan", "admit", "next", "segment", "returned", "thrown"}
    /\ call.segment \in 0..Segments
    /\ item \in [Refs -> {"waiting", "asking", "working", "success", "failed", "over"}]
    /\ list \in [Outcomes -> SUBSET Refs] /\ told \in [Refs -> SUBSET Outcomes]
    /\ account \in BOOLEAN

\* A reference is in one list, unless the job could not be told of its success;
\* the counters are the sizes of the lists, and never count a file twice.
OneOutcome ==
    /\ \A r \in Refs, o, p \in Outcomes : r \in list[o] \cap list[p] => o = p \/ r \in odd.untold
    /\ tally.successful = Cardinality(list["success"]) /\ tally.failed = Cardinality(list["failed"])
    /\ tally.completed <= Cardinality(Files)

\* A call that returns has told the job of every reference it did not leave to a
\* later call, and one that is in no list was told of nothing.
ReturnIsComplete ==
    /\ call.at = "returned" => \A r \in Refs : told[r] # {} \/ r \in odd.left
    /\ \A r \in Refs, o \in Outcomes : o \in told[r] => r \in list[o] \/ r \in odd.left \cap NoFile
    /\ \A r \in odd.left \ NoFile : told[r] = {} /\ r \notin list["skipped"]

\* Nothing is downloaded with an account that was let go, except by the siblings
\* of a file that made the call throw; a call that is over holds no account.
AccountCoversWork ==
    /\ ~account => call.at = "thrown" \/ \A r \in Refs : ~Running(r)
    /\ account => call.at \notin {"returned", "thrown"}

\* A call ends, and so do the files it leaves running.
CallOver == call.at \in {"returned", "thrown"} /\ \A r \in Refs : ~Running(r)
=============================================================================
