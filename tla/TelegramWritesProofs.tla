------------------------ MODULE TelegramWritesProofs ------------------------
(***************************************************************************)
(* Proofs about TelegramWrites, for every number of claims of an item and  *)
(* every number of errors and crashes: the journal loses no write, and one *)
(* file of the item is kept.                                               *)
(***************************************************************************)
EXTENDS TelegramWrites, TLAPS

\* How far a write has come: its worker is at an earlier try, or at one of the
\* labels of this one; or it has left this try for good.
Yet(x, labels) ==
    \/ worker[x[1]].try < x[2]
    \/ worker[x[1]].try = x[2] /\ worker[x[1]].pc \in labels
Done(x) ==
    \/ x[2] < worker[x[1]].try
    \/ worker[x[1]].try = x[2] /\ worker[x[1]].pc = "over"

BeforeRow == {"idle", "begin"}
BeforeObject == BeforeRow \cup {"save"}
BeforeFile == BeforeObject \cup {"mark_object", "insert"}

\* An effect is gone for good: its worker is past the statement that makes it.
ObjectGone(x) == ~Yet(x, BeforeObject) /\ x \notin object
FileGone(x) == ~Yet(x, BeforeFile) /\ x \notin files \ unsure

\* What the evidence of a row says of the write: what is marked was reached, and
\* what is called deleted is gone and does not come back.
Evident(x, row) ==
    /\ row.path => ~Yet(x, BeforeObject)
    /\ row.file => ~Yet(x, BeforeFile)
    /\ row.object = "deleted" => ObjectGone(x)
    /\ row.index = "deleted" => FileGone(x)

\* Nothing of a write is there before its worker comes to it.
NothingEarly ==
    \A x \in Writes :
        /\ Yet(x, BeforeRow) => journal[x].status = "none"
        /\ Yet(x, BeforeObject) => x \notin object
        /\ Yet(x, BeforeFile) => x \notin files

JournalIsTrue == \A x \in Writes : Evident(x, journal[x])

\* What a worker remembers of its present write.
WorkerKnows(w) ==
    LET x == Write(w) IN
    /\ worker[w].journaled <=> journal[x].status # "none"
    /\ worker[w].object = "deleted" => ObjectGone(x)
    /\ worker[w].index = "deleted" => FileGone(x)
    /\ worker[w].pc = "comp_index" => x \notin object
    /\ worker[w].pc = "mark_index" => worker[w].file
    /\ worker[w].pc \in {"mark_object", "insert", "mark_index", "validate", "settle"}
         => x \in object \cup overlapped
    /\ worker[w].pc \in {"mark_index", "validate", "settle"} => x \in files \cup overlapped
WorkersKnow == \A w \in Workers : WorkerKnows(w)

\* What the sweep works on: a write whose worker is over, or an overlapped one.
Target(x) == x \in sweep.todo \/ x = sweep.at
SweepKnows ==
    /\ sweep.pc \notin {"idle", "next"} => sweep.at # None
    /\ \A x \in Writes :
         /\ Evident(x, sweep.snap[x])
         /\ Target(x) => x \in overlapped \/ (Done(x) /\ x # won)
         /\ x = sweep.at /\ sweep.object = "deleted" => ObjectGone(x)
         /\ x = sweep.at /\ sweep.index = "deleted" => FileGone(x)

\* The item succeeds once, and its write is over unless it failed in doubt.
WonIsFinal ==
    /\ won # None <=> item.st = "success"
    /\ won # None => ~Pending(won) /\ (Done(won) \/ won \in unsure)

\* A row is resolved because its write won, or because nothing of it is left.
Cleared(x) == journal[x].object = "deleted" /\ journal[x].index = "deleted"
ResolvedHasReason ==
    \A x \in Writes : journal[x].status = "resolved" => won = x \/ Cleared(x)

\* One row is open at a time, and while it is, every other write was cleared.
OnePending ==
    \A x, y \in Writes :
        Pending(x) => /\ Pending(y) => x = y
                      /\ journal[y].status = "resolved" => Cleared(y)

WritesInv ==
    /\ TypeOK
    /\ NothingEarly /\ JournalIsTrue /\ WorkersKnow /\ SweepKnows
    /\ WonIsFinal /\ ResolvedHasReason /\ OnePending
    /\ SuccessIsIntact
-----------------------------------------------------------------------------
(* Types                                                                    *)

\* The present write of a worker is a write, and its records are records.
LEMMA WriteTypes ==
  ASSUME TypeOK, NEW w \in Workers
  PROVE  Write(w) \in Writes /\ worker[w] \in WorkerType /\ journal[Write(w)] \in RowType
  BY DEF TypeOK, Write, Writes, WorkerType

\* Updates of the record of a worker keep its type.
LEMMA WorkerRecords ==
  ASSUME NEW r \in WorkerType
  PROVE  /\ \A label \in Labels : [r EXCEPT !.pc = label] \in WorkerType
         /\ \A b \in BOOLEAN : /\ [r EXCEPT !.named = b] \in WorkerType
                               /\ [r EXCEPT !.journaled = b] \in WorkerType
                               /\ [r EXCEPT !.path = b] \in WorkerType
                               /\ [r EXCEPT !.file = b] \in WorkerType
                               /\ [r EXCEPT !.lost = b] \in WorkerType
         /\ \A e \in Effects : /\ [r EXCEPT !.object = e] \in WorkerType
                               /\ [r EXCEPT !.index = e] \in WorkerType
         /\ \A e, f \in Effects : /\ [r EXCEPT !.object = e, !.index = f] \in WorkerType
                                  /\ [r EXCEPT !.object = e, !.index = f, !.lost = FALSE] \in WorkerType
  BY DEF WorkerType

\* Setting the record of a worker leaves those of the others.
LEMMA SetTypes ==
  ASSUME TypeOK, NEW w \in Workers, NEW new \in WorkerType, Set(w, new)
  PROVE  /\ worker' \in [Workers -> WorkerType] /\ worker'[w] = new
         /\ \A v \in Workers \ {w} : worker'[v] = worker[v]
  BY DEF TypeOK, Set

\* A worker at a label is a worker.
LEMMA AtTypes ==
  ASSUME TypeOK, NEW w \in Workers, NEW label \in Labels
  PROVE  At(w, label) \in WorkerType
  BY WorkerRecords, WriteTypes DEF At

\* The labels the actions name, and the evidence of an effect.
LEMMA LabelTypes ==
    /\ {"idle", "begin", "save", "mark_object", "insert", "mark_index", "validate"} \subseteq Labels
    /\ {"settle", "undo_object", "undo_index", "undo_persist", "comp_object"} \subseteq Labels
    /\ {"comp_index", "comp_persist", "failed", "over"} \subseteq Labels
    /\ {"unknown", "present", "deleted"} = Effects
  BY DEF Labels, Effects

\* The update that ends a compensation leaves a journal.
LEMMA EvidenceTypes ==
  ASSUME TypeOK, NEW x \in Writes, NEW o \in Effects, NEW i \in Effects
  PROVE  Evidence(x, o, i) \in [Writes -> RowType]
<1> DEFINE new == [journal[x] EXCEPT !.object = o, !.index = i, !.lease = "free",
                  !.status = IF Compensated(o, i) THEN "resolved" ELSE "pending",
                  !.resolution = IF Compensated(o, i) THEN "compensated" ELSE journal[x].resolution]
<1>1. journal[x] \in RowType
  BY DEF TypeOK
<1>2. new \in RowType
  BY <1>1 DEF RowType
<1>3. Evidence(x, o, i) = [journal EXCEPT ![x] = new]
  BY DEF Evidence, TypeOK
<1> HIDE DEF new
<1> QED  BY <1>2, <1>3 DEF TypeOK

\* A step of a worker replaces its record by a record.
LEMMA WorkerTypes ==
  ASSUME TypeOK, NEW w \in Workers, Claim(w) \/ WorkerStep(w)
  PROVE  \E new \in WorkerType : Set(w, new)
<1>a. \A label \in Labels : At(w, label) \in WorkerType
  BY AtTypes
<1>b. \A label \in Labels : Goto(w, label) => \E new \in WorkerType : Set(w, new)
  BY <1>a DEF Goto
<1>c. AfterError(w) \in Labels /\ AfterComp(w) \in Labels
  BY LabelTypes DEF AfterError, AfterComp
<1>d. \A label \in Labels, e \in Effects : [At(w, label) EXCEPT !.index = e] \in WorkerType
  BY <1>a, WorkerRecords
<1>e. Throws(w) => \E new \in WorkerType : Set(w, new)
  BY <1>c, <1>d, LabelTypes DEF Throws
<1>1. CASE Claim(w) \/ Validate(w) \/ UndoPersist(w)
  BY <1>1, <1>b, LabelTypes DEF Claim, Validate, UndoPersist
<1>2. CASE Begin(w)
  <2>1. [At(w, "save") EXCEPT !.journaled = TRUE] \in WorkerType
    BY <1>a, WorkerRecords, LabelTypes
  <2> QED
    BY <1>2, <2>1, <1>b, LabelTypes DEF Begin
<1>3. CASE SaveFile(w)
  <2>1. \A label \in Labels : [At(w, label) EXCEPT !.path = TRUE] \in WorkerType
    BY <1>a, WorkerRecords
  <2> QED
    BY <1>3, <2>1, <1>c, <1>d, LabelTypes DEF SaveFile
<1>4. CASE MarkObject(w) \/ MarkIndex(w)
  BY <1>4, <1>b, <1>e, LabelTypes DEF MarkObject, MarkIndex
<1>5. CASE InsertFile(w)
  <2>1. \A label \in Labels : [At(w, label) EXCEPT !.file = TRUE] \in WorkerType
    BY <1>a, WorkerRecords
  <2> QED
    BY <1>5, <2>1, <1>e, LabelTypes DEF InsertFile
<1>6. CASE UndoObject(w) \/ UndoIndex(w)
  <2>1. \A label \in Labels : [At(w, label) EXCEPT !.object = "deleted"] \in WorkerType
    BY <1>a, WorkerRecords, LabelTypes
  <2> QED
    BY <1>6, <2>1, <1>b, <1>d, LabelTypes DEF UndoObject, UndoIndex
<1>7. CASE Settle(w)
  <2>1. [At(w, "comp_object") EXCEPT !.named = TRUE] \in WorkerType
    BY <1>a, WorkerRecords, LabelTypes
  <2>2. [[At(w, "comp_object") EXCEPT !.named = TRUE] EXCEPT !.lost = ~Holds(w)] \in WorkerType
    BY <2>1, WorkerRecords
  <2>3. AfterSettled(w) \in WorkerType
    BY <1>a, LabelTypes DEF AfterSettled
  <2> QED
    BY <1>7, <2>1, <2>2, <2>3 DEF Settle
<1>8. CASE CompObject(w) \/ CompIndex(w)
  <2>1. /\ [At(w, AfterComp(w)) EXCEPT !.object = "unknown", !.index = "unknown", !.lost = FALSE] \in WorkerType
        /\ [At(w, AfterComp(w)) EXCEPT !.object = "deleted", !.index = "deleted"] \in WorkerType
    BY <1>a, <1>c, WorkerRecords, LabelTypes
  <2> QED
    BY <1>8, <2>1, <1>b, LabelTypes DEF CompObject, CompIndex
<1>9. CASE CompPersist(w)
  <2>1. [At(w, "failed") EXCEPT !.lost = FALSE] \in WorkerType
    BY <1>a, WorkerRecords, LabelTypes
  <2> QED
    BY <1>9, <2>1, <1>b, LabelTypes DEF CompPersist
<1>10. CASE TryEnds(w)
  <2>1. [Worker("begin") EXCEPT !.try = 2, !.named = worker[w].named] \in WorkerType
    BY WriteTypes, LabelTypes DEF Worker, WorkerType
  <2> QED
    BY <1>10, <2>1, <1>b, LabelTypes DEF TryEnds
<1> QED
  BY <1>1, <1>2, <1>3, <1>4, <1>5, <1>6, <1>7, <1>8, <1>9, <1>10 DEF WorkerStep

\* Updates of a row of the journal keep its type.
LEMMA RowRecords ==
  ASSUME NEW r \in RowType
  PROVE  /\ \A l \in {"free", "held", "left"} : [r EXCEPT !.lease = l] \in RowType
         /\ [r EXCEPT !.path = TRUE, !.object = "present"] \in RowType
         /\ [r EXCEPT !.file = TRUE, !.index = "present"] \in RowType
         /\ [r EXCEPT !.status = "resolved", !.lease = "free", !.resolution = "committed"] \in RowType
         /\ [r EXCEPT !.resolution = "operator_required", !.lease = "free"] \in RowType
  BY DEF RowType, Effects

\* The row of a write that has none, and the row begin inserts.
LEMMA NoRowType == NoRow \in RowType /\ [NoRow EXCEPT !.status = "pending"] \in RowType
  BY DEF NoRow, RowType, Effects

\* The journal a step leaves is a journal.
LEMMA JournalTypes ==
  ASSUME TypeOK, NEW x \in Writes
  PROVE  /\ \A row \in RowType : [journal EXCEPT ![x] = row] \in [Writes -> RowType]
         /\ [journal EXCEPT ![x].lease = "free"] \in [Writes -> RowType]
         /\ [journal EXCEPT ![x].path = TRUE, ![x].object = "present"] \in [Writes -> RowType]
         /\ [journal EXCEPT ![x].file = TRUE, ![x].index = "present"] \in [Writes -> RowType]
         /\ [journal EXCEPT ![x].status = "resolved", ![x].lease = "free",
                            ![x].resolution = "committed"] \in [Writes -> RowType]
         /\ [journal EXCEPT ![x].resolution = "operator_required", ![x].lease = "free"]
              \in [Writes -> RowType]
<1>1. journal \in [Writes -> RowType]
  BY DEF TypeOK
<1>2. \A row \in RowType : [journal EXCEPT ![x] = row] \in [Writes -> RowType]
  BY <1>1
<1>4. [journal EXCEPT ![x].lease = "free"] = [journal EXCEPT ![x] = [journal[x] EXCEPT !.lease = "free"]]
  BY <1>1
<1>5. [journal EXCEPT ![x].path = TRUE, ![x].object = "present"]
        = [journal EXCEPT ![x] = [journal[x] EXCEPT !.path = TRUE, !.object = "present"]]
  BY <1>1
<1>6. [journal EXCEPT ![x].file = TRUE, ![x].index = "present"]
        = [journal EXCEPT ![x] = [journal[x] EXCEPT !.file = TRUE, !.index = "present"]]
  BY <1>1
<1>7. [journal EXCEPT ![x].status = "resolved", ![x].lease = "free", ![x].resolution = "committed"]
        = [journal EXCEPT ![x] = [journal[x] EXCEPT !.status = "resolved", !.lease = "free", !.resolution = "committed"]]
  BY <1>1
<1>8. [journal EXCEPT ![x].resolution = "operator_required", ![x].lease = "free"]
        = [journal EXCEPT ![x] = [journal[x] EXCEPT !.resolution = "operator_required", !.lease = "free"]]
  BY <1>1
<1>9. journal[x] \in RowType
  BY <1>1
<1> QED
  BY <1>2, <1>4, <1>5, <1>6, <1>7, <1>8, <1>9, RowRecords

\* Updates of the loop of the sweep keep its type.
LEMMA SweepRecords ==
  ASSUME NEW s \in SweepType
  PROVE  /\ \A label \in SweepLabels : [s EXCEPT !.pc = label] \in SweepType
         /\ \A x \in Writes \cup {None} : [s EXCEPT !.at = x] \in SweepType
         /\ \A t \in SUBSET Writes : [s EXCEPT !.todo = t] \in SweepType
         /\ \A t \in SUBSET Writes, j \in [Writes -> RowType] :
               [s EXCEPT !.pc = "next", !.todo = t, !.snap = j] \in SweepType
         /\ \A label \in SweepLabels, x \in Writes, o, i \in Effects :
               [s EXCEPT !.pc = label, !.at = x, !.object = o, !.index = i] \in SweepType
         /\ \A label \in SweepLabels, e \in Effects :
               /\ [s EXCEPT !.pc = label, !.object = e] \in SweepType
               /\ [s EXCEPT !.pc = label, !.index = e] \in SweepType
         /\ \A label \in SweepLabels, x \in Writes \cup {None} : [s EXCEPT !.pc = label, !.at = x] \in SweepType
  BY DEF SweepType, SweepLabels

\* An idle sweep is a sweep.
LEMMA IdleSweepType == IdleSweep \in SweepType
  BY NoRowType DEF IdleSweep, SweepType, SweepLabels, Effects

\* An interrupted sweep leaves a journal.
LEMMA LeaseLeftType ==
  ASSUME TypeOK
  PROVE  LeaseLeft \in [Writes -> RowType]
<1>1. \A x \in Writes :
        (IF journal[x].lease = "held" THEN [journal[x] EXCEPT !.lease = "left"] ELSE journal[x]) \in RowType
  BY RowRecords DEF TypeOK
<1> QED  BY <1>1 DEF LeaseLeft

\* A step of the sweep keeps the types of what it touches.
LEMMA SweepTypes ==
  ASSUME TypeOK, SweepStep \/ SweepThrows
  PROVE  sweep' \in SweepType /\ journal' \in [Writes -> RowType]
<1>t. /\ sweep \in SweepType /\ journal \in [Writes -> RowType]
      /\ sweep.todo \subseteq Writes /\ sweep.at \in Writes \cup {None}
      /\ \A x \in Writes : sweep.snap[x] \in RowType
      /\ sweep.object \in Effects /\ sweep.index \in Effects /\ sweep.pc \in SweepLabels
  BY DEF TypeOK, SweepType
<1>l. /\ {"idle", "next", "own_object", "object", "own_index", "index", "persist"} = SweepLabels
      /\ {"unknown", "present", "deleted"} = Effects
  BY DEF SweepLabels, Effects
<1>r. \A x \in Writes : sweep.snap[x].object \in Effects /\ sweep.snap[x].index \in Effects
  BY <1>t DEF RowType
<1>n. NextRow \in SweepType
  <2>1. \A label \in SweepLabels : [sweep EXCEPT !.pc = label, !.at = None] \in SweepType
    BY <1>t, SweepRecords
  <2> QED  BY <2>1, <1>l DEF NextRow
<1>1. CASE SweepClaim
  <2>1. Sweepable \subseteq Writes
    BY DEF Sweepable
  <2>2. \A x \in Writes : (IF x \in Sweepable THEN [journal[x] EXCEPT !.lease = "held"] ELSE journal[x]) \in RowType
    BY <1>t, RowRecords
  <2>3. journal' \in [Writes -> RowType]
    BY <1>1, <2>2 DEF SweepClaim
  <2>4. sweep' \in SweepType
    BY <1>1, <1>t, <2>1, SweepRecords, IdleSweepType DEF SweepClaim
  <2> QED  BY <2>3, <2>4
<1>2. CASE SweepTake
  <2> PICK x \in sweep.todo :
        \/ /\ UNCHANGED journal
           /\ sweep' = [[sweep EXCEPT !.todo = sweep.todo \ {x}] EXCEPT !.pc = "own_object", !.at = x,
                            !.object = sweep.snap[x].object, !.index = sweep.snap[x].index]
        \/ /\ journal' = IF Owned(x)
                         THEN [journal EXCEPT ![x].resolution = "operator_required", ![x].lease = "free"]
                         ELSE journal
           /\ sweep' = [[sweep EXCEPT !.todo = sweep.todo \ {x}]
                            EXCEPT !.pc = IF [sweep EXCEPT !.todo = sweep.todo \ {x}].todo = {} THEN "idle" ELSE "next"]
    BY <1>2 DEF SweepTake
  <2>1. x \in Writes
    BY <1>t
  <2>2. [sweep EXCEPT !.todo = sweep.todo \ {x}] \in SweepType
    BY <1>t, SweepRecords
  <2>a. [[sweep EXCEPT !.todo = sweep.todo \ {x}] EXCEPT !.pc = "own_object", !.at = x,
                      !.object = sweep.snap[x].object, !.index = sweep.snap[x].index] \in SweepType
    BY <2>1, <2>2, <1>l, <1>r, SweepRecords
  <2>b. \A label \in SweepLabels : [[sweep EXCEPT !.todo = sweep.todo \ {x}] EXCEPT !.pc = label] \in SweepType
    BY <2>2, SweepRecords
  <2>3. sweep' \in SweepType
    BY <2>a, <2>b, <1>l
  <2>j. [journal EXCEPT ![x].resolution = "operator_required", ![x].lease = "free"] \in [Writes -> RowType]
    BY <2>1, JournalTypes
  <2>4. journal' \in [Writes -> RowType]
    BY <2>j, <1>t
  <2> QED  BY <2>3, <2>4
<1>3. CASE SweepOwns
  BY <1>3, <1>t, <1>l, <1>n, SweepRecords DEF SweepOwns
<1>4. CASE SweepObject
  <2>1. \A e \in Effects : [sweep EXCEPT !.pc = "own_index", !.object = e] \in SweepType
    BY <1>t, <1>l, SweepRecords
  <2> QED  BY <1>4, <2>1, <1>t, <1>l DEF SweepObject
<1>5. CASE SweepIndex
  BY <1>5, <1>t, <1>l, SweepRecords DEF SweepIndex
<1>6. CASE SweepPersist
  <2>2. sweep.at \in Writes => Evidence(sweep.at, sweep.object, sweep.index) \in [Writes -> RowType]
    BY <1>t, EvidenceTypes
  <2>3. sweep.at \notin Writes => Evidence(sweep.at, sweep.object, sweep.index) = journal
    BY <1>t DEF Evidence
  <2> QED  BY <1>6, <1>t, <1>n, <2>2, <2>3 DEF SweepPersist
<1>7. CASE SweepThrows
  BY <1>7, LeaseLeftType, IdleSweepType DEF SweepThrows
<1> QED
  BY <1>1, <1>2, <1>3, <1>4, <1>5, <1>6, <1>7 DEF SweepStep

\* What the steps of a worker leave of the shared state is well typed.
LEMMA SharedTypes ==
  ASSUME TypeOK, NEW w \in Workers, Claim(w) \/ WorkerStep(w)
  PROVE  /\ journal' \in [Writes -> RowType] /\ item' \in ItemType
         /\ object' \subseteq Writes /\ files' \subseteq Writes
         /\ won' \in Writes \cup {None} /\ overlapped' \subseteq Writes /\ unsure' \subseteq Writes
<1>t. /\ Write(w) \in Writes /\ item \in ItemType /\ journal \in [Writes -> RowType]
      /\ object \subseteq Writes /\ files \subseteq Writes /\ won \in Writes \cup {None}
      /\ overlapped \subseteq Writes /\ unsure \subseteq Writes
  BY WriteTypes DEF TypeOK
<1>k. worker[w].object \in Effects /\ worker[w].index \in Effects
  BY WriteTypes DEF WorkerType
<1>e. Evidence(Write(w), worker[w].object, worker[w].index) \in [Writes -> RowType]
  BY <1>t, <1>k, EvidenceTypes
<1>i. \A st \in {"pending", "downloading", "success", "failed"}, t \in Workers \cup {None}, b \in BOOLEAN :
         [st |-> st, token |-> t, leased |-> b] \in ItemType
  BY DEF ItemType
<1>1. CASE Claim(w) \/ Validate(w) \/ TryEnds(w)
  BY <1>1, <1>t, <1>i DEF Claim, Validate, TryEnds, outside, history
<1>j. /\ [journal EXCEPT ![Write(w)] = [NoRow EXCEPT !.status = "pending"]] \in [Writes -> RowType]
      /\ [journal EXCEPT ![Write(w)].path = TRUE, ![Write(w)].object = "present"] \in [Writes -> RowType]
      /\ [journal EXCEPT ![Write(w)].file = TRUE, ![Write(w)].index = "present"] \in [Writes -> RowType]
      /\ [journal EXCEPT ![Write(w)].status = "resolved", ![Write(w)].lease = "free",
                         ![Write(w)].resolution = "committed"] \in [Writes -> RowType]
  BY <1>t, JournalTypes, NoRowType
<1>2. CASE Begin(w)
  BY <1>2, <1>t, <1>j DEF Begin, outside, history
<1>3. CASE SaveFile(w) \/ UndoObject(w) \/ CompObject(w)
  BY <1>3, <1>t DEF SaveFile, UndoObject, CompObject, history
<1>4. CASE MarkObject(w) \/ MarkIndex(w)
  BY <1>4, <1>t, <1>j DEF MarkObject, MarkIndex, outside, history
<1>5. CASE InsertFile(w) \/ UndoIndex(w) \/ CompIndex(w)
  BY <1>5, <1>t DEF InsertFile, UndoIndex, CompIndex, history
<1>6. CASE UndoPersist(w) \/ CompPersist(w)
  BY <1>6, <1>t, <1>e DEF UndoPersist, CompPersist, outside, history
<1>7. CASE Settle(w)
  BY <1>7, <1>t, <1>i, <1>j DEF Settle, Settled, outside
<1> QED
  BY <1>1, <1>2, <1>3, <1>4, <1>5, <1>6, <1>7 DEF WorkerStep

\* Types are right at the start, and every step keeps them.
LEMMA TypeInit ==
  ASSUME WritesAssumption, Init
  PROVE  TypeOK
<1>1. item \in ItemType /\ journal \in [Writes -> RowType] /\ sweep \in SweepType
  BY NoRowType, IdleSweepType DEF Init, ItemType
<1>2. worker \in [Workers -> WorkerType]
  <2>1. Worker("idle") \in WorkerType
    BY LabelTypes DEF Worker, WorkerType
  <2> QED  BY <2>1 DEF Init
<1> QED
  BY <1>1, <1>2 DEF Init, TypeOK, WritesAssumption

\* Every step keeps the types.
LEMMA TypeStep ==
  ASSUME WritesAssumption, TypeOK, [Next]_vars
  PROVE  TypeOK'
<1>t. /\ item \in ItemType /\ journal \in [Writes -> RowType] /\ worker \in [Workers -> WorkerType]
      /\ object \subseteq Writes /\ files \subseteq Writes /\ won \in Writes \cup {None}
      /\ overlapped \subseteq Writes /\ unsure \subseteq Writes /\ sweep \in SweepType
      /\ faults \in 0..MaxFaults
  BY DEF TypeOK
<1>f. ASSUME Fault \/ Smooth PROVE faults' \in 0..MaxFaults
  BY <1>f, <1>t DEF Fault, Smooth, WritesAssumption
<1>1. CASE UNCHANGED vars
  BY <1>1, <1>t DEF vars, TypeOK
<1>2. ASSUME NEW w \in Workers, Claim(w) \/ WorkerStep(w)
      PROVE  TypeOK'
  <2>1. worker' \in [Workers -> WorkerType]
    BY <1>2, WorkerTypes, SetTypes
  <2>2. UNCHANGED sweep
    BY <1>2 DEF Claim, WorkerStep, Begin, SaveFile, MarkObject, InsertFile, MarkIndex, UndoObject,
            UndoIndex, UndoPersist, Validate, Settle, CompObject, CompIndex, CompPersist, TryEnds
  <2>3. Fault \/ Smooth
    BY <1>2 DEF Claim, WorkerStep, Begin, SaveFile, MarkObject, InsertFile, MarkIndex, UndoObject,
            UndoIndex, UndoPersist, Validate, Settle, CompObject, CompIndex, CompPersist, TryEnds, Smooth
  <2> QED  BY <1>2, <1>t, <1>f, <2>1, <2>2, <2>3, SharedTypes DEF TypeOK
<1>3. CASE SweepStep \/ SweepThrows
  <2>1. sweep' \in SweepType /\ journal' \in [Writes -> RowType]
    BY <1>3, SweepTypes
  <2>2. /\ UNCHANGED << item, worker, won, unsure >> /\ overlapped' \subseteq Writes
        /\ object' \subseteq object /\ files' \subseteq files
    BY <1>3, <1>t DEF SweepStep, SweepClaim, SweepTake, SweepOwns, SweepObject, SweepIndex, SweepPersist,
            SweepThrows, outside, history, Sweepable
  <2>3. Fault \/ Smooth
    BY <1>3 DEF SweepStep, SweepClaim, SweepTake, SweepOwns, SweepObject, SweepIndex, SweepPersist, SweepThrows
  <2> QED  BY <1>t, <1>f, <2>1, <2>2, <2>3 DEF TypeOK
<1>4. CASE LeaseExpires \/ Reset \/ Retry
  <2>1. item' \in ItemType
    BY <1>4, <1>t DEF LeaseExpires, Reset, Retry, ItemType
  <2>2. UNCHANGED << journal, object, files, worker, sweep, won, overlapped, unsure >> /\ Smooth
    BY <1>4 DEF LeaseExpires, Reset, Retry, outside, history
  <2> QED  BY <1>t, <1>f, <2>1, <2>2 DEF TypeOK
<1>5. ASSUME NEW x \in Writes, JournalLeaseExpires(x)
      PROVE  TypeOK'
  <2>1. journal' \in [Writes -> RowType]
    BY <1>5, JournalTypes DEF JournalLeaseExpires
  <2> QED  BY <1>5, <1>t, <1>f, <2>1 DEF TypeOK, JournalLeaseExpires, outside, history
<1>6. CASE Crash
  <2>1. \A w \in Workers : (IF Alive(w) THEN At(w, "over") ELSE worker[w]) \in WorkerType
    BY <1>t, AtTypes, LabelTypes
  <2>2. worker' \in [Workers -> WorkerType]
    BY <1>6, <2>1 DEF Crash
  <2>3. journal' \in [Writes -> RowType]
    BY <1>6, LeaseLeftType DEF Crash
  <2> QED  BY <1>6, <1>t, <1>f, <2>2, <2>3, IdleSweepType DEF TypeOK, Crash, outside, history
<1> QED
  BY <1>1, <1>2, <1>3, <1>4, <1>5, <1>6 DEF Next

\* Every variable keeps to its type.
THEOREM TypeCorrect == Spec => []TypeOK
<1>1. Init => TypeOK
  BY TypeInit, WritesAssumption
<1>2. TypeOK /\ [Next]_vars => TypeOK'
  BY TypeStep, WritesAssumption
<1> QED
  BY <1>1, <1>2, PTL DEF Spec

-----------------------------------------------------------------------------
(* What the steps of a worker do to its record                              *)

\* In this step the worker goes to one of the labels, within its try, and then
\* remembers this.
Becomes(w, labels, journaled, file, objectState, indexState) ==
    /\ worker'[w].pc \in labels /\ worker'[w].try = worker[w].try
    /\ worker'[w].journaled = journaled /\ worker'[w].file = file
    /\ worker'[w].object = objectState /\ worker'[w].index = indexState
\* It goes there and remembers what it did.
Moves(w, labels) ==
    Becomes(w, labels, worker[w].journaled, worker[w].file, worker[w].object, worker[w].index)

\* What the updates of the record of a worker change of it.
LEMMA Updates ==
  ASSUME TypeOK, NEW w \in Workers, NEW label \in Labels
  PROVE  LET r == worker[w] IN
         /\ Set(w, At(w, label))
              => Becomes(w, {label}, r.journaled, r.file, r.object, r.index)
         /\ Set(w, [At(w, label) EXCEPT !.journaled = TRUE])
              => Becomes(w, {label}, TRUE, r.file, r.object, r.index)
         /\ Set(w, [At(w, label) EXCEPT !.path = TRUE])
              => Becomes(w, {label}, r.journaled, r.file, r.object, r.index)
         /\ Set(w, [At(w, label) EXCEPT !.file = TRUE])
              => Becomes(w, {label}, r.journaled, TRUE, r.object, r.index)
         /\ Set(w, [At(w, label) EXCEPT !.named = TRUE])
              => Becomes(w, {label}, r.journaled, r.file, r.object, r.index)
         /\ Set(w, [At(w, label) EXCEPT !.lost = FALSE])
              => Becomes(w, {label}, r.journaled, r.file, r.object, r.index)
         /\ Set(w, [[At(w, label) EXCEPT !.named = TRUE] EXCEPT !.lost = ~Holds(w)])
              => Becomes(w, {label}, r.journaled, r.file, r.object, r.index)
         /\ Set(w, [At(w, label) EXCEPT !.object = "deleted"])
              => Becomes(w, {label}, r.journaled, r.file, "deleted", r.index)
         /\ Set(w, [At(w, label) EXCEPT !.index = "deleted"])
              => Becomes(w, {label}, r.journaled, r.file, r.object, "deleted")
         /\ Set(w, [At(w, label) EXCEPT !.index = IF r.file THEN "unknown" ELSE "deleted"])
              => Becomes(w, {label}, r.journaled, r.file, r.object, IF r.file THEN "unknown" ELSE "deleted")
         /\ Set(w, [At(w, label) EXCEPT !.object = "deleted", !.index = "deleted"])
              => Becomes(w, {label}, r.journaled, r.file, "deleted", "deleted")
         /\ Set(w, [At(w, label) EXCEPT !.object = "unknown", !.index = "unknown", !.lost = FALSE])
              => Becomes(w, {label}, r.journaled, r.file, "unknown", "unknown")
<1> DEFINE r == worker[w]
<1>1. r \in WorkerType /\ worker \in [Workers -> WorkerType]
  BY DEF TypeOK
<1>s. \A new : Set(w, new) => worker'[w] = new
  BY <1>1 DEF Set
<1>2. ASSUME Set(w, At(w, label))
      PROVE  Becomes(w, {label}, r.journaled, r.file, r.object, r.index)
  <2>1. worker'[w] = At(w, label)
    BY <1>2, <1>s
  <2> QED  BY <1>1, <2>1 DEF Becomes, At, WorkerType
<1>3. ASSUME Set(w, [At(w, label) EXCEPT !.journaled = TRUE])
      PROVE  Becomes(w, {label}, TRUE, r.file, r.object, r.index)
  <2>1. worker'[w] = [At(w, label) EXCEPT !.journaled = TRUE]
    BY <1>3, <1>s
  <2> QED  BY <1>1, <2>1 DEF Becomes, At, WorkerType
<1>4. ASSUME Set(w, [At(w, label) EXCEPT !.path = TRUE])
      PROVE  Becomes(w, {label}, r.journaled, r.file, r.object, r.index)
  <2>1. worker'[w] = [At(w, label) EXCEPT !.path = TRUE]
    BY <1>4, <1>s
  <2> QED  BY <1>1, <2>1 DEF Becomes, At, WorkerType
<1>5. ASSUME Set(w, [At(w, label) EXCEPT !.file = TRUE])
      PROVE  Becomes(w, {label}, r.journaled, TRUE, r.object, r.index)
  <2>1. worker'[w] = [At(w, label) EXCEPT !.file = TRUE]
    BY <1>5, <1>s
  <2> QED  BY <1>1, <2>1 DEF Becomes, At, WorkerType
<1>6. ASSUME Set(w, [At(w, label) EXCEPT !.named = TRUE])
      PROVE  Becomes(w, {label}, r.journaled, r.file, r.object, r.index)
  <2>1. worker'[w] = [At(w, label) EXCEPT !.named = TRUE]
    BY <1>6, <1>s
  <2> QED  BY <1>1, <2>1 DEF Becomes, At, WorkerType
<1>7. ASSUME Set(w, [At(w, label) EXCEPT !.lost = FALSE])
      PROVE  Becomes(w, {label}, r.journaled, r.file, r.object, r.index)
  <2>1. worker'[w] = [At(w, label) EXCEPT !.lost = FALSE]
    BY <1>7, <1>s
  <2> QED  BY <1>1, <2>1 DEF Becomes, At, WorkerType
<1>8. ASSUME Set(w, [[At(w, label) EXCEPT !.named = TRUE] EXCEPT !.lost = ~Holds(w)])
      PROVE  Becomes(w, {label}, r.journaled, r.file, r.object, r.index)
  <2>1. worker'[w] = [[At(w, label) EXCEPT !.named = TRUE] EXCEPT !.lost = ~Holds(w)]
    BY <1>8, <1>s
  <2> QED  BY <1>1, <2>1 DEF Becomes, At, WorkerType
<1>9. ASSUME Set(w, [At(w, label) EXCEPT !.object = "deleted"])
      PROVE  Becomes(w, {label}, r.journaled, r.file, "deleted", r.index)
  <2>1. worker'[w] = [At(w, label) EXCEPT !.object = "deleted"]
    BY <1>9, <1>s
  <2> QED  BY <1>1, <2>1 DEF Becomes, At, WorkerType
<1>10. ASSUME Set(w, [At(w, label) EXCEPT !.index = "deleted"])
      PROVE  Becomes(w, {label}, r.journaled, r.file, r.object, "deleted")
  <2>1. worker'[w] = [At(w, label) EXCEPT !.index = "deleted"]
    BY <1>10, <1>s
  <2> QED  BY <1>1, <2>1 DEF Becomes, At, WorkerType
<1>11. ASSUME Set(w, [At(w, label) EXCEPT !.index = IF r.file THEN "unknown" ELSE "deleted"])
      PROVE  Becomes(w, {label}, r.journaled, r.file, r.object, IF r.file THEN "unknown" ELSE "deleted")
  <2>1. worker'[w] = [At(w, label) EXCEPT !.index = IF r.file THEN "unknown" ELSE "deleted"]
    BY <1>11, <1>s
  <2> QED  BY <1>1, <2>1 DEF Becomes, At, WorkerType
<1>12. ASSUME Set(w, [At(w, label) EXCEPT !.object = "deleted", !.index = "deleted"])
      PROVE  Becomes(w, {label}, r.journaled, r.file, "deleted", "deleted")
  <2>1. worker'[w] = [At(w, label) EXCEPT !.object = "deleted", !.index = "deleted"]
    BY <1>12, <1>s
  <2> QED  BY <1>1, <2>1 DEF Becomes, At, WorkerType
<1>13. ASSUME Set(w, [At(w, label) EXCEPT !.object = "unknown", !.index = "unknown", !.lost = FALSE])
      PROVE  Becomes(w, {label}, r.journaled, r.file, "unknown", "unknown")
  <2>1. worker'[w] = [At(w, label) EXCEPT !.object = "unknown", !.index = "unknown", !.lost = FALSE]
    BY <1>13, <1>s
  <2> QED  BY <1>1, <2>1 DEF Becomes, At, WorkerType
<1> QED  BY <1>2, <1>3, <1>4, <1>5, <1>6, <1>7, <1>8, <1>9, <1>10, <1>11, <1>12, <1>13

UndoLabels == {"undo_object", "undo_index", "undo_persist", "failed"}
CompLabels == {"comp_persist", "failed"}
Quiet == UNCHANGED << item, won, unsure >>

\* Where an error and a compensation lead.
LEMMA NextLabels ==
  ASSUME NEW w \in Workers
  PROVE  /\ AfterError(w) \in UndoLabels /\ AfterComp(w) \in CompLabels
         /\ UndoLabels \subseteq Labels /\ CompLabels \subseteq Labels
  BY DEF AfterError, AfterComp, UndoLabels, CompLabels, Labels

\* What an error of a statement of save() does.
LEMMA ThrowsEffect ==
  ASSUME TypeOK, NEW w \in Workers, Throws(w)
  PROVE  Becomes(w, UndoLabels, worker[w].journaled, worker[w].file, worker[w].object,
                 IF worker[w].file THEN "unknown" ELSE "deleted")
<1>1. Becomes(w, {AfterError(w)}, worker[w].journaled, worker[w].file, worker[w].object,
              IF worker[w].file THEN "unknown" ELSE "deleted")
  BY NextLabels, Updates DEF Throws
<1> QED  BY <1>1, NextLabels DEF Becomes

\* What beginTelegramWriteReconciliation does.
LEMMA BeginEffect ==
  ASSUME TypeOK, NEW w \in Workers, Begin(w)
  PROVE  /\ worker[w].pc = "begin" /\ UNCHANGED << object, files >> /\ Quiet
         /\ \/ /\ Becomes(w, {"save"}, TRUE, worker[w].file, worker[w].object, worker[w].index)
               /\ Holds(w) /\ ~Unsettled
               /\ journal' = [journal EXCEPT ![Write(w)] = [NoRow EXCEPT !.status = "pending"]]
            \/ (Moves(w, {"save"}) \/ Moves(w, {"failed"})) /\ UNCHANGED journal
  BY Updates, LabelTypes DEF Begin, Goto, Moves, Quiet, outside, history

\* What storing the object does.
LEMMA SaveFileEffect ==
  ASSUME TypeOK, NEW w \in Workers, SaveFile(w)
  PROVE  /\ worker[w].pc = "save" /\ UNCHANGED << journal, files >> /\ Quiet
         /\ \/ /\ Moves(w, {"mark_object", "insert"})
               /\ object' = object \cup {Write(w)}
            \/ /\ Becomes(w, UndoLabels, worker[w].journaled, worker[w].file, worker[w].object, "deleted")
               /\ object' \in {object, object \cup {Write(w)}}
<1>1. \A label \in {"mark_object", "insert"} :
         Set(w, [At(w, label) EXCEPT !.path = TRUE]) => Moves(w, {"mark_object", "insert"})
  BY Updates, LabelTypes DEF Moves, Becomes
<1>2. Set(w, [At(w, AfterError(w)) EXCEPT !.index = "deleted"])
        => Becomes(w, UndoLabels, worker[w].journaled, worker[w].file, worker[w].object, "deleted")
  BY Updates, NextLabels DEF Becomes
<1> QED  BY <1>1, <1>2 DEF SaveFile, Quiet, history

\* What the two marks of the journal do.
LEMMA MarkEffect ==
  ASSUME TypeOK, NEW w \in Workers
  PROVE  /\ MarkObject(w) =>
              /\ worker[w].pc = "mark_object" /\ UNCHANGED << object, files >> /\ Quiet
              /\ \/ /\ Moves(w, {"insert"}) /\ Pending(Write(w))
                    /\ journal' = [journal EXCEPT ![Write(w)].path = TRUE, ![Write(w)].object = "present"]
                 \/ Throws(w) /\ UNCHANGED journal
         /\ MarkIndex(w) =>
              /\ worker[w].pc = "mark_index" /\ UNCHANGED << object, files >> /\ Quiet
              /\ \/ /\ Moves(w, {"validate"}) /\ Pending(Write(w))
                    /\ journal' = [journal EXCEPT ![Write(w)].file = TRUE, ![Write(w)].index = "present"]
                 \/ Throws(w) /\ UNCHANGED journal
<1>1. \A label \in Labels : Goto(w, label) => Moves(w, {label})
  BY Updates DEF Goto, Moves
<1> QED  BY <1>1, LabelTypes DEF MarkObject, MarkIndex, Quiet, outside, history

\* What inserting the row of files does.
LEMMA InsertFileEffect ==
  ASSUME TypeOK, NEW w \in Workers, InsertFile(w)
  PROVE  /\ worker[w].pc = "insert" /\ UNCHANGED << item, won, journal, object >>
         /\ \/ /\ Becomes(w, {"mark_index", "validate"}, worker[w].journaled, TRUE,
                          worker[w].object, worker[w].index)
               /\ files' = files \cup {Write(w)} /\ UNCHANGED unsure
            \/ Throws(w) /\ UNCHANGED << files, unsure >>
            \/ Throws(w) /\ files' = files \cup {Write(w)} /\ unsure' = unsure \cup {Write(w)}
<1>1. \A label \in {"mark_index", "validate"} :
         Set(w, [At(w, label) EXCEPT !.file = TRUE])
           => Becomes(w, {"mark_index", "validate"}, worker[w].journaled, TRUE, worker[w].object, worker[w].index)
  BY Updates, LabelTypes DEF Becomes
<1> QED  BY <1>1 DEF InsertFile

\* What the catch of save() does.
LEMMA UndoEffect ==
  ASSUME TypeOK, NEW w \in Workers
  PROVE  /\ UndoObject(w) =>
              /\ worker[w].pc = "undo_object" /\ UNCHANGED << journal, files >> /\ Quiet
              /\ \/ /\ object' = object \ {Write(w)}
                    /\ Becomes(w, UndoLabels, worker[w].journaled, worker[w].file, "deleted", worker[w].index)
                 \/ Moves(w, UndoLabels) /\ object' \in {object, object \ {Write(w)}}
         /\ UndoIndex(w) =>
              /\ worker[w].pc = "undo_index" /\ UNCHANGED << journal, object >> /\ Quiet
              /\ \/ /\ files' = files \ {Write(w)}
                    /\ Becomes(w, UndoLabels, worker[w].journaled, worker[w].file, worker[w].object, "deleted")
                 \/ Moves(w, UndoLabels) /\ files' = files
         /\ UndoPersist(w) =>
              /\ worker[w].pc = "undo_persist" /\ UNCHANGED << object, files >> /\ Quiet
              /\ Moves(w, {"failed"})
              /\ \/ /\ Pending(Write(w))
                    /\ journal' = Evidence(Write(w), worker[w].object, worker[w].index)
                 \/ UNCHANGED journal
<1>l. {"undo_index", "undo_persist", "failed"} \subseteq UndoLabels
  BY DEF UndoLabels
<1>1. \A label \in UndoLabels : Goto(w, label) => Moves(w, UndoLabels)
  BY Updates, NextLabels DEF Goto, Moves, Becomes
<1>2. \A label \in UndoLabels :
        /\ Set(w, [At(w, label) EXCEPT !.object = "deleted"])
             => Becomes(w, UndoLabels, worker[w].journaled, worker[w].file, "deleted", worker[w].index)
        /\ Set(w, [At(w, label) EXCEPT !.index = "deleted"])
             => Becomes(w, UndoLabels, worker[w].journaled, worker[w].file, worker[w].object, "deleted")
  BY Updates, NextLabels DEF Becomes
<1>3. Goto(w, "failed") => Moves(w, {"failed"})
  BY Updates, LabelTypes DEF Goto, Moves
<1> QED  BY <1>l, <1>1, <1>2, <1>3 DEF UndoObject, UndoIndex, UndoPersist, Quiet, outside, history

\* What compensateIndexedWriteAfterCancel does.
LEMMA CompEffect ==
  ASSUME TypeOK, NEW w \in Workers
  PROVE  /\ CompObject(w) =>
              /\ worker[w].pc = "comp_object" /\ UNCHANGED << journal, files >> /\ Quiet
              /\ \/ Moves(w, {"comp_index"}) /\ object' = object \ {Write(w)}
                 \/ /\ Becomes(w, CompLabels, worker[w].journaled, worker[w].file, "unknown", "unknown")
                    /\ object' \in {object, object \ {Write(w)}}
         /\ CompIndex(w) =>
              /\ worker[w].pc = "comp_index" /\ UNCHANGED << journal, object >> /\ Quiet
              /\ \/ /\ Becomes(w, CompLabels, worker[w].journaled, worker[w].file, "deleted", "deleted")
                    /\ files' = files \ {Write(w)}
                 \/ /\ Becomes(w, CompLabels, worker[w].journaled, worker[w].file, "unknown", "unknown")
                    /\ files' = files
         /\ CompPersist(w) =>
              /\ worker[w].pc = "comp_persist" /\ UNCHANGED << object, files >> /\ Quiet
              /\ Moves(w, {"failed"})
              /\ \/ /\ Pending(Write(w))
                    /\ journal' = Evidence(Write(w), worker[w].object, worker[w].index)
                 \/ UNCHANGED journal
<1>1. Goto(w, "comp_index") => Moves(w, {"comp_index"})
  BY Updates, LabelTypes DEF Goto, Moves
<1>2. \A label \in CompLabels :
        /\ Set(w, [At(w, label) EXCEPT !.object = "deleted", !.index = "deleted"])
             => Becomes(w, CompLabels, worker[w].journaled, worker[w].file, "deleted", "deleted")
        /\ Set(w, [At(w, label) EXCEPT !.object = "unknown", !.index = "unknown", !.lost = FALSE])
             => Becomes(w, CompLabels, worker[w].journaled, worker[w].file, "unknown", "unknown")
  BY Updates, NextLabels DEF Becomes
<1>3. /\ Goto(w, "failed") => Moves(w, {"failed"})
      /\ Set(w, [At(w, "failed") EXCEPT !.lost = FALSE]) => Moves(w, {"failed"})
  BY Updates, LabelTypes DEF Goto, Moves
<1> QED  BY <1>1, <1>2, <1>3, NextLabels DEF CompObject, CompIndex, CompPersist, Quiet, outside, history

\* What the claim of the item and the validation of the write do.
LEMMA ClaimEffect ==
  ASSUME TypeOK, NEW w \in Workers
  PROVE  /\ Claim(w) =>
              /\ worker[w].pc = "idle" /\ Moves(w, {"begin"})
              /\ item.st = "pending" /\ item'.st = "downloading"
              /\ UNCHANGED << journal, object, files, won, unsure >>
         /\ Validate(w) =>
              /\ worker[w].pc = "validate" /\ Moves(w, {"settle", "comp_object"})
              /\ UNCHANGED << journal, object, files >> /\ Quiet
<1>1. /\ Goto(w, "begin") => Moves(w, {"begin"})
      /\ \A label \in {"settle", "comp_object"} : Goto(w, label) => Moves(w, {"settle", "comp_object"})
  BY Updates, LabelTypes DEF Goto, Moves, Becomes
<1> QED  BY <1>1 DEF Claim, Validate, Quiet, outside, history

\* What the settlement does.
LEMMA SettleEffect ==
  ASSUME TypeOK, NEW w \in Workers, Settle(w)
  PROVE  /\ worker[w].pc = "settle" /\ UNCHANGED << object, files >>
         /\ \/ /\ Holds(w) /\ Accepted(w) /\ Settled(w)
               /\ \/ Moves(w, {"over"}) /\ UNCHANGED unsure
                  \/ Moves(w, {"comp_object"}) /\ unsure' = unsure \cup {Write(w)}
            \/ Moves(w, {"comp_object"}) /\ Quiet /\ UNCHANGED journal
<1>1. /\ Set(w, At(w, "over")) => Moves(w, {"over"})
      /\ Set(w, [At(w, "comp_object") EXCEPT !.named = TRUE]) => Moves(w, {"comp_object"})
      /\ Set(w, [[At(w, "comp_object") EXCEPT !.named = TRUE] EXCEPT !.lost = ~Holds(w)])
           => Moves(w, {"comp_object"})
  BY Updates, LabelTypes DEF Moves
<1> QED  BY <1>1 DEF Settle, AfterSettled, Quiet, outside

\* What the end of a try does.
LEMMA TryEndsEffect ==
  ASSUME TypeOK, NEW w \in Workers, TryEnds(w)
  PROVE  /\ worker[w].pc = "failed"
         /\ UNCHANGED << journal, object, files, won, unsure >>
         /\ \/ /\ worker[w].try = 1 /\ worker'[w].try = 2 /\ worker'[w].pc = "begin"
               /\ worker'[w].journaled = FALSE /\ worker'[w].object = "unknown"
               /\ worker'[w].index = "unknown" /\ UNCHANGED item
            \/ /\ Moves(w, {"over"})
               /\ \/ UNCHANGED item
                  \/ item.st = "downloading" /\ item'.st \in {"failed", "pending"}
<1>1. Goto(w, "over") => Moves(w, {"over"})
  BY Updates, LabelTypes DEF Goto, Moves
<1>2. Set(w, [Worker("begin") EXCEPT !.try = 2, !.named = worker[w].named])
        => /\ worker'[w].try = 2 /\ worker'[w].pc = "begin" /\ worker'[w].journaled = FALSE
           /\ worker'[w].object = "unknown" /\ worker'[w].index = "unknown"
  BY DEF Set, TypeOK, Worker
<1> QED  BY <1>1, <1>2 DEF TryEnds, Holds, outside, history

-----------------------------------------------------------------------------
(* Steps only go forward                                                    *)

\* In this step no write goes back, an effect appears only when its worker passes
\* the statement that makes it, and doubts stay.
Advance ==
    /\ \A x \in Writes :
         /\ Yet(x, BeforeRow)' => Yet(x, BeforeRow)
         /\ Yet(x, BeforeObject)' => Yet(x, BeforeObject)
         /\ Yet(x, BeforeFile)' => Yet(x, BeforeFile)
         /\ Done(x) => Done(x)'
         /\ x \in object' => x \in object \/ (Yet(x, BeforeObject) /\ ~Yet(x, BeforeObject)')
         /\ x \in files' => x \in files \/ (Yet(x, BeforeFile) /\ ~Yet(x, BeforeFile)')
    /\ unsure \subseteq unsure' /\ overlapped \subseteq overlapped'

\* What is gone stays gone, and evidence stays true.
LEMMA GoneStays ==
  ASSUME Advance, NEW x \in Writes
  PROVE  /\ ObjectGone(x) => ObjectGone(x)'
         /\ FileGone(x) => FileGone(x)'
  BY DEF Advance, ObjectGone, FileGone

\* Evidence that is true stays true.
LEMMA EvidenceStays ==
  ASSUME Advance, NEW x \in Writes, NEW row, Evident(x, row)
  PROVE  Evident(x, row)'
  BY GoneStays DEF Advance, Evident

\* A step of a worker concerns its present write.
Frame(w) ==
    /\ \A v \in Workers \ {w} : worker'[v] = worker[v]
    /\ \A x \in Writes \ {Write(w)} :
         /\ journal'[x] = journal[x]
         /\ (x \in object' <=> x \in object) /\ (x \in files' <=> x \in files)
    /\ UNCHANGED << sweep, overlapped >> /\ unsure \subseteq unsure' /\ unsure' \subseteq unsure \cup {Write(w)}
    /\ won' = won \/ won' = Write(w)

\* The row that ends a compensation, and the other rows.
LEMMA EvidenceRow ==
  ASSUME TypeOK, NEW x \in Writes, NEW o \in Effects, NEW i \in Effects
  PROVE  /\ \A y \in Writes \ {x} : Evidence(x, o, i)[y] = journal[y]
         /\ LET row == Evidence(x, o, i)[x] IN
            /\ row.object = o /\ row.index = i
            /\ row.path = journal[x].path /\ row.file = journal[x].file
            /\ row.status = IF o = "deleted" /\ i = "deleted" THEN "resolved" ELSE "pending"
<1>1. journal \in [Writes -> RowType] /\ journal[x] \in RowType
  BY DEF TypeOK
<1>2. \A y \in Writes \ {x} : Evidence(x, o, i)[y] = journal[y]
  BY <1>1 DEF Evidence
<1>3. Evidence(x, o, i)[x] = [journal[x] EXCEPT !.object = o, !.index = i, !.lease = "free",
            !.status = IF Compensated(o, i) THEN "resolved" ELSE "pending",
            !.resolution = IF Compensated(o, i) THEN "compensated" ELSE journal[x].resolution]
  BY <1>1 DEF Evidence
<1> QED  BY <1>1, <1>2, <1>3 DEF RowType, Compensated

\* Every step of a worker concerns its present write.
LEMMA WorkerFrame ==
  ASSUME TypeOK, NEW w \in Workers, Claim(w) \/ WorkerStep(w)
  PROVE  Frame(w)
<1>a. \A v \in Workers \ {w} : worker'[v] = worker[v]
  <2>1. PICK new \in WorkerType : Set(w, new)
    BY WorkerTypes
  <2> QED  BY <2>1, SetTypes
<1>b. UNCHANGED << sweep, overlapped >>
  BY DEF Claim, WorkerStep, Begin, SaveFile, MarkObject, InsertFile, MarkIndex, UndoObject, UndoIndex,
         UndoPersist, Validate, Settle, CompObject, CompIndex, CompPersist, TryEnds, history
<1>c. journal \in [Writes -> RowType] /\ Write(w) \in Writes
      /\ worker[w].object \in Effects /\ worker[w].index \in Effects
  BY WriteTypes DEF TypeOK, WorkerType
<1>d. \A x \in Writes \ {Write(w)} : Evidence(Write(w), worker[w].object, worker[w].index)[x] = journal[x]
  BY <1>c, EvidenceRow
<1>1. CASE Claim(w) \/ Validate(w) \/ TryEnds(w)
  BY <1>1, <1>a, <1>b, ClaimEffect, TryEndsEffect DEF Frame, Quiet
<1>2. CASE Begin(w)
  BY <1>2, <1>a, <1>b, <1>c, BeginEffect DEF Frame, Quiet
<1>3. CASE SaveFile(w) \/ InsertFile(w)
  BY <1>3, <1>a, <1>b, SaveFileEffect, InsertFileEffect DEF Frame, Quiet
<1>4. CASE MarkObject(w) \/ MarkIndex(w)
  BY <1>4, <1>a, <1>b, <1>c, MarkEffect DEF Frame, Quiet
<1>5. CASE UndoObject(w) \/ UndoIndex(w) \/ UndoPersist(w)
  BY <1>5, <1>a, <1>b, <1>d, UndoEffect DEF Frame, Quiet
<1>6. CASE CompObject(w) \/ CompIndex(w) \/ CompPersist(w)
  BY <1>6, <1>a, <1>b, <1>d, CompEffect DEF Frame, Quiet
<1>7. CASE Settle(w)
  BY <1>7, <1>a, <1>b, <1>c, SettleEffect DEF Frame, Quiet, Settled
<1> QED  BY <1>1, <1>2, <1>3, <1>4, <1>5, <1>6, <1>7 DEF WorkerStep

\* Where a worker goes from a label, and what that adds.
Onward(w) ==
    /\ worker[w].pc # "over"
    /\ \/ /\ worker'[w].try = worker[w].try
          /\ \/ worker'[w].pc \notin BeforeFile
             \/ worker[w].pc \in {"idle", "begin"} /\ worker'[w].pc \in {"begin", "save", "failed"}
             \/ worker[w].pc = "save" /\ worker'[w].pc \in {"mark_object", "insert"}
             \/ worker[w].pc = "mark_object" /\ worker'[w].pc = "insert"
       \/ worker[w].try = 1 /\ worker'[w].try = 2
    /\ Write(w) \in object' =>
         Write(w) \in object \/ (worker[w].pc = "save" /\ worker'[w].try = worker[w].try
                                 /\ worker'[w].pc \notin BeforeObject)
    /\ Write(w) \in files' =>
         Write(w) \in files \/ (worker[w].pc = "insert" /\ worker'[w].try = worker[w].try
                                /\ worker'[w].pc \notin BeforeFile)

\* The labels at which the object, or the row of files, may be stored already.
LEMMA LabelOrder ==
  /\ \A l \in UndoLabels \cup CompLabels \cup {"over", "comp_object", "comp_index", "settle", "validate", "mark_index", "failed"} :
        l \notin BeforeFile /\ l \notin BeforeObject
  /\ \A l \in {"mark_object", "insert"} : l \notin BeforeObject
  BY DEF UndoLabels, CompLabels, BeforeFile, BeforeObject, BeforeRow

\* Every step of a worker goes onward.
LEMMA WorkerOnward ==
  ASSUME TypeOK, NEW w \in Workers, Claim(w) \/ WorkerStep(w)
  PROVE  Onward(w)
<1>t. Throws(w) => /\ worker'[w].pc \notin BeforeFile /\ worker'[w].try = worker[w].try
  BY ThrowsEffect, LabelOrder DEF Becomes
<1>1. CASE Claim(w) \/ Validate(w) \/ TryEnds(w)
  BY <1>1, ClaimEffect, TryEndsEffect, LabelOrder DEF Onward, Moves, Becomes
<1>2. CASE Begin(w)
  BY <1>2, BeginEffect, LabelOrder DEF Onward, Moves, Becomes
<1>3. CASE SaveFile(w)
  BY <1>3, SaveFileEffect, LabelOrder DEF Onward, Moves, Becomes
<1>4. CASE InsertFile(w)
  BY <1>4, <1>t, InsertFileEffect, LabelOrder DEF Onward, Moves, Becomes
<1>5. CASE MarkObject(w) \/ MarkIndex(w)
  BY <1>5, <1>t, MarkEffect, LabelOrder DEF Onward, Moves, Becomes
<1>6. CASE UndoObject(w) \/ UndoIndex(w) \/ UndoPersist(w)
  BY <1>6, UndoEffect, LabelOrder DEF Onward, Moves, Becomes
<1>7. CASE CompObject(w) \/ CompIndex(w) \/ CompPersist(w)
  BY <1>7, CompEffect, LabelOrder DEF Onward, Moves, Becomes
<1>8. CASE Settle(w)
  BY <1>8, SettleEffect, LabelOrder DEF Onward, Moves, Becomes
<1> QED  BY <1>1, <1>2, <1>3, <1>4, <1>5, <1>6, <1>7, <1>8 DEF WorkerStep

\* A step of a worker that goes onward advances.
LEMMA WorkerAdvances ==
  ASSUME TypeOK, TypeOK', NEW w \in Workers, Frame(w), Onward(w)
  PROVE  Advance
<1>1. /\ worker[w].try \in {1, 2} /\ worker'[w].try \in {1, 2}
  BY DEF TypeOK, WorkerType
<1>2. unsure \subseteq unsure' /\ overlapped \subseteq overlapped'
  BY DEF Frame
<1>3. ASSUME NEW x \in Writes
      PROVE  /\ Yet(x, BeforeRow)' => Yet(x, BeforeRow)
             /\ Yet(x, BeforeObject)' => Yet(x, BeforeObject)
             /\ Yet(x, BeforeFile)' => Yet(x, BeforeFile)
             /\ Done(x) => Done(x)'
  <2>1. x[1] \in Workers /\ x[2] \in {1, 2}
    BY DEF Writes
  <2>2. CASE x[1] # w
    BY <2>1, <2>2 DEF Frame, Yet, Done
  <2>3. CASE x[1] = w
    BY <1>1, <2>1, <2>3 DEF Onward, Yet, Done, BeforeRow, BeforeObject, BeforeFile
  <2> QED  BY <2>2, <2>3
<1>4. ASSUME NEW x \in Writes
      PROVE  /\ x \in object' => x \in object \/ (Yet(x, BeforeObject) /\ ~Yet(x, BeforeObject)')
             /\ x \in files' => x \in files \/ (Yet(x, BeforeFile) /\ ~Yet(x, BeforeFile)')
  <2>1. CASE x # Write(w)
    BY <2>1 DEF Frame
  <2>2. CASE x = Write(w)
    <3>1. x[1] = w /\ x[2] = worker[w].try
      BY <2>2 DEF Write
    <3> QED  BY <1>1, <2>2, <3>1 DEF Onward, Yet, BeforeRow, BeforeObject, BeforeFile
  <2> QED  BY <2>1, <2>2
<1> QED  BY <1>2, <1>3, <1>4 DEF Advance

-----------------------------------------------------------------------------
(* What the parts of the invariant keep under any step that advances        *)

\* In this step no row is opened or won; one may be resolved as cleared.
RowsKeptOrCleared ==
    /\ won' = won /\ (item'.st = "success" <=> item.st = "success")
    /\ \A x \in Writes :
         \/ /\ journal'[x].status = journal[x].status
            /\ journal[x].status = "resolved"
                 => journal'[x].object = journal[x].object /\ journal'[x].index = journal[x].index
         \/ /\ Pending(x) /\ journal'[x].status = "resolved"
            /\ journal'[x].object = "deleted" /\ journal'[x].index = "deleted"

\* The item and the statuses of the journal stay consistent in such a step.
LEMMA StatusesKept ==
  ASSUME WritesInv, Advance, RowsKeptOrCleared
  PROVE  WonIsFinal' /\ ResolvedHasReason' /\ OnePending'
<1>t. won \in Writes \cup {None}
  BY DEF WritesInv, TypeOK
<1>1. WonIsFinal'
  <2>1. ASSUME won # None
        PROVE  ~Pending(won)' /\ (Done(won) \/ won \in unsure)'
    <3>1. won \in Writes /\ ~Pending(won) /\ (Done(won) \/ won \in unsure)
      BY <1>t, <2>1 DEF WritesInv, WonIsFinal
    <3>2. Done(won) => \/ won[2] < worker'[won[1]].try
                       \/ worker'[won[1]].try = won[2] /\ worker'[won[1]].pc = "over"
      BY <3>1 DEF Advance, Done
    <3>3. journal'[won].status # "pending" /\ won' = won
      BY <3>1 DEF RowsKeptOrCleared, Pending
    <3>4. won \in unsure => won \in unsure'
      BY DEF Advance
    <3> QED  BY <3>1, <3>2, <3>3, <3>4 DEF Pending, Done
  <2>2. won' = won /\ (won # None <=> item'.st = "success")
    BY DEF WritesInv, WonIsFinal, RowsKeptOrCleared
  <2> QED  BY <2>1, <2>2 DEF WonIsFinal
<1>2. ResolvedHasReason'
  BY DEF WritesInv, ResolvedHasReason, RowsKeptOrCleared, Cleared, Pending
<1>3. OnePending'
  BY DEF WritesInv, OnePending, RowsKeptOrCleared, Cleared, Pending
<1> QED  BY <1>1, <1>2, <1>3

\* A step of a worker keeps the invariant if it does so for its own write.
LEMMA WorkerKeeps ==
  ASSUME WritesInv, TypeOK', NEW w \in Workers, Frame(w), Onward(w),
         worker'[w].pc \in BeforeRow /\ worker'[w].try = worker[w].try
           => journal'[Write(w)].status = "none",
         \A x \in Writes : x = Write(w) => Evident(x, journal[x])',
         WorkerKnows(w)',
         won' # won => Write(w) = won' /\ worker[w].pc = "settle",
         WonIsFinal', ResolvedHasReason', OnePending', SuccessIsIntact'
  PROVE  WritesInv'
<1>a. Advance
  BY WorkerAdvances DEF WritesInv
<1>t. /\ Write(w) \in Writes /\ \A v \in Workers : Write(v) \in Writes
      /\ worker[w].try \in {1, 2}
  BY WriteTypes DEF WritesInv, WorkerType
<1>1. NothingEarly'
  <2>1. ASSUME NEW x \in Writes, Yet(x, BeforeRow)'
        PROVE  journal'[x].status = "none"
    <3>1. CASE x # Write(w)
      BY <1>a, <2>1, <3>1 DEF WritesInv, NothingEarly, Advance, Frame
    <3>2. CASE x = Write(w)
      BY <2>1, <3>2, <1>t DEF Yet, Write, Onward
    <3> QED  BY <3>1, <3>2
  <2>2. ASSUME NEW x \in Writes
        PROVE  (Yet(x, BeforeObject)' => x \notin object') /\ (Yet(x, BeforeFile)' => x \notin files')
    BY <1>a DEF WritesInv, NothingEarly, Advance
  <2> QED  BY <2>1, <2>2 DEF NothingEarly
<1>2. JournalIsTrue'
  <2>1. ASSUME NEW x \in Writes, x # Write(w)
        PROVE  Evident(x, journal[x])'
    BY <1>a, <2>1, EvidenceStays DEF WritesInv, JournalIsTrue, Frame, Evident
  <2> QED  BY <2>1 DEF JournalIsTrue
<1>3. WorkersKnow'
  <2>1. ASSUME NEW v \in Workers, v # w
        PROVE  WorkerKnows(v)'
    <3>1. WorkerKnows(v)
      BY DEF WritesInv, WorkersKnow
    <3>2. worker'[v] = worker[v] /\ Write(v)' = Write(v) /\ Write(v) # Write(w)
      BY <2>1 DEF Frame, Write
    <3>3. PICK x \in Writes : x = Write(v)
      BY <1>t
    <3>4. /\ journal'[x] = journal[x] /\ (x \in object' <=> x \in object)
          /\ (x \in files' <=> x \in files) /\ overlapped' = overlapped
      BY <3>2, <3>3 DEF Frame
    <3>5. (ObjectGone(x) => ObjectGone(x)') /\ (FileGone(x) => FileGone(x)')
      BY <1>a, GoneStays
    <3> QED  BY <3>1, <3>2, <3>3, <3>4, <3>5 DEF WorkerKnows, ObjectGone, FileGone
  <2> QED  BY <2>1 DEF WorkersKnow
<1>4. SweepKnows'
  <2>1. UNCHANGED << sweep, overlapped >>
    BY DEF Frame
  <2>2. ASSUME NEW x \in Writes
        PROVE  /\ Evident(x, sweep.snap[x])'
               /\ Target(x)' => x \in overlapped' \/ (Done(x)' /\ x # won')
               /\ x = sweep'.at /\ sweep'.object = "deleted" => ObjectGone(x)'
               /\ x = sweep'.at /\ sweep'.index = "deleted" => FileGone(x)'
    <3>1. Evident(x, sweep.snap[x])'
      BY <1>a, <2>1, EvidenceStays DEF WritesInv, SweepKnows, Evident
    <3>2. Done(x) => Done(x)'
      BY <1>a DEF Advance
    <3>3. Done(x) /\ x # won => x # won'
      BY <1>t DEF Done, Write
    <3>4. (ObjectGone(x) => ObjectGone(x)') /\ (FileGone(x) => FileGone(x)')
      BY <1>a, GoneStays
    <3> QED  BY <2>1, <3>1, <3>2, <3>3, <3>4 DEF WritesInv, SweepKnows, Target
  <2> QED  BY <2>1, <2>2 DEF WritesInv, SweepKnows
<1> QED  BY <1>1, <1>2, <1>3, <1>4 DEF WritesInv

\* The file of a settled item is safe from its own worker.
LEMMA IntactFromWorker ==
  ASSUME WritesInv, NEW w \in Workers, Frame(w), Onward(w), won' = won
  PROVE  SuccessIsIntact'
<1>1. CASE won = None
  BY <1>1 DEF SuccessIsIntact
<1>2. CASE won # None /\ won # Write(w)
  <2>1. won \in Writes
    BY <1>2 DEF WritesInv, TypeOK
  <2> QED  BY <1>2, <2>1 DEF WritesInv, SuccessIsIntact, Frame
<1>3. CASE won # None /\ won = Write(w)
  <2>1. ~Done(won)
    <3>1. worker[w].try \in {1, 2}
      BY DEF WritesInv, TypeOK, WorkerType
    <3> QED  BY <1>3, <3>1 DEF Done, Write, Onward
  <2>2. won \in unsure
    BY <1>3, <2>1 DEF WritesInv, WonIsFinal
  <2> QED  BY <2>2 DEF SuccessIsIntact, Frame
<1> QED  BY <1>1, <1>2, <1>3

\* What a worker knows after a step within its try.
LEMMA KnowsAfter ==
  ASSUME WritesInv, Advance, NEW w \in Workers, NEW x \in Writes, x = Write(w),
         worker'[w].try = worker[w].try,
         worker'[w].journaled <=> journal'[x].status # "none",
         worker'[w].object = "deleted" => worker[w].object = "deleted" \/ ObjectGone(x)',
         worker'[w].index = "deleted" => worker[w].index = "deleted" \/ FileGone(x)',
         worker'[w].pc = "comp_index" => x \notin object',
         worker'[w].pc = "mark_index" => worker'[w].file,
         worker'[w].pc \in {"mark_object", "insert", "mark_index", "validate", "settle"}
           => x \in object' \cup overlapped',
         worker'[w].pc \in {"mark_index", "validate", "settle"} => x \in files' \cup overlapped'
  PROVE  WorkerKnows(w)'
<1>1. Write(w)' = x
  BY DEF Write
<1>2. WorkerKnows(w)
  BY DEF WritesInv, WorkersKnow
<1>3. (ObjectGone(x) => ObjectGone(x)') /\ (FileGone(x) => FileGone(x)')
  BY GoneStays
<1>4. (worker'[w].object = "deleted" => ObjectGone(x)') /\ (worker'[w].index = "deleted" => FileGone(x)')
  BY <1>2, <1>3 DEF WorkerKnows
<1> QED  BY <1>1, <1>4 DEF WorkerKnows, ObjectGone, FileGone

\* A step that writes no row of the journal.
LEMMA SameJournalKeeps ==
  ASSUME WritesInv, TypeOK', NEW w \in Workers, Claim(w) \/ WorkerStep(w),
         UNCHANGED << journal, won >>, item'.st = "success" <=> item.st = "success",
         WorkerKnows(w)'
  PROVE  WritesInv'
<1>1. Frame(w) /\ Onward(w) /\ Advance
  BY WorkerFrame, WorkerOnward, WorkerAdvances DEF WritesInv
<1>2. WonIsFinal' /\ ResolvedHasReason' /\ OnePending' /\ SuccessIsIntact'
  BY <1>1, StatusesKept, IntactFromWorker DEF RowsKeptOrCleared
<1>3. PICK x \in Writes : x = Write(w)
  BY WriteTypes DEF WritesInv
<1>4. worker'[w].pc \in BeforeRow /\ worker'[w].try = worker[w].try => journal'[x].status = "none"
  BY <1>1, <1>3 DEF WritesInv, NothingEarly, Advance, Yet, Write
<1>5. Evident(x, journal[x])'
  BY <1>1, EvidenceStays DEF WritesInv, JournalIsTrue, Evident
<1> QED  BY <1>1, <1>2, <1>3, <1>4, <1>5, WorkerKeeps

\* A step that writes the pending row of its write.
LEMMA PendingRowKeeps ==
  ASSUME WritesInv, TypeOK', NEW w \in Workers, WorkerStep(w), NEW x \in Writes, x = Write(w),
         Pending(x), UNCHANGED << won, item >>, worker'[w].pc \notin BeforeRow,
         \/ journal'[x].status = "pending"
         \/ /\ journal'[x].status = "resolved"
            /\ journal'[x].object = "deleted" /\ journal'[x].index = "deleted",
         Evident(x, journal[x])',
         WorkerKnows(w)'
  PROVE  WritesInv'
<1>1. Frame(w) /\ Onward(w) /\ Advance
  BY WorkerFrame, WorkerOnward, WorkerAdvances DEF WritesInv
<1>2. RowsKeptOrCleared
  BY <1>1 DEF RowsKeptOrCleared, Frame, Pending
<1>3. WonIsFinal' /\ ResolvedHasReason' /\ OnePending' /\ SuccessIsIntact'
  BY <1>1, <1>2, StatusesKept, IntactFromWorker
<1> QED  BY <1>1, <1>3, WorkerKeeps

\* The claim of the item and the validation keep the invariant.
LEMMA KeepClaim ==
  ASSUME WritesInv, TypeOK', NEW w \in Workers, Claim(w) \/ Validate(w)
  PROVE  WritesInv'
<1>1. Advance
  BY WorkerFrame, WorkerOnward, WorkerAdvances DEF WritesInv, WorkerStep
<1>2. PICK x \in Writes : x = Write(w)
  BY WriteTypes DEF WritesInv
<1>3. WorkerKnows(w) /\ TypeOK
  BY DEF WritesInv, WorkersKnow
<1>4. WorkerKnows(w)'
  BY <1>1, <1>2, <1>3, ClaimEffect, KnowsAfter, WorkerFrame DEF Moves, Becomes, WorkerKnows, Frame, WorkerStep
<1> QED  BY <1>3, <1>4, ClaimEffect, SameJournalKeeps DEF Quiet, WorkerStep

\* Storing the object keeps the invariant, whether it fails or not.
LEMMA KeepSaveFile ==
  ASSUME WritesInv, TypeOK', NEW w \in Workers, SaveFile(w)
  PROVE  WritesInv'
<1>1. Advance /\ Frame(w)
  BY WorkerFrame, WorkerOnward, WorkerAdvances DEF WritesInv, WorkerStep
<1>2. PICK x \in Writes : x = Write(w)
  BY WriteTypes DEF WritesInv
<1>3. WorkerKnows(w) /\ TypeOK
  BY DEF WritesInv, WorkersKnow
<1>4. x \notin files
  BY <1>2, SaveFileEffect DEF WritesInv, NothingEarly, Yet, Write, BeforeFile, BeforeObject
<1>5. worker'[w].pc \in UndoLabels => ~Yet(x, BeforeFile)'
  BY <1>2, <1>3, SaveFileEffect, LabelOrder DEF Moves, Becomes, Yet, Write, TypeOK, WorkerType
<1>6. WorkerKnows(w)'
  <2>1. CASE Moves(w, {"mark_object", "insert"}) /\ object' = object \cup {Write(w)}
    BY <1>1, <1>2, <1>3, <2>1, SaveFileEffect, KnowsAfter DEF Moves, Becomes, WorkerKnows
  <2>2. CASE Becomes(w, UndoLabels, worker[w].journaled, worker[w].file, worker[w].object, "deleted")
    <3>1. FileGone(x)'
      BY <1>3, <1>4, <1>5, <2>2, SaveFileEffect DEF FileGone, Becomes
    <3> QED
      BY <1>1, <1>2, <1>3, <2>2, <3>1, SaveFileEffect, KnowsAfter DEF Becomes, WorkerKnows, UndoLabels
  <2> QED  BY <1>3, <2>1, <2>2, SaveFileEffect
<1> QED  BY <1>3, <1>6, SaveFileEffect, SameJournalKeeps DEF Quiet, WorkerStep

\* What an error of a statement of save() leaves.
LEMMA ThrowsKnows ==
  ASSUME WritesInv, TypeOK', Advance, NEW w \in Workers, NEW x \in Writes, x = Write(w), Throws(w),
         UNCHANGED journal, worker[w].pc # "idle",
         worker[w].file \/ (x \notin files' \ unsure')
  PROVE  WorkerKnows(w)'
<1>1. Becomes(w, UndoLabels, worker[w].journaled, worker[w].file, worker[w].object,
              IF worker[w].file THEN "unknown" ELSE "deleted")
  BY ThrowsEffect DEF WritesInv
<1>2. WorkerKnows(w) /\ TypeOK
  BY DEF WritesInv, WorkersKnow
<1>3. ~Yet(x, BeforeFile)'
  BY <1>1, <1>2, LabelOrder DEF Becomes, Yet, Write, TypeOK, WorkerType
<1>4. worker'[w].index = "deleted" => FileGone(x)'
  BY <1>1, <1>3 DEF Becomes, FileGone
<1>5. worker'[w].pc \in UndoLabels
  BY <1>1 DEF Becomes
<1> QED  BY <1>1, <1>2, <1>4, <1>5, KnowsAfter DEF Becomes, WorkerKnows, UndoLabels

\* The two marks of the journal keep the invariant.
LEMMA KeepMarks ==
  ASSUME WritesInv, TypeOK', NEW w \in Workers, MarkObject(w) \/ MarkIndex(w)
  PROVE  WritesInv'
<1>1. Advance /\ Frame(w)
  BY WorkerFrame, WorkerOnward, WorkerAdvances DEF WritesInv, WorkerStep
<1>2. PICK x \in Writes : x = Write(w)
  BY WriteTypes DEF WritesInv
<1>3. WorkerKnows(w) /\ TypeOK /\ journal \in [Writes -> RowType] /\ journal[x] \in RowType
      /\ worker[w] \in WorkerType
  BY DEF WritesInv, WorkersKnow, TypeOK
<1>4. CASE Throws(w) /\ UNCHANGED journal
  <2>1. worker[w].file \/ x \notin files' \ unsure'
    <3>1. CASE MarkObject(w)
      <4>1. x \notin files
        BY <1>2, <3>1, MarkEffect, <1>3 DEF WritesInv, NothingEarly, Yet, Write, BeforeFile, BeforeObject
      <4> QED  BY <3>1, <4>1, <1>3, MarkEffect
    <3>2. CASE MarkIndex(w)
      BY <3>2, <1>3, MarkEffect DEF WorkerKnows
    <3> QED  BY <3>1, <3>2
  <2>2. worker[w].pc # "idle"
    BY <1>3, MarkEffect
  <2>3. WorkerKnows(w)'
    BY <1>1, <1>2, <1>4, <2>1, <2>2, ThrowsKnows
  <2> QED  BY <1>3, <1>4, <2>3, MarkEffect, SameJournalKeeps DEF Quiet, WorkerStep
<1>5. CASE /\ MarkObject(w) /\ Moves(w, {"insert"}) /\ Pending(x)
           /\ journal' = [journal EXCEPT ![x].path = TRUE, ![x].object = "present"]
  <2>1. /\ journal'[x].status = "pending" /\ journal'[x].object = "present"
        /\ journal'[x].file = journal[x].file /\ journal'[x].index = journal[x].index
    BY <1>3, <1>5 DEF RowType, Pending
  <2>2. ~Yet(x, BeforeObject)'
    BY <1>2, <1>3, <1>5, LabelOrder DEF Moves, Becomes, Yet, Write, WorkerType
  <2>3. Evident(x, journal[x])
    BY DEF WritesInv, JournalIsTrue
  <2>4. Evident(x, journal[x])'
    BY <2>1, <2>2, <2>3, <1>1, GoneStays DEF Evident, Advance
  <2>5. WorkerKnows(w)'
    <3>1. /\ worker'[w].pc = "insert" /\ worker'[w].try = worker[w].try
          /\ worker'[w].journaled = worker[w].journaled
          /\ worker'[w].object = worker[w].object /\ worker'[w].index = worker[w].index
      BY <1>5 DEF Moves, Becomes
    <3>2. /\ x \in object \cup overlapped
          /\ worker[w].journaled <=> journal[x].status # "none"
      BY <1>2, <1>3, <1>5, MarkEffect DEF WorkerKnows
    <3>3. UNCHANGED << object, files, overlapped >>
      BY <1>1, <1>3, <1>5, MarkEffect DEF Frame
    <3>4. journal[x].status # "none" /\ journal'[x].status # "none"
      BY <1>5, <2>1 DEF Pending
    <3> QED  BY <1>1, <1>2, <3>1, <3>2, <3>3, <3>4, KnowsAfter
  <2> QED
    BY <1>2, <1>3, <1>5, <2>1, <2>4, <2>5, MarkEffect, PendingRowKeeps
       DEF Quiet, WorkerStep, Moves, Becomes, BeforeRow
<1>6. CASE /\ MarkIndex(w) /\ Moves(w, {"validate"}) /\ Pending(x)
           /\ journal' = [journal EXCEPT ![x].file = TRUE, ![x].index = "present"]
  <2>1. /\ journal'[x].status = "pending" /\ journal'[x].index = "present"
        /\ journal'[x].path = journal[x].path /\ journal'[x].object = journal[x].object
    BY <1>3, <1>6 DEF RowType, Pending
  <2>2. ~Yet(x, BeforeFile)'
    BY <1>2, <1>3, <1>6, LabelOrder DEF Moves, Becomes, Yet, Write, WorkerType
  <2>3. Evident(x, journal[x])
    BY DEF WritesInv, JournalIsTrue
  <2>4. Evident(x, journal[x])'
    BY <2>1, <2>2, <2>3, <1>1, GoneStays DEF Evident, Advance
  <2>5. WorkerKnows(w)'
    <3>1. /\ worker'[w].pc = "validate" /\ worker'[w].try = worker[w].try
          /\ worker'[w].journaled = worker[w].journaled
          /\ worker'[w].object = worker[w].object /\ worker'[w].index = worker[w].index
      BY <1>6 DEF Moves, Becomes
    <3>2. /\ x \in object \cup overlapped /\ x \in files \cup overlapped
          /\ worker[w].journaled <=> journal[x].status # "none"
      BY <1>2, <1>3, <1>6, MarkEffect DEF WorkerKnows
    <3>3. UNCHANGED << object, files, overlapped >>
      BY <1>1, <1>3, <1>6, MarkEffect DEF Frame
    <3>4. journal[x].status # "none" /\ journal'[x].status # "none"
      BY <1>6, <2>1 DEF Pending
    <3> QED  BY <1>1, <1>2, <3>1, <3>2, <3>3, <3>4, KnowsAfter
  <2> QED
    BY <1>2, <1>3, <1>6, <2>1, <2>4, <2>5, MarkEffect, PendingRowKeeps
       DEF Quiet, WorkerStep, Moves, Becomes, BeforeRow
<1> QED  BY <1>2, <1>3, <1>4, <1>5, <1>6, MarkEffect

\* Inserting the row of files keeps the invariant, whether it fails or not.
LEMMA KeepInsertFile ==
  ASSUME WritesInv, TypeOK', NEW w \in Workers, InsertFile(w)
  PROVE  WritesInv'
<1>1. Advance /\ Frame(w)
  BY WorkerFrame, WorkerOnward, WorkerAdvances DEF WritesInv, WorkerStep
<1>2. PICK x \in Writes : x = Write(w)
  BY WriteTypes DEF WritesInv
<1>3. WorkerKnows(w) /\ TypeOK /\ UNCHANGED journal
  BY InsertFileEffect DEF WritesInv, WorkersKnow
<1>4. x \notin files
  BY <1>2, <1>3, InsertFileEffect DEF WritesInv, NothingEarly, Yet, Write, BeforeFile
<1>5. WorkerKnows(w)'
  <2>1. CASE Throws(w) /\ \/ UNCHANGED << files, unsure >>
                          \/ files' = files \cup {x} /\ unsure' = unsure \cup {x}
    <3>1. x \notin files' \ unsure'
      BY <1>4, <2>1
    <3> QED  BY <1>1, <1>2, <1>3, <2>1, <3>1, InsertFileEffect, ThrowsKnows
  <2>2. CASE /\ Becomes(w, {"mark_index", "validate"}, worker[w].journaled, TRUE,
                         worker[w].object, worker[w].index)
             /\ files' = files \cup {x} /\ UNCHANGED unsure
    <3>1. /\ worker'[w].pc \in {"mark_index", "validate"} /\ worker'[w].try = worker[w].try
          /\ worker'[w].journaled = worker[w].journaled /\ worker'[w].file
          /\ worker'[w].object = worker[w].object /\ worker'[w].index = worker[w].index
      BY <2>2 DEF Becomes
    <3>2. /\ x \in object \cup overlapped /\ x \in files'
          /\ worker[w].journaled <=> journal[x].status # "none"
      BY <1>2, <1>3, <2>2, InsertFileEffect DEF WorkerKnows
    <3>3. UNCHANGED << object, overlapped >>
      BY <1>1, <1>3, InsertFileEffect DEF Frame
    <3> QED  BY <1>1, <1>2, <1>3, <3>1, <3>2, <3>3, KnowsAfter
  <2> QED  BY <1>2, <1>3, <2>1, <2>2, InsertFileEffect
<1> QED  BY <1>3, <1>5, InsertFileEffect, SameJournalKeeps DEF WorkerStep

\* The deletions in the catch of save() keep the invariant.
LEMMA KeepUndo ==
  ASSUME WritesInv, TypeOK', NEW w \in Workers, UndoObject(w) \/ UndoIndex(w)
  PROVE  WritesInv'
<1>1. Advance /\ Frame(w)
  BY WorkerFrame, WorkerOnward, WorkerAdvances DEF WritesInv, WorkerStep
<1>2. PICK x \in Writes : x = Write(w)
  BY WriteTypes DEF WritesInv
<1>3. WorkerKnows(w) /\ TypeOK /\ UNCHANGED journal /\ worker[w] \in WorkerType
  BY UndoEffect DEF WritesInv, WorkersKnow, TypeOK
<1>4. worker'[w].pc \in UndoLabels /\ worker'[w].try = worker[w].try
  BY <1>3, UndoEffect DEF Moves, Becomes
<1>5. ~Yet(x, BeforeFile)' /\ ~Yet(x, BeforeObject)'
  BY <1>2, <1>3, <1>4, LabelOrder DEF Yet, Write, WorkerType
<1>6. worker'[w].journaled = worker[w].journaled
  BY <1>3, UndoEffect DEF Moves, Becomes
<1>7. /\ worker'[w].object = "deleted" => worker[w].object = "deleted" \/ ObjectGone(x)'
      /\ worker'[w].index = "deleted" => worker[w].index = "deleted" \/ FileGone(x)'
  BY <1>2, <1>3, <1>5, UndoEffect DEF Moves, Becomes, ObjectGone, FileGone
<1>8. WorkerKnows(w)'
  BY <1>1, <1>2, <1>3, <1>4, <1>6, <1>7, KnowsAfter DEF WorkerKnows, UndoLabels
<1> QED  BY <1>3, <1>8, UndoEffect, SameJournalKeeps DEF Quiet, WorkerStep

\* The deletions after a settlement that failed keep the invariant.
LEMMA KeepComp ==
  ASSUME WritesInv, TypeOK', NEW w \in Workers, CompObject(w) \/ CompIndex(w)
  PROVE  WritesInv'
<1>1. Advance /\ Frame(w)
  BY WorkerFrame, WorkerOnward, WorkerAdvances DEF WritesInv, WorkerStep
<1>2. PICK x \in Writes : x = Write(w)
  BY WriteTypes DEF WritesInv
<1>3. WorkerKnows(w) /\ TypeOK /\ UNCHANGED journal /\ worker[w] \in WorkerType
  BY CompEffect DEF WritesInv, WorkersKnow, TypeOK
<1>4. worker'[w].pc \in CompLabels \cup {"comp_index"} /\ worker'[w].try = worker[w].try
      /\ worker'[w].journaled = worker[w].journaled
  BY <1>3, CompEffect DEF Moves, Becomes
<1>5. ~Yet(x, BeforeFile)' /\ ~Yet(x, BeforeObject)'
  BY <1>2, <1>3, <1>4, LabelOrder DEF Yet, Write, WorkerType
<1>6. CompIndex(w) => x \notin object
  BY <1>2, <1>3, CompEffect DEF WorkerKnows
<1>7. /\ worker'[w].object = "deleted" => worker[w].object = "deleted" \/ ObjectGone(x)'
      /\ worker'[w].index = "deleted" => worker[w].index = "deleted" \/ FileGone(x)'
      /\ worker'[w].pc = "comp_index" => x \notin object'
  BY <1>2, <1>3, <1>5, <1>6, CompEffect DEF Moves, Becomes, ObjectGone, FileGone, CompLabels
<1>8. WorkerKnows(w)'
  BY <1>1, <1>2, <1>3, <1>4, <1>7, KnowsAfter DEF WorkerKnows, CompLabels
<1> QED  BY <1>3, <1>8, CompEffect, SameJournalKeeps DEF Quiet, WorkerStep

\* Writing down what was compensated keeps the invariant.
LEMMA KeepPersist ==
  ASSUME WritesInv, TypeOK', NEW w \in Workers, UndoPersist(w) \/ CompPersist(w)
  PROVE  WritesInv'
<1>1. Advance /\ Frame(w)
  BY WorkerFrame, WorkerOnward, WorkerAdvances DEF WritesInv, WorkerStep
<1>2. PICK x \in Writes : x = Write(w)
  BY WriteTypes DEF WritesInv
<1>3. WorkerKnows(w) /\ TypeOK /\ Moves(w, {"failed"}) /\ UNCHANGED << object, files >> /\ Quiet
      /\ worker[w].object \in Effects /\ worker[w].index \in Effects
  BY UndoEffect, CompEffect DEF WritesInv, WorkersKnow, TypeOK, WorkerType
<1>4. CASE UNCHANGED journal
  <2>1. WorkerKnows(w)'
    BY <1>1, <1>2, <1>3, <1>4, KnowsAfter DEF Moves, Becomes, WorkerKnows
  <2> QED  BY <1>3, <1>4, <2>1, SameJournalKeeps DEF Quiet, WorkerStep
<1>5. CASE Pending(x) /\ journal' = Evidence(x, worker[w].object, worker[w].index)
  <2>1. /\ journal'[x].object = worker[w].object /\ journal'[x].index = worker[w].index
        /\ journal'[x].path = journal[x].path /\ journal'[x].file = journal[x].file
        /\ journal'[x].status = IF worker[w].object = "deleted" /\ worker[w].index = "deleted"
                                THEN "resolved" ELSE "pending"
    BY <1>3, <1>5, EvidenceRow
  <2>2. Evident(x, journal[x])
    BY DEF WritesInv, JournalIsTrue
  <2>3. Evident(x, journal[x])'
    BY <1>1, <1>2, <1>3, <2>1, <2>2, GoneStays DEF Evident, Advance, WorkerKnows
  <2>4. WorkerKnows(w)'
    BY <1>1, <1>2, <1>3, <1>5, <2>1, KnowsAfter DEF Moves, Becomes, WorkerKnows, Pending
  <2> QED
    BY <1>2, <1>3, <1>5, <2>1, <2>3, <2>4, PendingRowKeeps
       DEF Quiet, WorkerStep, Moves, Becomes, BeforeRow
<1> QED  BY <1>2, <1>3, <1>4, <1>5, UndoEffect, CompEffect

\* The end of a try keeps the invariant: nothing of the next try is there yet.
LEMMA KeepTryEnds ==
  ASSUME WritesInv, TypeOK', NEW w \in Workers, TryEnds(w)
  PROVE  WritesInv'
<1>1. Advance /\ Frame(w)
  BY WorkerFrame, WorkerOnward, WorkerAdvances DEF WritesInv, WorkerStep
<1>2. PICK x \in Writes : x = Write(w)
  BY WriteTypes DEF WritesInv
<1>3. WorkerKnows(w) /\ TypeOK
  BY DEF WritesInv, WorkersKnow
<1>4. WorkerKnows(w)'
  <2>1. CASE Moves(w, {"over"})
    BY <1>1, <1>2, <1>3, <2>1, TryEndsEffect, KnowsAfter DEF Moves, Becomes, WorkerKnows
  <2>2. CASE worker[w].try = 1 /\ worker'[w].try = 2 /\ worker'[w].pc = "begin" /\ worker'[w].journaled = FALSE
             /\ worker'[w].object = "unknown" /\ worker'[w].index = "unknown"
    <3>1. Write(w)' = << w, 2 >> /\ << w, 2 >> \in Writes
      BY <2>2 DEF Write, Writes
    <3>2. journal[<< w, 2 >>].status = "none"
      <4>1. Yet(<< w, 2 >>, BeforeRow)
        BY <2>2 DEF Yet
      <4> QED  BY <3>1, <4>1 DEF WritesInv, NothingEarly
    <3>3. journal'[<< w, 2 >>].status = "none"
      BY <3>2, <1>3, TryEndsEffect
    <3> QED  BY <2>2, <3>1, <3>3 DEF WorkerKnows
  <2> QED  BY <1>3, <2>1, <2>2, TryEndsEffect
<1>5. item'.st = "success" <=> item.st = "success"
  BY <1>3, TryEndsEffect
<1> QED  BY <1>3, <1>4, <1>5, TryEndsEffect, SameJournalKeeps DEF WorkerStep

\* A row is opened only when every other one was cleared.
LEMMA KeepBegin ==
  ASSUME WritesInv, TypeOK', NEW w \in Workers, Begin(w)
  PROVE  WritesInv'
<1>1. Advance /\ Frame(w) /\ Onward(w)
  BY WorkerFrame, WorkerOnward, WorkerAdvances DEF WritesInv, WorkerStep
<1>2. PICK x \in Writes : x = Write(w)
  BY WriteTypes DEF WritesInv
<1>3. WorkerKnows(w) /\ TypeOK /\ journal \in [Writes -> RowType] /\ UNCHANGED << object, files >> /\ Quiet
  BY BeginEffect DEF WritesInv, WorkersKnow, TypeOK
<1>4. CASE UNCHANGED journal /\ Moves(w, {"save", "failed"})
  <2>1. WorkerKnows(w)'
    BY <1>1, <1>2, <1>3, <1>4, KnowsAfter DEF Moves, Becomes, WorkerKnows
  <2> QED  BY <1>3, <1>4, <2>1, SameJournalKeeps DEF Quiet, WorkerStep
<1>5. CASE /\ Becomes(w, {"save"}, TRUE, worker[w].file, worker[w].object, worker[w].index)
           /\ Holds(w) /\ ~Unsettled
           /\ journal' = [journal EXCEPT ![x] = [NoRow EXCEPT !.status = "pending"]]
  <2>1. /\ journal'[x].status = "pending" /\ journal'[x].object = "unknown" /\ journal'[x].index = "unknown"
        /\ journal'[x].path = FALSE /\ journal'[x].file = FALSE
    BY <1>3, <1>5 DEF NoRow
  <2>2. Evident(x, journal[x])'
    BY <2>1 DEF Evident
  <2>3. WorkerKnows(w)'
    BY <1>1, <1>2, <1>3, <1>5, <2>1, KnowsAfter DEF Becomes, WorkerKnows
  <2>4. won = None /\ won' = None
    BY <1>3, <1>5 DEF WritesInv, WonIsFinal, Holds, Quiet
  <2>5. \A y \in Writes : journal[y].status = "resolved" => Cleared(y)
    BY <2>4, WritesAssumption DEF WritesInv, ResolvedHasReason, Writes
  <2>6. \A y \in Writes \ {x} : journal'[y] = journal[y]
    BY <1>3, <1>5
  <2>7. WonIsFinal'
    BY <1>3, <2>4 DEF WritesInv, WonIsFinal, Quiet
  <2>8. ResolvedHasReason' /\ OnePending'
    BY <2>1, <2>5, <2>6, <1>5 DEF ResolvedHasReason, OnePending, Cleared, Pending, Unsettled
  <2>9. SuccessIsIntact'
    BY <2>4 DEF SuccessIsIntact
  <2>10. worker'[w].pc \notin BeforeRow
    BY <1>5 DEF Becomes, BeforeRow
  <2> QED
    BY <1>1, <1>2, <2>2, <2>3, <2>4, <2>7, <2>8, <2>9, <2>10, WorkerKeeps
<1> QED  BY <1>2, <1>3, <1>4, <1>5, BeginEffect DEF Moves, Becomes

\* The settlement: the row of the write was the pending one, and resolves.
LEMMA KeepSettle ==
  ASSUME WritesInv, TypeOK', NEW w \in Workers, Settle(w)
  PROVE  WritesInv'
<1>1. Advance /\ Frame(w) /\ Onward(w)
  BY WorkerFrame, WorkerOnward, WorkerAdvances DEF WritesInv, WorkerStep
<1>2. PICK x \in Writes : x = Write(w)
  BY WriteTypes DEF WritesInv
<1>3. WorkerKnows(w) /\ TypeOK /\ journal \in [Writes -> RowType] /\ UNCHANGED << object, files >>
      /\ journal[x] \in RowType
  BY SettleEffect DEF WritesInv, WorkersKnow, TypeOK
<1>4. CASE Moves(w, {"comp_object"}) /\ Quiet /\ UNCHANGED journal
  <2>1. WorkerKnows(w)'
    BY <1>1, <1>2, <1>3, <1>4, KnowsAfter DEF Moves, Becomes, WorkerKnows
  <2> QED  BY <1>3, <1>4, <2>1, SameJournalKeeps DEF Quiet, WorkerStep
<1>5. CASE /\ Holds(w) /\ Accepted(w) /\ Settled(w)
           /\ \/ Moves(w, {"over"}) /\ UNCHANGED unsure
              \/ Moves(w, {"comp_object"}) /\ unsure' = unsure \cup {x}
  <2>1. won = None /\ won' = x /\ x # None /\ item'.st = "success"
    BY <1>2, <1>5, WritesAssumption DEF WritesInv, WonIsFinal, Holds, Settled, Writes
  <2>2. \A y \in Writes \ {x} : journal'[y] = journal[y]
    BY <1>1, <1>2 DEF Frame
  <2>3. /\ journal'[x].object = journal[x].object /\ journal'[x].index = journal[x].index
        /\ journal'[x].path = journal[x].path /\ journal'[x].file = journal[x].file
        /\ journal'[x].status = IF worker[w].journaled THEN "resolved" ELSE journal[x].status
    BY <1>2, <1>3, <1>5 DEF Settled, RowType
  <2>4. worker[w].journaled <=> journal[x].status # "none"
    BY <1>2, <1>3 DEF WorkerKnows
  <2>5. Evident(x, journal[x])'
    <3>1. Evident(x, journal[x])
      BY DEF WritesInv, JournalIsTrue
    <3> QED  BY <1>1, <2>3, <3>1, GoneStays DEF Evident, Advance
  <2>6. worker'[w].pc \in {"over", "comp_object"} /\ worker'[w].try = worker[w].try
        /\ worker'[w].journaled = worker[w].journaled
    BY <1>5 DEF Moves, Becomes
  <2>7. WorkerKnows(w)'
    <3>1. worker'[w].object = worker[w].object /\ worker'[w].index = worker[w].index
      BY <1>5 DEF Moves, Becomes
    <3>2. worker'[w].journaled <=> journal'[x].status # "none"
      BY <2>3, <2>4, <2>6
    <3> QED  BY <1>1, <1>2, <2>6, <3>1, <3>2, KnowsAfter
  <2>8. journal'[x].status # "pending"
    BY <1>3, <2>3, <2>4 DEF RowType
  <2>9. WonIsFinal'
    <3>1. (Done(x) \/ x \in unsure)'
      BY <1>2, <1>5, <2>6 DEF Moves, Becomes, Done, Write
    <3>2. won' # None <=> item'.st = "success"
      BY <2>1
    <3>3. ~Pending(won)' /\ (Done(won) \/ won \in unsure)'
      BY <2>1, <2>8, <3>1 DEF Pending, Done
    <3> QED  BY <3>2, <3>3 DEF WonIsFinal
  <2>10. \A y \in Writes : journal[y].status = "resolved" => Cleared(y)
    BY <2>1, WritesAssumption DEF WritesInv, ResolvedHasReason, Writes
  <2>11. ResolvedHasReason'
    BY <2>1, <2>2, <2>10 DEF ResolvedHasReason, Cleared
  <2>12. OnePending'
    <3>1. CASE worker[w].journaled
      <4>1. \A y \in Writes : Pending(y) => y = x
        BY <1>2, <1>5, <3>1 DEF Accepted, WritesInv, OnePending
      <4>2. \A y \in Writes : journal'[y].status # "pending"
        BY <2>2, <2>8, <4>1 DEF Pending
      <4> QED  BY <4>2 DEF OnePending, Pending
    <3>2. CASE ~worker[w].journaled
      <4>1. journal' = journal
        BY <1>5, <3>2 DEF Settled
      <4> QED  BY <4>1 DEF WritesInv, OnePending, Pending, Cleared
    <3> QED  BY <3>1, <3>2
  <2>13. SuccessIsIntact'
    <3>1. x \in object \cup overlapped /\ x \in files \cup overlapped
      BY <1>2, <1>3, SettleEffect DEF WorkerKnows
    <3> QED  BY <1>1, <1>3, <2>1, <3>1 DEF SuccessIsIntact, Frame
  <2>14. worker'[w].pc \notin BeforeRow
    BY <2>6 DEF BeforeRow
  <2> QED
    BY <1>1, <1>2, <1>3, <2>1, <2>5, <2>7, <2>9, <2>11, <2>12, <2>13, <2>14, SettleEffect, WorkerKeeps
<1> QED  BY <1>2, <1>3, <1>4, <1>5, SettleEffect

-----------------------------------------------------------------------------
(* Steps of the sweep, the clock and the process                            *)

\* A step outside of the workers may take what the sweep may touch.
LEMMA OutsideKeeps ==
  ASSUME WritesInv, TypeOK', UNCHANGED << worker, unsure >>, RowsKeptOrCleared,
         overlapped \subseteq overlapped', object' \subseteq object, files' \subseteq files,
         \A x \in Writes : x \in (object \ object') \cup (files \ files') => Target(x),
         JournalIsTrue', SweepKnows'
  PROVE  WritesInv'
<1>1. Advance
  BY DEF Advance, Yet, Done
<1>2. WonIsFinal' /\ ResolvedHasReason' /\ OnePending'
  BY <1>1, StatusesKept
<1>3. \A x \in Writes : x \in (object \ object') \cup (files \ files') => x \in overlapped \/ (Done(x) /\ x # won)
  BY DEF WritesInv, SweepKnows
<1>4. SuccessIsIntact'
  <2>1. won' = won /\ won \in Writes \cup {None}
    BY DEF RowsKeptOrCleared, WritesInv, TypeOK
  <2> QED  BY <1>3, <2>1 DEF WritesInv, SuccessIsIntact
<1>5. NothingEarly'
  BY <1>1 DEF WritesInv, NothingEarly, Advance, RowsKeptOrCleared, Pending
<1>6. WorkersKnow'
  <2>1. ASSUME NEW w \in Workers
        PROVE  WorkerKnows(w)'
    <3>1. PICK x \in Writes : x = Write(w)
      BY WriteTypes DEF WritesInv
    <3>2. Write(w)' = x /\ worker' = worker /\ WorkerKnows(w) /\ worker[w] \in WorkerType
      BY <3>1 DEF Write, WritesInv, WorkersKnow, TypeOK
    <3>3. (ObjectGone(x) => ObjectGone(x)') /\ (FileGone(x) => FileGone(x)')
      BY <1>1, GoneStays
    <3>4. journal'[x].status # "none" <=> journal[x].status # "none"
      BY DEF RowsKeptOrCleared, Pending
    <3>5. worker[w].pc # "over" => ~Done(x)
      BY <3>1, <3>2 DEF Done, Write, WorkerType
    <3>6. worker[w].pc # "over" =>
            /\ x \in object \cup overlapped => x \in object' \cup overlapped'
            /\ x \in files \cup overlapped => x \in files' \cup overlapped'
      BY <1>3, <3>5
    <3> QED  BY <3>1, <3>2, <3>3, <3>4, <3>6 DEF WorkerKnows, ObjectGone, FileGone
  <2> QED  BY <2>1 DEF WorkersKnow
<1> QED  BY <1>2, <1>4, <1>5, <1>6 DEF WritesInv

\* A write with a pending row whose worker is not at it is over.
LEMMA PendingIsOver ==
  ASSUME WritesInv, NEW x \in Writes, Pending(x), ~(Alive(x[1]) /\ Write(x[1]) = x)
  PROVE  Done(x) /\ x # won
<1>1. x[1] \in Workers /\ x[2] \in {1, 2} /\ x = << x[1], x[2] >>
  BY DEF Writes
<1>2. worker[x[1]].try \in {1, 2}
  BY <1>1 DEF WritesInv, TypeOK, WorkerType
<1>3. ~Yet(x, BeforeRow)
  BY DEF WritesInv, NothingEarly, Pending
<1>4. Done(x)
  BY <1>1, <1>2, <1>3 DEF Yet, Done, Alive, Write, BeforeRow
<1>5. x # won
  BY WritesAssumption DEF WritesInv, WonIsFinal, Writes
<1> QED  BY <1>4, <1>5

\* An idle sweep knows nothing that is wrong.
LEMMA IdleSweepKnows ==
  ASSUME sweep' = IdleSweep
  PROVE  SweepKnows'
<1>1. \A x \in Writes : x # None
  BY WritesAssumption DEF Writes
<1> QED
  BY <1>1 DEF SweepKnows, IdleSweep, NoRow, Evident, Target

\* The journal changes only in the leases and resolutions of rows.
LeasesOnly ==
    \A x \in Writes :
      /\ journal'[x].status = journal[x].status
      /\ journal'[x].object = journal[x].object /\ journal'[x].index = journal[x].index
      /\ journal'[x].path = journal[x].path /\ journal'[x].file = journal[x].file

\* An interrupted sweep leaves its leases and no other trace.
LEMMA LeaseLeftOnly ==
  ASSUME TypeOK, journal' = LeaseLeft
  PROVE  LeasesOnly
<1>1. \A x \in Writes : journal[x] \in RowType
  BY DEF TypeOK
<1>2. ASSUME NEW x \in Writes, NEW l
      PROVE  LET row == [journal[x] EXCEPT !.lease = l] IN
             /\ row.status = journal[x].status /\ row.object = journal[x].object
             /\ row.index = journal[x].index /\ row.path = journal[x].path /\ row.file = journal[x].file
  BY <1>1 DEF RowType
<1> QED  BY <1>2 DEF LeaseLeft, LeasesOnly

\* A step outside of the workers that takes nothing away.
LEMMA LeasesKeep ==
  ASSUME WritesInv, TypeOK', UNCHANGED << worker, unsure, object, files, won >>,
         item'.st = "success" <=> item.st = "success",
         overlapped \subseteq overlapped', LeasesOnly, SweepKnows'
  PROVE  WritesInv'
<1>1. RowsKeptOrCleared
  BY DEF RowsKeptOrCleared, LeasesOnly
<1>2. Advance
  BY DEF Advance, Yet, Done
<1>3. JournalIsTrue'
  BY <1>2, EvidenceStays DEF WritesInv, JournalIsTrue, LeasesOnly, Evident
<1> QED  BY <1>1, <1>3, OutsideKeeps

\* What the sweep goes on with is what it worked on.
LEMMA SweepOnward ==
  ASSUME WritesInv, UNCHANGED << worker, unsure, won >>, overlapped \subseteq overlapped',
         object' \subseteq object, files' \subseteq files,
         sweep'.snap = sweep.snap, sweep'.todo \subseteq sweep.todo,
         sweep'.at \in {sweep.at, None},
         sweep'.pc \notin {"idle", "next"} => sweep'.at # None,
         \A x \in Writes : x = sweep'.at =>
           /\ sweep'.object = "deleted" => sweep.object = "deleted" \/ ObjectGone(x)'
           /\ sweep'.index = "deleted" => sweep.index = "deleted" \/ FileGone(x)'
  PROVE  SweepKnows'
<1>1. Advance
  BY DEF Advance, Yet, Done
<1>2. ASSUME NEW x \in Writes
      PROVE  /\ Evident(x, sweep.snap[x])'
             /\ Target(x)' => x \in overlapped' \/ (Done(x)' /\ x # won')
             /\ x = sweep'.at /\ sweep'.object = "deleted" => ObjectGone(x)'
             /\ x = sweep'.at /\ sweep'.index = "deleted" => FileGone(x)'
  <2>0. x # None
    BY WritesAssumption DEF Writes
  <2>1. Evident(x, sweep.snap[x])'
    BY <1>1, EvidenceStays DEF WritesInv, SweepKnows, Evident
  <2>2. Target(x)' => Target(x)
    BY <2>0 DEF Target
  <2>3. Target(x) => x \in overlapped' \/ (Done(x)' /\ x # won')
    BY <1>1 DEF WritesInv, SweepKnows, Advance
  <2>4. (ObjectGone(x) => ObjectGone(x)') /\ (FileGone(x) => FileGone(x)')
    BY <1>1, GoneStays
  <2> QED  BY <2>0, <2>1, <2>2, <2>3, <2>4 DEF WritesInv, SweepKnows
<1> QED  BY <1>2 DEF SweepKnows

\* Going on to the next row.
LEMMA NextRowFields ==
  ASSUME TypeOK, sweep' = NextRow
  PROVE  /\ sweep'.snap = sweep.snap /\ sweep'.todo = sweep.todo /\ sweep'.at = None
         /\ sweep'.pc \in {"idle", "next"}
  BY DEF TypeOK, SweepType, NextRow

\* The sweep claims writes that are over, or whose worker it overlaps.
LEMMA KeepSweepClaim ==
  ASSUME WritesInv, TypeOK', SweepClaim
  PROVE  WritesInv'
<1>1. TypeOK /\ \A x \in Writes : journal[x] \in RowType
  BY DEF WritesInv, TypeOK
<1>2. LeasesOnly
  <2>1. ASSUME NEW x \in Writes
        PROVE  LET row == [journal[x] EXCEPT !.lease = "held"] IN
               /\ row.status = journal[x].status /\ row.object = journal[x].object
               /\ row.index = journal[x].index /\ row.path = journal[x].path /\ row.file = journal[x].file
    BY <1>1 DEF RowType
  <2> QED  BY <2>1 DEF SweepClaim, LeasesOnly
<1>3. /\ sweep'.pc = "next" /\ sweep'.todo = Sweepable /\ sweep'.snap = journal /\ sweep'.at = None
      /\ sweep'.object = "unknown" /\ sweep'.index = "unknown"
  BY DEF SweepClaim, IdleSweep
<1>4. UNCHANGED << worker, unsure, object, files, won, item >> /\ overlapped \subseteq overlapped'
  BY DEF SweepClaim, outside
<1>5. SweepKnows'
  <2>1. Advance
    BY <1>4 DEF Advance, Yet, Done
  <2>2. ASSUME NEW x \in Writes
        PROVE  /\ Evident(x, sweep.snap[x])'
               /\ Target(x)' => x \in overlapped' \/ (Done(x)' /\ x # won')
    <3>1. Evident(x, sweep.snap[x])'
      BY <1>3, <2>1, EvidenceStays DEF WritesInv, JournalIsTrue, Evident
    <3>2. ASSUME x \in Sweepable, x \notin overlapped'
          PROVE  Done(x)' /\ x # won'
      <4>1. Pending(x) /\ ~(Alive(x[1]) /\ Write(x[1]) = x)
        BY <3>2 DEF SweepClaim, Sweepable
      <4> QED  BY <1>4, <2>1, <4>1, PendingIsOver DEF Advance
    <3>3. Target(x)' => x \in Sweepable
      BY <1>3, WritesAssumption DEF Target, Writes
    <3> QED  BY <3>1, <3>2, <3>3
  <2>3. "unknown" # "deleted"
    OBVIOUS
  <2> QED  BY <1>3, <2>2, <2>3 DEF SweepKnows
<1> QED  BY <1>2, <1>4, <1>5, LeasesKeep

\* Taking a row keeps the invariant.
LEMMA KeepSweepTake ==
  ASSUME WritesInv, TypeOK', SweepTake
  PROVE  WritesInv'
<1>t. TypeOK /\ sweep \in SweepType /\ journal \in [Writes -> RowType]
  BY DEF WritesInv, TypeOK
<1>u. UNCHANGED << worker, unsure, object, files, won, item, overlapped >>
  BY DEF SweepTake, outside, history
<1>a. Advance
  BY <1>u DEF Advance, Yet, Done
<1>1. PICK x \in sweep.todo :
        LET rest == [sweep EXCEPT !.todo = sweep.todo \ {x}] IN
        \/ /\ UNCHANGED journal
           /\ sweep' = [rest EXCEPT !.pc = "own_object", !.at = x,
                                    !.object = sweep.snap[x].object, !.index = sweep.snap[x].index]
        \/ /\ journal' = IF Owned(x)
                         THEN [journal EXCEPT ![x].resolution = "operator_required", ![x].lease = "free"]
                         ELSE journal
           /\ sweep' = [rest EXCEPT !.pc = IF rest.todo = {} THEN "idle" ELSE "next"]
  BY DEF SweepTake
<1>2. x \in Writes /\ x # None
  BY <1>t, WritesAssumption DEF SweepType, Writes
<1>3. LeasesOnly
  <2>1. journal[x] \in RowType
    BY <1>2, <1>t
  <2>2. [journal EXCEPT ![x].resolution = "operator_required", ![x].lease = "free"]
          = [journal EXCEPT ![x] = [journal[x] EXCEPT !.resolution = "operator_required", !.lease = "free"]]
    BY <1>2, <1>t
  <2>3. LET row == [journal[x] EXCEPT !.resolution = "operator_required", !.lease = "free"] IN
        /\ row.status = journal[x].status /\ row.object = journal[x].object
        /\ row.index = journal[x].index /\ row.path = journal[x].path /\ row.file = journal[x].file
    BY <2>1 DEF RowType
  <2>4. CASE journal' = journal
    BY <2>4 DEF LeasesOnly
  <2>5. CASE journal' = [journal EXCEPT ![x] = [journal[x] EXCEPT !.resolution = "operator_required", !.lease = "free"]]
    BY <1>t, <1>2, <2>3, <2>5 DEF LeasesOnly
  <2> QED  BY <1>1, <2>2, <2>4, <2>5
<1>4. SweepKnows'
  <2>1. CASE sweep' = [[sweep EXCEPT !.todo = sweep.todo \ {x}] EXCEPT !.pc = "own_object", !.at = x,
                          !.object = sweep.snap[x].object, !.index = sweep.snap[x].index]
    <3>1. /\ sweep'.snap = sweep.snap /\ sweep'.todo \subseteq sweep.todo /\ sweep'.at = x
          /\ sweep'.object = sweep.snap[x].object /\ sweep'.index = sweep.snap[x].index
      BY <1>t, <2>1 DEF SweepType
    <3>2. ASSUME NEW y \in Writes
          PROVE  /\ Evident(y, sweep.snap[y])'
                 /\ Target(y)' => y \in overlapped' \/ (Done(y)' /\ y # won')
                 /\ y = sweep'.at /\ sweep'.object = "deleted" => ObjectGone(y)'
                 /\ y = sweep'.at /\ sweep'.index = "deleted" => FileGone(y)'
      <4>1. Evident(y, sweep.snap[y])'
        BY <1>a, <3>1, EvidenceStays DEF WritesInv, SweepKnows, Evident
      <4>2. Target(y)' => Target(y)
        BY <1>1, <3>1 DEF Target
      <4>3. Target(y) => y \in overlapped' \/ (Done(y)' /\ y # won')
        BY <1>a, <1>u DEF WritesInv, SweepKnows, Advance
      <4> QED  BY <3>1, <4>1, <4>2, <4>3 DEF Evident
    <3> QED  BY <1>2, <3>1, <3>2 DEF SweepKnows
  <2>2. CASE sweep' = [[sweep EXCEPT !.todo = sweep.todo \ {x}] EXCEPT
                        !.pc = IF [sweep EXCEPT !.todo = sweep.todo \ {x}].todo = {} THEN "idle" ELSE "next"]
    <3>1. /\ sweep'.snap = sweep.snap /\ sweep'.todo \subseteq sweep.todo /\ sweep'.at = sweep.at
          /\ sweep'.object = sweep.object /\ sweep'.index = sweep.index
          /\ sweep'.pc \in {"idle", "next"}
      BY <1>t, <2>2 DEF SweepType
    <3> QED  BY <1>u, <3>1, SweepOnward
  <2> QED  BY <1>1, <2>1, <2>2
<1> QED  BY <1>u, <1>3, <1>4, LeasesKeep

\* The check of the lease of the row keeps the invariant.
LEMMA KeepSweepOwns ==
  ASSUME WritesInv, TypeOK', SweepOwns
  PROVE  WritesInv'
<1>t. TypeOK /\ sweep \in SweepType
  BY DEF WritesInv, TypeOK
<1>u. UNCHANGED << worker, unsure, object, files, won, item, overlapped, journal >>
  BY DEF SweepOwns, outside, history
<1>1. SweepKnows'
  <2>1. CASE sweep' = NextRow
    BY <1>t, <1>u, <2>1, NextRowFields, WritesAssumption, SweepOnward DEF Writes
  <2>2. CASE sweep' = [sweep EXCEPT !.pc = IF sweep.pc = "own_object" THEN "object" ELSE "index"]
    <3>1. /\ sweep'.snap = sweep.snap /\ sweep'.todo = sweep.todo /\ sweep'.at = sweep.at
          /\ sweep'.object = sweep.object /\ sweep'.index = sweep.index
      BY <1>t, <2>2 DEF SweepType
    <3>2. sweep.at # None
      BY DEF WritesInv, SweepKnows, SweepOwns
    <3> QED  BY <1>u, <3>1, <3>2, SweepOnward
  <2> QED  BY <2>1, <2>2 DEF SweepOwns
<1> QED  BY <1>u, <1>1, LeasesKeep DEF LeasesOnly

\* The deletion of the object by the sweep keeps the invariant.
LEMMA KeepSweepObject ==
  ASSUME WritesInv, TypeOK', SweepObject
  PROVE  WritesInv'
<1>t. TypeOK /\ sweep \in SweepType
  BY DEF WritesInv, TypeOK
<1>u. UNCHANGED << worker, unsure, files, won, item, overlapped, journal >>
  BY DEF SweepObject, history
<1>1. PICK x \in Writes : x = sweep.at
  BY <1>t DEF WritesInv, SweepKnows, SweepObject, SweepType
<1>2. /\ object' \in {object, object \ {x}}
      /\ \/ sweep' = [sweep EXCEPT !.pc = "own_index", !.object = sweep.object] /\ object' = object
         \/ /\ sweep' = [sweep EXCEPT !.pc = "own_index", !.object = "deleted"]
            /\ object' = object \ {x} /\ sweep.snap[x].path
         \/ sweep' = [sweep EXCEPT !.pc = "own_index", !.object = "unknown"]
  BY <1>1 DEF SweepObject
<1>3. /\ sweep'.snap = sweep.snap /\ sweep'.todo = sweep.todo /\ sweep'.at = sweep.at
      /\ sweep'.index = sweep.index
      /\ \/ sweep'.object \in {sweep.object, "unknown"}
         \/ object' = object \ {x} /\ sweep.snap[x].path
  BY <1>t, <1>2 DEF SweepType
<1>4. sweep.snap[x].path => ~Yet(x, BeforeObject)'
  BY <1>u DEF WritesInv, SweepKnows, Evident, Yet
<1>5. SweepKnows'
  <2>1. sweep'.object = "deleted" => sweep.object = "deleted" \/ ObjectGone(x)'
    BY <1>3, <1>4 DEF ObjectGone
  <2>2. sweep'.at # None
    BY <1>1, <1>3, WritesAssumption DEF Writes
  <2> QED  BY <1>1, <1>2, <1>3, <1>u, <2>1, <2>2, SweepOnward
<1>6. JournalIsTrue'
  <2>1. Advance
    BY <1>u, <1>2 DEF Advance, Yet, Done
  <2> QED  BY <1>u, <2>1, EvidenceStays DEF WritesInv, JournalIsTrue, Evident
<1>7. RowsKeptOrCleared
  BY <1>u DEF RowsKeptOrCleared
<1> QED  BY <1>1, <1>2, <1>5, <1>6, <1>7, <1>u, OutsideKeeps DEF Target

\* The deletion of the row of files by the sweep keeps the invariant.
LEMMA KeepSweepIndex ==
  ASSUME WritesInv, TypeOK', SweepIndex
  PROVE  WritesInv'
<1>t. TypeOK /\ sweep \in SweepType
  BY DEF WritesInv, TypeOK
<1>u. UNCHANGED << worker, unsure, object, won, item, overlapped, journal >>
  BY DEF SweepIndex, history
<1>1. PICK x \in Writes : x = sweep.at
  BY <1>t DEF WritesInv, SweepKnows, SweepIndex, SweepType
<1>2. /\ files' \in {files, files \ {x}}
      /\ \/ sweep' = [sweep EXCEPT !.pc = "persist", !.index = sweep.index] /\ files' = files
         \/ /\ sweep' = [sweep EXCEPT !.pc = "persist", !.index = "deleted"]
            /\ files' = files \ {x} /\ sweep.snap[x].file
  BY <1>1 DEF SweepIndex
<1>3. /\ sweep'.snap = sweep.snap /\ sweep'.todo = sweep.todo /\ sweep'.at = sweep.at
      /\ sweep'.object = sweep.object
      /\ \/ sweep'.index = sweep.index
         \/ files' = files \ {x} /\ sweep.snap[x].file
  BY <1>t, <1>2 DEF SweepType
<1>4. sweep.snap[x].file => ~Yet(x, BeforeFile)'
  BY <1>u DEF WritesInv, SweepKnows, Evident, Yet
<1>5. SweepKnows'
  <2>1. sweep'.index = "deleted" => sweep.index = "deleted" \/ FileGone(x)'
    BY <1>3, <1>4 DEF FileGone
  <2>2. sweep'.at # None
    BY <1>1, <1>3, WritesAssumption DEF Writes
  <2> QED  BY <1>1, <1>2, <1>3, <1>u, <2>1, <2>2, SweepOnward
<1>6. JournalIsTrue'
  <2>1. Advance
    BY <1>u, <1>2 DEF Advance, Yet, Done
  <2> QED  BY <1>u, <2>1, EvidenceStays DEF WritesInv, JournalIsTrue, Evident
<1>7. RowsKeptOrCleared
  BY <1>u DEF RowsKeptOrCleared
<1> QED  BY <1>1, <1>2, <1>5, <1>6, <1>7, <1>u, OutsideKeeps DEF Target

\* The evidence of the sweep keeps the invariant.
LEMMA KeepSweepPersist ==
  ASSUME WritesInv, TypeOK', SweepPersist
  PROVE  WritesInv'
<1>t. TypeOK /\ sweep \in SweepType
  BY DEF WritesInv, TypeOK
<1>u. UNCHANGED << worker, unsure, object, files, won, item, overlapped >>
  BY DEF SweepPersist, outside, history
<1>a. Advance
  BY <1>u DEF Advance, Yet, Done
<1>1. PICK x \in Writes : x = sweep.at
  BY <1>t DEF WritesInv, SweepKnows, SweepPersist, SweepType
<1>2. SweepKnows'
  <2>1. sweep' = NextRow
    BY DEF SweepPersist
  <2> QED  BY <1>t, <1>u, <2>1, NextRowFields, WritesAssumption, SweepOnward DEF Writes
<1>3. CASE UNCHANGED journal
  BY <1>2, <1>3, <1>u, LeasesKeep DEF LeasesOnly
<1>4. CASE Pending(x) /\ journal' = Evidence(x, sweep.object, sweep.index)
  <2>1. sweep.object \in Effects /\ sweep.index \in Effects
    BY <1>t DEF SweepType
  <2>2. /\ journal'[x].object = sweep.object /\ journal'[x].index = sweep.index
        /\ journal'[x].path = journal[x].path /\ journal'[x].file = journal[x].file
        /\ journal'[x].status = IF sweep.object = "deleted" /\ sweep.index = "deleted"
                                THEN "resolved" ELSE "pending"
        /\ \A y \in Writes \ {x} : journal'[y] = journal[y]
    BY <1>4, <1>t, <2>1, EvidenceRow
  <2>3. RowsKeptOrCleared
    BY <1>4, <1>u, <2>2 DEF RowsKeptOrCleared, Pending
  <2>4. JournalIsTrue'
    <3>1. ASSUME NEW y \in Writes, y # x
          PROVE  Evident(y, journal[y])'
      BY <1>a, <2>2, <3>1, EvidenceStays DEF WritesInv, JournalIsTrue, Evident
    <3>2. Evident(x, journal[x])'
      BY <1>1, <1>a, <2>2, GoneStays DEF WritesInv, JournalIsTrue, SweepKnows, Evident, Advance
    <3> QED  BY <3>1, <3>2 DEF JournalIsTrue
  <2> QED  BY <1>2, <1>u, <2>3, <2>4, OutsideKeeps
<1> QED  BY <1>1, <1>3, <1>4 DEF SweepPersist, Owned

\* The clock, recovery, a retry and a failing sweep keep the invariant.
LEMMA KeepAround ==
  ASSUME WritesInv, TypeOK',
         LeaseExpires \/ Reset \/ Retry \/ SweepThrows \/ \E x \in Writes : JournalLeaseExpires(x)
  PROVE  WritesInv'
<1>t. TypeOK /\ item \in ItemType /\ journal \in [Writes -> RowType]
  BY DEF WritesInv, TypeOK
<1>1. CASE LeaseExpires \/ Reset \/ Retry
  <2>1. UNCHANGED << worker, unsure, object, files, won, overlapped, journal, sweep >>
    BY <1>1 DEF LeaseExpires, Reset, Retry, outside, history
  <2>2. item'.st = "success" <=> item.st = "success"
    BY <1>1, <1>t DEF LeaseExpires, Reset, Retry, ItemType
  <2>3. SweepKnows'
    BY <2>1, SweepOnward DEF WritesInv, SweepKnows
  <2> QED  BY <2>1, <2>2, <2>3, LeasesKeep DEF LeasesOnly
<1>2. CASE SweepThrows
  <2>1. LeasesOnly /\ SweepKnows'
    BY <1>2, <1>t, LeaseLeftOnly, IdleSweepKnows DEF SweepThrows
  <2> QED  BY <1>2, <2>1, LeasesKeep DEF SweepThrows, outside, history
<1>3. ASSUME NEW x \in Writes, JournalLeaseExpires(x)
      PROVE  WritesInv'
  <2>1. UNCHANGED << worker, unsure, object, files, won, overlapped, item, sweep >>
    BY <1>3 DEF JournalLeaseExpires, outside, history
  <2>2. journal[x] \in RowType /\ journal' = [journal EXCEPT ![x] = [journal[x] EXCEPT !.lease = "free"]]
    BY <1>3, <1>t DEF JournalLeaseExpires
  <2>3. LET row == [journal[x] EXCEPT !.lease = "free"] IN
        /\ row.status = journal[x].status /\ row.object = journal[x].object
        /\ row.index = journal[x].index /\ row.path = journal[x].path /\ row.file = journal[x].file
    BY <2>2 DEF RowType
  <2>4. LeasesOnly
    BY <1>t, <2>2, <2>3 DEF LeasesOnly
  <2>5. SweepKnows'
    BY <2>1, SweepOnward DEF WritesInv, SweepKnows
  <2> QED  BY <2>1, <2>4, <2>5, LeasesKeep
<1> QED  BY <1>1, <1>2, <1>3

\* A crash keeps the invariant: every worker is over, and so are its writes.
LEMMA KeepCrash ==
  ASSUME WritesInv, TypeOK', Crash
  PROVE  WritesInv'
<1>t. TypeOK /\ worker \in [Workers -> WorkerType]
  BY DEF WritesInv, TypeOK
<1>u. UNCHANGED << unsure, object, files, won, item, overlapped >>
  BY DEF Crash, outside, history
<1>1. ASSUME NEW w \in Workers
      PROVE  /\ worker'[w].try = worker[w].try
             /\ worker'[w].journaled = worker[w].journaled
             /\ worker'[w].object = worker[w].object /\ worker'[w].index = worker[w].index
             /\ worker'[w].pc = IF worker[w].pc = "idle" THEN "idle" ELSE "over"
  <2>1. worker[w] \in WorkerType
    BY <1>t
  <2>2. worker'[w] = IF Alive(w) THEN [worker[w] EXCEPT !.pc = "over"] ELSE worker[w]
    BY DEF Crash, At
  <2> QED  BY <2>1, <2>2 DEF WorkerType, Alive
<1>2. LeasesOnly /\ SweepKnows'
  BY <1>t, LeaseLeftOnly, IdleSweepKnows DEF Crash
<1>3. Advance
  <2>1. ASSUME NEW x \in Writes
        PROVE  /\ Yet(x, BeforeRow)' => Yet(x, BeforeRow)
               /\ Yet(x, BeforeObject)' => Yet(x, BeforeObject)
               /\ Yet(x, BeforeFile)' => Yet(x, BeforeFile)
               /\ Done(x) => Done(x)'
    <3>1. x[1] \in Workers
      BY DEF Writes
    <3> QED  BY <1>1, <3>1 DEF Yet, Done, BeforeRow, BeforeObject, BeforeFile
  <2> QED  BY <1>u, <2>1 DEF Advance
<1>4. RowsKeptOrCleared
  BY <1>2, <1>u DEF RowsKeptOrCleared, LeasesOnly
<1>5. WonIsFinal' /\ ResolvedHasReason' /\ OnePending'
  BY <1>3, <1>4, StatusesKept
<1>6. NothingEarly'
  BY <1>3, <1>4, <1>u DEF WritesInv, NothingEarly, Advance, RowsKeptOrCleared, Pending
<1>7. JournalIsTrue'
  BY <1>2, <1>3, EvidenceStays DEF WritesInv, JournalIsTrue, LeasesOnly, Evident
<1>8. SuccessIsIntact'
  BY <1>u DEF WritesInv, SuccessIsIntact
<1>9. WorkersKnow'
  <2>1. ASSUME NEW w \in Workers
        PROVE  WorkerKnows(w)'
    <3>1. PICK x \in Writes : x = Write(w)
      BY <1>t, WriteTypes
    <3>2. Write(w)' = x /\ WorkerKnows(w)
      BY <1>1, <3>1 DEF Write, WritesInv, WorkersKnow
    <3>3. (ObjectGone(x) => ObjectGone(x)') /\ (FileGone(x) => FileGone(x)')
      BY <1>3, GoneStays
    <3>4. journal'[x].status = journal[x].status
      BY <1>2 DEF LeasesOnly
    <3>5. worker'[w].pc \in {"idle", "over"}
      BY <1>1
    <3>6. /\ worker'[w].journaled <=> journal'[x].status # "none"
          /\ worker'[w].object = "deleted" => ObjectGone(x)'
          /\ worker'[w].index = "deleted" => FileGone(x)'
      BY <1>1, <3>1, <3>2, <3>3, <3>4 DEF WorkerKnows
    <3> QED  BY <3>2, <3>5, <3>6 DEF WorkerKnows, ObjectGone, FileGone
  <2> QED  BY <2>1 DEF WorkersKnow
<1> QED  BY <1>2, <1>5, <1>6, <1>7, <1>8, <1>9 DEF WritesInv
-----------------------------------------------------------------------------

\* The invariant holds at the start.
LEMMA InvInit ==
  ASSUME Init
  PROVE  WritesInv
<1>1. TypeOK
  BY TypeInit, WritesAssumption
<1>2. \A x \in Writes : x # None /\ x[1] \in Workers /\ x[2] \in {1, 2}
  BY WritesAssumption DEF Writes
<1>3. \A x \in Writes : journal[x] = NoRow /\ Evident(x, NoRow)
  BY DEF Init, NoRow, Evident
<1>4. NothingEarly /\ JournalIsTrue
  BY <1>3 DEF Init, NothingEarly, JournalIsTrue, NoRow
<1>5. WorkersKnow
  BY <1>1, <1>3, WriteTypes DEF Init, WorkersKnow, WorkerKnows, Worker, NoRow
<1>6. SweepKnows
  BY <1>2, <1>3 DEF Init, SweepKnows, IdleSweep, Target
<1>7. WonIsFinal /\ ResolvedHasReason /\ OnePending /\ SuccessIsIntact
  BY <1>3 DEF Init, WonIsFinal, ResolvedHasReason, OnePending, SuccessIsIntact, NoRow, Pending
<1> QED  BY <1>1, <1>4, <1>5, <1>6, <1>7 DEF WritesInv

\* Every step keeps the invariant.
LEMMA InvStep ==
  ASSUME WritesInv, [Next]_vars
  PROVE  WritesInv'
<1>t. TypeOK /\ TypeOK'
  BY TypeStep, WritesAssumption DEF WritesInv
<1>1. CASE UNCHANGED vars
  <2>1. UNCHANGED << item, journal, object, files, worker, sweep, won, overlapped, unsure >>
    BY <1>1 DEF vars
  <2>2. SweepKnows'
    BY <2>1, SweepOnward DEF WritesInv, SweepKnows
  <2> QED  BY <1>t, <2>1, <2>2, LeasesKeep DEF LeasesOnly
<1>2. ASSUME NEW w \in Workers, Claim(w) \/ WorkerStep(w)
      PROVE  WritesInv'
  BY <1>t, <1>2, KeepClaim, KeepBegin, KeepSaveFile, KeepMarks, KeepInsertFile, KeepUndo, KeepPersist,
     KeepSettle, KeepComp, KeepTryEnds DEF WorkerStep
<1>3. CASE SweepStep
  BY <1>t, <1>3, KeepSweepClaim, KeepSweepTake, KeepSweepOwns, KeepSweepObject, KeepSweepIndex,
     KeepSweepPersist DEF SweepStep
<1> QED
  BY <1>t, <1>1, <1>2, <1>3, KeepAround, KeepCrash DEF Next

\* The invariant holds in every state of every behaviour.
THEOREM WritesInvariant == Spec => []WritesInv
<1>1. Init => WritesInv
  BY InvInit
<1>2. WritesInv /\ [Next]_vars => WritesInv'
  BY InvStep
<1> QED  BY <1>1, <1>2, PTL DEF Spec

\* Of what a journaled try has stored nothing is lost to the journal: it is the file
\* of the item, or a pending row lists it (processFileUpload and the sweep).
THEOREM NothingIsLost == Spec => []JournaledIsTracked
<1>1. WritesInv => JournaledIsTracked
  <2> SUFFICES ASSUME WritesInv, NEW x \in (object \cup files) \ unsure, journal[x].status # "none", won # x
               PROVE  Pending(x)
    BY DEF JournaledIsTracked
  <2>1. x \in Writes /\ journal[x].status \in {"none", "pending", "resolved"}
    BY DEF WritesInv, TypeOK, RowType
  <2>2. ~Cleared(x)
    BY <2>1 DEF WritesInv, JournalIsTrue, Evident, ObjectGone, FileGone, Cleared
  <2>3. journal[x].status # "resolved"
    BY <2>1, <2>2 DEF WritesInv, ResolvedHasReason
  <2> QED  BY <2>1, <2>3 DEF Pending
<1> QED  BY <1>1, WritesInvariant, PTL

\* One file of the item is stored and stays.
THEOREM OneFileStays == Spec => []OneFileIsKept
<1>1. WritesInv => OneFileIsKept
  <2> SUFFICES ASSUME WritesInv, NEW x \in Writes, NEW y \in Writes, x # y, Pending(x),
                      journal[y].status # "none", {x, y} \cap unsure = {}
               PROVE  y \notin object \cup files
    BY DEF OneFileIsKept, OneOpenWrite, WritesInv
  <2>1. journal[y].status = "resolved"
    BY DEF WritesInv, OnePending, TypeOK, RowType, Pending
  <2>2. Cleared(y)
    BY <2>1 DEF WritesInv, OnePending
  <2> QED  BY <2>2 DEF WritesInv, JournalIsTrue, Evident, ObjectGone, FileGone, Cleared
<1> QED  BY <1>1, WritesInvariant, PTL

\* Only the worker that holds the lease of the item settles it, and once.
THEOREM OnlyHolderWins == Spec => WinnerHoldsLease
<1>1. WritesInv /\ [Next]_vars => [won' # won => won = None /\ won'[1] = item.token]_vars
  <2> SUFFICES ASSUME WritesInv, Next, won' # won
               PROVE  won = None /\ won'[1] = item.token
    BY DEF vars
  <2>1. PICK w \in Workers : Settle(w)
    BY DEF Next, Claim, WorkerStep, Begin, SaveFile, MarkObject, InsertFile, MarkIndex, UndoObject,
       UndoIndex, UndoPersist, Validate, CompObject, CompIndex, CompPersist, TryEnds, SweepStep,
       SweepClaim, SweepTake, SweepOwns, SweepObject, SweepIndex, SweepPersist, SweepThrows,
       LeaseExpires, Reset, Retry, JournalLeaseExpires, Crash, history
  <2>2. Holds(w) /\ won' = Write(w)
    BY <2>1 DEF Settle, Settled
  <2>3. won = None
    BY <2>2 DEF WritesInv, WonIsFinal, Holds
  <2> QED  BY <2>2, <2>3 DEF Holds, Write
<1> QED  BY <1>1, WritesInvariant, PTL DEF WinnerHoldsLease, Spec
=============================================================================
