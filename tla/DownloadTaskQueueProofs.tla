----------------------- MODULE DownloadTaskQueueProofs -----------------------
(***************************************************************************)
(* Proofs about DownloadTaskQueue, for every number of files, groups and   *)
(* scopes: the queue, its groups and their files fit together, no file     *)
(* waits beside a free slot, files of a group start in order, and the      *)
(* queue implements BoundedExecutor.                                       *)
(***************************************************************************)
EXTENDS DownloadTaskQueue, FiniteSetTheorems, TLAPS

-----------------------------------------------------------------------------
(* Finite sets of files, and their order                                    *)

\* The files, and any set of them, are finitely many.
LEMMA FilesAreFinite ==
  ASSUME NEW S \in SUBSET Tasks
  PROVE  IsFiniteSet(S) /\ Cardinality(S) \in Nat
<1>1. IsFiniteSet(S)
  BY QueueAssumption, FS_Subset
<1> QED  BY <1>1, FS_CardinalityType

\* Fewer files are counted as fewer.
LEMMA FewerFiles ==
  ASSUME NEW S \in SUBSET Tasks, NEW T \in SUBSET S
  PROVE  Cardinality(T) <= Cardinality(S) /\ (T # S => Cardinality(T) < Cardinality(S))
<1>1. IsFiniteSet(S) /\ Cardinality(S) \in Nat /\ Cardinality(T) \in Nat
  BY FilesAreFinite
<1>2. Cardinality(T) <= Cardinality(S) /\ (Cardinality(S) = Cardinality(T) => S = T)
  BY <1>1, FS_Subset
<1> QED  BY <1>1, <1>2

\* Every set of numbers that is not empty has a least one.
LEMMA LeastNumber ==
  ASSUME NEW N \in SUBSET Nat, N # {}
  PROVE  \E m \in N : \A k \in N : m <= k
<1>1. PICK m \in N : \A k \in N : <<k, m>> \notin OpToRel(<, Nat)
  BY WFMin, NatLessThanWellFounded, Zenon
<1>2. \A k \in N : ~(k < m)
  BY <1>1, Zenon DEF OpToRel
<1> QED  BY <1>2

\* A strict total order on the files of a set.
IsOrder(o, S) ==
    /\ \A t, u \in S : t # u => (<< t, u >> \in o <=> << u, t >> \notin o)
    /\ \A t \in S : << t, t >> \notin o
    /\ \A t, u, v \in S : << t, u >> \in o /\ << u, v >> \in o => << t, v >> \in o

Before(o, S, t) == {u \in S : << u, t >> \in o}

\* A file has more files before it than any file before it has.
LEMMA RanksGrow ==
  ASSUME NEW S \in SUBSET Tasks, NEW o, IsOrder(o, S), NEW t \in S, NEW u \in S, << u, t >> \in o
  PROVE  Cardinality(Before(o, S, u)) < Cardinality(Before(o, S, t))
<1>1. Before(o, S, u) \subseteq Before(o, S, t)
  BY DEF Before, IsOrder
<1>2. u \in Before(o, S, t) /\ u \notin Before(o, S, u)
  BY DEF Before, IsOrder
<1>3. Before(o, S, t) \in SUBSET Tasks
  BY DEF Before
<1>4. Before(o, S, u) # Before(o, S, t)
  BY <1>2
<1> QED  BY <1>1, <1>3, <1>4, FewerFiles

\* Unless all files of a set are among the first n, there are n of them at least.
LEMMA FirstFewFill ==
  ASSUME NEW S \in SUBSET Tasks, NEW o, IsOrder(o, S), NEW n \in Nat, FirstFew(S, o, n) # S
  PROVE  Cardinality(FirstFew(S, o, n)) >= n
<1> DEFINE F == FirstFew(S, o, n)
           rank(t) == Cardinality(Before(o, S, t))
           N == {k \in Nat : \E t \in S \ F : k = rank(t)}
<1>1. \A t \in S : rank(t) \in Nat
  <2>1. \A t \in S : Before(o, S, t) \in SUBSET Tasks
    BY DEF Before
  <2> QED  BY <2>1, FilesAreFinite
<1>2. F \subseteq S /\ \A t \in S : t \in F <=> rank(t) < n
  BY DEF FirstFew, Before
<1>3. N \in SUBSET Nat /\ N # {}
  BY <1>1, <1>2
<1>4. PICK m \in N : \A k \in N : m <= k
  BY <1>3, LeastNumber
<1>5. PICK t \in S \ F : m = rank(t)
  BY <1>4
<1>6. n <= rank(t)
  BY <1>1, <1>2, <1>5
<1>7. Before(o, S, t) \subseteq F
  <2> SUFFICES ASSUME NEW u \in Before(o, S, t), u \notin F
               PROVE  FALSE
    OBVIOUS
  <2>1. u \in S /\ << u, t >> \in o
    BY DEF Before
  <2>2. rank(u) < rank(t)
    BY <2>1, <1>5, RanksGrow
  <2>3. rank(u) \in N
    BY <2>1, <1>1
  <2> QED  BY <1>1, <1>4, <1>5, <2>1, <2>2, <2>3
<1>8. rank(t) <= Cardinality(F)
  <2>1. F \in SUBSET Tasks
    BY <1>2
  <2> QED  BY <2>1, <1>7, FewerFiles
<1>9. Cardinality(F) \in Nat
  BY <1>2, FilesAreFinite
<1> QED  BY <1>1, <1>5, <1>6, <1>8, <1>9

\* There are no more than n first n files of a set.
LEMMA FirstFewFit ==
  ASSUME NEW S \in SUBSET Tasks, NEW o, IsOrder(o, S), NEW n \in Nat
  PROVE  Cardinality(FirstFew(S, o, n)) <= n
<1> DEFINE F == FirstFew(S, o, n)
           rank(t) == Cardinality(Before(o, S, t))
           N == {k \in Nat : \E t \in F : k = n - rank(t)}
<1>1. \A t \in S : rank(t) \in Nat
  <2>1. \A t \in S : Before(o, S, t) \in SUBSET Tasks
    BY DEF Before
  <2> QED  BY <2>1, FilesAreFinite
<1>2. F \subseteq S /\ \A t \in S : t \in F <=> rank(t) < n
  BY DEF FirstFew, Before
<1>3. CASE F = {}
  BY <1>3, FS_EmptySet
<1>4. CASE F # {}
  <2>0. \A t \in F : n - rank(t) \in Nat
    BY <1>1, <1>2
  <2>1. N \in SUBSET Nat /\ N # {}
    BY <1>4, <2>0
  <2>2. PICK m \in N : \A k \in N : m <= k
    BY <2>1, LeastNumber
  <2>3. PICK t \in F : m = n - rank(t)
    BY <2>2
  <2>4. \A u \in F : u = t \/ u \in Before(o, S, t)
    <3> SUFFICES ASSUME NEW u \in F, u # t, << u, t >> \notin o
                 PROVE  FALSE
      BY <1>2 DEF Before
    <3>1. << t, u >> \in o
      BY <1>2, <2>3 DEF IsOrder
    <3>2. rank(t) < rank(u)
      BY <1>2, <2>3, <3>1, RanksGrow
    <3>3. n - rank(u) \in N
      BY <2>0
    <3> QED  BY <1>1, <1>2, <2>2, <2>3, <3>2, <3>3
  <2>5. Before(o, S, t) \in SUBSET Tasks /\ t \notin Before(o, S, t)
    BY <1>2, <2>3 DEF Before, IsOrder
  <2>6. IsFiniteSet(Before(o, S, t))
    BY <2>5, FilesAreFinite
  <2>7. Cardinality(Before(o, S, t) \cup {t}) = rank(t) + 1
    BY <2>5, <2>6, FS_AddElement
  <2>8. F \subseteq Before(o, S, t) \cup {t} /\ Before(o, S, t) \cup {t} \in SUBSET Tasks
    BY <1>2, <2>3, <2>4, <2>5
  <2>9. Cardinality(F) <= rank(t) + 1
    BY <2>7, <2>8, FewerFiles
  <2>10. Cardinality(F) \in Nat /\ rank(t) < n
    BY <1>2, <2>3, FilesAreFinite
  <2> QED  BY <1>1, <1>2, <2>3, <2>9, <2>10
<1> QED  BY <1>3, <1>4
-----------------------------------------------------------------------------
(* The fields of the queue, as one record                                   *)

FileStatus == {"new", "pending", "active", "dropped"} \cup Settled

QueueType ==
    [status: [Tasks -> FileStatus], ahead: SUBSET (Tasks \X Tasks), aborted: SUBSET Tasks,
     groups: [Groups -> GroupType], history: SUBSET Tasks, userPaused: BOOLEAN,
     scopePaused: SUBSET Scopes, blockers: SUBSET Blockers, maxConcurrent: 1..MaxLimit]

\* A file that waits or runs belongs to a record; a transition has a running file.
Owned(q) == \A t \in Tasks : q.status[t] \in {"pending", "active"} => q.groups[GroupOf[t]].exists
Moving(q) ==
    \A g \in Groups : q.groups[g].override \in {"pausing", "cancelling"} => Active(q, g) # {}
Stopped(q) ==
    \A g \in Groups :
      /\ q.groups[g].override = "cancelled" => Unfinished(q, g) = {}
      /\ q.groups[g].override = "cancelling" => Queued(q, g) = {} /\ Active(q, g) \subseteq q.aborted
Covered(q, g) ==
    q.groups[g].exists => q.groups[g].expected >= Cardinality(Unfinished(q, g)) + SettledCount(q, g)
Ordered(q) ==
    q.ahead \subseteq With(q, "pending") \X With(q, "pending") /\ IsOrder(q.ahead, With(q, "pending"))
NoneIdle(q) == Runnable(q) = {} \/ FreeSlots(q) = 0

\* What every method keeps while it changes the fields ...
Sound(q) ==
    /\ q \in QueueType
    /\ Owned(q) /\ Moving(q) /\ Stopped(q) /\ (\A g \in Groups : Covered(q, g)) /\ Ordered(q)

\* ... and what it leaves, with no file waiting beside a free slot.
Rested(q) == Sound(q) /\ NoneIdle(q)

\* The invariant is about the fields as they are.
QueueInv == TypeOK /\ QueueIsConsistent

\* The values of a status and of an override.
LEMMA StatusSets ==
    /\ FileStatus = {"new", "pending", "active", "dropped", "success", "failed", "cancelled"}
    /\ Closed = {"cancelling", "cancelled"} /\ Held = {"pausing", "paused"}
    /\ {"none", "pausing", "paused", "cancelling", "cancelled"} = {"none"} \cup Held \cup Closed
  BY DEF FileStatus, Settled, Closed, Held

\* The constants.
LEMMA Parameters ==
    /\ GroupOf \in [Tasks -> Groups] /\ MaxLimit \in Nat \ {0} /\ MaxExpected \in Nat
    /\ ScopeGroups \in [Scopes -> SUBSET Groups]
  BY QueueAssumption

\* The fields of the record of all fields.
LEMMA HereFields ==
    /\ Here.status = status /\ Here.ahead = ahead /\ Here.aborted = aborted
    /\ Here.groups = groups /\ Here.history = history /\ Here.userPaused = userPaused
    /\ Here.scopePaused = scopePaused /\ Here.blockers = blockers
    /\ Here.maxConcurrent = maxConcurrent
  BY DEF Here

\* TypeOK, as a fact about the record of all fields.
LEMMA HereIsTyped == TypeOK <=> Here \in QueueType
  BY DEF Here, TypeOK, QueueType, FileStatus

\* The orders of a set are the strict total orders on it.
LEMMA OrdersAreOrders ==
  ASSUME NEW S, NEW o
  PROVE  o \in Orders(S) <=> o \subseteq S \X S /\ IsOrder(o, S)
  BY DEF Orders, IsOrder

\* The invariant, as a fact about the record of all fields.
LEMMA InvOfHere == QueueInv <=> Rested(Here)
<1>1. FilesHaveGroup <=> Owned(Here)
  BY HereFields DEF FilesHaveGroup, Owned
<1>2. TransitionHasRunningFile <=> Moving(Here)
  BY HereFields DEF TransitionHasRunningFile, Moving
<1>3. CancelledHasNoFile <=> Stopped(Here)
  BY HereFields DEF CancelledHasNoFile, Stopped
<1>4. TotalCoversFiles <=> \A g \in Groups : Covered(Here, g)
  BY HereFields DEF TotalCoversFiles, Covered
<1>5. QueueIsOrdered <=> Ordered(Here)
  BY HereFields, OrdersAreOrders DEF QueueIsOrdered, Ordered
<1>6. NoIdleSlot <=> NoneIdle(Here)
  BY DEF NoIdleSlot, NoneIdle
<1> QED
  BY <1>1, <1>2, <1>3, <1>4, <1>5, <1>6, HereIsTyped DEF QueueInv, QueueIsConsistent, Rested, Sound

\* The types of the fields.
LEMMA FieldTypes ==
  ASSUME NEW q \in QueueType
  PROVE  /\ q.status \in [Tasks -> FileStatus] /\ q.ahead \subseteq Tasks \X Tasks
         /\ q.aborted \subseteq Tasks /\ q.groups \in [Groups -> GroupType] /\ q.history \subseteq Tasks
         /\ q.userPaused \in BOOLEAN /\ q.scopePaused \subseteq Scopes /\ q.blockers \subseteq Blockers
         /\ q.maxConcurrent \in 1..MaxLimit /\ q.maxConcurrent \in Nat
         /\ q = [status |-> q.status, ahead |-> q.ahead, aborted |-> q.aborted, groups |-> q.groups,
                 history |-> q.history, userPaused |-> q.userPaused, scopePaused |-> q.scopePaused,
                 blockers |-> q.blockers, maxConcurrent |-> q.maxConcurrent]
<1>1. /\ q.status \in [Tasks -> FileStatus] /\ q.ahead \subseteq Tasks \X Tasks
      /\ q.aborted \subseteq Tasks /\ q.groups \in [Groups -> GroupType] /\ q.history \subseteq Tasks
      /\ q.userPaused \in BOOLEAN /\ q.scopePaused \subseteq Scopes /\ q.blockers \subseteq Blockers
      /\ q.maxConcurrent \in 1..MaxLimit
  BY DEF QueueType
<1>2. q.maxConcurrent \in Nat
  BY <1>1
<1>3. q = [status |-> q.status, ahead |-> q.ahead, aborted |-> q.aborted, groups |-> q.groups,
           history |-> q.history, userPaused |-> q.userPaused, scopePaused |-> q.scopePaused,
           blockers |-> q.blockers, maxConcurrent |-> q.maxConcurrent]
  BY DEF QueueType
<1> QED  BY <1>1, <1>2, <1>3

\* The types of the parts of a group record.
LEMMA RecordTypes ==
  ASSUME NEW q \in QueueType, NEW g \in Groups
  PROVE  /\ q.groups[g] \in GroupType /\ q.groups[g].exists \in BOOLEAN /\ q.groups[g].expected \in Nat
         /\ q.groups[g].completed \in Nat /\ q.groups[g].failed \in Nat /\ q.groups[g].cancelled \in Nat
         /\ q.groups[g].override \in {"none", "pausing", "paused", "cancelling", "cancelled"}
         /\ SettledCount(q, g) \in Nat
<1>1. q.groups[g] \in GroupType
  BY FieldTypes
<1>2. /\ q.groups[g].exists \in BOOLEAN /\ q.groups[g].expected \in Nat
      /\ q.groups[g].completed \in Nat /\ q.groups[g].failed \in Nat /\ q.groups[g].cancelled \in Nat
      /\ q.groups[g].override \in {"none", "pausing", "paused", "cancelling", "cancelled"}
  BY <1>1, StatusSets DEF GroupType
<1> QED  BY <1>1, <1>2 DEF SettledCount

\* The sets of files that a record of fields describes, and their sizes.
LEMMA SetsOfFiles ==
  ASSUME NEW q, NEW g
  PROVE  /\ With(q, "pending") \in SUBSET Tasks /\ With(q, "active") \in SUBSET Tasks
         /\ Active(q, g) \in SUBSET Tasks /\ Queued(q, g) \in SUBSET Tasks
         /\ Unfinished(q, g) \in SUBSET Tasks /\ Runnable(q) \in SUBSET With(q, "pending")
         /\ Cardinality(Unfinished(q, g)) \in Nat /\ Cardinality(With(q, "active")) \in Nat
<1>1. /\ With(q, "pending") \in SUBSET Tasks /\ With(q, "active") \in SUBSET Tasks
      /\ Active(q, g) \in SUBSET Tasks /\ Queued(q, g) \in SUBSET Tasks
      /\ Unfinished(q, g) \in SUBSET Tasks /\ Runnable(q) \in SUBSET With(q, "pending")
  BY DEF With, Active, Queued, Unfinished, Runnable
<1> QED  BY <1>1, FilesAreFinite
-----------------------------------------------------------------------------
(* Groups that are forgotten, histories                                     *)

\* A terminal group has no file left.
LEMMA TerminalIsEmpty ==
  ASSUME NEW q, Sound(q), NEW g \in Groups, Terminal(q, g)
  PROVE  Unfinished(q, g) = {}
  BY DEF Sound, Stopped, Terminal

\* The sets of files depend on the statuses only.
LEMMA SameFiles ==
  ASSUME NEW q, NEW r, r.status = q.status
  PROVE  /\ \A st : With(r, st) = With(q, st)
         /\ \A g : /\ Active(r, g) = Active(q, g) /\ Queued(r, g) = Queued(q, g)
                   /\ Unfinished(r, g) = Unfinished(q, g)
  BY DEF With, Active, Queued, Unfinished

\* The record of a group that is new, and of one that is absent.
LEMMA NewRecords ==
  /\ \A n \in Nat : NewGroup(n) \in GroupType /\ NewGroup(n).exists /\ NewGroup(n).override = "none"
  /\ NoGroup \in GroupType /\ ~NoGroup.exists /\ NoGroup.override = "none"
<1>1. \A n \in Nat : NewGroup(n) \in GroupType /\ NewGroup(n).exists /\ NewGroup(n).override = "none"
  BY DEF NewGroup, GroupType
<1>2. NoGroup \in GroupType /\ ~NoGroup.exists /\ NoGroup.override = "none"
  BY DEF NewGroup, NoGroup, GroupType
<1> QED  BY <1>1, <1>2

\* What forgetting groups changes: their records only.
LEMMA ForgetFields ==
  ASSUME NEW q \in QueueType, NEW P
  PROVE  LET r == Forget(q, P)
         IN  /\ r \in QueueType /\ r.status = q.status /\ r.ahead = q.ahead /\ r.aborted = q.aborted
             /\ r.groups = [g \in Groups |-> IF g \in P THEN NoGroup ELSE q.groups[g]]
             /\ r.history = q.history /\ r.userPaused = q.userPaused /\ r.scopePaused = q.scopePaused
             /\ r.blockers = q.blockers /\ r.maxConcurrent = q.maxConcurrent
<1> DEFINE new == [g \in Groups |-> IF g \in P THEN NoGroup ELSE q.groups[g]]
<1>1. new \in [Groups -> GroupType]
  BY FieldTypes, NewRecords
<1>2. Forget(q, P) = [q EXCEPT !.groups = new]
  BY DEF Forget
<1> HIDE DEF new
<1>3. /\ [q EXCEPT !.groups = new] \in QueueType
      /\ [q EXCEPT !.groups = new].groups = new
  BY <1>1 DEF QueueType
<1> QED  BY <1>2, <1>3 DEF QueueType, new

\* Terminal groups are forgotten without harm.
LEMMA ForgetSound ==
  ASSUME NEW q, Sound(q), NEW P \in SUBSET Groups, \A g \in P : Terminal(q, g)
  PROVE  Sound(Forget(q, P)) /\ (NoneIdle(q) => NoneIdle(Forget(q, P)))
<1> DEFINE r == Forget(q, P)
<1>1. q \in QueueType /\ Owned(q) /\ Moving(q) /\ Stopped(q) /\ (\A g \in Groups : Covered(q, g)) /\ Ordered(q)
  BY DEF Sound
<1>2. /\ r \in QueueType /\ r.status = q.status /\ r.ahead = q.ahead /\ r.aborted = q.aborted
      /\ r.groups = [g \in Groups |-> IF g \in P THEN NoGroup ELSE q.groups[g]]
      /\ r.userPaused = q.userPaused /\ r.scopePaused = q.scopePaused
      /\ r.blockers = q.blockers /\ r.maxConcurrent = q.maxConcurrent
  BY <1>1, ForgetFields
<1> HIDE DEF r
<1>3. /\ \A st : With(r, st) = With(q, st)
      /\ \A g : /\ Active(r, g) = Active(q, g) /\ Queued(r, g) = Queued(q, g)
                /\ Unfinished(r, g) = Unfinished(q, g)
  BY <1>2, SameFiles
<1>4. /\ \A g \in Groups : r.groups[g] = IF g \in P THEN NoGroup ELSE q.groups[g]
      /\ ~NoGroup.exists /\ NoGroup.override = "none"
  BY <1>2, NewRecords
<1>5. \A t \in Tasks : q.status[t] \in {"pending", "active"} => GroupOf[t] \notin P
  <2> SUFFICES ASSUME NEW t \in Tasks, q.status[t] \in {"pending", "active"}, GroupOf[t] \in P
               PROVE  FALSE
    OBVIOUS
  <2>1. t \in Unfinished(q, GroupOf[t])
    BY DEF Unfinished, Active, Queued, With
  <2> QED  BY <2>1, TerminalIsEmpty, Parameters
<1>6. Owned(r)
  BY <1>1, <1>2, <1>4, <1>5, Parameters DEF Owned
<1>7. Moving(r) /\ Stopped(r)
  BY <1>1, <1>2, <1>3, <1>4 DEF Moving, Stopped
<1>8. \A g \in Groups : Covered(r, g)
  BY <1>1, <1>3, <1>4 DEF Covered, SettledCount
<1>9. Ordered(r)
  BY <1>1, <1>2, <1>3 DEF Ordered
<1>10. Runnable(r) \subseteq Runnable(q)
  BY <1>2, <1>3, <1>4, Parameters DEF Runnable, GloballyPaused, ScopePaused, With
<1>11. FreeSlots(r) = FreeSlots(q)
  BY <1>2, <1>3 DEF FreeSlots
<1> QED  BY <1>2, <1>6, <1>7, <1>8, <1>9, <1>10, <1>11 DEF Sound, NoneIdle, r

\* Fields that no part of the invariant but the types is about may change.
LEMMA SameParts ==
  ASSUME NEW q, Sound(q), NEW r \in QueueType,
         r.status = q.status, r.ahead = q.ahead, q.aborted \subseteq r.aborted, r.groups = q.groups
  PROVE  Sound(r)
<1>1. /\ \A st : With(r, st) = With(q, st)
      /\ \A g : /\ Active(r, g) = Active(q, g) /\ Queued(r, g) = Queued(q, g)
                /\ Unfinished(r, g) = Unfinished(q, g)
  BY SameFiles
<1>2. Owned(r) /\ Moving(r) /\ Stopped(r)
  BY <1>1 DEF Sound, Owned, Moving, Stopped
<1>3. (\A g \in Groups : Covered(r, g)) /\ Ordered(r)
  BY <1>1 DEF Sound, Covered, SettledCount, Ordered
<1> QED  BY <1>2, <1>3 DEF Sound

\* Files are pushed to the history; the oldest terminal groups may go.
LEMMA PushedSound ==
  ASSUME NEW q, Sound(q), NEW S \in SUBSET Tasks, NEW c, NEW r \in Pushed(q, S, c)
  PROVE  Sound(r) /\ r.status = q.status /\ r.ahead = q.ahead
<1>1. CASE S = {}
  BY <1>1 DEF Pushed
<1>2. CASE S # {}
  <2>1. PICK P \in Prunable(q, c), h \in Histories(q, S) : r = [Forget(q, P) EXCEPT !.history = h]
    BY <1>2 DEF Pushed
  <2>2. P \in SUBSET Groups /\ \A g \in P : Terminal(q, g)
    BY DEF Prunable
  <2>3. q \in QueueType
    BY DEF Sound
  <2>4. h \subseteq Tasks
    BY <2>3, FieldTypes DEF Histories
  <2>5. Sound(Forget(q, P)) /\ Forget(q, P).status = q.status /\ Forget(q, P).ahead = q.ahead
    BY <2>2, <2>3, ForgetSound, ForgetFields
  <2>6. Forget(q, P) \in QueueType
    BY <2>5 DEF Sound
  <2>7. /\ r \in QueueType /\ r.status = Forget(q, P).status /\ r.ahead = Forget(q, P).ahead
        /\ r.aborted = Forget(q, P).aborted /\ r.groups = Forget(q, P).groups
    BY <2>1, <2>4, <2>6 DEF QueueType
  <2> QED  BY <2>5, <2>7, SameParts
<1> QED  BY <1>1, <1>2
-----------------------------------------------------------------------------
(* Queued files that are settled                                            *)

\* What is taken off the queue leaves the rest in order.
LEMMA LeaveOrdered ==
  ASSUME NEW q, Ordered(q), NEW S
  PROVE  LET Q == With(q, "pending") \ S
         IN  Leave(q.ahead, S) \subseteq Q \X Q /\ IsOrder(Leave(q.ahead, S), Q)
<1> DEFINE Q == With(q, "pending") \ S
<1>1. Leave(q.ahead, S) \subseteq Q \X Q
  BY DEF Ordered, Leave
<1>2. \A t, u \in Q : << t, u >> \in Leave(q.ahead, S) <=> << t, u >> \in q.ahead
  BY DEF Leave
<1>3. IsOrder(Leave(q.ahead, S), Q)
  BY <1>2 DEF Ordered, IsOrder
<1> QED  BY <1>1, <1>3

Of(S, g) == {t \in S : GroupOf[t] = g}

\* What settling queued files changes: their statuses, the queue and one counter.
LEMMA SettleFields ==
  ASSUME NEW q \in QueueType, NEW S \in SUBSET Tasks
  PROVE  LET r == SettleQueued(q, S)
         IN  /\ r \in QueueType
             /\ r.status = [t \in Tasks |-> IF t \in S THEN "cancelled" ELSE q.status[t]]
             /\ r.ahead = Leave(q.ahead, S)
             /\ \A g \in Groups :
                  /\ r.groups[g].exists = q.groups[g].exists
                  /\ r.groups[g].expected = q.groups[g].expected
                  /\ r.groups[g].override = q.groups[g].override
                  /\ q.groups[g].exists => SettledCount(r, g) = SettledCount(q, g) + Cardinality(Of(S, g))
             /\ r.aborted = q.aborted /\ r.history = q.history /\ r.userPaused = q.userPaused
             /\ r.scopePaused = q.scopePaused /\ r.blockers = q.blockers
             /\ r.maxConcurrent = q.maxConcurrent
<1> DEFINE st == [t \in Tasks |-> IF t \in S THEN "cancelled" ELSE q.status[t]]
           ah == Leave(q.ahead, S)
           row(g) == IF q.groups[g].exists
                     THEN [q.groups[g] EXCEPT !.cancelled = q.groups[g].cancelled + Cardinality(Of(S, g))]
                     ELSE q.groups[g]
           gr == [g \in Groups |-> row(g)]
           r == [q EXCEPT !.status = st, !.ahead = ah, !.groups = gr]
<1>1. SettleQueued(q, S) = r
  BY DEF SettleQueued, Of
<1>2. st \in [Tasks -> FileStatus] /\ ah \subseteq Tasks \X Tasks
  BY FieldTypes, StatusSets DEF Leave
<1>3. ASSUME NEW g \in Groups
      PROVE  /\ row(g) \in GroupType /\ row(g).exists = q.groups[g].exists
             /\ row(g).expected = q.groups[g].expected /\ row(g).override = q.groups[g].override
             /\ row(g).completed = q.groups[g].completed /\ row(g).failed = q.groups[g].failed
             /\ q.groups[g].exists => row(g).cancelled = q.groups[g].cancelled + Cardinality(Of(S, g))
  <2>1. Of(S, g) \in SUBSET Tasks
    BY DEF Of
  <2>2. Cardinality(Of(S, g)) \in Nat /\ q.groups[g].cancelled \in Nat
    BY <2>1, FilesAreFinite, RecordTypes
  <2>3. q.groups[g].cancelled + Cardinality(Of(S, g)) \in Nat
    BY <2>2
  <2>4. q.groups[g] \in GroupType
    BY RecordTypes
  <2>5. \A n \in Nat : /\ [q.groups[g] EXCEPT !.cancelled = n] \in GroupType
                       /\ [q.groups[g] EXCEPT !.cancelled = n].exists = q.groups[g].exists
                       /\ [q.groups[g] EXCEPT !.cancelled = n].expected = q.groups[g].expected
                       /\ [q.groups[g] EXCEPT !.cancelled = n].override = q.groups[g].override
                       /\ [q.groups[g] EXCEPT !.cancelled = n].completed = q.groups[g].completed
                       /\ [q.groups[g] EXCEPT !.cancelled = n].failed = q.groups[g].failed
                       /\ [q.groups[g] EXCEPT !.cancelled = n].cancelled = n
    BY <2>4 DEF GroupType
  <2> QED  BY <2>3, <2>4, <2>5
<1>4. gr \in [Groups -> GroupType] /\ \A g \in Groups : gr[g] = row(g)
  BY <1>3
<1> HIDE DEF st, ah, gr
<1>5. /\ r \in QueueType /\ r.status = st /\ r.ahead = ah /\ r.groups = gr
      /\ r.aborted = q.aborted /\ r.history = q.history /\ r.userPaused = q.userPaused
      /\ r.scopePaused = q.scopePaused /\ r.blockers = q.blockers
      /\ r.maxConcurrent = q.maxConcurrent
  BY <1>2, <1>4 DEF QueueType
<1>6. \A g \in Groups : /\ r.groups[g].exists = q.groups[g].exists
                        /\ r.groups[g].expected = q.groups[g].expected
                        /\ r.groups[g].override = q.groups[g].override
                        /\ r.groups[g].completed = q.groups[g].completed
                        /\ r.groups[g].failed = q.groups[g].failed
                        /\ q.groups[g].exists
                             => r.groups[g].cancelled = q.groups[g].cancelled + Cardinality(Of(S, g))
  <2>1. \A g \in Groups : r.groups[g] = row(g)
    BY <1>4, <1>5
  <2> HIDE DEF row, r
  <2> QED  BY <1>3, <2>1
<1>7. ASSUME NEW g \in Groups, q.groups[g].exists
      PROVE  SettledCount(r, g) = SettledCount(q, g) + Cardinality(Of(S, g))
  <2>1. Of(S, g) \in SUBSET Tasks
    BY DEF Of
  <2>2. Cardinality(Of(S, g)) \in Nat /\ q.groups[g].cancelled \in Nat
        /\ q.groups[g].completed \in Nat /\ q.groups[g].failed \in Nat
    BY <2>1, FilesAreFinite, RecordTypes
  <2> QED  BY <1>6, <1>7, <2>2 DEF SettledCount
<1> QED  BY <1>1, <1>5, <1>6, <1>7 DEF st, ah

\* The sets of files after queued files were settled.
LEMMA SettledFiles ==
  ASSUME NEW q \in QueueType, NEW S \in SUBSET With(q, "pending")
  PROVE  LET r == SettleQueued(q, S)
         IN  /\ With(r, "pending") = With(q, "pending") \ S /\ With(r, "active") = With(q, "active")
             /\ \A g : /\ Active(r, g) = Active(q, g) /\ Queued(r, g) = Queued(q, g) \ S
                       /\ Unfinished(r, g) = Unfinished(q, g) \ Of(S, g)
                       /\ Of(S, g) \subseteq Unfinished(q, g)
<1> DEFINE r == SettleQueued(q, S)
<1>1. S \in SUBSET Tasks
  BY SetsOfFiles
<1>2. r.status = [t \in Tasks |-> IF t \in S THEN "cancelled" ELSE q.status[t]]
  BY <1>1, SettleFields
<1> HIDE DEF r
<1>3. With(r, "pending") = With(q, "pending") \ S /\ With(r, "active") = With(q, "active")
  BY <1>2 DEF With
<1>4. \A g : Active(r, g) = Active(q, g) /\ Queued(r, g) = Queued(q, g) \ S
  BY <1>3 DEF Active, Queued
<1>5. \A g : Of(S, g) \subseteq Unfinished(q, g)
  BY DEF Of, Unfinished, Queued
<1>6. \A g : Unfinished(r, g) = Unfinished(q, g) \ Of(S, g)
  BY <1>4 DEF Unfinished, Of, Queued, Active, With
<1> QED  BY <1>3, <1>4, <1>5, <1>6 DEF r

\* A part of a finite set is taken away.
LEMMA TakeAway ==
  ASSUME NEW S \in SUBSET Tasks, NEW T \in SUBSET S
  PROVE  Cardinality(S \ T) = Cardinality(S) - Cardinality(T)
<1>1. /\ IsFiniteSet(S \ T) /\ IsFiniteSet(T)
      /\ Cardinality(S) \in Nat /\ Cardinality(T) \in Nat /\ Cardinality(S \ T) \in Nat
  BY FilesAreFinite
<1>2. (S \ T) \cup T = S /\ (S \ T) \cap T = {}
  OBVIOUS
<1>3. Cardinality(S) = Cardinality(S \ T) + Cardinality(T) - Cardinality({})
  BY <1>1, <1>2, FS_Union
<1>4. Cardinality({}) = 0
  BY FS_EmptySet
<1> QED  BY <1>1, <1>3, <1>4

\* Settling queued files keeps the fields sound: what leaves the queue is counted.
LEMMA SettleSound ==
  ASSUME NEW q, Sound(q), NEW S \in SUBSET With(q, "pending")
  PROVE  Sound(SettleQueued(q, S))
<1> DEFINE r == SettleQueued(q, S)
<1>1. q \in QueueType /\ Owned(q) /\ Moving(q) /\ Stopped(q) /\ (\A g \in Groups : Covered(q, g)) /\ Ordered(q)
  BY DEF Sound
<1>2. S \in SUBSET Tasks
  BY SetsOfFiles
<1>3. /\ r \in QueueType
      /\ r.status = [t \in Tasks |-> IF t \in S THEN "cancelled" ELSE q.status[t]]
      /\ r.ahead = Leave(q.ahead, S)
      /\ \A g \in Groups :
           /\ r.groups[g].exists = q.groups[g].exists
           /\ r.groups[g].expected = q.groups[g].expected
           /\ r.groups[g].override = q.groups[g].override
           /\ q.groups[g].exists => SettledCount(r, g) = SettledCount(q, g) + Cardinality(Of(S, g))
      /\ r.aborted = q.aborted
  BY <1>1, <1>2, SettleFields
<1>4. /\ With(r, "pending") = With(q, "pending") \ S /\ With(r, "active") = With(q, "active")
      /\ \A g : /\ Active(r, g) = Active(q, g) /\ Queued(r, g) = Queued(q, g) \ S
                /\ Unfinished(r, g) = Unfinished(q, g) \ Of(S, g)
                /\ Of(S, g) \subseteq Unfinished(q, g)
  BY <1>1, SettledFiles
<1> HIDE DEF r
<1>5. Owned(r)
  BY <1>1, <1>3, Parameters DEF Owned
<1>6. Moving(r) /\ Stopped(r)
  BY <1>1, <1>3, <1>4 DEF Moving, Stopped
<1>7. ASSUME NEW g \in Groups
      PROVE  Covered(r, g)
  <2>1. Unfinished(q, g) \in SUBSET Tasks
    BY SetsOfFiles
  <2>2. Cardinality(Unfinished(r, g)) = Cardinality(Unfinished(q, g)) - Cardinality(Of(S, g))
    BY <2>1, <1>4, TakeAway
  <2>3. Cardinality(Unfinished(q, g)) \in Nat /\ Cardinality(Of(S, g)) \in Nat
    BY <2>1, <1>4, FilesAreFinite
  <2>4. SettledCount(q, g) \in Nat /\ q.groups[g].expected \in Nat
    BY <1>1, RecordTypes
  <2> QED  BY <1>1, <1>3, <2>2, <2>3, <2>4 DEF Covered
<1>8. Ordered(r)
  <2>1. LET Q == With(q, "pending") \ S
        IN  Leave(q.ahead, S) \subseteq Q \X Q /\ IsOrder(Leave(q.ahead, S), Q)
    BY <1>1, LeaveOrdered
  <2> QED  BY <1>3, <1>4, <2>1 DEF Ordered
<1> QED  BY <1>3, <1>5, <1>6, <1>7, <1>8 DEF Sound, r
-----------------------------------------------------------------------------
(* Groups that are closed                                                   *)

\* Running files are told to stop.
LEMMA AbortFields ==
  ASSUME NEW q, Sound(q), NEW S \in SUBSET Tasks
  PROVE  LET r == Abort(q, S)
         IN  /\ Sound(r) /\ r.status = q.status /\ r.ahead = q.ahead /\ r.groups = q.groups
             /\ r.aborted = q.aborted \cup S
<1>1. q \in QueueType
  BY DEF Sound
<1>2. q.aborted \cup S \in SUBSET Tasks
  BY <1>1, FieldTypes
<1> DEFINE ab == q.aborted \cup S
           r == [q EXCEPT !.aborted = ab]
<1>3. Abort(q, S) = r
  BY DEF Abort
<1> HIDE DEF ab
<1>4. /\ r \in QueueType /\ r.status = q.status /\ r.ahead = q.ahead /\ r.groups = q.groups
      /\ r.aborted = ab
  BY <1>1, <1>2 DEF QueueType, ab
<1> HIDE DEF r
<1>5. Sound(r)
  BY <1>4, SameParts DEF ab
<1> QED  BY <1>3, <1>4, <1>5 DEF ab

\* The override of a record is set.
LEMMA OverrideRow ==
  ASSUME NEW row \in GroupType, NEW v \in {"none", "pausing", "paused", "cancelling", "cancelled"}
  PROVE  LET new == [row EXCEPT !.override = v]
         IN  /\ new \in GroupType /\ new.override = v /\ new.exists = row.exists
             /\ new.expected = row.expected /\ new.completed = row.completed
             /\ new.failed = row.failed /\ new.cancelled = row.cancelled
  BY StatusSets DEF GroupType

\* Groups whose records differ in their overrides only.
LEMMA OverridesSound ==
  ASSUME NEW q, Sound(q), NEW r \in QueueType,
         r.status = q.status, r.ahead = q.ahead, r.aborted = q.aborted,
         \A g \in Groups : /\ r.groups[g].exists = q.groups[g].exists
                           /\ r.groups[g].expected = q.groups[g].expected
                           /\ r.groups[g].completed = q.groups[g].completed
                           /\ r.groups[g].failed = q.groups[g].failed
                           /\ r.groups[g].cancelled = q.groups[g].cancelled,
         \A g \in Groups :
           \/ r.groups[g].override = q.groups[g].override
           \/ r.groups[g].override \in {"none", "paused"}
           \/ r.groups[g].override = "pausing" /\ Active(q, g) # {}
           \/ r.groups[g].override = "cancelled" /\ Unfinished(q, g) = {}
           \/ /\ r.groups[g].override = "cancelling" /\ Queued(q, g) = {}
              /\ Active(q, g) # {} /\ Active(q, g) \subseteq q.aborted
  PROVE  Sound(r)
<1>1. /\ \A st : With(r, st) = With(q, st)
      /\ \A g : /\ Active(r, g) = Active(q, g) /\ Queued(r, g) = Queued(q, g)
                /\ Unfinished(r, g) = Unfinished(q, g)
  BY SameFiles
<1>2. Owned(r)
  BY Parameters DEF Sound, Owned
<1>3. Moving(r) /\ Stopped(r)
  BY <1>1 DEF Sound, Moving, Stopped
<1>4. (\A g \in Groups : Covered(r, g)) /\ Ordered(r)
  BY <1>1 DEF Sound, Covered, SettledCount, Ordered
<1> QED  BY <1>2, <1>3, <1>4 DEF Sound

\* Groups are stopped: their queued files are settled, their running files told to stop.
LEMMA CloseSound ==
  ASSUME NEW q, Sound(q), NEW G \in SUBSET Groups, NEW r \in Close(q, G)
  PROVE  LET S == UNION {Queued(q, g) : g \in G}
         IN  /\ Sound(r) /\ S \in SUBSET With(q, "pending")
             /\ r.status = SettleQueued(q, S).status /\ r.ahead = SettleQueued(q, S).ahead
<1> DEFINE S == UNION {Queued(q, g) : g \in G}
           A == UNION {Active(q, g) : g \in G}
           s == SettleQueued(q, S)
           a == Abort(s, A)
           row(g) == IF g \notin G THEN a.groups[g]
                     ELSE IF Active(q, g) = {} THEN [a.groups[g] EXCEPT !.override = "cancelled"]
                     ELSE [a.groups[g] EXCEPT !.override = "cancelling"]
           gr == [g \in Groups |-> row(g)]
           b == [a EXCEPT !.groups = gr]
<1>1. r \in Pushed(b, S, G)
  BY DEF Close
<1>2. q \in QueueType /\ S \in SUBSET With(q, "pending") /\ S \in SUBSET Tasks /\ A \in SUBSET Tasks
  BY DEF Sound, Queued, Active, With
<1>3. \A g \in G : Queued(q, g) \subseteq S /\ Active(q, g) \subseteq A
  OBVIOUS
<1> HIDE DEF S, A
<1>4. Sound(s) /\ s \in QueueType
  BY <1>2, SettleSound DEF Sound
<1>5. \A g : /\ Active(s, g) = Active(q, g) /\ Queued(s, g) = Queued(q, g) \ S
  BY <1>2, SettledFiles
<1> HIDE DEF s
<1>6. /\ Sound(a) /\ a \in QueueType /\ a.status = s.status /\ a.ahead = s.ahead
      /\ a.groups = s.groups /\ a.aborted = s.aborted \cup A
  BY <1>2, <1>4, AbortFields DEF Sound
<1> HIDE DEF a
<1>7. \A g : Active(a, g) = Active(q, g) /\ Queued(a, g) = Queued(q, g) \ S
  BY <1>5, <1>6, SameFiles
<1>8. \A g \in Groups : a.groups[g] \in GroupType
  BY <1>6, FieldTypes
<1>9. ASSUME NEW g \in Groups
      PROVE  /\ row(g) \in GroupType /\ row(g).exists = a.groups[g].exists
             /\ row(g).expected = a.groups[g].expected /\ row(g).completed = a.groups[g].completed
             /\ row(g).failed = a.groups[g].failed /\ row(g).cancelled = a.groups[g].cancelled
             /\ \/ row(g).override = a.groups[g].override
                \/ g \in G /\ Active(q, g) = {} /\ row(g).override = "cancelled"
                \/ g \in G /\ Active(q, g) # {} /\ row(g).override = "cancelling"
  BY <1>8, OverrideRow
<1>10. gr \in [Groups -> GroupType] /\ \A g \in Groups : gr[g] = row(g)
  BY <1>9
<1> HIDE DEF gr
<1>11. /\ b \in QueueType /\ b.status = a.status /\ b.ahead = a.ahead /\ b.aborted = a.aborted
       /\ b.groups = gr
  BY <1>6, <1>10 DEF QueueType
<1> HIDE DEF b
<1>12. \A g \in Groups : b.groups[g] = row(g)
  BY <1>10, <1>11
<1> HIDE DEF row
<1>13. \A g \in G : Queued(a, g) = {} /\ Active(a, g) \subseteq a.aborted
  BY <1>3, <1>6, <1>7
<1>14. Sound(b)
  <2>1. \A g \in Groups : /\ b.groups[g].exists = a.groups[g].exists
                          /\ b.groups[g].expected = a.groups[g].expected
                          /\ b.groups[g].completed = a.groups[g].completed
                          /\ b.groups[g].failed = a.groups[g].failed
                          /\ b.groups[g].cancelled = a.groups[g].cancelled
    BY <1>9, <1>12
  <2>2. \A g \in Groups :
          \/ b.groups[g].override = a.groups[g].override
          \/ b.groups[g].override = "cancelled" /\ Unfinished(a, g) = {}
          \/ /\ b.groups[g].override = "cancelling" /\ Queued(a, g) = {}
             /\ Active(a, g) # {} /\ Active(a, g) \subseteq a.aborted
    BY <1>7, <1>9, <1>12, <1>13 DEF Unfinished
  <2> QED  BY <1>6, <1>11, <2>1, <2>2, OverridesSound
<1>15. Sound(r) /\ r.status = b.status /\ r.ahead = b.ahead
  BY <1>1, <1>2, <1>14, PushedSound
<1> QED  BY <1>2, <1>6, <1>11, <1>15 DEF S, s
-----------------------------------------------------------------------------
(* Files that are queued, and files that are started                        *)

\* What is appended to an ordered queue leaves it ordered.
LEMMA AppendOrdered ==
  ASSUME NEW P, NEW S, P \cap S = {}, NEW o, NEW n,
         o \subseteq P \X P, IsOrder(o, P), n \subseteq S \X S, IsOrder(n, S)
  PROVE  LET all == o \cup (P \X S) \cup n
         IN  all \subseteq (P \cup S) \X (P \cup S) /\ IsOrder(all, P \cup S)
<1> DEFINE all == o \cup (P \X S) \cup n
<1>1. all \subseteq (P \cup S) \X (P \cup S)
  OBVIOUS
<1>2. \A t, u : << t, u >> \in all <=> \/ t \in P /\ u \in P /\ << t, u >> \in o
                                       \/ t \in P /\ u \in S
                                       \/ t \in S /\ u \in S /\ << t, u >> \in n
  OBVIOUS
<1> HIDE DEF all
<1>3. \A t, u \in P \cup S : t # u => (<< t, u >> \in all <=> << u, t >> \notin all)
  BY <1>2 DEF IsOrder
<1>4. \A t \in P \cup S : << t, t >> \notin all
  BY <1>2 DEF IsOrder
<1>5. \A t, u, v \in P \cup S : << t, u >> \in all /\ << u, v >> \in all => << t, v >> \in all
  BY <1>2 DEF IsOrder
<1>6. IsOrder(all, P \cup S)
  BY <1>3, <1>4, <1>5 DEF IsOrder
<1> QED  BY <1>1, <1>6 DEF all

\* What queueing files changes: their statuses, the queue, the totals and a stale pause.
LEMMA EnqueueFields ==
  ASSUME NEW q \in QueueType, NEW S \in SUBSET Tasks, NEW o \in SUBSET (S \X S)
  PROVE  LET r == Enqueue(q, S, o)
         IN  /\ r \in QueueType
             /\ r.status = [t \in Tasks |-> IF t \in S THEN "pending" ELSE q.status[t]]
             /\ r.ahead = q.ahead \cup (With(q, "pending") \X S) \cup o
             /\ r.aborted = q.aborted
             /\ \A g \in Groups :
                  /\ r.groups[g].exists = q.groups[g].exists
                  /\ SettledCount(r, g) = SettledCount(q, g)
                  /\ \/ r.groups[g].override = q.groups[g].override
                     \/ r.groups[g].override = "paused"
                  /\ r.groups[g].expected >= q.groups[g].expected
                  /\ Of(S, g) # {} =>
                       r.groups[g].expected
                         >= Cardinality(Unfinished(q, g)) + SettledCount(q, g) + Cardinality(Of(S, g))
<1> DEFINE st == [t \in Tasks |-> IF t \in S THEN "pending" ELSE q.status[t]]
           ah == q.ahead \cup (With(q, "pending") \X S) \cup o
           need(g) == Cardinality(Unfinished(q, g)) + SettledCount(q, g) + Cardinality(Of(S, g))
           ov(g) == IF q.groups[g].override = "pausing" /\ Active(q, g) = {} THEN "paused"
                    ELSE q.groups[g].override
           row(g) == IF Cardinality(Of(S, g)) = 0 THEN q.groups[g]
                     ELSE [q.groups[g] EXCEPT !.expected = Larger(q.groups[g].expected, need(g)),
                                              !.override = ov(g)]
           gr == [g \in Groups |-> row(g)]
           r == [q EXCEPT !.status = st, !.ahead = ah, !.groups = gr]
<1>1. Enqueue(q, S, o) = r
  BY DEF Enqueue, Of
<1>2. st \in [Tasks -> FileStatus] /\ ah \subseteq Tasks \X Tasks
  <2>1. With(q, "pending") \subseteq Tasks
    BY DEF With
  <2> QED  BY <2>1, FieldTypes, StatusSets
<1>3. ASSUME NEW g \in Groups
      PROVE  /\ row(g) \in GroupType /\ row(g).exists = q.groups[g].exists
             /\ row(g).completed = q.groups[g].completed /\ row(g).failed = q.groups[g].failed
             /\ row(g).cancelled = q.groups[g].cancelled
             /\ row(g).override = q.groups[g].override \/ row(g).override = "paused"
             /\ row(g).expected >= q.groups[g].expected
             /\ Of(S, g) # {} => row(g).expected >= need(g)
  <2>1. Of(S, g) \in SUBSET Tasks
    BY DEF Of
  <2>2. Cardinality(Of(S, g)) \in Nat /\ (Cardinality(Of(S, g)) = 0 <=> Of(S, g) = {})
    BY <2>1, FilesAreFinite, FS_EmptySet
  <2>3. need(g) \in Nat /\ q.groups[g].expected \in Nat
    BY <2>2, SetsOfFiles, RecordTypes
  <2>4. /\ Larger(q.groups[g].expected, need(g)) \in Nat
        /\ Larger(q.groups[g].expected, need(g)) >= q.groups[g].expected
        /\ Larger(q.groups[g].expected, need(g)) >= need(g)
    BY <2>3 DEF Larger
  <2>5. /\ q.groups[g] \in GroupType /\ ov(g) \in {"none"} \cup Held \cup Closed
        /\ ov(g) = q.groups[g].override \/ ov(g) = "paused"
    BY RecordTypes, StatusSets
  <2> HIDE DEF ov, need
  <2>6. \A n \in Nat, v \in {"none"} \cup Held \cup Closed :
          LET new == [q.groups[g] EXCEPT !.expected = n, !.override = v]
          IN  /\ new \in GroupType /\ new.exists = q.groups[g].exists
              /\ new.completed = q.groups[g].completed /\ new.failed = q.groups[g].failed
              /\ new.cancelled = q.groups[g].cancelled /\ new.override = v /\ new.expected = n
    BY <2>5 DEF GroupType
  <2>7. CASE Of(S, g) = {}
    <3>1. row(g) = q.groups[g]
      BY <2>2, <2>7
    <3> HIDE DEF row
    <3> QED  BY <2>3, <2>5, <2>7, <3>1
  <2>8. CASE Of(S, g) # {}
    <3>1. row(g) = [q.groups[g] EXCEPT !.expected = Larger(q.groups[g].expected, need(g)), !.override = ov(g)]
      BY <2>2, <2>8
    <3> DEFINE n == Larger(q.groups[g].expected, need(g))
               new == [q.groups[g] EXCEPT !.expected = n, !.override = ov(g)]
    <3>2. n \in Nat /\ n >= q.groups[g].expected /\ n >= need(g)
      BY <2>4
    <3>3. row(g) = new
      BY <3>1
    <3> HIDE DEF row, n
    <3>4. /\ new \in GroupType /\ new.exists = q.groups[g].exists
          /\ new.completed = q.groups[g].completed /\ new.failed = q.groups[g].failed
          /\ new.cancelled = q.groups[g].cancelled /\ new.override = ov(g) /\ new.expected = n
      BY <2>5, <2>6, <3>2
    <3> HIDE DEF new
    <3> QED  BY <2>5, <3>2, <3>3, <3>4
  <2> QED  BY <2>7, <2>8
<1> HIDE DEF row
<1>4. gr \in [Groups -> GroupType] /\ \A g \in Groups : gr[g] = row(g)
  BY <1>3
<1> HIDE DEF st, ah, gr
<1>5. /\ r \in QueueType /\ r.status = st /\ r.ahead = ah /\ r.groups = gr /\ r.aborted = q.aborted
  BY <1>2, <1>4 DEF QueueType
<1> HIDE DEF r
<1>6. \A g \in Groups : r.groups[g] = row(g)
  BY <1>4, <1>5
<1>7. \A g \in Groups : SettledCount(r, g) = SettledCount(q, g)
  BY <1>3, <1>6 DEF SettledCount
<1> QED  BY <1>1, <1>3, <1>5, <1>6, <1>7 DEF st, ah

\* Files are added to groups that are not closed.
LEMMA EnqueueSound ==
  ASSUME NEW q, Sound(q), NEW S \in SUBSET Tasks, NEW o \in SUBSET (S \X S), IsOrder(o, S),
         \A t \in S : /\ q.status[t] \notin {"pending", "active"}
                      /\ q.groups[GroupOf[t]].exists /\ q.groups[GroupOf[t]].override \notin Closed
  PROVE  Sound(Enqueue(q, S, o))
<1> DEFINE r == Enqueue(q, S, o)
<1>1. q \in QueueType /\ Owned(q) /\ Moving(q) /\ Stopped(q) /\ (\A g \in Groups : Covered(q, g)) /\ Ordered(q)
  BY DEF Sound
<1>2. /\ r \in QueueType
      /\ r.status = [t \in Tasks |-> IF t \in S THEN "pending" ELSE q.status[t]]
      /\ r.ahead = q.ahead \cup (With(q, "pending") \X S) \cup o
      /\ r.aborted = q.aborted
      /\ \A g \in Groups :
           /\ r.groups[g].exists = q.groups[g].exists
           /\ SettledCount(r, g) = SettledCount(q, g)
           /\ \/ r.groups[g].override = q.groups[g].override
              \/ r.groups[g].override = "paused"
           /\ r.groups[g].expected >= q.groups[g].expected
           /\ Of(S, g) # {} =>
                r.groups[g].expected
                  >= Cardinality(Unfinished(q, g)) + SettledCount(q, g) + Cardinality(Of(S, g))
  BY <1>1, EnqueueFields
<1> HIDE DEF r
<1>3. /\ With(r, "pending") = With(q, "pending") \cup S /\ With(r, "active") = With(q, "active")
      /\ With(q, "pending") \cap S = {}
  BY <1>2 DEF With
<1>4. \A g : /\ Active(r, g) = Active(q, g) /\ Queued(r, g) = Queued(q, g) \cup Of(S, g)
             /\ Unfinished(r, g) = Unfinished(q, g) \cup Of(S, g)
             /\ Unfinished(q, g) \cap Of(S, g) = {}
  <2>1. \A g : Active(r, g) = Active(q, g) /\ Queued(r, g) = Queued(q, g) \cup Of(S, g)
    BY <1>3 DEF Active, Queued, Of
  <2>2. \A g : Unfinished(q, g) \cap Of(S, g) = {}
    BY DEF Unfinished, Active, Queued, With, Of
  <2> QED  BY <2>1, <2>2 DEF Unfinished
<1>5. Owned(r)
  BY <1>1, <1>2, Parameters DEF Owned
<1>6. Moving(r)
  BY <1>1, <1>2, <1>4 DEF Moving
<1>7. Stopped(r)
  <2>1. \A g \in Groups : q.groups[g].override \in Closed => Of(S, g) = {}
    BY DEF Of
  <2> QED  BY <1>1, <1>2, <1>4, <2>1, StatusSets DEF Stopped
<1>8. ASSUME NEW g \in Groups
      PROVE  Covered(r, g)
  <2>1. Unfinished(q, g) \in SUBSET Tasks /\ Of(S, g) \in SUBSET Tasks
    BY SetsOfFiles DEF Of
  <2>2. /\ IsFiniteSet(Unfinished(q, g)) /\ IsFiniteSet(Of(S, g))
        /\ Cardinality(Unfinished(q, g)) \in Nat /\ Cardinality(Of(S, g)) \in Nat
    BY <2>1, FilesAreFinite
  <2>3. Cardinality(Unfinished(r, g)) = Cardinality(Unfinished(q, g)) + Cardinality(Of(S, g)) - Cardinality({})
    BY <1>4, <2>2, FS_Union
  <2>4. Cardinality({}) = 0
    BY FS_EmptySet
  <2>5. SettledCount(q, g) \in Nat /\ q.groups[g].expected \in Nat /\ r.groups[g].expected \in Nat
    BY <1>1, <1>2, RecordTypes
  <2>6. CASE Of(S, g) = {}
    BY <1>1, <1>2, <2>2, <2>3, <2>4, <2>5, <2>6 DEF Covered
  <2>7. CASE Of(S, g) # {}
    BY <1>2, <2>2, <2>3, <2>4, <2>5, <2>7 DEF Covered
  <2> QED  BY <2>6, <2>7
<1>9. Ordered(r)
  <2> DEFINE P == With(q, "pending")
             all == q.ahead \cup (P \X S) \cup o
  <2>1. all \subseteq (P \cup S) \X (P \cup S) /\ IsOrder(all, P \cup S)
    BY <1>1, <1>3, AppendOrdered DEF Ordered
  <2> QED  BY <1>2, <1>3, <2>1 DEF Ordered
<1> QED  BY <1>2, <1>5, <1>6, <1>7, <1>8, <1>9 DEF Sound, r

Started(q) == FirstFew(Runnable(q), q.ahead, FreeSlots(q))
AfterStart(q) ==
    [q EXCEPT !.status = [t \in Tasks |-> IF t \in Started(q) THEN "active" ELSE q.status[t]],
              !.ahead = Leave(q.ahead, Started(q))]

\* What processNext changes: the statuses of the started files, and the queue.
LEMMA StartFields ==
  ASSUME NEW q \in QueueType
  PROVE  LET r == AfterStart(q)
         IN  /\ r \in QueueType
             /\ r.status = [t \in Tasks |-> IF t \in Started(q) THEN "active" ELSE q.status[t]]
             /\ r.ahead = Leave(q.ahead, Started(q))
             /\ r.aborted = q.aborted /\ r.groups = q.groups /\ r.userPaused = q.userPaused
             /\ r.scopePaused = q.scopePaused /\ r.blockers = q.blockers
             /\ r.maxConcurrent = q.maxConcurrent
<1> DEFINE st == [t \in Tasks |-> IF t \in Started(q) THEN "active" ELSE q.status[t]]
           ah == Leave(q.ahead, Started(q))
           r == [q EXCEPT !.status = st, !.ahead = ah]
<1>1. st \in [Tasks -> FileStatus] /\ ah \subseteq Tasks \X Tasks
  BY FieldTypes, StatusSets DEF Leave
<1>2. AfterStart(q) = r
  BY DEF AfterStart
<1> HIDE DEF st, ah
<1>3. /\ r \in QueueType /\ r.status = st /\ r.ahead = ah /\ r.aborted = q.aborted /\ r.groups = q.groups
      /\ r.userPaused = q.userPaused /\ r.scopePaused = q.scopePaused /\ r.blockers = q.blockers
      /\ r.maxConcurrent = q.maxConcurrent
  BY <1>1 DEF QueueType
<1> QED  BY <1>2, <1>3 DEF st, ah

\* What is started, and the sets of files after it.
LEMMA StartedFiles ==
  ASSUME NEW q, Sound(q)
  PROVE  LET r == AfterStart(q)
         IN  /\ Started(q) \subseteq Runnable(q) /\ Started(q) \in SUBSET With(q, "pending")
             /\ With(r, "pending") = With(q, "pending") \ Started(q)
             /\ With(r, "active") = With(q, "active") \cup Started(q)
             /\ With(q, "active") \cap Started(q) = {}
             /\ \A g : /\ Active(q, g) \subseteq Active(r, g) /\ Queued(r, g) \subseteq Queued(q, g)
                       /\ Unfinished(r, g) = Unfinished(q, g)
                       /\ q.groups[g].override # "none" => Active(r, g) = Active(q, g)
<1> DEFINE r == AfterStart(q)
<1>1. q \in QueueType
  BY DEF Sound
<1>2. Started(q) \subseteq Runnable(q) /\ Started(q) \in SUBSET With(q, "pending")
  BY SetsOfFiles DEF Started, FirstFew
<1>3. r.status = [t \in Tasks |-> IF t \in Started(q) THEN "active" ELSE q.status[t]]
  BY <1>1, StartFields
<1> HIDE DEF r
<1>4. /\ With(r, "pending") = With(q, "pending") \ Started(q)
      /\ With(r, "active") = With(q, "active") \cup Started(q)
      /\ With(q, "active") \cap Started(q) = {}
  BY <1>2, <1>3 DEF With
<1>5. \A t \in Started(q) : q.groups[GroupOf[t]].override = "none"
  BY <1>2 DEF Runnable
<1>6. \A g : /\ Active(q, g) \subseteq Active(r, g) /\ Queued(r, g) \subseteq Queued(q, g)
             /\ q.groups[g].override # "none" => Active(r, g) = Active(q, g)
  BY <1>4, <1>5 DEF Active, Queued
<1>7. \A g : Unfinished(r, g) = Unfinished(q, g)
  BY <1>2, <1>4 DEF Unfinished, Active, Queued
<1> QED  BY <1>2, <1>4, <1>6, <1>7 DEF r

\* The part of an order is an order.
LEMMA PartOrdered ==
  ASSUME NEW o, NEW S, IsOrder(o, S), NEW T \in SUBSET S
  PROVE  IsOrder(o, T)
  BY DEF IsOrder

\* processNext starts no more files than there are slots, and all runnable files or as many.
LEMMA StartedOrder ==
  ASSUME NEW q, Sound(q)
  PROVE  /\ FreeSlots(q) \in Nat /\ IsOrder(q.ahead, Runnable(q)) /\ Runnable(q) \in SUBSET Tasks
         /\ Cardinality(Started(q)) <= FreeSlots(q) /\ Cardinality(Started(q)) \in Nat
         /\ Started(q) # Runnable(q) => Cardinality(Started(q)) >= FreeSlots(q)
<1>1. q \in QueueType /\ Ordered(q)
  BY DEF Sound
<1>2. q.maxConcurrent \in Nat /\ Cardinality(With(q, "active")) \in Nat
  BY <1>1, FieldTypes, SetsOfFiles
<1>3. FreeSlots(q) \in Nat
  BY <1>2 DEF FreeSlots
<1>4. Runnable(q) \in SUBSET With(q, "pending") /\ Runnable(q) \in SUBSET Tasks
  BY SetsOfFiles
<1>5. IsOrder(q.ahead, Runnable(q))
  BY <1>1, <1>4, PartOrdered DEF Ordered
<1>6. Cardinality(Started(q)) <= FreeSlots(q)
  BY <1>3, <1>4, <1>5, FirstFewFit DEF Started
<1>7. Started(q) # Runnable(q) => Cardinality(Started(q)) >= FreeSlots(q)
  BY <1>3, <1>4, <1>5, FirstFewFill DEF Started
<1>8. Cardinality(Started(q)) \in Nat
  BY <1>4, FilesAreFinite DEF Started, FirstFew
<1> QED  BY <1>3, <1>4, <1>5, <1>6, <1>7, <1>8

\* processNext: the fields stay sound, and no slot is free beside a runnable file.
LEMMA StartRests ==
  ASSUME NEW q, Sound(q)
  PROVE  Rested(AfterStart(q))
<1> DEFINE r == AfterStart(q)
<1>1. q \in QueueType /\ Owned(q) /\ Moving(q) /\ Stopped(q) /\ (\A g \in Groups : Covered(q, g)) /\ Ordered(q)
  BY DEF Sound
<1>2. /\ r \in QueueType
      /\ r.status = [t \in Tasks |-> IF t \in Started(q) THEN "active" ELSE q.status[t]]
      /\ r.ahead = Leave(q.ahead, Started(q))
      /\ r.aborted = q.aborted /\ r.groups = q.groups /\ r.userPaused = q.userPaused
      /\ r.scopePaused = q.scopePaused /\ r.blockers = q.blockers
      /\ r.maxConcurrent = q.maxConcurrent
  BY <1>1, StartFields
<1>3. /\ Started(q) \subseteq Runnable(q) /\ Started(q) \in SUBSET With(q, "pending")
      /\ With(r, "pending") = With(q, "pending") \ Started(q)
      /\ With(r, "active") = With(q, "active") \cup Started(q)
      /\ With(q, "active") \cap Started(q) = {}
      /\ \A g : /\ Active(q, g) \subseteq Active(r, g) /\ Queued(r, g) \subseteq Queued(q, g)
                /\ Unfinished(r, g) = Unfinished(q, g)
                /\ q.groups[g].override # "none" => Active(r, g) = Active(q, g)
  BY StartedFiles
<1> HIDE DEF r
<1>4. Owned(r)
  <2>1. \A t \in Started(q) : q.status[t] = "pending"
    BY <1>3 DEF With
  <2> QED  BY <1>1, <1>2, <2>1 DEF Owned
<1>5. Moving(r) /\ Stopped(r)
  BY <1>1, <1>2, <1>3 DEF Moving, Stopped
<1>6. \A g \in Groups : Covered(r, g)
  BY <1>1, <1>2, <1>3 DEF Covered, SettledCount
<1>7. Ordered(r)
  <2>1. LET Q == With(q, "pending") \ Started(q)
        IN  Leave(q.ahead, Started(q)) \subseteq Q \X Q /\ IsOrder(Leave(q.ahead, Started(q)), Q)
    BY <1>1, LeaveOrdered
  <2> QED  BY <1>2, <1>3, <2>1 DEF Ordered
<1>8. Runnable(r) = Runnable(q) \ Started(q)
  <2>1. (GloballyPaused(r) <=> GloballyPaused(q)) /\ \A g : ScopePaused(r, g) <=> ScopePaused(q, g)
    BY <1>2 DEF GloballyPaused, ScopePaused
  <2>2. CASE GloballyPaused(q)
    <3>1. Runnable(q) = {} /\ Runnable(r) = {}
      BY <2>1, <2>2 DEF Runnable
    <3> QED  BY <3>1
  <2>3. CASE ~GloballyPaused(q)
    <3>1. \A t : t \in Runnable(r) <=> /\ t \in With(r, "pending") /\ r.groups[GroupOf[t]].exists
                                      /\ ~ScopePaused(r, GroupOf[t])
                                      /\ r.groups[GroupOf[t]].override = "none"
      BY <2>1, <2>3 DEF Runnable
    <3>2. \A t : t \in Runnable(q) <=> /\ t \in With(q, "pending") /\ q.groups[GroupOf[t]].exists
                                      /\ ~ScopePaused(q, GroupOf[t])
                                      /\ q.groups[GroupOf[t]].override = "none"
      BY <2>3 DEF Runnable
    <3> QED  BY <1>2, <1>3, <2>1, <3>1, <3>2
  <2> QED  BY <2>2, <2>3
<1>9. ASSUME Started(q) = Runnable(q)
      PROVE  NoneIdle(r)
  BY <1>8, <1>9 DEF NoneIdle
<1>10. ASSUME Started(q) # Runnable(q)
       PROVE  NoneIdle(r)
  <2>1. Cardinality(Started(q)) >= FreeSlots(q) /\ Cardinality(Started(q)) \in Nat
    BY <1>10, StartedOrder
  <2>2. Cardinality(With(r, "active")) = Cardinality(With(q, "active")) + Cardinality(Started(q))
    <3>1. With(q, "active") \in SUBSET Tasks /\ Started(q) \in SUBSET Tasks
      BY <1>3, SetsOfFiles
    <3>2. /\ IsFiniteSet(With(q, "active")) /\ IsFiniteSet(Started(q))
          /\ Cardinality(With(q, "active")) \in Nat
      BY <3>1, FilesAreFinite
    <3>3. Cardinality(With(r, "active"))
            = Cardinality(With(q, "active")) + Cardinality(Started(q)) - Cardinality({})
      BY <1>3, <3>2, FS_Union
    <3>4. Cardinality({}) = 0
      BY FS_EmptySet
    <3> QED  BY <2>1, <3>2, <3>3, <3>4
  <2>3. q.maxConcurrent \in Nat /\ Cardinality(With(q, "active")) \in Nat
    BY <1>1, FieldTypes, SetsOfFiles
  <2>4. Cardinality(With(r, "active")) >= q.maxConcurrent
    <3>1. CASE Cardinality(With(q, "active")) < q.maxConcurrent
      <4>1. FreeSlots(q) = q.maxConcurrent - Cardinality(With(q, "active"))
        BY <3>1 DEF FreeSlots
      <4> QED  BY <2>1, <2>2, <2>3, <4>1
    <3>2. CASE ~(Cardinality(With(q, "active")) < q.maxConcurrent)
      BY <2>1, <2>2, <2>3, <3>2
    <3> QED  BY <3>1, <3>2
  <2>5. Cardinality(With(r, "active")) \in Nat
    BY SetsOfFiles
  <2>6. ~(Cardinality(With(r, "active")) < r.maxConcurrent)
    BY <1>2, <2>3, <2>4, <2>5
  <2>7. FreeSlots(r) = 0
    BY <2>6 DEF FreeSlots
  <2> QED  BY <2>7 DEF NoneIdle
<1> QED  BY <1>2, <1>4, <1>5, <1>6, <1>7, <1>9, <1>10 DEF Rested, Sound, r

\* No more files run than may, if any was started.
LEMMA StartWithinLimit ==
  ASSUME NEW q, Sound(q)
  PROVE  \/ With(AfterStart(q), "active") = With(q, "active")
         \/ Cardinality(With(AfterStart(q), "active")) <= q.maxConcurrent
<1> DEFINE r == AfterStart(q)
<1>1. q \in QueueType
  BY DEF Sound
<1>2. /\ With(r, "active") = With(q, "active") \cup Started(q)
      /\ With(q, "active") \cap Started(q) = {} /\ Started(q) \in SUBSET With(q, "pending")
  BY StartedFiles
<1>3. /\ FreeSlots(q) \in Nat /\ Cardinality(Started(q)) <= FreeSlots(q) /\ Cardinality(Started(q)) \in Nat
  BY StartedOrder
<1>4. With(q, "active") \in SUBSET Tasks /\ Started(q) \in SUBSET Tasks
  BY <1>2, SetsOfFiles
<1>5. /\ IsFiniteSet(With(q, "active")) /\ IsFiniteSet(Started(q))
      /\ Cardinality(With(q, "active")) \in Nat
  BY <1>4, FilesAreFinite
<1>6. Cardinality(With(r, "active"))
        = Cardinality(With(q, "active")) + Cardinality(Started(q)) - Cardinality({})
  BY <1>2, <1>5, FS_Union
<1>7. Cardinality({}) = 0 /\ (Cardinality(Started(q)) = 0 <=> Started(q) = {})
  BY <1>5, FS_EmptySet
<1>8. q.maxConcurrent \in Nat
  BY <1>1, FieldTypes
<1>9. CASE FreeSlots(q) = 0
  <2>1. Started(q) = {}
    BY <1>3, <1>7, <1>9
  <2> QED  BY <1>2, <2>1
<1>10. CASE FreeSlots(q) # 0
  <2>1. FreeSlots(q) = q.maxConcurrent - Cardinality(With(q, "active"))
    BY <1>10 DEF FreeSlots
  <2> QED  BY <1>3, <1>5, <1>6, <1>7, <1>8, <2>1
<1> QED  BY <1>9, <1>10

\* Of two files of a group the one that is ahead is not left behind.
LEMMA StartInOrder ==
  ASSUME NEW q, Sound(q), NEW t \in Tasks, NEW u \in Started(q),
         GroupOf[t] = GroupOf[u], << t, u >> \in q.ahead
  PROVE  t \in Started(q)
<1>1. Ordered(q)
  BY DEF Sound
<1>2. t \in With(q, "pending") /\ u \in With(q, "pending") /\ u \in Runnable(q)
  BY <1>1, StartedFiles DEF Ordered
<1>3. t \in Runnable(q)
  BY <1>2 DEF Runnable
<1>4. IsOrder(q.ahead, Runnable(q)) /\ Runnable(q) \in SUBSET Tasks /\ FreeSlots(q) \in Nat
  BY StartedOrder
<1>5. Cardinality(Before(q.ahead, Runnable(q), t)) < Cardinality(Before(q.ahead, Runnable(q), u))
  BY <1>2, <1>3, <1>4, RanksGrow
<1>6. Cardinality(Before(q.ahead, Runnable(q), u)) < FreeSlots(q)
  BY DEF Started, FirstFew, Before
<1>7. /\ Cardinality(Before(q.ahead, Runnable(q), t)) \in Nat
      /\ Cardinality(Before(q.ahead, Runnable(q), u)) \in Nat
  <2>1. \A v : Before(q.ahead, Runnable(q), v) \in SUBSET Tasks
    BY <1>4 DEF Before
  <2> QED  BY <2>1, FilesAreFinite
<1>8. Cardinality(Before(q.ahead, Runnable(q), t)) < FreeSlots(q)
  BY <1>4, <1>5, <1>6, <1>7
<1> QED  BY <1>3, <1>8 DEF Started, FirstFew, Before
-----------------------------------------------------------------------------
(* What the calls do before files are started                               *)

\* The steps of a file, other than being started.
Step(a, b) ==
    \/ a = b
    \/ a = "new" /\ b \in {"pending", "dropped"}
    \/ a = "pending" /\ b = "cancelled"
    \/ a = "active" /\ b \in Settled
    \/ a = "failed" /\ b = "pending"

\* Files take such steps, and the files of a group that stay queued keep their order.
Evolves(p, q) ==
    /\ \A t \in Tasks : Step(p.status[t], q.status[t])
    /\ \A t, u \in Tasks :
         GroupOf[t] = GroupOf[u] /\ << t, u >> \in p.ahead
         /\ q.status[t] = "pending" /\ q.status[u] = "pending" => << t, u >> \in q.ahead

\* A call changes the fields in this way, and then starts what can be started
\* unless nothing can.
CallLeads ==
    \E q : /\ Sound(q) /\ Evolves(Here, q)
           /\ ProcessNext(q) \/ (Become(q) /\ NoneIdle(q))

\* A witness of CallLeads.
LEMMA Leads ==
  ASSUME NEW q, Sound(q), Evolves(Here, q), ProcessNext(q) \/ (Become(q) /\ NoneIdle(q))
  PROVE  CallLeads
  BY DEF CallLeads

\* Fields other than the statuses and the order.
LEMMA SameEvolves ==
  ASSUME NEW p, NEW q, q.status = p.status, q.ahead = p.ahead
  PROVE  Evolves(p, q)
  BY DEF Evolves, Step

\* The parts of the invariant.
LEMMA HereIsSound ==
  ASSUME QueueInv
  PROVE  /\ Sound(Here) /\ NoneIdle(Here) /\ Here \in QueueType
         /\ Owned(Here) /\ Moving(Here) /\ Stopped(Here) /\ (\A g \in Groups : Covered(Here, g))
         /\ Ordered(Here)
  BY InvOfHere DEF Rested, Sound

\* One field set, the others kept.
LEMMA SetUserPaused ==
  ASSUME NEW q \in QueueType, NEW v \in BOOLEAN
  PROVE  LET r == [q EXCEPT !.userPaused = v]
         IN  /\ r \in QueueType /\ r.userPaused = v /\ r.status = q.status /\ r.ahead = q.ahead
             /\ r.aborted = q.aborted /\ r.groups = q.groups /\ r.scopePaused = q.scopePaused
             /\ r.blockers = q.blockers /\ r.maxConcurrent = q.maxConcurrent
  BY DEF QueueType

\* The scopes that are paused are set, the other fields kept.
LEMMA SetScopePaused ==
  ASSUME NEW q \in QueueType, NEW v \in SUBSET Scopes
  PROVE  LET r == [q EXCEPT !.scopePaused = v]
         IN  /\ r \in QueueType /\ r.scopePaused = v /\ r.status = q.status /\ r.ahead = q.ahead
             /\ r.aborted = q.aborted /\ r.groups = q.groups /\ r.userPaused = q.userPaused
             /\ r.blockers = q.blockers /\ r.maxConcurrent = q.maxConcurrent
  BY DEF QueueType

\* The blockers are set, the other fields kept.
LEMMA SetBlockers ==
  ASSUME NEW q \in QueueType, NEW v \in SUBSET Blockers
  PROVE  LET r == [q EXCEPT !.blockers = v]
         IN  /\ r \in QueueType /\ r.blockers = v /\ r.status = q.status /\ r.ahead = q.ahead
             /\ r.aborted = q.aborted /\ r.groups = q.groups /\ r.userPaused = q.userPaused
             /\ r.scopePaused = q.scopePaused /\ r.maxConcurrent = q.maxConcurrent
  BY DEF QueueType

\* The limit is set, the other fields kept.
LEMMA SetMax ==
  ASSUME NEW q \in QueueType, NEW v \in 1..MaxLimit
  PROVE  LET r == [q EXCEPT !.maxConcurrent = v]
         IN  /\ r \in QueueType /\ r.status = q.status /\ r.ahead = q.ahead
             /\ r.aborted = q.aborted /\ r.groups = q.groups
  BY DEF QueueType

\* The group records are set, the other fields kept.
LEMMA SetGroups ==
  ASSUME NEW q \in QueueType, NEW v \in [Groups -> GroupType]
  PROVE  LET r == [q EXCEPT !.groups = v]
         IN  /\ r \in QueueType /\ r.groups = v /\ r.status = q.status /\ r.ahead = q.ahead
             /\ r.aborted = q.aborted /\ r.userPaused = q.userPaused /\ r.history = q.history
             /\ r.scopePaused = q.scopePaused /\ r.blockers = q.blockers
             /\ r.maxConcurrent = q.maxConcurrent
  BY DEF QueueType

\* The order of the queue is set, the other fields kept.
LEMMA SetAhead ==
  ASSUME NEW q \in QueueType, NEW v \in SUBSET (Tasks \X Tasks)
  PROVE  LET r == [q EXCEPT !.ahead = v]
         IN  /\ r \in QueueType /\ r.ahead = v /\ r.status = q.status /\ r.groups = q.groups
             /\ r.aborted = q.aborted
  BY DEF QueueType

\* Everything is paused.
LEMMA PauseAllLeads ==
  ASSUME QueueInv, PauseAll
  PROVE  CallLeads
<1> DEFINE r == [Here EXCEPT !.userPaused = TRUE]
<1>1. Become(r)
  BY DEF PauseAll
<1>2. /\ r \in QueueType /\ r.userPaused = TRUE /\ r.status = Here.status /\ r.ahead = Here.ahead
      /\ r.aborted = Here.aborted /\ r.groups = Here.groups
  BY HereIsSound, SetUserPaused
<1> HIDE DEF r
<1>3. Sound(r) /\ Evolves(Here, r)
  BY <1>2, HereIsSound, SameParts, SameEvolves
<1>4. NoneIdle(r)
  BY <1>2 DEF NoneIdle, Runnable, GloballyPaused
<1> QED  BY <1>1, <1>3, <1>4, Leads

\* The pause of everything is lifted.
LEMMA ResumeAllLeads ==
  ASSUME QueueInv, ResumeAll
  PROVE  CallLeads
<1> DEFINE r == [Here EXCEPT !.userPaused = FALSE]
<1>1. ProcessNext(r)
  BY DEF ResumeAll
<1>2. /\ r \in QueueType /\ r.status = Here.status /\ r.ahead = Here.ahead
      /\ r.aborted = Here.aborted /\ r.groups = Here.groups
  BY HereIsSound, SetUserPaused
<1> HIDE DEF r
<1>3. Sound(r) /\ Evolves(Here, r)
  BY <1>2, HereIsSound, SameParts, SameEvolves
<1> QED  BY <1>1, <1>3, Leads

\* A chat or a user is paused.
LEMMA PauseScopeLeads ==
  ASSUME QueueInv, NEW s \in Scopes, PauseScope(s)
  PROVE  CallLeads
<1> DEFINE v == Here.scopePaused \cup {s}
           r == [Here EXCEPT !.scopePaused = v]
<1>1. Become(r)
  BY DEF PauseScope
<1>2. v \in SUBSET Scopes
  BY HereIsSound, FieldTypes
<1>3. /\ r \in QueueType /\ r.scopePaused = v /\ r.status = Here.status /\ r.ahead = Here.ahead
      /\ r.aborted = Here.aborted /\ r.groups = Here.groups /\ r.userPaused = Here.userPaused
      /\ r.blockers = Here.blockers /\ r.maxConcurrent = Here.maxConcurrent
  BY <1>2, HereIsSound, SetScopePaused
<1> HIDE DEF r
<1>4. Sound(r) /\ Evolves(Here, r)
  BY <1>3, HereIsSound, SameParts, SameEvolves
<1>5. Runnable(r) \subseteq Runnable(Here) /\ FreeSlots(r) = FreeSlots(Here)
  <2>1. \A st : With(r, st) = With(Here, st)
    BY <1>3, SameFiles
  <2> QED  BY <1>3, <2>1 DEF Runnable, GloballyPaused, ScopePaused, FreeSlots
<1>6. NoneIdle(r)
  BY <1>5, HereIsSound DEF NoneIdle
<1> QED  BY <1>1, <1>4, <1>6, Leads

\* The pause of a chat or a user is lifted.
LEMMA ResumeScopeLeads ==
  ASSUME QueueInv, NEW s \in Scopes, ResumeScope(s)
  PROVE  CallLeads
<1> DEFINE v == Here.scopePaused \ {s}
           r == [Here EXCEPT !.scopePaused = v]
<1>1. ProcessNext(r)
  BY DEF ResumeScope
<1>2. v \in SUBSET Scopes
  BY HereIsSound, FieldTypes
<1>3. /\ r \in QueueType /\ r.status = Here.status /\ r.ahead = Here.ahead
      /\ r.aborted = Here.aborted /\ r.groups = Here.groups
  BY <1>2, HereIsSound, SetScopePaused
<1> HIDE DEF r
<1>4. Sound(r) /\ Evolves(Here, r)
  BY <1>3, HereIsSound, SameParts, SameEvolves
<1> QED  BY <1>1, <1>4, Leads

\* A blocker is acquired, for want of disk space.
LEMMA AcquireLeads ==
  ASSUME QueueInv, NEW b \in Blockers, AcquireBlocker(b)
  PROVE  CallLeads
<1> DEFINE v == Here.blockers \cup {b}
           r == [Here EXCEPT !.blockers = v]
<1>1. Become(r)
  BY DEF AcquireBlocker
<1>2. v \in SUBSET Blockers
  BY HereIsSound, FieldTypes
<1>3. /\ r \in QueueType /\ r.blockers = v /\ r.status = Here.status /\ r.ahead = Here.ahead
      /\ r.aborted = Here.aborted /\ r.groups = Here.groups
  BY <1>2, HereIsSound, SetBlockers
<1> HIDE DEF r
<1>4. Sound(r) /\ Evolves(Here, r)
  BY <1>3, HereIsSound, SameParts, SameEvolves
<1>5. NoneIdle(r)
  BY <1>3 DEF NoneIdle, Runnable, GloballyPaused
<1> QED  BY <1>1, <1>4, <1>5, Leads

\* A blocker is released.
LEMMA ReleaseLeads ==
  ASSUME QueueInv, NEW b \in Blockers, ReleaseBlocker(b)
  PROVE  CallLeads
<1> DEFINE v == Here.blockers \ {b}
           r == [Here EXCEPT !.blockers = v]
<1>1. ProcessNext(r)
  BY DEF ReleaseBlocker
<1>2. v \in SUBSET Blockers
  BY HereIsSound, FieldTypes
<1>3. /\ r \in QueueType /\ r.status = Here.status /\ r.ahead = Here.ahead
      /\ r.aborted = Here.aborted /\ r.groups = Here.groups
  BY <1>2, HereIsSound, SetBlockers
<1> HIDE DEF r
<1>4. Sound(r) /\ Evolves(Here, r)
  BY <1>3, HereIsSound, SameParts, SameEvolves
<1> QED  BY <1>1, <1>4, Leads

\* The number of files that may run is set.
LEMMA SetMaxLeads ==
  ASSUME QueueInv, NEW n \in 1..MaxLimit, SetMaxConcurrent(n)
  PROVE  CallLeads
<1> DEFINE r == [Here EXCEPT !.maxConcurrent = n]
<1>1. ProcessNext(r)
  BY DEF SetMaxConcurrent
<1>2. /\ r \in QueueType /\ r.status = Here.status /\ r.ahead = Here.ahead
      /\ r.aborted = Here.aborted /\ r.groups = Here.groups
  BY HereIsSound, SetMax
<1> HIDE DEF r
<1>3. Sound(r) /\ Evolves(Here, r)
  BY <1>2, HereIsSound, SameParts, SameEvolves
<1> QED  BY <1>1, <1>3, Leads

\* Records of groups that are paused or resumed.
LEMMA OverrideLeads ==
  ASSUME QueueInv, NEW g \in Groups, NEW v \in {"none", "paused", "pausing"},
         v = "pausing" => Active(Here, g) # {},
         ProcessNext([Here EXCEPT !.groups[g].override = v])
  PROVE  CallLeads
<1> DEFINE row == [Here.groups[g] EXCEPT !.override = v]
           gr == [Here.groups EXCEPT ![g] = row]
           r == [Here EXCEPT !.groups = gr]
<1>1. ProcessNext(r)
  OBVIOUS
<1>2. Here.groups[g] \in GroupType /\ Here.groups \in [Groups -> GroupType]
  BY HereIsSound, FieldTypes
<1>3. /\ row \in GroupType /\ row.override = v /\ row.exists = Here.groups[g].exists
      /\ row.expected = Here.groups[g].expected /\ row.completed = Here.groups[g].completed
      /\ row.failed = Here.groups[g].failed /\ row.cancelled = Here.groups[g].cancelled
  <2>1. v \in {"none", "pausing", "paused", "cancelling", "cancelled"}
    OBVIOUS
  <2> QED  BY <1>2, <2>1, OverrideRow
<1> HIDE DEF row
<1>4. /\ gr \in [Groups -> GroupType] /\ gr[g] = row
      /\ \A h \in Groups : h # g => gr[h] = Here.groups[h]
  BY <1>2, <1>3
<1> HIDE DEF gr
<1>5. /\ r \in QueueType /\ r.groups = gr /\ r.status = Here.status /\ r.ahead = Here.ahead
      /\ r.aborted = Here.aborted
  BY <1>4, HereIsSound, SetGroups
<1> HIDE DEF r
<1>6. \A h \in Groups : /\ r.groups[h].exists = Here.groups[h].exists
                        /\ r.groups[h].expected = Here.groups[h].expected
                        /\ r.groups[h].completed = Here.groups[h].completed
                        /\ r.groups[h].failed = Here.groups[h].failed
                        /\ r.groups[h].cancelled = Here.groups[h].cancelled
                        /\ \/ r.groups[h].override = Here.groups[h].override
                           \/ r.groups[h].override \in {"none", "paused"}
                           \/ r.groups[h].override = "pausing" /\ Active(Here, h) # {}
  BY <1>3, <1>4, <1>5
<1>7. Sound(r)
  BY <1>5, <1>6, HereIsSound, OverridesSound
<1>8. Evolves(Here, r)
  BY <1>5, SameEvolves
<1> QED  BY <1>1, <1>7, <1>8, Leads

\* A group is paused, at once if none of its files runs.
LEMMA PauseGroupLeads ==
  ASSUME QueueInv, NEW g \in Groups, PauseGroup(g)
  PROVE  CallLeads
<1> DEFINE v == IF Active(Here, g) = {} THEN "paused" ELSE "pausing"
<1>1. ProcessNext([Here EXCEPT !.groups[g].override = v])
  BY DEF PauseGroup
<1>2. v \in {"none", "paused", "pausing"} /\ (v = "pausing" => Active(Here, g) # {})
  OBVIOUS
<1> HIDE DEF v
<1> QED  BY <1>1, <1>2, OverrideLeads

\* A group is resumed.
LEMMA ResumeGroupLeads ==
  ASSUME QueueInv, NEW g \in Groups, ResumeGroup(g)
  PROVE  CallLeads
<1>1. ProcessNext([Here EXCEPT !.groups[g].override = "none"])
  BY DEF ResumeGroup
<1> QED  BY <1>1, OverrideLeads

\* Terminal groups are forgotten when they are asked for.
LEMMA ControlTerminalLeads ==
  ASSUME QueueInv, NEW g \in Groups, ControlTerminal(g)
  PROVE  CallLeads
<1> DEFINE r == Forget(Here, {g})
<1>1. Become(r) /\ Terminal(Here, g)
  BY DEF ControlTerminal, Forgettable
<1>2. Sound(r) /\ NoneIdle(r)
  BY <1>1, HereIsSound, ForgetSound
<1>3. r.status = Here.status /\ r.ahead = Here.ahead
  BY HereIsSound, ForgetFields
<1> HIDE DEF r
<1>4. Evolves(Here, r)
  BY <1>3, SameEvolves
<1> QED  BY <1>1, <1>2, <1>4, Leads

\* Files of the queue that are settled evolve.
LEMMA SettleEvolves ==
  ASSUME NEW p, p \in QueueType, NEW S \in SUBSET With(p, "pending"), NEW q,
         q.status = SettleQueued(p, S).status, q.ahead = SettleQueued(p, S).ahead
  PROVE  Evolves(p, q)
<1>1. S \in SUBSET Tasks
  BY SetsOfFiles
<1>2. /\ q.status = [t \in Tasks |-> IF t \in S THEN "cancelled" ELSE p.status[t]]
      /\ q.ahead = Leave(p.ahead, S)
  BY <1>1, SettleFields
<1>3. \A t \in Tasks : Step(p.status[t], q.status[t])
  BY <1>2 DEF With, Step
<1>4. ASSUME NEW t \in Tasks, NEW u \in Tasks, << t, u >> \in p.ahead,
             q.status[t] = "pending", q.status[u] = "pending"
      PROVE  << t, u >> \in q.ahead
  <2>1. t \notin S /\ u \notin S
    BY <1>2, <1>4
  <2> QED  BY <1>2, <1>4, <2>1 DEF Leave
<1> QED  BY <1>3, <1>4 DEF Evolves

\* A group is cancelled.
LEMMA CancelGroupLeads ==
  ASSUME QueueInv, NEW g \in Groups, CancelGroup(g)
  PROVE  CallLeads
<1>1. PICK q \in Close(Here, {g}) : ProcessNext(q)
  BY DEF CancelGroup
<1> DEFINE S == UNION {Queued(Here, h) : h \in {g}}
<1>2. /\ Sound(q) /\ S \in SUBSET With(Here, "pending")
      /\ q.status = SettleQueued(Here, S).status /\ q.ahead = SettleQueued(Here, S).ahead
  BY HereIsSound, CloseSound
<1> HIDE DEF S
<1>3. Evolves(Here, q)
  BY <1>2, HereIsSound, SettleEvolves
<1> QED  BY <1>1, <1>2, <1>3, Leads

\* All groups of a chat or a user are cancelled.
LEMMA CancelScopeLeads ==
  ASSUME QueueInv, NEW s \in Scopes, CancelScope(s)
  PROVE  CallLeads
<1> DEFINE open == {g \in ScopeGroups[s] : Controllable(g) /\ groups[g].override \notin Closed}
           gone == {g \in ScopeGroups[s] : Forgettable(g)}
           p == Forget(Here, gone)
           S == UNION {Queued(p, g) : g \in open}
<1>1. PICK q \in Close(p, open) : ProcessNext([q EXCEPT !.scopePaused = q.scopePaused \ {s}])
  BY DEF CancelScope
<1>2. open \in SUBSET Groups /\ gone \in SUBSET Groups /\ \A g \in gone : Terminal(Here, g)
  BY Parameters DEF Forgettable
<1> HIDE DEF open, gone
<1>3. Sound(p) /\ p \in QueueType /\ p.status = Here.status /\ p.ahead = Here.ahead
  BY <1>2, HereIsSound, ForgetSound, ForgetFields DEF Sound
<1> HIDE DEF p
<1>4. /\ Sound(q) /\ S \in SUBSET With(p, "pending")
      /\ q.status = SettleQueued(p, S).status /\ q.ahead = SettleQueued(p, S).ahead
  BY <1>2, <1>3, CloseSound
<1> HIDE DEF S
<1> DEFINE v == q.scopePaused \ {s}
           r == [q EXCEPT !.scopePaused = v]
<1>5. q \in QueueType /\ v \in SUBSET Scopes
  BY <1>4, FieldTypes DEF Sound
<1>6. /\ r \in QueueType /\ r.status = q.status /\ r.ahead = q.ahead
      /\ r.aborted = q.aborted /\ r.groups = q.groups
  BY <1>5, SetScopePaused
<1>7. ProcessNext(r)
  BY <1>1
<1> HIDE DEF r
<1>8. Sound(r)
  BY <1>4, <1>6, SameParts
<1>9. Evolves(p, r)
  BY <1>3, <1>4, <1>6, SettleEvolves
<1>10. Evolves(Here, r)
  BY <1>3, <1>9 DEF Evolves
<1> QED  BY <1>7, <1>8, <1>10, Leads

\* Single files are cancelled.
LEMMA CancelFilesLeads ==
  ASSUME QueueInv, NEW F \in SUBSET Tasks, CancelFiles(F)
  PROVE  CallLeads
<1> DEFINE S == F \cap With(Here, "pending")
           A == F \cap With(Here, "active")
           s == SettleQueued(Here, S)
           a == Abort(s, A)
<1>1. PICK q \in Pushed(a, S, {}) : ProcessNext(q)
  BY DEF CancelFiles
<1>2. S \in SUBSET With(Here, "pending") /\ S \in SUBSET Tasks /\ A \in SUBSET Tasks
  OBVIOUS
<1> HIDE DEF S, A
<1>3. Sound(s)
  BY <1>2, HereIsSound, SettleSound
<1> HIDE DEF s
<1>4. Sound(a) /\ a.status = s.status /\ a.ahead = s.ahead
  BY <1>2, <1>3, AbortFields
<1> HIDE DEF a
<1>5. Sound(q) /\ q.status = s.status /\ q.ahead = s.ahead
  BY <1>1, <1>2, <1>4, PushedSound
<1>6. Evolves(Here, q)
  BY <1>2, <1>5, HereIsSound, SettleEvolves DEF s
<1> QED  BY <1>1, <1>5, <1>6, Leads

\* The queue is empty when everything was stopped.
LEMMA ForceStopLeads ==
  ASSUME QueueInv, ForceStopAll
  PROVE  CallLeads
<1> DEFINE G == {g \in Groups : groups[g].exists /\ Unfinished(Here, g) # {}}
           S == UNION {Queued(Here, g) : g \in G}
<1>1. PICK q \in Close(Here, G) : Become(q)
  BY DEF ForceStopAll
<1>2. With(Here, "pending") \subseteq S
  <2> SUFFICES ASSUME NEW t \in With(Here, "pending")
               PROVE  t \in S
    OBVIOUS
  <2>1. t \in Tasks /\ Here.status[t] = "pending" /\ GroupOf[t] \in Groups
    BY Parameters DEF With
  <2>2. Here.groups[GroupOf[t]].exists
    BY <2>1, HereIsSound DEF Owned
  <2>3. t \in Queued(Here, GroupOf[t])
    BY DEF Queued
  <2>4. GroupOf[t] \in G
    BY <2>1, <2>2, <2>3, HereFields DEF Unfinished
  <2> QED  BY <2>3, <2>4
<1>3. G \in SUBSET Groups
  OBVIOUS
<1> HIDE DEF G
<1>4. /\ Sound(q) /\ S \in SUBSET With(Here, "pending")
      /\ q.status = SettleQueued(Here, S).status /\ q.ahead = SettleQueued(Here, S).ahead
  BY <1>3, HereIsSound, CloseSound
<1> HIDE DEF S
<1>5. Evolves(Here, q)
  BY <1>4, HereIsSound, SettleEvolves
<1>6. With(q, "pending") = {}
  <2>1. With(SettleQueued(Here, S), "pending") = {}
    BY <1>2, <1>4, HereIsSound, SettledFiles
  <2> QED  BY <1>4, <2>1 DEF With
<1>7. NoneIdle(q)
  BY <1>6 DEF NoneIdle, Runnable
<1> QED  BY <1>1, <1>4, <1>5, <1>7, Leads

\* A group is announced: its record is kept, or a fresh one replaces a terminal one.
LEMMA EnsureGroupLeads ==
  ASSUME QueueInv, NEW g \in Groups, NEW n \in 0..MaxExpected, EnsureGroup(g, n)
  PROVE  CallLeads
<1> DEFINE idle == With(Here, "active") \cup With(Here, "pending") = {}
           fresh == ~Here.groups[g].exists \/ Terminal(Here, g)
           grown == [Here.groups[g] EXCEPT !.expected = Larger(Here.groups[g].expected, n)]
           row == IF fresh THEN NewGroup(n) ELSE grown
           gr == [Here.groups EXCEPT ![g] = row]
           v == Here.userPaused /\ ~idle
           h == [Here EXCEPT !.groups = gr]
           r == [h EXCEPT !.userPaused = v]
<1>1. Become(r)
  <2>1. r = [Here EXCEPT !.userPaused = v, !.groups = gr]
    BY DEF Here
  <2> QED  BY <2>1, HereFields DEF EnsureGroup
<1>2. /\ Here.groups \in [Groups -> GroupType] /\ Here.groups[g] \in GroupType
      /\ Here.groups[g].expected \in Nat /\ n \in Nat
  BY HereIsSound, FieldTypes, RecordTypes, Parameters
<1>3. /\ grown \in GroupType /\ grown.exists = Here.groups[g].exists
      /\ grown.override = Here.groups[g].override /\ grown.completed = Here.groups[g].completed
      /\ grown.failed = Here.groups[g].failed /\ grown.cancelled = Here.groups[g].cancelled
      /\ grown.expected >= Here.groups[g].expected
  <2> DEFINE m == Larger(Here.groups[g].expected, n)
  <2>1. m \in Nat /\ m >= Here.groups[g].expected
    BY <1>2 DEF Larger
  <2>2. grown = [Here.groups[g] EXCEPT !.expected = m]
    OBVIOUS
  <2> HIDE DEF grown, m
  <2> QED  BY <1>2, <2>1, <2>2 DEF GroupType
<1>4. row \in GroupType /\ (fresh => row = NewGroup(n)) /\ (~fresh => row = grown)
  BY <1>2, <1>3, NewRecords
<1> HIDE DEF grown, row
<1>5. /\ gr \in [Groups -> GroupType] /\ gr[g] = row /\ \A k \in Groups : k # g => gr[k] = Here.groups[k]
  BY <1>2, <1>4
<1> HIDE DEF gr
<1>6. /\ h \in QueueType /\ h.groups = gr /\ h.status = Here.status /\ h.ahead = Here.ahead
      /\ h.aborted = Here.aborted /\ h.userPaused = Here.userPaused
      /\ h.scopePaused = Here.scopePaused /\ h.blockers = Here.blockers
      /\ h.maxConcurrent = Here.maxConcurrent
  BY <1>5, HereIsSound, SetGroups
<1>7. v \in BOOLEAN
  OBVIOUS
<1> HIDE DEF h, v
<1>8. /\ r \in QueueType /\ r.userPaused = v /\ r.groups = gr /\ r.status = Here.status
      /\ r.ahead = Here.ahead /\ r.aborted = Here.aborted
      /\ r.scopePaused = Here.scopePaused /\ r.blockers = Here.blockers
      /\ r.maxConcurrent = Here.maxConcurrent
  BY <1>6, <1>7, SetUserPaused
<1> HIDE DEF r
<1>9. /\ \A st : With(r, st) = With(Here, st)
      /\ \A k : /\ Active(r, k) = Active(Here, k) /\ Queued(r, k) = Queued(Here, k)
                /\ Unfinished(r, k) = Unfinished(Here, k)
  BY <1>8, SameFiles
<1>10. fresh => Unfinished(Here, g) = {}
  <2>1. CASE Terminal(Here, g)
    BY <2>1, HereIsSound, TerminalIsEmpty
  <2>2. CASE ~Here.groups[g].exists
    BY <2>2, HereIsSound DEF Owned, Unfinished, Active, Queued, With
  <2> QED  BY <2>1, <2>2
<1>11. /\ fresh => row.exists /\ row.override = "none" /\ row.expected \in Nat
                   /\ row.completed = 0 /\ row.failed = 0 /\ row.cancelled = 0
  BY <1>2, <1>4 DEF NewGroup
<1>12. ~fresh => row.exists
  BY <1>3, <1>4
<1> HIDE DEF fresh
<1>13. Owned(r)
  BY <1>5, <1>8, <1>11, <1>12, HereIsSound, Parameters DEF Owned
<1>14. Moving(r) /\ Stopped(r)
  <2>1. \A k \in Groups : \/ r.groups[k].override = Here.groups[k].override
                          \/ r.groups[k].override = "none"
    BY <1>3, <1>4, <1>5, <1>8, <1>11
  <2> QED  BY <1>8, <1>9, <2>1, HereIsSound DEF Moving, Stopped
<1>15. ASSUME NEW k \in Groups
       PROVE  Covered(r, k)
  <2>1. CASE k # g
    BY <1>5, <1>8, <1>9, <2>1, HereIsSound DEF Covered, SettledCount
  <2>2. CASE k = g /\ fresh
    <3>1. Cardinality(Unfinished(r, k)) = 0
      BY <1>9, <1>10, <2>2, FS_EmptySet
    <3>2. SettledCount(r, k) = 0 /\ r.groups[k].expected \in Nat
      BY <1>5, <1>8, <1>11, <2>2 DEF SettledCount
    <3> QED  BY <3>1, <3>2 DEF Covered
  <2>3. CASE k = g /\ ~fresh
    <3>1. /\ SettledCount(r, k) = SettledCount(Here, k) /\ r.groups[k].exists = Here.groups[k].exists
          /\ r.groups[k].expected >= Here.groups[k].expected
      BY <1>3, <1>4, <1>5, <1>8, <2>3 DEF SettledCount
    <3>2. Covered(Here, k) /\ Cardinality(Unfinished(r, k)) = Cardinality(Unfinished(Here, k))
      BY <1>9, HereIsSound
    <3>3. /\ SettledCount(Here, k) \in Nat /\ Here.groups[k].expected \in Nat
          /\ r.groups[k].expected \in Nat /\ Cardinality(Unfinished(Here, k)) \in Nat
      BY <1>8, HereIsSound, RecordTypes, SetsOfFiles
    <3> QED  BY <3>1, <3>2, <3>3 DEF Covered
  <2> QED  BY <2>1, <2>2, <2>3
<1>16. Ordered(r)
  BY <1>8, <1>9, HereIsSound DEF Ordered
<1>17. Sound(r)
  BY <1>8, <1>13, <1>14, <1>15, <1>16 DEF Sound
<1>18. NoneIdle(r)
  <2>1. CASE idle
    BY <1>9, <2>1 DEF NoneIdle, Runnable
  <2>2. CASE ~idle
    <3>1. (GloballyPaused(r) <=> GloballyPaused(Here)) /\ \A k : ScopePaused(r, k) <=> ScopePaused(Here, k)
      BY <1>8, <2>2 DEF GloballyPaused, ScopePaused, v
    <3>2. ASSUME NEW t \in Runnable(r)
          PROVE  t \in Runnable(Here)
      <4>1. /\ ~GloballyPaused(r) /\ t \in With(Here, "pending") /\ r.groups[GroupOf[t]].exists
            /\ ~ScopePaused(r, GroupOf[t]) /\ r.groups[GroupOf[t]].override = "none"
        BY <1>9 DEF Runnable
      <4>2. t \in Unfinished(Here, GroupOf[t]) /\ GroupOf[t] \in Groups
        BY <4>1, Parameters DEF Unfinished, Queued, With
      <4>3. ~(GroupOf[t] = g /\ fresh)
        BY <1>10, <4>2
      <4>4. Here.groups[GroupOf[t]].exists /\ Here.groups[GroupOf[t]].override = "none"
        BY <1>3, <1>4, <1>5, <1>8, <4>1, <4>2, <4>3
      <4> QED  BY <3>1, <4>1, <4>4 DEF Runnable
    <3>3. FreeSlots(r) = FreeSlots(Here)
      BY <1>8, <1>9 DEF FreeSlots
    <3> QED  BY <3>2, <3>3, HereIsSound DEF NoneIdle
  <2> QED  BY <2>1, <2>2
<1>19. Evolves(Here, r)
  BY <1>8, SameEvolves
<1> QED  BY <1>1, <1>17, <1>18, <1>19, Leads

\* New and failed files evolve when they are queued.
LEMMA EnqueueEvolves ==
  ASSUME NEW q \in QueueType, NEW S \in SUBSET Tasks, NEW o \in SUBSET (S \X S),
         \A t \in S : q.status[t] \in {"new", "failed"}
  PROVE  Evolves(q, Enqueue(q, S, o))
<1> DEFINE r == Enqueue(q, S, o)
<1>1. /\ r \in QueueType
      /\ r.status = [t \in Tasks |-> IF t \in S THEN "pending" ELSE q.status[t]]
      /\ r.ahead = q.ahead \cup (With(q, "pending") \X S) \cup o
      /\ r.aborted = q.aborted
      /\ \A g \in Groups :
           /\ r.groups[g].exists = q.groups[g].exists
           /\ SettledCount(r, g) = SettledCount(q, g)
           /\ \/ r.groups[g].override = q.groups[g].override
              \/ r.groups[g].override = "paused"
           /\ r.groups[g].expected >= q.groups[g].expected
           /\ Of(S, g) # {} =>
                r.groups[g].expected
                  >= Cardinality(Unfinished(q, g)) + SettledCount(q, g) + Cardinality(Of(S, g))
  BY EnqueueFields
<1> HIDE DEF r
<1>2. Evolves(q, r)
  BY <1>1 DEF Evolves, Step
<1> QED  BY <1>2 DEF r

\* A file is added: queued, or dropped because its group was stopped.
LEMMA AddLeads ==
  ASSUME QueueInv, NEW t \in Tasks, Add(t)
  PROVE  CallLeads
<1>0. /\ Here.status[t] = "new" /\ Here.groups[GroupOf[t]].exists /\ GroupOf[t] \in Groups
      /\ Here.status \in [Tasks -> FileStatus]
  BY HereFields, HereIsSound, FieldTypes, Parameters DEF Add
<1>1. CASE Here.groups[GroupOf[t]].override \in Closed
  <2> DEFINE st == [Here.status EXCEPT ![t] = "dropped"]
             r == [Here EXCEPT !.status = st]
  <2>1. Become(r)
    BY <1>1, HereFields DEF Add
  <2>2. st \in [Tasks -> FileStatus] /\ st[t] = "dropped" /\ \A u \in Tasks : u # t => st[u] = Here.status[u]
    BY <1>0, StatusSets
  <2> HIDE DEF st
  <2>3. /\ r \in QueueType /\ r.status = st /\ r.ahead = Here.ahead /\ r.aborted = Here.aborted
        /\ r.groups = Here.groups /\ r.userPaused = Here.userPaused
        /\ r.scopePaused = Here.scopePaused /\ r.blockers = Here.blockers
        /\ r.maxConcurrent = Here.maxConcurrent
    BY <2>2, HereIsSound DEF QueueType
  <2> HIDE DEF r
  <2>4. With(r, "pending") = With(Here, "pending") /\ With(r, "active") = With(Here, "active")
    BY <1>0, <2>2, <2>3 DEF With
  <2>5. \A k : /\ Active(r, k) = Active(Here, k) /\ Queued(r, k) = Queued(Here, k)
               /\ Unfinished(r, k) = Unfinished(Here, k)
    BY <2>4 DEF Active, Queued, Unfinished
  <2>6. Owned(r)
    BY <1>0, <2>2, <2>3, HereIsSound DEF Owned
  <2>7. Moving(r) /\ Stopped(r) /\ (\A k \in Groups : Covered(r, k)) /\ Ordered(r)
    BY <2>3, <2>4, <2>5, HereIsSound DEF Moving, Stopped, Covered, SettledCount, Ordered
  <2>8. Runnable(r) = Runnable(Here) /\ FreeSlots(r) = FreeSlots(Here)
    BY <2>3, <2>4 DEF Runnable, GloballyPaused, ScopePaused, FreeSlots
  <2>9. Evolves(Here, r)
    BY <1>0, <2>2, <2>3 DEF Evolves, Step
  <2>10. Sound(r) /\ NoneIdle(r)
    BY <2>3, <2>6, <2>7, <2>8, HereIsSound DEF Sound, NoneIdle
  <2> QED  BY <2>1, <2>9, <2>10, Leads
<1>2. CASE Here.groups[GroupOf[t]].override \notin Closed
  <2> DEFINE S == {t}
             o == {}
             r == Enqueue(Here, S, o)
  <2>1. ProcessNext(r)
    BY <1>2, HereFields DEF Add
  <2>2. IsOrder(o, S) /\ S \in SUBSET Tasks /\ o \in SUBSET (S \X S)
    BY DEF IsOrder
  <2>3. S = {t} /\ o = {}
    OBVIOUS
  <2> HIDE DEF S, o
  <2>4. Sound(r)
    <3>1. \A u \in S : /\ Here.status[u] \notin {"pending", "active"}
                       /\ Here.groups[GroupOf[u]].exists /\ Here.groups[GroupOf[u]].override \notin Closed
      BY <1>0, <1>2, <2>3
    <3> QED  BY <2>2, <3>1, HereIsSound, EnqueueSound
  <2>5. Evolves(Here, r)
    BY <1>0, <2>2, <2>3, HereIsSound, EnqueueEvolves
  <2> QED  BY <2>1, <2>4, <2>5, Leads
<1> QED  BY <1>1, <1>2

\* The files of a group move to the front.
LEMMA FrontOrdered ==
  ASSUME NEW S \in SUBSET Tasks, NEW o, IsOrder(o, S), NEW g
  PROVE  /\ Front(o, S, g) \subseteq S \X S /\ IsOrder(Front(o, S, g), S)
         /\ \A t, u \in S : GroupOf[t] = GroupOf[u]
                            => (<< t, u >> \in Front(o, S, g) <=> << t, u >> \in o)
<1> DEFINE f == Front(o, S, g)
<1>1. f \subseteq S \X S
  BY DEF Front
<1>2. \A t, u \in S : << t, u >> \in f <=>
                        \/ GroupOf[t] = g /\ GroupOf[u] # g
                        \/ (GroupOf[t] = g <=> GroupOf[u] = g) /\ << t, u >> \in o
  BY DEF Front
<1> HIDE DEF f
<1>3. \A t, u \in S : t # u => (<< t, u >> \in f <=> << u, t >> \notin f)
  BY <1>2 DEF IsOrder
<1>4. \A t \in S : << t, t >> \notin f
  BY <1>2 DEF IsOrder
<1>5. \A t, u, v \in S : << t, u >> \in f /\ << u, v >> \in f => << t, v >> \in f
  BY <1>2 DEF IsOrder
<1>6. IsOrder(f, S)
  BY <1>3, <1>4, <1>5 DEF IsOrder
<1> QED  BY <1>1, <1>2, <1>6 DEF f

\* A group is prioritized; the order within every group stays.
LEMMA PrioritizeLeads ==
  ASSUME QueueInv, NEW g \in Groups, PrioritizeGroup(g)
  PROVE  CallLeads
<1> DEFINE P == With(Here, "pending")
           v == Front(Here.ahead, P, g)
           r == [Here EXCEPT !.ahead = v]
<1>1. ProcessNext(r)
  BY DEF PrioritizeGroup
<1>2. P \in SUBSET Tasks /\ Here.ahead \subseteq P \X P /\ IsOrder(Here.ahead, P)
  BY HereIsSound, SetsOfFiles DEF Ordered
<1>3. /\ v \subseteq P \X P /\ IsOrder(v, P)
      /\ \A t, u \in P : GroupOf[t] = GroupOf[u] => (<< t, u >> \in v <=> << t, u >> \in Here.ahead)
  BY <1>2, FrontOrdered
<1> HIDE DEF v
<1>4. v \in SUBSET (Tasks \X Tasks)
  BY <1>2, <1>3
<1>5. /\ r \in QueueType /\ r.ahead = v /\ r.status = Here.status /\ r.groups = Here.groups
      /\ r.aborted = Here.aborted
  BY <1>4, HereIsSound, SetAhead
<1> HIDE DEF r
<1>6. /\ \A st : With(r, st) = With(Here, st)
      /\ \A k : /\ Active(r, k) = Active(Here, k) /\ Queued(r, k) = Queued(Here, k)
                /\ Unfinished(r, k) = Unfinished(Here, k)
  BY <1>5, SameFiles
<1>7. Owned(r) /\ Moving(r) /\ Stopped(r)
  BY <1>5, <1>6, HereIsSound DEF Owned, Moving, Stopped
<1>8. (\A k \in Groups : Covered(r, k)) /\ Ordered(r)
  BY <1>3, <1>5, <1>6, HereIsSound DEF Covered, SettledCount, Ordered
<1>9. Sound(r)
  BY <1>5, <1>7, <1>8 DEF Sound
<1>10. Evolves(Here, r)
  <2>1. \A t \in Tasks : Step(Here.status[t], r.status[t])
    BY <1>5 DEF Step
  <2>2. \A t, u \in Tasks : GroupOf[t] = GroupOf[u] /\ << t, u >> \in Here.ahead => << t, u >> \in r.ahead
    BY <1>2, <1>3, <1>5
  <2> QED  BY <2>1, <2>2 DEF Evolves
<1> QED  BY <1>1, <1>9, <1>10, Leads

\* A settled file is counted once in the record of its group.
LEMMA CountedRow ==
  ASSUME NEW row \in GroupType, NEW outcome \in Settled
  PROVE  LET counted == CASE outcome = "success" -> [row EXCEPT !.completed = @ + 1]
                          [] outcome = "failed" -> [row EXCEPT !.failed = @ + 1]
                          [] outcome = "cancelled" -> [row EXCEPT !.cancelled = @ + 1]
         IN  /\ counted \in GroupType /\ counted.exists = row.exists
             /\ counted.expected = row.expected
             /\ counted.completed + counted.failed + counted.cancelled
                  = row.completed + row.failed + row.cancelled + 1
<1> DEFINE counted == CASE outcome = "success" -> [row EXCEPT !.completed = @ + 1]
                        [] outcome = "failed" -> [row EXCEPT !.failed = @ + 1]
                        [] outcome = "cancelled" -> [row EXCEPT !.cancelled = @ + 1]
           c == row.completed + 1
           f == row.failed + 1
           k == row.cancelled + 1
<1>1. row.completed \in Nat /\ row.failed \in Nat /\ row.cancelled \in Nat
  BY DEF GroupType
<1>2. c \in Nat /\ f \in Nat /\ k \in Nat /\ c = row.completed + 1 /\ f = row.failed + 1 /\ k = row.cancelled + 1
  BY <1>1
<1>3. CASE outcome = "success"
  <2>1. counted = [row EXCEPT !.completed = c]
    BY <1>3
  <2> HIDE DEF counted, c
  <2>2. /\ counted \in GroupType /\ counted.exists = row.exists /\ counted.expected = row.expected
        /\ counted.completed = c /\ counted.failed = row.failed /\ counted.cancelled = row.cancelled
    BY <1>2, <2>1 DEF GroupType
  <2>3. counted.completed + counted.failed + counted.cancelled
          = row.completed + row.failed + row.cancelled + 1
    BY <1>1, <1>2, <2>2
  <2> QED  BY <2>2, <2>3 DEF counted
<1>4. CASE outcome = "failed"
  <2>1. counted = [row EXCEPT !.failed = f]
    BY <1>4
  <2> HIDE DEF counted, f
  <2>2. /\ counted \in GroupType /\ counted.exists = row.exists /\ counted.expected = row.expected
        /\ counted.completed = row.completed /\ counted.failed = f /\ counted.cancelled = row.cancelled
    BY <1>2, <2>1 DEF GroupType
  <2>3. counted.completed + counted.failed + counted.cancelled
          = row.completed + row.failed + row.cancelled + 1
    BY <1>1, <1>2, <2>2
  <2> QED  BY <2>2, <2>3 DEF counted
<1>5. CASE outcome = "cancelled"
  <2>1. counted = [row EXCEPT !.cancelled = k]
    BY <1>5
  <2> HIDE DEF counted, k
  <2>2. /\ counted \in GroupType /\ counted.exists = row.exists /\ counted.expected = row.expected
        /\ counted.completed = row.completed /\ counted.failed = row.failed /\ counted.cancelled = k
    BY <1>2, <2>1 DEF GroupType
  <2>3. counted.completed + counted.failed + counted.cancelled
          = row.completed + row.failed + row.cancelled + 1
    BY <1>1, <1>2, <2>2
  <2> QED  BY <2>2, <2>3 DEF counted
<1> QED  BY <1>3, <1>4, <1>5 DEF Settled

\* A running file ends, and the transition of its group with the last of them.
LEMMA FinishLeads ==
  ASSUME QueueInv, NEW t \in Tasks, NEW outcome \in Settled, Finish(t, outcome)
  PROVE  CallLeads
<1> DEFINE g == GroupOf[t]
           last == Active(Here, g) = {t}
           record == Here.groups[g]
           counted == CASE outcome = "success" -> [record EXCEPT !.completed = @ + 1]
                        [] outcome = "failed" -> [record EXCEPT !.failed = @ + 1]
                        [] outcome = "cancelled" -> [record EXCEPT !.cancelled = @ + 1]
           ov == IF last THEN AfterLast(Here, g) ELSE record.override
           row == [counted EXCEPT !.override = ov]
           st == [Here.status EXCEPT ![t] = outcome]
           ab == Here.aborted \ {t}
           gr == [Here.groups EXCEPT ![g] = row]
           r == [Here EXCEPT !.status = st, !.aborted = ab, !.groups = gr]
<1>1. PICK q \in Pushed(r, {t}, {}) : ProcessNext(q)
  BY HereFields DEF Finish
<1>2. /\ Here.status[t] = "active" /\ g \in Groups /\ record \in GroupType
      /\ Here.status \in [Tasks -> FileStatus] /\ Here.groups \in [Groups -> GroupType]
      /\ ab \subseteq Tasks
  BY HereFields, HereIsSound, FieldTypes, RecordTypes, Parameters DEF Finish
<1>3. /\ counted \in GroupType /\ counted.exists = record.exists
      /\ counted.expected = record.expected
      /\ counted.completed + counted.failed + counted.cancelled
           = record.completed + record.failed + record.cancelled + 1
  BY <1>2, CountedRow
<1> HIDE DEF counted
<1>4. /\ ov \in {"none", "pausing", "paused", "cancelling", "cancelled"}
      /\ last => \/ ov \in {"none", "paused"}
                 \/ ov = "cancelled" /\ record.override \in Closed
      /\ ~last => ov = record.override
  <2>1. record.override \in {"none", "pausing", "paused", "cancelling", "cancelled"}
    BY <1>2, StatusSets DEF GroupType
  <2>2. CASE last
    <3>1. ov = AfterLast(Here, g)
      BY <2>2
    <3>2. CASE record.override = "pausing"
      <4>1. ov \in {"none", "paused"}
        BY <3>1, <3>2 DEF AfterLast
      <4> QED  BY <2>2, <4>1
    <3>3. CASE record.override = "cancelling"
      <4>1. ov = "cancelled"
        BY <3>1, <3>3 DEF AfterLast
      <4> QED  BY <2>2, <3>3, <4>1, StatusSets
    <3>4. CASE record.override \notin {"pausing", "cancelling"}
      <4>1. ov = record.override
        BY <3>1, <3>4 DEF AfterLast
      <4> QED  BY <2>1, <2>2, <3>4, <4>1, StatusSets
    <3> QED  BY <3>2, <3>3, <3>4
  <2>3. CASE ~last
    BY <2>1, <2>3
  <2> QED  BY <2>2, <2>3
<1> HIDE DEF ov
<1>5. /\ row \in GroupType /\ row.override = ov /\ row.exists = record.exists
      /\ row.expected = record.expected
      /\ row.completed + row.failed + row.cancelled
           = record.completed + record.failed + record.cancelled + 1
  <2>1. /\ row \in GroupType /\ row.override = ov /\ row.exists = counted.exists
        /\ row.expected = counted.expected /\ row.completed = counted.completed
        /\ row.failed = counted.failed /\ row.cancelled = counted.cancelled
    BY <1>3, <1>4, OverrideRow
  <2> HIDE DEF row
  <2> QED  BY <1>3, <2>1
<1> HIDE DEF row
<1>6. /\ st \in [Tasks -> FileStatus] /\ st[t] = outcome
      /\ \A u \in Tasks : u # t => st[u] = Here.status[u]
  <2>1. outcome \in FileStatus
    BY DEF FileStatus
  <2> QED  BY <1>2, <2>1
<1>7. /\ gr \in [Groups -> GroupType] /\ gr[g] = row
      /\ \A k \in Groups : k # g => gr[k] = Here.groups[k]
  BY <1>2, <1>5
<1>8. ab = Here.aborted \ {t}
  OBVIOUS
<1> HIDE DEF st, gr, ab
<1>9. /\ r \in QueueType /\ r.status = st /\ r.aborted = ab /\ r.groups = gr /\ r.ahead = Here.ahead
  BY <1>2, <1>6, <1>7, HereIsSound DEF QueueType
<1> HIDE DEF r
<1>10. outcome \notin {"pending", "active"}
  BY DEF Settled
<1>11. /\ With(r, "pending") = With(Here, "pending") /\ With(r, "active") = With(Here, "active") \ {t}
       /\ t \in With(Here, "active")
  BY <1>2, <1>6, <1>9, <1>10 DEF With
<1>12. /\ \A k : /\ Active(r, k) = Active(Here, k) \ {t} /\ Queued(r, k) = Queued(Here, k)
       /\ t \in Active(Here, g) /\ \A k : t \in Active(Here, k) => k = g
  BY <1>11 DEF Active, Queued
<1>13. \A k : t \notin Queued(Here, k)
  BY <1>2 DEF Queued, With
<1>14. \A k : Unfinished(r, k) = Unfinished(Here, k) \ {t} /\ (k # g => t \notin Unfinished(Here, k))
  BY <1>12, <1>13 DEF Unfinished
<1>15. t \in Unfinished(Here, g) /\ record.exists
  BY <1>2, <1>12, HereIsSound DEF Unfinished, Owned
<1>16. Owned(r)
  BY <1>5, <1>6, <1>7, <1>9, <1>10, HereIsSound, Parameters DEF Owned
<1>17. Moving(r)
  <2> SUFFICES ASSUME NEW k \in Groups, r.groups[k].override \in {"pausing", "cancelling"}
               PROVE  Active(r, k) # {}
    BY DEF Moving
  <2>1. CASE k # g
    <3>1. Active(Here, k) # {}
      BY <1>7, <1>9, <2>1, HereIsSound DEF Moving
    <3> QED  BY <1>12, <2>1, <3>1
  <2>2. CASE k = g
    <3>1. ~last
      BY <1>4, <1>5, <1>7, <1>9, <2>2
    <3> QED  BY <1>12, <2>2, <3>1
  <2> QED  BY <2>1, <2>2
<1>18. Stopped(r)
  <2> SUFFICES ASSUME NEW k \in Groups
               PROVE  /\ r.groups[k].override = "cancelled" => Unfinished(r, k) = {}
                      /\ r.groups[k].override = "cancelling"
                           => Queued(r, k) = {} /\ Active(r, k) \subseteq r.aborted
    BY DEF Stopped
  <2>1. /\ Here.groups[k].override = "cancelled" => Unfinished(Here, k) = {}
        /\ Here.groups[k].override = "cancelling"
             => Queued(Here, k) = {} /\ Active(Here, k) \subseteq Here.aborted
    BY HereIsSound DEF Stopped
  <2>2. CASE k # g
    BY <1>7, <1>8, <1>9, <1>12, <1>14, <2>1, <2>2
  <2>3. CASE k = g /\ ~last
    BY <1>4, <1>5, <1>7, <1>8, <1>9, <1>12, <1>14, <2>1, <2>3
  <2>4. CASE k = g /\ last
    <3>1. Active(r, k) = {}
      BY <1>12, <2>4
    <3>2. r.groups[k].override # "cancelling"
      BY <1>4, <1>5, <1>7, <1>9, <2>4
    <3>3. r.groups[k].override = "cancelled" => record.override \in Closed
      BY <1>4, <1>5, <1>7, <1>9, <2>4
    <3>4. record.override \in Closed => Queued(Here, k) = {}
      BY <2>1, <2>4, StatusSets DEF Unfinished
    <3> QED  BY <1>12, <3>1, <3>2, <3>3, <3>4 DEF Unfinished
  <2> QED  BY <2>2, <2>3, <2>4
<1>19. ASSUME NEW k \in Groups
       PROVE  Covered(r, k)
  <2>1. CASE k # g
    BY <1>7, <1>9, <1>14, <2>1, HereIsSound DEF Covered, SettledCount
  <2>2. CASE k = g
    <3>1. Unfinished(Here, g) \in SUBSET Tasks /\ {t} \in SUBSET Unfinished(Here, g)
      BY <1>15, SetsOfFiles
    <3>2. Cardinality(Unfinished(r, g)) = Cardinality(Unfinished(Here, g)) - Cardinality({t})
      BY <1>14, <3>1, TakeAway
    <3>3. Cardinality({t}) = 1 /\ Cardinality(Unfinished(Here, g)) \in Nat
      BY FS_Singleton, SetsOfFiles
    <3>4. SettledCount(r, g) = SettledCount(Here, g) + 1
      BY <1>5, <1>7, <1>9 DEF SettledCount
    <3>5. SettledCount(Here, g) \in Nat /\ record.expected \in Nat
      BY <1>2, HereIsSound, RecordTypes
    <3>6. record.expected >= Cardinality(Unfinished(Here, g)) + SettledCount(Here, g)
      BY <1>2, <1>15, HereIsSound DEF Covered
    <3>7. r.groups[g].expected = record.expected
      BY <1>5, <1>7, <1>9
    <3> HIDE DEF record
    <3>8. record.expected >= Cardinality(Unfinished(r, g)) + SettledCount(r, g)
      BY <3>2, <3>3, <3>4, <3>5, <3>6
    <3> QED  BY <2>2, <3>7, <3>8 DEF Covered
  <2> QED  BY <2>1, <2>2
<1>20. Ordered(r)
  BY <1>9, <1>11, HereIsSound DEF Ordered
<1>21. Sound(r)
  BY <1>9, <1>16, <1>17, <1>18, <1>19, <1>20 DEF Sound
<1>22. Sound(q) /\ q.status = r.status /\ q.ahead = r.ahead
  BY <1>1, <1>21, PushedSound
<1>23. Evolves(Here, q)
  <2>1. \A u \in Tasks : Step(Here.status[u], q.status[u])
    BY <1>2, <1>6, <1>9, <1>22 DEF Step
  <2>2. q.ahead = Here.ahead
    BY <1>9, <1>22
  <2> QED  BY <2>1, <2>2 DEF Evolves
<1> QED  BY <1>1, <1>22, <1>23, Leads

\* Failed files are queued again.
LEMMA RetryLeads ==
  ASSUME QueueInv, NEW S \in SUBSET Tasks, RetryFailed(S)
  PROVE  CallLeads
<1> DEFINE failures(g) == Cardinality({t \in S : GroupOf[t] = g})
           less(g) == IF failures(g) < Here.groups[g].failed
                      THEN Here.groups[g].failed - failures(g) ELSE 0
           row(g) == [Here.groups[g] EXCEPT !.failed = less(g)]
           gr == [g \in Groups |-> row(g)]
           hi == Here.history \ S
           h == [Here EXCEPT !.history = hi, !.groups = gr]
<1>1. PICK order \in Orders(S) : ProcessNext(Enqueue(h, S, order))
  BY HereFields DEF RetryFailed
<1>2. order \in SUBSET (S \X S) /\ IsOrder(order, S)
  BY OrdersAreOrders
<1>3. ASSUME NEW g \in Groups
      PROVE  less(g) \in Nat /\ less(g) <= Here.groups[g].failed
  <2>1. {t \in S : GroupOf[t] = g} \in SUBSET Tasks
    OBVIOUS
  <2>2. failures(g) \in Nat /\ Here.groups[g].failed \in Nat
    BY <2>1, FilesAreFinite, HereIsSound, RecordTypes
  <2> HIDE DEF failures
  <2>3. CASE failures(g) < Here.groups[g].failed
    BY <2>2, <2>3
  <2>4. CASE ~(failures(g) < Here.groups[g].failed)
    BY <2>2, <2>4
  <2> QED  BY <2>3, <2>4
<1> HIDE DEF less
<1>4. ASSUME NEW g \in Groups
      PROVE  /\ row(g) \in GroupType /\ row(g).exists = Here.groups[g].exists
             /\ row(g).expected = Here.groups[g].expected /\ row(g).override = Here.groups[g].override
             /\ row(g).completed = Here.groups[g].completed
             /\ row(g).cancelled = Here.groups[g].cancelled /\ row(g).failed = less(g)
  <2>1. Here.groups[g] \in GroupType
    BY HereIsSound, RecordTypes
  <2> QED  BY <1>3, <2>1 DEF GroupType
<1> HIDE DEF row
<1>5. gr \in [Groups -> GroupType] /\ \A g \in Groups : gr[g] = row(g)
  BY <1>4
<1>6. hi \subseteq Tasks
  BY HereIsSound, FieldTypes
<1> HIDE DEF gr, hi
<1>7. /\ h \in QueueType /\ h.groups = gr /\ h.status = Here.status /\ h.ahead = Here.ahead
      /\ h.aborted = Here.aborted
  BY <1>5, <1>6, HereIsSound DEF QueueType
<1> HIDE DEF h
<1>8. \A g \in Groups : /\ h.groups[g].exists = Here.groups[g].exists
                        /\ h.groups[g].expected = Here.groups[g].expected
                        /\ h.groups[g].override = Here.groups[g].override
                        /\ h.groups[g].completed = Here.groups[g].completed
                        /\ h.groups[g].cancelled = Here.groups[g].cancelled
                        /\ h.groups[g].failed = less(g)
  BY <1>4, <1>5, <1>7
<1>9. /\ \A st : With(h, st) = With(Here, st)
      /\ \A g : /\ Active(h, g) = Active(Here, g) /\ Queued(h, g) = Queued(Here, g)
                /\ Unfinished(h, g) = Unfinished(Here, g)
  BY <1>7, SameFiles
<1>10. Owned(h) /\ Moving(h) /\ Stopped(h) /\ Ordered(h)
  BY <1>7, <1>8, <1>9, HereIsSound, Parameters DEF Owned, Moving, Stopped, Ordered
<1>11. ASSUME NEW g \in Groups
       PROVE  Covered(h, g)
  <2>1. /\ Here.groups[g].completed \in Nat /\ Here.groups[g].failed \in Nat
        /\ Here.groups[g].cancelled \in Nat /\ Here.groups[g].expected \in Nat
        /\ Cardinality(Unfinished(Here, g)) \in Nat
    BY HereIsSound, RecordTypes, SetsOfFiles
  <2>2. SettledCount(h, g) <= SettledCount(Here, g) /\ SettledCount(h, g) \in Nat /\ SettledCount(Here, g) \in Nat
    BY <1>3, <1>8, <2>1 DEF SettledCount
  <2>3. Covered(Here, g)
    BY HereIsSound
  <2> QED  BY <1>8, <1>9, <2>1, <2>2, <2>3 DEF Covered
<1>12. Sound(h)
  BY <1>7, <1>10, <1>11 DEF Sound
<1> DEFINE r == Enqueue(h, S, order)
<1>13. \A t \in S : /\ h.status[t] = "failed" /\ h.groups[GroupOf[t]].exists
                    /\ h.groups[GroupOf[t]].override \notin Closed
  BY <1>7, <1>8, HereFields, Parameters DEF RetryFailed, Retriable
<1>14. Sound(r)
  <2>1. \A t \in S : h.status[t] \notin {"pending", "active"}
    BY <1>13
  <2> QED  BY <1>2, <1>12, <1>13, <2>1, EnqueueSound
<1>15. Evolves(h, r)
  BY <1>2, <1>7, <1>13, EnqueueEvolves
<1>16. ProcessNext(r)
  BY <1>1
<1> HIDE DEF r
<1>17. Evolves(Here, r)
  BY <1>7, <1>15 DEF Evolves
<1> QED  BY <1>14, <1>16, <1>17, Leads
-----------------------------------------------------------------------------
(* What every step does                                                     *)

\* Every call leads to sound fields, from which files are started.
LEMMA NextLeads ==
  ASSUME QueueInv, Next
  PROVE  CallLeads
<1>1. ASSUME NEW g \in Groups,
             \/ \E n \in 0..MaxExpected : EnsureGroup(g, n)
             \/ ControlTerminal(g) \/ PrioritizeGroup(g)
             \/ PauseGroup(g) \/ ResumeGroup(g) \/ CancelGroup(g)
      PROVE  CallLeads
  BY <1>1, EnsureGroupLeads, ControlTerminalLeads, PrioritizeLeads, PauseGroupLeads,
     ResumeGroupLeads, CancelGroupLeads
<1>2. ASSUME NEW t \in Tasks, Add(t) \/ \E outcome \in Settled : Finish(t, outcome)
      PROVE  CallLeads
  BY <1>2, AddLeads, FinishLeads
<1>3. ASSUME NEW S \in SUBSET Tasks, CancelFiles(S) \/ RetryFailed(S)
      PROVE  CallLeads
  BY <1>3, CancelFilesLeads, RetryLeads
<1>4. ASSUME NEW s \in Scopes, PauseScope(s) \/ ResumeScope(s) \/ CancelScope(s)
      PROVE  CallLeads
  BY <1>4, PauseScopeLeads, ResumeScopeLeads, CancelScopeLeads
<1>5. ASSUME NEW b \in Blockers, AcquireBlocker(b) \/ ReleaseBlocker(b)
      PROVE  CallLeads
  BY <1>5, AcquireLeads, ReleaseLeads
<1>6. ASSUME PauseAll \/ ResumeAll \/ ForceStopAll \/ \E n \in 1..MaxLimit : SetMaxConcurrent(n)
      PROVE  CallLeads
  BY <1>6, PauseAllLeads, ResumeAllLeads, ForceStopLeads, SetMaxLeads
<1> QED  BY <1>1, <1>2, <1>3, <1>4, <1>5, <1>6 DEF Next

\* The fields after a step are those of the record it becomes.
LEMMA BecomeHere ==
  ASSUME NEW r \in QueueType, Become(r)
  PROVE  Here' = r
<1>1. Here' = [status |-> status', ahead |-> ahead', aborted |-> aborted',
               groups |-> groups', history |-> history', userPaused |-> userPaused',
               scopePaused |-> scopePaused', blockers |-> blockers',
               maxConcurrent |-> maxConcurrent']
  BY DEF Here
<1>2. r = [status |-> r.status, ahead |-> r.ahead, aborted |-> r.aborted, groups |-> r.groups,
           history |-> r.history, userPaused |-> r.userPaused, scopePaused |-> r.scopePaused,
           blockers |-> r.blockers, maxConcurrent |-> r.maxConcurrent]
  BY FieldTypes
<1>3. /\ status' = r.status /\ ahead' = r.ahead /\ aborted' = r.aborted /\ groups' = r.groups
      /\ history' = r.history /\ userPaused' = r.userPaused /\ scopePaused' = r.scopePaused
      /\ blockers' = r.blockers /\ maxConcurrent' = r.maxConcurrent
  BY DEF Become
<1> QED  BY <1>1, <1>2, <1>3

\* A step ends with nothing to start, or by starting what can be started.
LEMMA StepEnds ==
  ASSUME QueueInv, Next
  PROVE  \E q : /\ Sound(q) /\ Evolves(Here, q)
                /\ \/ Here' = AfterStart(q)
                   \/ Here' = q /\ NoneIdle(q)
<1>1. PICK q : /\ Sound(q) /\ Evolves(Here, q)
               /\ ProcessNext(q) \/ (Become(q) /\ NoneIdle(q))
  BY NextLeads DEF CallLeads
<1>2. q \in QueueType
  BY <1>1 DEF Sound
<1>3. CASE ProcessNext(q)
  <2>1. Become(AfterStart(q))
    BY <1>3 DEF ProcessNext, AfterStart, Started
  <2>2. AfterStart(q) \in QueueType
    BY <1>2, StartFields
  <2>3. Here' = AfterStart(q)
    BY <2>1, <2>2, BecomeHere
  <2> QED  BY <1>1, <2>3
<1>4. CASE Become(q) /\ NoneIdle(q)
  <2>1. Here' = q
    BY <1>2, <1>4, BecomeHere
  <2> QED  BY <1>1, <1>4, <2>1
<1> QED  BY <1>1, <1>3, <1>4

\* The invariant after a step, as a fact about the fields after it.
LEMMA InvOfHereNext ==
  ASSUME Rested(Here')
  PROVE  QueueInv'
<1>1. (QueueInv <=> Rested(Here))'
  BY InvOfHere, PTL
<1> QED  BY <1>1

\* Every step leaves the fields sound and no file waiting beside a free slot.
LEMMA StepKeeps ==
  ASSUME QueueInv, Next
  PROVE  Rested(Here')
<1>1. PICK q : /\ Sound(q) /\ Evolves(Here, q)
               /\ \/ Here' = AfterStart(q)
                  \/ Here' = q /\ NoneIdle(q)
  BY StepEnds
<1>2. CASE Here' = AfterStart(q)
  BY <1>1, <1>2, StartRests
<1>3. CASE Here' = q /\ NoneIdle(q)
  BY <1>1, <1>3 DEF Rested
<1> QED  BY <1>1, <1>2, <1>3
-----------------------------------------------------------------------------
(* Theorems                                                                 *)

\* An empty queue fits together.
LEMMA InitRests ==
  ASSUME Init
  PROVE  QueueInv
<1>1. /\ Here.status = [t \in Tasks |-> "new"] /\ Here.ahead = {}
      /\ Here.groups = [g \in Groups |-> NoGroup]
  BY HereFields DEF Init
<1>2. TypeOK
  BY NewRecords DEF Init, TypeOK
<1>3. /\ With(Here, "pending") = {} /\ With(Here, "active") = {}
      /\ \A g : Active(Here, g) = {} /\ Queued(Here, g) = {} /\ Unfinished(Here, g) = {}
  BY <1>1 DEF With, Active, Queued, Unfinished
<1>4. Owned(Here)
  BY <1>1 DEF Owned
<1>5. Moving(Here) /\ Stopped(Here) /\ \A g \in Groups : Covered(Here, g)
  <2>1. \A g \in Groups : Here.groups[g].override = "none" /\ ~Here.groups[g].exists
    BY <1>1, NewRecords
  <2> QED  BY <2>1 DEF Moving, Stopped, Covered
<1>6. Ordered(Here) /\ NoneIdle(Here)
  BY <1>1, <1>3 DEF Ordered, IsOrder, NoneIdle, Runnable
<1> QED  BY <1>2, <1>4, <1>5, <1>6, HereIsTyped, InvOfHere DEF Rested, Sound

\* The invariant is inductive.
LEMMA InvStep ==
  ASSUME QueueInv, [Next]_vars
  PROVE  QueueInv'
<1>1. CASE Next
  BY <1>1, StepKeeps, InvOfHereNext
<1>2. CASE UNCHANGED vars
  <2>1. Here' = Here
    BY <1>2 DEF vars, Here
  <2> QED  BY <2>1, InvOfHere, InvOfHereNext
<1> QED  BY <1>1, <1>2

\* The invariant of the queue.
THEOREM QueueInvariant == Spec => []QueueInv
<1>1. Init => QueueInv
  BY InitRests
<1>2. QueueInv /\ [Next]_vars => QueueInv'
  BY InvStep
<1> QED  BY <1>1, <1>2, PTL DEF Spec

\* The fields keep their types through every method.
THEOREM TypeCorrect == Spec => []TypeOK
<1>1. QueueInv => TypeOK
  BY DEF QueueInv
<1> QED  BY <1>1, QueueInvariant, PTL

\* The queue, its groups and their files fit together after every call: no
\* wake-up is lost, no record goes before its files, every transition of a group
\* has a file that ends it, the totals cover the files, and the queue is ordered.
THEOREM QueueFits == Spec => []QueueIsConsistent
<1>1. QueueInv => QueueIsConsistent
  BY DEF QueueInv
<1> QED  BY <1>1, QueueInvariant, PTL

\* A step keeps the order in which the files of a group start.
LEMMA OrderStep ==
  ASSUME QueueInv, Next, NEW t \in Tasks, NEW u \in Tasks,
         GroupOf[t] = GroupOf[u], << t, u >> \in ahead, status'[u] = "active"
  PROVE  status'[t] # "pending"
<1>1. PICK q : /\ Sound(q) /\ Evolves(Here, q)
               /\ \/ Here' = AfterStart(q)
                  \/ Here' = q /\ NoneIdle(q)
  BY StepEnds
<1>2. Here.status[u] = "pending" /\ << t, u >> \in Here.ahead
  BY HereIsSound, HereFields DEF Ordered, With
<1>3. q.status[u] \in {"pending", "cancelled"}
  BY <1>1, <1>2 DEF Evolves, Step
<1>4. Here'.status = status'
  BY DEF Here
<1>5. Here' = AfterStart(q)
  BY <1>1, <1>3, <1>4
<1>6. status' = [v \in Tasks |-> IF v \in Started(q) THEN "active" ELSE q.status[v]]
  <2>1. q \in QueueType
    BY <1>1 DEF Sound
  <2> QED  BY <1>4, <1>5, <2>1, StartFields
<1>7. u \in Started(q)
  BY <1>3, <1>6
<1> SUFFICES ASSUME status'[t] = "pending"
             PROVE  FALSE
  OBVIOUS
<1>8. t \notin Started(q) /\ q.status[t] = "pending"
  BY <1>6
<1>9. q.status[u] = "pending"
  BY <1>1, <1>7, StartedFiles DEF With
<1>10. << t, u >> \in q.ahead
  BY <1>1, <1>2, <1>8, <1>9 DEF Evolves
<1> QED  BY <1>1, <1>7, <1>8, <1>10, StartInOrder

\* No file starts while a file of its group that was queued before it still waits.
THEOREM StartsInOrder == Spec => GroupStartsInOrder
<1>1. QueueInv /\ [Next]_vars
        => [\A t, u \in Tasks :
              GroupOf[t] = GroupOf[u] /\ << t, u >> \in ahead /\ status'[u] = "active"
              => status'[t] # "pending"]_vars
  BY OrderStep
<1> QED  BY <1>1, QueueInvariant, PTL DEF Spec, GroupStartsInOrder
-----------------------------------------------------------------------------
(* The queue implements BoundedExecutor                                     *)

\* What the callers see of a file in a status.
Seen(s) ==
    CASE s = "new" -> "absent"
      [] s = "pending" -> "waiting"
      [] s = "active" -> "running"
      [] s = "failed" -> "failed"
      [] OTHER -> "done"

SeenFiles(st) == [t \in Tasks |-> Seen(st[t])]

\* The states the callers see.
LEMMA StatesSeen ==
  /\ Seen("new") = "absent" /\ Seen("pending") = "waiting" /\ Seen("active") = "running"
  /\ Seen("failed") = "failed" /\ Seen("success") = "done" /\ Seen("cancelled") = "done"
  /\ Seen("dropped") = "done"
<1>1. Seen("new") = "absent" /\ Seen("pending") = "waiting" /\ Seen("active") = "running"
  BY DEF Seen
<1>2. Seen("failed") = "failed" /\ Seen("success") = "done"
  BY DEF Seen
<1>3. Seen("cancelled") = "done" /\ Seen("dropped") = "done"
  BY DEF Seen
<1> QED  BY <1>1, <1>2, <1>3

\* The state function of the refinement, file by file.
LEMMA FilesSeen == FileState = SeenFiles(status)
  BY DEF FileState, SeenFiles, Seen

\* The files that are seen to run.
LEMMA RunningSeen ==
  ASSUME NEW st \in [Tasks -> FileStatus]
  PROVE  /\ SeenFiles(st) \in [Tasks -> Executor!States]
         /\ Executor!Running(SeenFiles(st)) = {t \in Tasks : st[t] = "active"}
<1>1. \A s \in FileStatus : Seen(s) \in Executor!States /\ (Seen(s) = "running" <=> s = "active")
  BY StatusSets, StatesSeen DEF Executor!States
<1>2. \A t \in Tasks : st[t] \in FileStatus /\ SeenFiles(st)[t] = Seen(st[t])
  BY DEF SeenFiles
<1>3. SeenFiles(st) \in [Tasks -> Executor!States]
  BY <1>1, <1>2 DEF SeenFiles
<1>4. Executor!Running(SeenFiles(st)) = {t \in Tasks : st[t] = "active"}
  BY <1>1, <1>2 DEF Executor!Running
<1> QED  BY <1>3, <1>4

\* A step of a file, and its start, are steps of the executor.
LEMMA StepSeen ==
  ASSUME NEW a \in FileStatus, NEW b \in FileStatus, NEW c \in FileStatus, Step(a, b),
         c = b \/ (b = "pending" /\ c = "active")
  PROVE  Seen(c) \in Executor!After[Seen(a)]
<1>1. /\ Executor!After["absent"] = {"absent", "waiting", "running", "done"}
      /\ Executor!After["waiting"] = {"waiting", "running", "done"}
      /\ Executor!After["running"] = {"running", "failed", "done"}
      /\ Executor!After["failed"] = {"failed", "waiting", "running"}
      /\ Executor!After["done"] = {"done"}
  BY DEF Executor!After
<1>2. CASE a = "new"
  BY <1>1, <1>2, StatusSets, StatesSeen DEF Step, Settled
<1>3. CASE a = "pending"
  BY <1>1, <1>3, StatusSets, StatesSeen DEF Step, Settled
<1>4. CASE a = "active"
  BY <1>1, <1>4, StatusSets, StatesSeen DEF Step, Settled
<1>5. CASE a = "failed"
  BY <1>1, <1>5, StatusSets, StatesSeen DEF Step, Settled
<1>6. CASE a \in {"dropped", "success", "cancelled"}
  BY <1>1, <1>6, StatusSets, StatesSeen DEF Step, Settled
<1> QED  BY <1>2, <1>3, <1>4, <1>5, <1>6, StatusSets

\* Every call is a step of the executor.
LEMMA ExecutorStep ==
  ASSUME QueueInv, Next
  PROVE  Executor!Next
<1>1. PICK q : /\ Sound(q) /\ Evolves(Here, q)
               /\ \/ Here' = AfterStart(q)
                  \/ Here' = q /\ NoneIdle(q)
  BY StepEnds
<1>2. /\ Here'.status = status' /\ Here'.maxConcurrent = maxConcurrent'
      /\ FileState = SeenFiles(status) /\ FileState' = SeenFiles(status')
  BY FilesSeen DEF Here, FileState, SeenFiles, Seen
<1>3. q \in QueueType /\ Here' \in QueueType
  BY <1>1, StepKeeps DEF Sound, Rested
<1>4. status \in [Tasks -> FileStatus] /\ status' \in [Tasks -> FileStatus] /\ maxConcurrent' \in 1..MaxLimit
  BY <1>2, <1>3, HereIsSound, HereFields, FieldTypes
<1>5. \A t \in Tasks : q.status[t] \in FileStatus
  BY <1>3, FieldTypes
<1>6. \A t \in Tasks : status'[t] = q.status[t] \/ (q.status[t] = "pending" /\ status'[t] = "active")
  <2>1. CASE Here' = AfterStart(q)
    <3>1. status' = [v \in Tasks |-> IF v \in Started(q) THEN "active" ELSE q.status[v]]
      BY <1>2, <1>3, <2>1, StartFields
    <3>2. \A t \in Started(q) : q.status[t] = "pending"
      BY <1>1, StartedFiles DEF With
    <3> QED  BY <3>1, <3>2
  <2>2. CASE Here' = q
    BY <1>2, <2>2
  <2> QED  BY <1>1, <2>1, <2>2
<1>7. \A t \in Tasks : Step(status[t], q.status[t])
  BY <1>1, HereFields DEF Evolves
<1>8. \A t \in Tasks : FileState'[t] \in Executor!After[FileState[t]]
  <2> SUFFICES ASSUME NEW t \in Tasks
               PROVE  FileState'[t] \in Executor!After[FileState[t]]
    OBVIOUS
  <2>1. Seen(status'[t]) \in Executor!After[Seen(status[t])]
    BY <1>4, <1>5, <1>6, <1>7, StepSeen
  <2>2. FileState[t] = Seen(status[t]) /\ FileState'[t] = Seen(status'[t])
    BY <1>2 DEF SeenFiles
  <2> QED  BY <2>1, <2>2
<1>9. /\ FileState' \in [Tasks -> Executor!States]
      /\ Executor!Running(FileState) = {t \in Tasks : status[t] = "active"}
      /\ Executor!Running(FileState') = {t \in Tasks : status'[t] = "active"}
  BY <1>2, <1>4, RunningSeen
<1>10. With(q, "active") \subseteq Executor!Running(FileState)
  BY <1>7, <1>9 DEF With, Step
<1>11. Executor!Running(FileState') = With(Here', "active")
  BY <1>2, <1>9 DEF With
<1>12. \/ Executor!Running(FileState') \subseteq Executor!Running(FileState)
       \/ Cardinality(Executor!Running(FileState')) <= maxConcurrent'
  <2>1. CASE Here' = AfterStart(q)
    <3>1. \/ With(Here', "active") = With(q, "active")
          \/ Cardinality(With(Here', "active")) <= q.maxConcurrent
      BY <1>1, <2>1, StartWithinLimit
    <3>2. maxConcurrent' = q.maxConcurrent
      BY <1>2, <1>3, <2>1, StartFields
    <3> QED  BY <1>10, <1>11, <3>1, <3>2
  <2>2. CASE Here' = q
    BY <1>10, <1>11, <2>2
  <2> QED  BY <1>1, <2>1, <2>2
<1>13. Executor!Cardinality(Executor!Running(FileState')) = Cardinality(Executor!Running(FileState'))
  BY Zenon DEF Executor!Cardinality, Cardinality
<1> QED  BY <1>4, <1>8, <1>9, <1>12, <1>13 DEF Executor!Next

\* The queue with its pauses, priorities, cancellations and retries runs every
\* file from a waiting line, within the limit, and again only after it failed.
THEOREM Implements == Spec => ExecutesWithinLimit
<1>1. Init => Executor!Init
  <2> SUFFICES ASSUME Init
               PROVE  Executor!Init
    OBVIOUS
  <2>1. \A t \in Tasks : FileState[t] = "absent"
    BY FilesSeen, StatesSeen DEF Init, SeenFiles
  <2>2. FileState = [t \in Tasks |-> "absent"]
    BY <2>1 DEF FileState
  <2> QED  BY <2>2 DEF Init, Executor!Init
<1>2. QueueInv /\ [Next]_vars => [Executor!Next]_<< FileState, maxConcurrent >>
  <2>1. ASSUME UNCHANGED vars
        PROVE  UNCHANGED << FileState, maxConcurrent >>
    BY <2>1 DEF vars, FileState
  <2> QED  BY <2>1, ExecutorStep
<1> QED  BY <1>1, <1>2, QueueInvariant, PTL DEF Spec, ExecutesWithinLimit, Executor!Spec
=============================================================================
