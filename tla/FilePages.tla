------------------------------ MODULE FilePages ------------------------------
(***************************************************************************)
(* The list of files, page by page (services/fileQuery.ts, GET /api/files  *)
(* of routes/files.ts).  A page is what follows a cursor in the order of   *)
(* the query, by date or by name and then by id; the cursor names the last *)
(* row of the page before.  The database keeps times in microseconds, the  *)
(* cursor in milliseconds, as a Date of JavaScript has them.  Rows come    *)
(* and go and are renamed between the pages.                               *)
(***************************************************************************)
EXTENDS Integers, Sequences, FiniteSets, SequencesExt, FiniteSetsExt

CONSTANTS
    Ids,        \* the ids of the rows, as numbers
    Ticks,      \* a millisecond has this many microseconds
    Times,      \* the times, in microseconds, at which rows are created
    Names,      \* the names in lower case, as numbers
    Limit,      \* rows per page
    MaxEvents   \* bound on rows that come, go or are renamed

PagesAssumption ==
    /\ IsFiniteSet(Ids) /\ Ids \subseteq Nat /\ Times \subseteq Nat /\ Names \subseteq Nat
    /\ Ticks \in Nat \ {0} /\ Limit \in Nat \ {0} /\ MaxEvents \in Nat

VARIABLES
    rows,     \* the rows that match the query
    sort, direction,
    cursor,   \* the cursor of the next page: "first", "none", or a key
    listed,   \* the ids of the rows returned so far
    stayed,   \* the rows that have been there, as they are, since the first page
    close,    \* two of the rows were created within one millisecond
    events
vars == << rows, sort, direction, cursor, listed, stayed, close, events >>

Row(t, n) == [time |-> t, name |-> n]
First == << -1, -1 >>
None == << -2, -2 >>
Close(r) == \E i, j \in DOMAIN r : i # j /\ r[i].time \div Ticks = r[j].time \div Ticks

Init ==
    /\ \E here \in SUBSET Ids : rows \in [here -> {Row(t, n) : t \in Times, n \in Names}]
    /\ sort \in {"date", "name"} /\ direction \in {"asc", "desc"}
    /\ cursor = First /\ listed = << >> /\ stayed = DOMAIN rows /\ close = Close(rows) /\ events = 0
-----------------------------------------------------------------------------
(* The order of the query, and what comes after a cursor in it.            *)
Key(i) == << IF sort = "name" THEN rows[i].name ELSE rows[i].time, i >>
Precedes(j, k) == j[1] < k[1] \/ (j[1] = k[1] /\ j[2] < k[2])
Before(j, k) == IF direction = "asc" THEN Precedes(j, k) ELSE Precedes(k, j)

Matches(i) == cursor # First => Before(cursor, Key(i))

Follow == SetToSortSeq({i \in DOMAIN rows : Matches(i)}, LAMBDA i, j : Before(Key(i), Key(j)))

(* cursorForFile: the name as the database compares it, the time as a Date *)
(* writes it.                                                              *)
CursorFor(i) == << IF sort = "name" THEN rows[i].name ELSE (rows[i].time \div Ticks) * Ticks, i >>

(* queryFilesPage: one row more than the page holds shows whether there    *)
(* are more.                                                               *)
Take ==
    /\ cursor # None
    /\ LET found == SubSeq(Follow, 1, Min({Len(Follow), Limit + 1}))
           page == SubSeq(found, 1, Min({Len(found), Limit}))
       IN  /\ listed' = listed \o page
           /\ cursor' = IF Len(found) > Limit THEN CursorFor(Last(page)) ELSE None
    /\ Len(listed) <= Cardinality(Ids) + Limit
    /\ UNCHANGED << rows, sort, direction, stayed, close, events >>

(* Rows come and go, as files do or as they match the filters of the query *)
(* or cease to, and are renamed.  A row that is created gets the time of   *)
(* its creation, later than those of the others or the same.               *)
Event == cursor \notin {First, None} /\ events < MaxEvents /\ events' = events + 1
Come(i, t, n) ==
    /\ i \notin DOMAIN rows /\ \A j \in DOMAIN rows : rows[j].time <= t
    /\ rows' = [j \in DOMAIN rows \cup {i} |-> IF j = i THEN Row(t, n) ELSE rows[j]]
    /\ close' = (close \/ Close(rows'))
    /\ Event /\ UNCHANGED << sort, direction, cursor, listed, stayed >>
Leave(i) ==
    /\ i \in DOMAIN rows /\ rows' = [j \in DOMAIN rows \ {i} |-> rows[j]]
    /\ stayed' = stayed \ {i} /\ Event /\ UNCHANGED << sort, direction, cursor, listed, close >>
Rename(i, n) ==
    /\ i \in DOMAIN rows /\ n # rows[i].name /\ rows' = [rows EXCEPT ![i].name = n]
    /\ stayed' = IF sort = "name" THEN stayed \ {i} ELSE stayed
    /\ Event /\ UNCHANGED << sort, direction, cursor, listed, close >>
-----------------------------------------------------------------------------
Next ==
    \/ Take
    \/ \E i \in Ids : Leave(i) \/ (\E n \in Names : Rename(i, n) \/ \E t \in Times : Come(i, t, n))
Spec == Init /\ [][Next]_vars
-----------------------------------------------------------------------------
(* The types.                                                              *)
TypeOK ==
    /\ DOMAIN rows \subseteq Ids /\ stayed \subseteq DOMAIN rows /\ listed \in Seq(Ids)
    /\ cursor \in {First, None} \cup (Nat \X Nat) /\ events \in 0..MaxEvents

(* The pages list every row that was there all along.                      *)
PagesListAll == cursor = None => stayed \subseteq ToSet(listed)

(* The same for rows that are a millisecond apart, or listed by name, or   *)
(* from old to new.                                                        *)
PagesListApart == sort = "name" \/ direction = "asc" \/ ~close => PagesListAll

(* No row that stayed is listed twice, so that nothing is counted or shown *)
(* twice, by name and from new to old.  From old to new the last row of a  *)
(* page is also the first of the next one when its time is not a whole     *)
(* millisecond; the page of the frontend leaves it out.                    *)
ListedOnce ==
    sort = "name" \/ direction = "desc" =>
        \A p, q \in 1..Len(listed) : listed[p] = listed[q] /\ listed[p] \in stayed => p = q
=============================================================================
