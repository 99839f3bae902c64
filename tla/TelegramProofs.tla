------------------------- MODULE TelegramProofs --------------------------
(***************************************************************************)
(* Proofs about the components of MCTelegram, for every value of their     *)
(* constants and any number of errors.  The module extends UserAccounts:   *)
(* an account has one running client, its count is that of the downloads   *)
(* that hold it, a disabled account is disconnected, and an account that   *)
(* has to wait gets no download.  Each of the other parts begins with its  *)
(* instance, its variables and its invariant: LoginFlows (a login has one  *)
(* owner), TelegramAuth (who is let in gave the PIN of now), BotLifecycle  *)
(* (one bot serves, the one of the settings), ChatStatus (a file is        *)
(* counted once) and AccessSweep (an account is probed by one worker).     *)
(***************************************************************************)
EXTENDS UserAccounts, FiniteSetTheorems, TLAPS

\* An entry is there for an open client of its account, and an open client has
\* its entry or is about to be closed.
EntriesFit ==
    \A a \in Accounts : Entered(a) =>
        client[entry[a].client].acct = a /\ client[entry[a].client].st = "open"
OpenIsHeld ==
    \A c \in ClientIds : client[c].st = "open" =>
        client[c].acct \in Accounts /\ (entry[client[c].acct].client = c \/ c \in op.closing)

\* What connects is connected by the running operation, one client per account,
\* and the account has no entry.
ConnFits ==
    /\ \A c \in ClientIds : client[c].st = "connecting" <=> c \in op.conn
    /\ \A c \in op.conn : client[c].acct \in Accounts /\ ~Entered(client[c].acct)
    /\ \A c, d \in op.conn : client[c].acct = client[d].acct => c = d

\* An operation closes first, until none of its accounts has an entry, and
\* connects then.
Aimed(a) == chain[1].kind = "init" \/ chain[1].acct = a
OpFits ==
    /\ op.at = "none" => op.closing = {} /\ op.conn = {}
    /\ op.at = "close" => op.conn = {} /\ \A a \in Accounts : Aimed(a) => ~Entered(a)
    /\ op.at = "connect" => op.closing = {}
    /\ op.at # "none" => chain # << >>
    /\ \A c \in op.closing : client[c].st = "open" /\ ~Entered(client[c].acct)
    /\ \A c, d \in op.closing : client[c].acct = client[d].acct => c = d

ChainFits == \A i \in DOMAIN chain : chain[i].kind # "init" => chain[i].acct \in Accounts

UseFits ==
    \A d \in Downloads :
        /\ use[d].at = "idle" => use[d] = NoUse
        /\ use[d].at # "idle" => use[d].client # 0 /\ use[d].acct \in Accounts
        /\ use[d].at \in {"cool", "expire"} => use[d].counted

\* A cooldown is in the entry, too, unless it is still being recorded, or was
\* recorded while the account was connecting.
Cooling(a) == \E d \in Downloads : use[d].at = "cool" /\ use[d].acct = a
CoolFits ==
    /\ \A a \in Accounts : Entered(a) /\ row[a].cool /\ ~entry[a].cool =>
          a \in forgot \/ Cooling(a)
    /\ \A c \in op.conn : row[client[c].acct].cool => client[c].acct \in forgot

\* The chain has an operation on the account that did not begin yet.
Pending(a) ==
    \E i \in DOMAIN chain :
        (chain[i].kind = "init" \/ chain[i].acct = a) /\ (i > 1 \/ op.at = "none")
DisabledFits ==
    \A a \in Accounts :
        row[a].there /\ ~row[a].enabled /\ (Entered(a) \/ a \in Connecting) => Pending(a)

ClientsFit == EntriesFit /\ OpenIsHeld /\ ConnFits /\ OpFits /\ ChainFits
PoolInv == TypeOK /\ ClientsFit /\ UseFits /\ CountsAreHolders /\ CoolFits /\ DisabledFits
-----------------------------------------------------------------------------
(* The clients                                                              *)

ClientTypes == client \in [ClientIds -> ClientType]
SameClient(c) == client'[c].acct = client[c].acct /\ client'[c].st = client[c].st
SameCount(c) == client'[c].active = client[c].active

LEMMA UpdateClientState ==
  ASSUME ClientTypes, NEW c \in ClientIds, NEW s \in {"free", "connecting", "open", "closed"},
         client' = [client EXCEPT ![c].st = s]
  PROVE  /\ ClientTypes'
         /\ \A x \in ClientIds \ {c} : SameClient(x)
         /\ client'[c].acct = client[c].acct /\ client'[c].st = s
         /\ \A x \in ClientIds : SameCount(x)
<1>1. client[c] \in ClientType
  BY DEF ClientTypes
<1>2. [client[c] EXCEPT !.st = s] \in ClientType
  BY <1>1 DEF ClientType
<1>3. client' = [client EXCEPT ![c] = [client[c] EXCEPT !.st = s]]
  OBVIOUS
<1>4. client'[c] = [client[c] EXCEPT !.st = s] /\ \A x \in ClientIds \ {c} : client'[x] = client[x]
  BY <1>3 DEF ClientTypes
<1>5. ClientTypes'
  BY <1>2, <1>3 DEF ClientTypes
<1>6. client'[c].acct = client[c].acct /\ client'[c].st = s /\ client'[c].active = client[c].active
  BY <1>1, <1>4 DEF ClientType
<1> QED
  BY <1>4, <1>5, <1>6 DEF SameClient, SameCount

LEMMA UpdateCount ==
  ASSUME ClientTypes, NEW c \in ClientIds, NEW n \in Nat, client' = [client EXCEPT ![c].active = n]
  PROVE  /\ ClientTypes'
         /\ \A x \in ClientIds : SameClient(x)
         /\ client'[c].active = n /\ \A x \in ClientIds \ {c} : SameCount(x)
<1>1. client[c] \in ClientType
  BY DEF ClientTypes
<1>2. [client[c] EXCEPT !.active = n] \in ClientType
  BY <1>1 DEF ClientType
<1>3. client' = [client EXCEPT ![c] = [client[c] EXCEPT !.active = n]]
  OBVIOUS
<1>4. client'[c] = [client[c] EXCEPT !.active = n] /\ \A x \in ClientIds \ {c} : client'[x] = client[x]
  BY <1>3 DEF ClientTypes
<1>5. ClientTypes'
  BY <1>2, <1>3 DEF ClientTypes
<1>6. client'[c].acct = client[c].acct /\ client'[c].st = client[c].st /\ client'[c].active = n
  BY <1>1, <1>4 DEF ClientType
<1> QED
  BY <1>4, <1>5, <1>6 DEF SameClient, SameCount

UseTypes == use \in [Downloads -> UseType]
LEMMA UpdateUse ==
  ASSUME UseTypes, NEW d \in Downloads, NEW u \in UseType, use' = [use EXCEPT ![d] = u]
  PROVE  UseTypes' /\ use'[d] = u /\ \A x \in Downloads \ {d} : use'[x] = use[x]
BY DEF UseTypes

LEMMA UpdateUsePlace ==
  ASSUME UseTypes, NEW d \in Downloads, NEW at \in {"idle", "use", "cool", "expire"},
         use' = [use EXCEPT ![d].at = at]
  PROVE  /\ UseTypes' /\ \A x \in Downloads \ {d} : use'[x] = use[x]
         /\ use'[d].at = at /\ use'[d].acct = use[d].acct
         /\ use'[d].client = use[d].client /\ use'[d].counted = use[d].counted
<1>1. use[d] \in UseType
  BY DEF UseTypes
<1>2. [use[d] EXCEPT !.at = at] \in UseType
  BY <1>1 DEF UseType
<1>3. use' = [use EXCEPT ![d] = [use[d] EXCEPT !.at = at]]
  OBVIOUS
<1>4. UseTypes' /\ use'[d] = [use[d] EXCEPT !.at = at] /\ \A x \in Downloads \ {d} : use'[x] = use[x]
  BY <1>2, <1>3, UpdateUse
<1> QED
  BY <1>1, <1>4 DEF UseType

RowTypes == row \in [Accounts -> RowType]
LEMMA UpdateRow ==
  ASSUME RowTypes, NEW a \in Accounts, NEW r \in RowType, row' = [row EXCEPT ![a] = r]
  PROVE  RowTypes' /\ row'[a] = r /\ \A x \in Accounts \ {a} : row'[x] = row[x]
BY DEF RowTypes

EntryTypes == entry \in [Accounts -> EntryType]
LEMMA UpdateEntry ==
  ASSUME EntryTypes, NEW a \in Accounts, NEW e \in EntryType, entry' = [entry EXCEPT ![a] = e]
  PROVE  EntryTypes' /\ entry'[a] = e /\ \A x \in Accounts \ {a} : entry'[x] = entry[x]
BY DEF EntryTypes

OpTypes == op \in OpType
LEMMA UpdateOp ==
  ASSUME OpTypes, NEW c
  PROVE  /\ op' = [op EXCEPT !.closing = @ \ {c}] =>
              /\ OpTypes' /\ op'.at = op.at /\ op'.conn = op.conn /\ op'.closing = op.closing \ {c}
         /\ op' = [op EXCEPT !.conn = @ \ {c}] =>
              /\ OpTypes' /\ op'.at = op.at /\ op'.closing = op.closing /\ op'.conn = op.conn \ {c}
<1>1. op \in [at : {"none", "close", "connect"}, closing : SUBSET ClientIds, conn : SUBSET ClientIds]
  BY DEF OpTypes, OpType
<1>2. CASE op' = [op EXCEPT !.closing = @ \ {c}]
  <2>1. op' = [op EXCEPT !.closing = op.closing \ {c}]
    BY <1>2
  <2>2. op'.at = op.at /\ op'.conn = op.conn /\ op'.closing = op.closing \ {c}
    BY <1>1, <2>1
  <2>3. OpTypes'
    BY <1>1, <2>1 DEF OpTypes, OpType
  <2> QED  BY <1>2, <2>2, <2>3, <1>1
<1>3. CASE op' = [op EXCEPT !.conn = @ \ {c}]
  <2>1. op' = [op EXCEPT !.conn = op.conn \ {c}]
    BY <1>3
  <2>2. op'.at = op.at /\ op'.closing = op.closing /\ op'.conn = op.conn \ {c}
    BY <1>1, <2>1
  <2>3. OpTypes'
    BY <1>1, <2>1 DEF OpTypes, OpType
  <2> QED  BY <1>3, <2>2, <2>3, <1>1
<1> QED  BY <1>2, <1>3
-----------------------------------------------------------------------------
(* The rows                                                                 *)

\* A step takes no account out of those that may run, and starts no wait.
Allows(a) == row'[a].there /\ ~row'[a].enabled => row[a].there /\ ~row[a].enabled
Cooler(a) == row'[a].cool => row[a].cool
SameRow(a) == row'[a] = row[a]

LEMMA SavedRow ==
  ASSUME NEW r \in RowType, NEW h \in {"healthy", "degraded", "expired"}, NEW s \in Nat
  PROVE  /\ [r EXCEPT !.health = h, !.sess = s] \in RowType
         /\ [r EXCEPT !.health = h, !.sess = s].there = r.there
         /\ [r EXCEPT !.health = h, !.sess = s].enabled = r.enabled
         /\ [r EXCEPT !.health = h, !.sess = s].cool = r.cool
BY DEF RowType

LEMMA HealthRow ==
  ASSUME NEW r \in RowType, NEW h \in {"healthy", "degraded", "expired"}, NEW b \in BOOLEAN
  PROVE  /\ [r EXCEPT !.health = h] \in RowType
         /\ [r EXCEPT !.health = h].there = r.there
         /\ [r EXCEPT !.health = h].enabled = r.enabled
         /\ [r EXCEPT !.health = h].cool = r.cool
         /\ [r EXCEPT !.health = h, !.cool = FALSE] \in RowType
         /\ [r EXCEPT !.health = h, !.cool = FALSE].there = r.there
         /\ [r EXCEPT !.health = h, !.cool = FALSE].enabled = r.enabled
         /\ [r EXCEPT !.health = h, !.cool = FALSE].cool = FALSE
         /\ [r EXCEPT !.cool = TRUE, !.health = h] \in RowType
         /\ [r EXCEPT !.cool = TRUE, !.health = h].there = r.there
         /\ [r EXCEPT !.cool = TRUE, !.health = h].enabled = r.enabled
         /\ [r EXCEPT !.cool = FALSE] \in RowType
         /\ [r EXCEPT !.cool = FALSE].there = r.there
         /\ [r EXCEPT !.cool = FALSE].enabled = r.enabled
         /\ [r EXCEPT !.cool = FALSE].cool = FALSE
         /\ [r EXCEPT !.enabled = b] \in RowType
         /\ [r EXCEPT !.enabled = b].there = r.there
         /\ [r EXCEPT !.enabled = b].enabled = b
         /\ [r EXCEPT !.enabled = b].cool = r.cool
<1>1. r \in [there : BOOLEAN, enabled : BOOLEAN, health : {"healthy", "degraded", "expired"},
             cool : BOOLEAN, sess : Nat]
  BY DEF RowType
<1> QED
  BY <1>1 DEF RowType

LEMMA SwitchedRow ==
  ASSUME RowTypes, NEW a \in Accounts
  PROVE  /\ LoggedIn(a) \in RowType /\ LoggedIn(a).enabled /\ LoggedIn(a).cool = row[a].cool
         /\ Deleted(a) \in RowType /\ (Deleted(a).there => FALSE) /\ (Deleted(a).cool => row[a].cool)
<1>1. row[a] \in [there : BOOLEAN, enabled : BOOLEAN, health : {"healthy", "degraded", "expired"},
                  cool : BOOLEAN, sess : Nat]
  BY DEF RowTypes, RowType
<1>2. row[a].sess + 1 \in Nat
  BY <1>1
<1>3. LoggedIn(a) \in RowType /\ LoggedIn(a).enabled /\ LoggedIn(a).cool = row[a].cool
  BY <1>1, <1>2 DEF LoggedIn, RowType
<1>4. CASE row[a].there
  <2>1. Deleted(a) = [row[a] EXCEPT !.there = FALSE, !.enabled = FALSE,
                                    !.health = "expired", !.cool = FALSE]
    BY <1>4 DEF Deleted, Known
  <2> QED
    BY <1>1, <1>3, <2>1 DEF RowType
<1>5. CASE ~row[a].there
  <2>1. Deleted(a) = row[a]
    BY <1>5 DEF Deleted, Known
  <2> QED
    BY <1>1, <1>3, <1>5, <2>1 DEF RowType
<1> QED
  BY <1>4, <1>5

LEMMA KnownRow ==
  ASSUME RowTypes, NEW a \in Accounts, NEW r \in RowType, row' = [row EXCEPT ![a] = Known(a, r)],
         r.there = row[a].there, r.enabled = row[a].enabled
  PROVE  /\ RowTypes' /\ \A x \in Accounts : Allows(x)
         /\ \A x \in Accounts \ {a} : SameRow(x)
         /\ (r.cool => row[a].cool) => \A x \in Accounts : Cooler(x)
<1>1. Known(a, r) \in RowType
  BY DEF Known, RowTypes
<1>2. RowTypes' /\ row'[a] = Known(a, r) /\ \A x \in Accounts \ {a} : row'[x] = row[x]
  BY <1>1, UpdateRow
<1> QED
  BY <1>2 DEF Known, Allows, Cooler, SameRow
-----------------------------------------------------------------------------
(* The counts of the clients                                                *)

Holders(c) == {d \in Downloads : use[d].counted /\ use[d].client = c}

LEMMA HoldersAreFinite ==
  ASSUME AccountsAssumption, NEW c
  PROVE  IsFiniteSet(Holders(c))
<1>1. Holders(c) \in SUBSET Downloads /\ IsFiniteSet(Downloads)
  BY DEF Holders, AccountsAssumption
<1> QED
  BY <1>1, FS_Subset

\* What a step leaves of the counts when no download changes what it holds.
SameHold(d) == use'[d].counted = use[d].counted /\ use'[d].client = use[d].client
LEMMA SameHoldsSameCounts ==
  ASSUME CountsAreHolders, \A d \in Downloads : use'[d].counted => SameHold(d),
         \A d \in Downloads : use[d].counted => SameHold(d),
         \A c \in ClientIds : SameCount(c)
  PROVE  CountsAreHolders'
<1>1. ASSUME NEW c \in ClientIds
      PROVE  /\ client'[c].active = Cardinality({d \in Downloads : use'[d].counted /\ use'[d].client = c})
             /\ client'[c].active <= MaxConnections
  <2>1. {d \in Downloads : use'[d].counted /\ use'[d].client = c}
          = {d \in Downloads : use[d].counted /\ use[d].client = c}
    BY DEF SameHold
  <2>2. client'[c].active = client[c].active
    BY DEF SameCount
  <2> QED
    BY <2>1, <2>2 DEF CountsAreHolders
<1> QED
  BY <1>1 DEF CountsAreHolders

LEMMA TakeDoes ==
  ASSUME AccountsAssumption, TypeOK, UseFits, CountsAreHolders, NEW d \in Downloads,
         NEW a \in Accounts, use[d].at = "idle", Entered(a),
         client[entry[a].client].active < MaxConnections, Take(d, a)
  PROVE  /\ ClientTypes' /\ UseTypes' /\ UseFits' /\ CountsAreHolders'
         /\ \A c \in ClientIds : SameClient(c)
         /\ use'[d].at = "use" /\ use'[d].acct = a
         /\ \A x \in Downloads \ {d} : use'[x] = use[x]
<1> DEFINE k == entry[a].client
           u == [at |-> "use", acct |-> a, client |-> k, counted |-> TRUE]
<1>1. k \in ClientIds /\ k # 0 /\ k \in 0..Clients
  BY DEF TypeOK, EntryType, Entered, ClientIds, AccountsAssumption
<1>2. client[k].active \in Nat /\ client[k].active + 1 \in Nat
  BY <1>1 DEF TypeOK, ClientType
<1>3. ClientTypes /\ UseTypes
  BY DEF TypeOK, ClientTypes, UseTypes
<1>4. client' = [client EXCEPT ![k].active = client[k].active + 1] /\ use' = [use EXCEPT ![d] = u]
  BY DEF Take
<1>5. u \in UseType
  BY <1>1 DEF UseType
<1> HIDE DEF k
<1>6. /\ ClientTypes' /\ \A c \in ClientIds : SameClient(c)
      /\ client'[k].active = client[k].active + 1 /\ \A x \in ClientIds \ {k} : SameCount(x)
  BY <1>1, <1>2, <1>3, <1>4, UpdateCount
<1>7. UseTypes' /\ use'[d] = u /\ \A x \in Downloads \ {d} : use'[x] = use[x]
  BY <1>3, <1>4, <1>5, UpdateUse
<1>8. UseFits'
  BY <1>1, <1>7 DEF UseFits
<1>9. use[d] = NoUse
  BY DEF UseFits
<1>10. ASSUME NEW c \in ClientIds
       PROVE  /\ client'[c].active = Cardinality({x \in Downloads : use'[x].counted /\ use'[x].client = c})
              /\ client'[c].active <= MaxConnections
  <2>1. client[c].active = Cardinality(Holders(c)) /\ client[c].active <= MaxConnections
    BY DEF CountsAreHolders, Holders
  <2>2. CASE c = k
    <3>1. {x \in Downloads : use'[x].counted /\ use'[x].client = c} = Holders(c) \cup {d}
      BY <1>7, <2>2 DEF Holders
    <3>2. d \notin Holders(c)
      BY <1>9 DEF Holders, NoUse
    <3>3. Cardinality(Holders(c) \cup {d}) = Cardinality(Holders(c)) + 1
      BY <3>2, HoldersAreFinite, FS_AddElement
    <3>4. client'[c].active = Cardinality(Holders(c)) + 1
      BY <1>6, <2>1, <2>2
    <3>5. client[k].active < MaxConnections /\ MaxConnections \in Nat
      BY DEF k, AccountsAssumption
    <3>6. client[k].active + 1 <= MaxConnections
      BY <1>2, <3>5
    <3> QED
      BY <1>6, <2>2, <3>1, <3>3, <3>4, <3>6
  <2>3. CASE c # k
    <3>1. {x \in Downloads : use'[x].counted /\ use'[x].client = c} = Holders(c)
      BY <1>7, <1>9, <2>3 DEF Holders, NoUse
    <3>2. client'[c].active = client[c].active
      BY <1>6, <2>3 DEF SameCount
    <3> QED
      BY <2>1, <3>1, <3>2
  <2> QED
    BY <2>2, <2>3
<1>11. CountsAreHolders'
  BY <1>10 DEF CountsAreHolders
<1> QED
  BY <1>6, <1>7, <1>8, <1>11

LEMMA ReleaseDoes ==
  ASSUME AccountsAssumption, TypeOK, UseFits, CountsAreHolders, NEW d \in Downloads,
         use[d].at # "idle", Release(d)
  PROVE  /\ ClientTypes' /\ UseTypes' /\ UseFits' /\ CountsAreHolders'
         /\ \A c \in ClientIds : SameClient(c)
         /\ use'[d] = NoUse /\ \A x \in Downloads \ {d} : use'[x] = use[x]
<1>1. ClientTypes /\ UseTypes
  BY DEF TypeOK, ClientTypes, UseTypes
<1>2. NoUse \in UseType
  BY DEF NoUse, UseType, AccountsAssumption
<1>3. UseTypes' /\ use'[d] = NoUse /\ \A x \in Downloads \ {d} : use'[x] = use[x]
  <2>1. use' = [use EXCEPT ![d] = NoUse]
    BY DEF Release
  <2> QED
    BY <1>1, <1>2, <2>1, UpdateUse
<1>4. UseFits'
  BY <1>3 DEF UseFits, NoUse
<1>5. CASE ~use[d].counted
  <2>1. client' = client
    BY <1>5 DEF Release
  <2>2. ClientTypes' /\ \A c \in ClientIds : SameClient(c) /\ SameCount(c)
    BY <1>1, <2>1 DEF ClientTypes, SameClient, SameCount
  <2>3. \A x \in Downloads : use[x].counted \/ use'[x].counted => SameHold(x)
    BY <1>3, <1>5 DEF SameHold, NoUse
  <2>4. CountsAreHolders'
    BY <2>2, <2>3, SameHoldsSameCounts
  <2> QED
    BY <1>3, <1>4, <2>2, <2>4
<1>6. CASE use[d].counted
  <2> DEFINE k == use[d].client
  <2>1. k \in ClientIds
    BY DEF UseFits, TypeOK, UseType, ClientIds, AccountsAssumption
  <2>2. client[k].active = Cardinality(Holders(k)) /\ d \in Holders(k)
    BY <1>6, <2>1 DEF CountsAreHolders, Holders
  <2>3. client[k].active # 0
    BY <2>2, HoldersAreFinite, FS_EmptySet
  <2>4. client[k].active - 1 \in Nat /\ client[k].active \in Nat
    BY <2>1, <2>3 DEF TypeOK, ClientType
  <2>5. client' = [client EXCEPT ![k].active = client[k].active - 1]
    BY <1>6 DEF Release
  <2> HIDE DEF k
  <2>6. /\ ClientTypes' /\ \A c \in ClientIds : SameClient(c)
        /\ client'[k].active = client[k].active - 1 /\ \A x \in ClientIds \ {k} : SameCount(x)
    BY <1>1, <2>1, <2>4, <2>5, UpdateCount
  <2>7. ASSUME NEW c \in ClientIds
        PROVE  /\ client'[c].active = Cardinality({x \in Downloads : use'[x].counted /\ use'[x].client = c})
               /\ client'[c].active <= MaxConnections
    <3>1. client[c].active = Cardinality(Holders(c)) /\ client[c].active <= MaxConnections
      BY DEF CountsAreHolders, Holders
    <3>2. CASE c = k
      <4>1. {x \in Downloads : use'[x].counted /\ use'[x].client = c} = Holders(c) \ {d}
        BY <1>3 DEF Holders, NoUse
      <4>2. Cardinality(Holders(c) \ {d}) = Cardinality(Holders(c)) - 1
        BY <2>2, <3>2, HoldersAreFinite, FS_RemoveElement
      <4>3. MaxConnections \in Nat
        BY DEF AccountsAssumption
      <4>4. client'[c].active = client[c].active - 1 /\ client[c].active \in Nat
        BY <2>4, <2>6, <3>2
      <4> QED
        BY <3>1, <4>1, <4>2, <4>3, <4>4
    <3>3. CASE c # k
      <4>1. {x \in Downloads : use'[x].counted /\ use'[x].client = c} = Holders(c)
        BY <1>3, <3>3 DEF Holders, NoUse, k
      <4>2. client'[c].active = client[c].active
        BY <2>6, <3>3 DEF SameCount
      <4> QED
        BY <3>1, <4>1, <4>2
    <3> QED
      BY <3>2, <3>3
  <2>8. CountsAreHolders'
    BY <2>7 DEF CountsAreHolders
  <2> QED
    BY <1>3, <1>4, <2>6, <2>8
<1> QED
  BY <1>5, <1>6
-----------------------------------------------------------------------------
(* The chain of operations                                                  *)

LEMMA TargetsFit ==
  ASSUME TypeOK, ChainFits, chain # << >>
  PROVE  /\ chain[1] \in ChainType /\ 1 \in DOMAIN chain /\ Head1 = chain[1]
         /\ Targets \subseteq Accounts
         /\ \A a \in Accounts : a \in Targets <=> Aimed(a)
<1>1. chain \in Seq(ChainType) /\ Len(chain) # 0
  BY DEF TypeOK
<1>2. chain[1] \in ChainType /\ 1 \in DOMAIN chain /\ Head1 = chain[1]
  BY <1>1 DEF Head1
<1>3. chain[1].kind # "init" => chain[1].acct \in Accounts
  BY <1>2 DEF ChainFits
<1> QED
  BY <1>2, <1>3 DEF Targets, Aimed

\* The chain is as it was, or an operation was added to it.
Fitting == {o \in ChainType : o.kind # "init" => o.acct \in Accounts}
ChainKept == chain' = chain \/ \E o \in Fitting : chain' = Append(chain, o)

LEMMA ChainKeptDoes ==
  ASSUME TypeOK, ChainFits, ChainKept
  PROVE  /\ chain' \in Seq(ChainType) /\ ChainFits'
         /\ chain # << >> => chain' # << >> /\ chain'[1] = chain[1]
         /\ \A i \in DOMAIN chain : i \in DOMAIN chain' /\ chain'[i] = chain[i]
<1>1. chain \in Seq(ChainType)
  BY DEF TypeOK
<1>2. CASE chain' = chain
  BY <1>1, <1>2 DEF ChainFits
<1>3. CASE \E o \in Fitting : chain' = Append(chain, o)
  <2> PICK o \in Fitting : chain' = Append(chain, o)
    BY <1>3
  <2>1. o \in ChainType /\ (o.kind # "init" => o.acct \in Accounts)
    BY DEF Fitting
  <2>2. /\ chain' \in Seq(ChainType) /\ DOMAIN chain' = 1..Len(chain) + 1
        /\ chain'[Len(chain) + 1] = o /\ \A i \in 1..Len(chain) : chain'[i] = chain[i]
        /\ DOMAIN chain = 1..Len(chain) /\ Len(chain) \in Nat
    BY <1>1, <2>1
  <2>3. ChainFits'
    BY <2>1, <2>2 DEF ChainFits
  <2>4. chain # << >> => 1 \in 1..Len(chain)
    BY <1>1
  <2> QED
    BY <2>2, <2>3, <2>4
<1> QED
  BY <1>2, <1>3 DEF ChainKept

LEMMA OpDoneDoes ==
  ASSUME TypeOK, ChainFits, chain # << >>, OpDone
  PROVE  /\ chain' \in Seq(ChainType) /\ ChainFits'
         /\ \A i \in DOMAIN chain : i > 1 => i - 1 \in DOMAIN chain' /\ chain'[i - 1] = chain[i]
         /\ op' = NoOp /\ op' \in OpType
<1>1. chain \in Seq(ChainType) /\ Len(chain) # 0
  BY DEF TypeOK
<1>2. chain' = Tail(chain)
  BY DEF OpDone
<1>3. /\ chain' \in Seq(ChainType) /\ DOMAIN chain' = 1..Len(chain) - 1 /\ DOMAIN chain = 1..Len(chain)
      /\ \A i \in 1..Len(chain) - 1 : chain'[i] = chain[i + 1]
      /\ Len(chain) \in Nat
  BY <1>1, <1>2
<1>4. ChainFits'
  BY <1>3 DEF ChainFits
<1>5. op' = NoOp /\ NoOp \in OpType
  BY DEF OpDone, NoOp, OpType
<1>6. ASSUME NEW i \in DOMAIN chain, i > 1
      PROVE  i - 1 \in DOMAIN chain' /\ chain'[i - 1] = chain[i]
  <2>1. i - 1 \in 1..Len(chain) - 1 /\ (i - 1) + 1 = i
    BY <1>3, <1>6
  <2> QED
    BY <1>3, <2>1
<1> QED
  BY <1>3, <1>4, <1>5, <1>6
-----------------------------------------------------------------------------
(* What the steps of an operation do                                        *)

\* The parts of TypeOK that the pool does not touch.
Rest == /\ denied \subseteq Accounts /\ revoked \subseteq Accounts \X Nat
        /\ req \in [Requests -> RequestType] /\ forgot \subseteq Accounts /\ events \in 0..MaxEvents
LEMMA TypeParts ==
  TypeOK <=> /\ RowTypes /\ EntryTypes /\ ClientTypes /\ UseTypes /\ OpTypes
             /\ chain \in Seq(ChainType) /\ Rest
BY DEF TypeOK, RowTypes, EntryTypes, ClientTypes, UseTypes, OpTypes, Rest

LEMMA OpBeginDoes ==
  ASSUME AccountsAssumption, TypeOK, ChainFits, OpBegin
  PROVE  /\ TypeOK' /\ chain # << >> /\ op.at = "none" /\ op'.at = "close" /\ op'.conn = {}
         /\ op'.closing = {entry[a].client : a \in Targets} \ {0}
         /\ \A a \in Accounts : entry'[a] = IF a \in Targets THEN [client |-> 0, cool |-> FALSE]
                                            ELSE entry[a]
         /\ UNCHANGED << row, client, chain, use, forgot >>
<1> DEFINE K == {entry[a].client : a \in Targets} \ {0}
<1>1. chain # << >> /\ op.at = "none" /\ Targets \subseteq Accounts
  BY TargetsFit DEF OpBegin
<1>2. K \subseteq ClientIds
  BY <1>1 DEF TypeOK, EntryType, ClientIds, AccountsAssumption
<1>3. op' = [NoOp EXCEPT !.at = "close", !.closing = K]
  BY DEF OpBegin
<1> HIDE DEF K
<1>4. op'.at = "close" /\ op'.conn = {} /\ op'.closing = K /\ OpTypes'
  BY <1>2, <1>3 DEF NoOp, OpTypes, OpType
<1>5. /\ entry' = [a \in Accounts |-> IF a \in Targets THEN [client |-> 0, cool |-> FALSE] ELSE entry[a]]
      /\ UNCHANGED << row, denied, revoked, client, chain, req, use, forgot, events >>
  BY DEF OpBegin
<1>6. [client |-> 0, cool |-> FALSE] \in EntryType
  BY DEF EntryType, AccountsAssumption
<1>7. EntryTypes'
  BY <1>5, <1>6 DEF EntryTypes, TypeOK
<1>8. RowTypes' /\ ClientTypes' /\ UseTypes' /\ chain' \in Seq(ChainType) /\ Rest'
  BY <1>5, TypeParts DEF RowTypes, ClientTypes, UseTypes, Rest
<1>9. TypeOK'
  BY <1>4, <1>7, <1>8 DEF TypeOK, RowTypes, EntryTypes, ClientTypes, UseTypes, OpTypes, Rest
<1> QED
  BY <1>1, <1>4, <1>5, <1>9 DEF K

LEMMA CloseDoes ==
  ASSUME TypeOK, NEW c \in ClientIds, CloseClient(c)
  PROVE  /\ TypeOK' /\ c \in op.closing /\ op'.at = op.at /\ op'.conn = op.conn
         /\ op'.closing = op.closing \ {c}
         /\ \A x \in ClientIds \ {c} : SameClient(x)
         /\ client'[c].acct = client[c].acct /\ client'[c].st = "closed"
         /\ \A x \in ClientIds : SameCount(x)
         /\ UNCHANGED << row, entry, chain, use, forgot >>
<1>1. /\ c \in op.closing /\ op' = [op EXCEPT !.closing = @ \ {c}]
      /\ client' = [client EXCEPT ![c].st = "closed"]
      /\ UNCHANGED << row, denied, revoked, entry, chain, req, use, forgot, events >>
  BY DEF CloseClient
<1>2. ClientTypes /\ OpTypes
  BY TypeParts
<1>3. OpTypes' /\ op'.at = op.at /\ op'.conn = op.conn /\ op'.closing = op.closing \ {c}
  BY <1>1, <1>2, UpdateOp
<1>4. /\ ClientTypes' /\ \A x \in ClientIds \ {c} : SameClient(x)
      /\ client'[c].acct = client[c].acct /\ client'[c].st = "closed"
      /\ \A x \in ClientIds : SameCount(x)
  BY <1>1, <1>2, UpdateClientState
<1>5. RowTypes' /\ EntryTypes' /\ UseTypes' /\ chain' \in Seq(ChainType) /\ Rest'
  BY <1>1, TypeParts DEF RowTypes, EntryTypes, UseTypes, Rest
<1>6. TypeOK'
  BY <1>3, <1>4, <1>5 DEF TypeOK, RowTypes, EntryTypes, ClientTypes, UseTypes, OpTypes, Rest
<1> QED
  BY <1>1, <1>3, <1>4, <1>6

LEMMA ConnectOkDoes ==
  ASSUME AccountsAssumption, TypeOK, ConnFits, NEW c \in ClientIds, ConnectOk(c)
  PROVE  /\ TypeOK' /\ c \in op.conn /\ op'.at = op.at /\ op'.closing = op.closing
         /\ op'.conn = op.conn \ {c}
         /\ \A x \in ClientIds \ {c} : SameClient(x)
         /\ client'[c].acct = client[c].acct /\ client'[c].st = "open"
         /\ \A x \in ClientIds : SameCount(x)
         /\ entry'[client[c].acct] = [client |-> c, cool |-> FALSE]
         /\ \A a \in Accounts \ {client[c].acct} : entry'[a] = entry[a]
         /\ \A a \in Accounts : Allows(a) /\ Cooler(a)
         /\ UNCHANGED << chain, use, forgot >>
<1> DEFINE a == client[c].acct
<1>1. PICK saves \in BOOLEAN :
         /\ IF saves THEN Event ELSE UNCHANGED events
         /\ row' = [row EXCEPT ![a] = Known(a, [row[a] EXCEPT !.health = "healthy",
                       !.sess = IF saves THEN client[c].sess ELSE row[a].sess])]
         /\ entry' = [entry EXCEPT ![a] = [client |-> c, cool |-> FALSE]]
  BY DEF ConnectOk
<1>2. /\ c \in op.conn /\ client' = [client EXCEPT ![c].st = "open"]
      /\ op' = [op EXCEPT !.conn = @ \ {c}] /\ UNCHANGED << denied, revoked, chain, req, use, forgot >>
  BY DEF ConnectOk
<1>3. a \in Accounts
  BY <1>2 DEF ConnFits
<1>4. RowTypes /\ EntryTypes /\ ClientTypes /\ OpTypes
  BY TypeParts
<1>5. row[a] \in RowType /\ row[a].sess \in Nat /\ client[c].sess \in Nat
  BY <1>3, <1>4 DEF RowTypes, RowType, ClientTypes, ClientType
<1> DEFINE s == IF saves THEN client[c].sess ELSE row[a].sess
           r == [row[a] EXCEPT !.health = "healthy", !.sess = s]
<1>6. s \in Nat /\ TRUE \in BOOLEAN
  BY <1>5
<1>7. row' = [row EXCEPT ![a] = Known(a, r)]
  BY <1>1
<1> HIDE DEF s
<1>8. r \in RowType /\ r.there = row[a].there /\ r.enabled = row[a].enabled /\ r.cool = row[a].cool
  BY <1>5, <1>6, SavedRow
<1> HIDE DEF r, a
<1>9. RowTypes' /\ \A x \in Accounts : Allows(x) /\ Cooler(x)
  BY <1>3, <1>4, <1>7, <1>8, KnownRow
<1>10. [client |-> c, cool |-> FALSE] \in EntryType
  BY DEF EntryType, ClientIds, AccountsAssumption
<1>11. /\ EntryTypes' /\ entry'[a] = [client |-> c, cool |-> FALSE]
       /\ \A x \in Accounts \ {a} : entry'[x] = entry[x]
  BY <1>1, <1>3, <1>4, <1>10, UpdateEntry
<1>12. /\ ClientTypes' /\ \A x \in ClientIds \ {c} : SameClient(x)
       /\ client'[c].acct = client[c].acct /\ client'[c].st = "open"
       /\ \A x \in ClientIds : SameCount(x)
  BY <1>2, <1>4, UpdateClientState
<1>13. OpTypes' /\ op'.at = op.at /\ op'.closing = op.closing /\ op'.conn = op.conn \ {c}
  BY <1>2, <1>4, UpdateOp
<1>14. events' \in 0..MaxEvents
  BY <1>1 DEF Event, TypeOK, AccountsAssumption
<1>15. UseTypes' /\ chain' \in Seq(ChainType) /\ Rest'
  BY <1>2, <1>14, TypeParts DEF UseTypes, Rest
<1>16. TypeOK'
  BY <1>9, <1>11, <1>12, <1>13, <1>15 DEF TypeOK, RowTypes, EntryTypes, ClientTypes, UseTypes, OpTypes, Rest
<1> QED
  BY <1>2, <1>9, <1>11, <1>12, <1>13, <1>16 DEF a

LEMMA ConnectFailsDoes ==
  ASSUME AccountsAssumption, TypeOK, ConnFits, NEW c \in ClientIds, ConnectFails(c)
  PROVE  /\ TypeOK' /\ c \in op.conn /\ op'.at = op.at /\ op'.closing = op.closing
         /\ op'.conn = op.conn \ {c}
         /\ \A x \in ClientIds \ {c} : SameClient(x)
         /\ client'[c].acct = client[c].acct /\ client'[c].st = "closed"
         /\ \A x \in ClientIds : SameCount(x)
         /\ \A a \in Accounts : Allows(a) /\ Cooler(a)
         /\ UNCHANGED << entry, chain, use, forgot >>
<1> DEFINE a == client[c].acct
           r == IF Authorized(c) THEN [row[a] EXCEPT !.health = "degraded"]
                ELSE [row[a] EXCEPT !.health = "expired", !.cool = FALSE]
<1>1. /\ c \in op.conn /\ client' = [client EXCEPT ![c].st = "closed"]
      /\ op' = [op EXCEPT !.conn = @ \ {c}]
      /\ UNCHANGED << denied, revoked, entry, chain, req, use, forgot >>
      /\ IF Authorized(c) THEN Event ELSE UNCHANGED events
      /\ row' = [row EXCEPT ![a] = Known(a, r)]
  BY DEF ConnectFails
<1>2. a \in Accounts
  BY <1>1 DEF ConnFits
<1>3. RowTypes /\ ClientTypes /\ OpTypes
  BY TypeParts
<1>4. row[a] \in RowType
  BY <1>2, <1>3 DEF RowTypes
<1>5. /\ r \in RowType /\ r.there = row[a].there /\ r.enabled = row[a].enabled
      /\ r.cool => row[a].cool
  <2>1. 0 \in Nat /\ TRUE \in BOOLEAN
    OBVIOUS
  <2>2. CASE Authorized(c)
    <3>1. r = [row[a] EXCEPT !.health = "degraded"]
      BY <2>2
    <3> HIDE DEF r, a
    <3> QED
      BY <1>4, <2>1, <3>1, HealthRow
  <2>3. CASE ~Authorized(c)
    <3>1. r = [row[a] EXCEPT !.health = "expired", !.cool = FALSE]
      BY <2>3
    <3> HIDE DEF r, a
    <3> QED
      BY <1>4, <2>1, <3>1, HealthRow
  <2> QED
    BY <2>2, <2>3
<1> HIDE DEF r, a
<1>6. RowTypes' /\ \A x \in Accounts : Allows(x) /\ Cooler(x)
  BY <1>1, <1>2, <1>3, <1>5, KnownRow
<1>7. /\ ClientTypes' /\ \A x \in ClientIds \ {c} : SameClient(x)
      /\ client'[c].acct = client[c].acct /\ client'[c].st = "closed"
      /\ \A x \in ClientIds : SameCount(x)
  BY <1>1, <1>3, UpdateClientState
<1>8. OpTypes' /\ op'.at = op.at /\ op'.closing = op.closing /\ op'.conn = op.conn \ {c}
  BY <1>1, <1>3, UpdateOp
<1>9. events' \in 0..MaxEvents
  BY <1>1 DEF Event, TypeOK, AccountsAssumption
<1>10. EntryTypes' /\ UseTypes' /\ chain' \in Seq(ChainType) /\ Rest'
  BY <1>1, <1>9, TypeParts DEF EntryTypes, UseTypes, Rest
<1>11. TypeOK'
  BY <1>6, <1>7, <1>8, <1>10 DEF TypeOK, RowTypes, EntryTypes, ClientTypes, UseTypes, OpTypes, Rest
<1> QED
  BY <1>1, <1>6, <1>7, <1>8, <1>11

\* OpRead, with the accounts it connects and the client it picks for each.
NewClient(a) == [acct |-> a, sess |-> row[a].sess, st |-> "connecting", active |-> 0]
Reads(D, p) ==
    /\ D \subseteq Targets /\ p \in [D -> Free] /\ \A a, b \in D : p[a] = p[b] => a = b
    /\ \A a \in D : Eligible(a)
    /\ client' = [c \in ClientIds |-> IF \E a \in D : p[a] = c
                                      THEN NewClient(CHOOSE a \in D : p[a] = c) ELSE client[c]]
    /\ op' = [op EXCEPT !.at = "connect", !.conn = {p[a] : a \in D}]

LEMMA OpReadReads ==
  ASSUME OpRead, Head1.kind # "expire"
  PROVE  chain' = chain /\ \E D, p : Reads(D, p)
<1> DEFINE due == {a \in Targets : Eligible(a)}
           picks == {f \in [due -> Free] : \A a, b \in due : f[a] = f[b] => a = b}
           pick == CHOOSE f \in picks : TRUE
<1>1. /\ picks # {} /\ chain' = chain
      /\ client' = [c \in ClientIds |->
                      IF \E a \in due : pick[a] = c
                      THEN LET a == CHOOSE x \in due : pick[x] = c IN
                           [acct |-> a, sess |-> row[a].sess, st |-> "connecting", active |-> 0]
                      ELSE client[c]]
      /\ op' = [op EXCEPT !.at = "connect", !.conn = {pick[a] : a \in due}]
  BY DEF OpRead
<1>2. pick \in picks
  <2> HIDE DEF picks
  <2> QED  BY <1>1
<1>3. due \subseteq Targets /\ \A a \in due : Eligible(a)
  OBVIOUS
<1>4. pick \in [due -> Free] /\ \A a, b \in due : pick[a] = pick[b] => a = b
  <2> HIDE DEF pick, due
  <2> QED  BY <1>2
<1> HIDE DEF pick, due
<1>5. client' = [c \in ClientIds |-> IF \E a \in due : pick[a] = c
                                     THEN NewClient(CHOOSE a \in due : pick[a] = c) ELSE client[c]]
  BY <1>1 DEF NewClient
<1>6. Reads(due, pick)
  BY <1>1, <1>3, <1>4, <1>5 DEF Reads
<1> QED
  BY <1>1, <1>6

LEMMA ReadsDoes ==
  ASSUME TypeOK, ChainFits, chain # << >>, NEW D, NEW p, Reads(D, p)
  PROVE  /\ D \subseteq Accounts /\ D \subseteq Targets
         /\ \A a \in D : p[a] \in Free /\ p[a] \in ClientIds /\ client'[p[a]] = NewClient(a)
         /\ \A c \in ClientIds : (\A a \in D : p[a] # c) => client'[c] = client[c]
         /\ ClientTypes' /\ OpTypes'
         /\ op'.at = "connect" /\ op'.closing = op.closing /\ op'.conn = {p[a] : a \in D}
<1>1. D \subseteq Accounts /\ D \subseteq Targets
  BY TargetsFit DEF Reads
<1>2. \A a \in D : p[a] \in Free /\ p[a] \in ClientIds
  BY DEF Reads, Free
<1>3. ASSUME NEW a \in D
      PROVE  client'[p[a]] = NewClient(a)
  <2>1. \A x \in D : p[x] = p[a] => x = a
    BY DEF Reads
  <2>2. (CHOOSE x \in D : p[x] = p[a]) = a
    BY <2>1
  <2>3. client'[p[a]] = NewClient(CHOOSE x \in D : p[x] = p[a])
    BY <1>2 DEF Reads
  <2> QED
    BY <2>2, <2>3
<1>4. \A c \in ClientIds : (\A a \in D : p[a] # c) => client'[c] = client[c]
  BY DEF Reads
<1>5. \A a \in Accounts : NewClient(a) \in ClientType
  BY DEF TypeOK, RowType, NewClient, ClientType
<1>6. ClientTypes'
  <2>1. client' = [c \in ClientIds |-> client'[c]]
    BY DEF Reads
  <2>2. ASSUME NEW c \in ClientIds
        PROVE  client'[c] \in ClientType
    <3>1. client[c] \in ClientType
      BY DEF TypeOK
    <3> QED
      BY <1>1, <1>3, <1>4, <1>5, <3>1
  <2> QED
    BY <2>1, <2>2 DEF ClientTypes
<1>7. {p[a] : a \in D} \subseteq ClientIds
  BY <1>2
<1>8. op \in [at : {"none", "close", "connect"}, closing : SUBSET ClientIds, conn : SUBSET ClientIds]
  BY DEF TypeOK, OpType
<1>9. op' = [op EXCEPT !.at = "connect", !.conn = {p[a] : a \in D}]
  BY DEF Reads
<1>10. OpTypes' /\ op'.at = "connect" /\ op'.closing = op.closing /\ op'.conn = {p[a] : a \in D}
  BY <1>7, <1>8, <1>9 DEF OpTypes, OpType
<1> QED
  BY <1>1, <1>2, <1>3, <1>4, <1>6, <1>10

LEMMA OpReadDoes ==
  ASSUME TypeOK, ChainFits, OpFits, OpRead
  PROVE  /\ TypeOK' /\ op.at = "close" /\ op.closing = {} /\ chain # << >>
         /\ UNCHANGED << row, entry, use, forgot >>
         /\ \/ OpDone /\ UNCHANGED client
            \/ chain' = chain /\ \E D, p : Reads(D, p)
<1>1. /\ op.at = "close" /\ op.closing = {}
      /\ UNCHANGED << row, denied, revoked, entry, req, use, forgot, events >>
  BY DEF OpRead
<1>2. chain # << >>
  BY <1>1 DEF OpFits
<1>3. RowTypes' /\ EntryTypes' /\ UseTypes' /\ Rest'
  BY <1>1, TypeParts DEF RowTypes, EntryTypes, UseTypes, Rest
<1>4. CASE Head1.kind = "expire"
  <2>1. OpDone /\ client' = client
    BY <1>4 DEF OpRead
  <2>2. chain' \in Seq(ChainType) /\ op' \in OpType
    BY <1>2, <2>1, OpDoneDoes
  <2>3. ClientTypes' /\ OpTypes'
    BY <2>1, <2>2 DEF ClientTypes, OpTypes, TypeOK
  <2>4. TypeOK'
    BY <1>3, <2>2, <2>3 DEF TypeOK, RowTypes, EntryTypes, ClientTypes, UseTypes, OpTypes, Rest
  <2> QED
    BY <1>1, <1>2, <2>1, <2>4
<1>5. CASE Head1.kind # "expire"
  <2>1. chain' = chain /\ \E D, p : Reads(D, p)
    BY <1>5, OpReadReads
  <2> PICK D, p : Reads(D, p)
    BY <2>1
  <2>2. ClientTypes' /\ OpTypes'
    BY <1>2, ReadsDoes
  <2>3. chain' \in Seq(ChainType)
    BY <2>1 DEF TypeOK
  <2>4. TypeOK'
    BY <1>3, <2>2, <2>3 DEF TypeOK, RowTypes, EntryTypes, ClientTypes, UseTypes, OpTypes, Rest
  <2> QED
    BY <1>1, <1>2, <2>1, <2>4
<1> QED
  BY <1>4, <1>5

LEMMA OpEndsDoes ==
  ASSUME TypeOK, ChainFits, OpFits, OpEnds
  PROVE  /\ TypeOK' /\ OpDone /\ op.at = "connect" /\ op.conn = {} /\ chain # << >>
         /\ UNCHANGED << row, entry, client, use, forgot >>
<1>1. /\ op.at = "connect" /\ op.conn = {} /\ OpDone /\ chain # << >>
      /\ UNCHANGED << row, denied, revoked, entry, client, req, use, forgot, events >>
  BY DEF OpEnds, OpFits
<1>2. chain' \in Seq(ChainType) /\ op' \in OpType
  BY <1>1, OpDoneDoes
<1>3. TypeOK'
  BY <1>1, <1>2 DEF TypeOK
<1> QED
  BY <1>1, <1>3
-----------------------------------------------------------------------------
(* The clients are held or closed                                           *)

LEMMA OpBeginKeepsClients ==
  ASSUME AccountsAssumption, TypeOK, ClientsFit, OpBegin
  PROVE  ClientsFit'
<1> DEFINE T == Targets
<1>1. EntriesFit /\ OpenIsHeld /\ ConnFits /\ OpFits /\ ChainFits
  BY DEF ClientsFit
<1>2. /\ chain # << >> /\ op.at = "none" /\ op'.at = "close" /\ op'.conn = {}
      /\ op'.closing = {entry[a].client : a \in T} \ {0}
      /\ \A a \in Accounts : entry'[a] = IF a \in T THEN [client |-> 0, cool |-> FALSE] ELSE entry[a]
      /\ client' = client /\ chain' = chain
  BY <1>1, OpBeginDoes
<1>3. T \subseteq Accounts /\ \A a \in Accounts : a \in T <=> Aimed(a)
  BY <1>1, <1>2, TargetsFit
<1>4. op.closing = {} /\ op.conn = {}
  BY <1>1, <1>2 DEF OpFits
<1> HIDE DEF T
<1>5. \A a \in Accounts : entry'[a].client = IF a \in T THEN 0 ELSE entry[a].client
  BY <1>2
<1>6. EntriesFit'
  BY <1>1, <1>2, <1>5 DEF EntriesFit, Entered
<1>7. OpenIsHeld'
  <2> SUFFICES ASSUME NEW c \in ClientIds, client[c].st = "open"
               PROVE  client[c].acct \in Accounts /\ (entry'[client[c].acct].client = c \/ c \in op'.closing)
    BY <1>2 DEF OpenIsHeld
  <2>1. client[c].acct \in Accounts /\ entry[client[c].acct].client = c /\ c # 0
    BY <1>1, <1>4 DEF OpenIsHeld, ClientIds
  <2> QED
    BY <1>2, <1>5, <2>1
<1>8. ConnFits'
  BY <1>1, <1>2, <1>4 DEF ConnFits
<1>9. \A c \in op'.closing : \E a \in T : c = entry[a].client /\ Entered(a) /\ client[c].acct = a
                                           /\ client[c].st = "open"
  BY <1>1, <1>2, <1>3 DEF EntriesFit, Entered
<1>10. OpFits'
  <2>1. \A a \in Accounts : Aimed(a)' => entry'[a].client = 0
    BY <1>2, <1>3, <1>5 DEF Aimed
  <2>2. \A c \in op'.closing : client[c].st = "open" /\ entry'[client[c].acct].client = 0
    BY <1>3, <1>5, <1>9
  <2>3. \A c, d \in op'.closing : client[c].acct = client[d].acct => c = d
    BY <1>9
  <2> QED
    BY <1>2, <2>1, <2>2, <2>3 DEF OpFits, Entered
<1>11. ChainFits'
  BY <1>1, <1>2 DEF ChainFits
<1> QED
  BY <1>6, <1>7, <1>8, <1>10, <1>11 DEF ClientsFit

LEMMA CloseKeepsClients ==
  ASSUME TypeOK, ClientsFit, NEW c \in ClientIds, CloseClient(c)
  PROVE  ClientsFit'
<1>1. EntriesFit /\ OpenIsHeld /\ ConnFits /\ OpFits /\ ChainFits
  BY DEF ClientsFit
<1>2. /\ c \in op.closing /\ op'.at = op.at /\ op'.conn = op.conn
      /\ op'.closing = op.closing \ {c}
      /\ \A x \in ClientIds \ {c} : client'[x].acct = client[x].acct /\ client'[x].st = client[x].st
      /\ client'[c].acct = client[c].acct /\ client'[c].st = "closed"
      /\ entry' = entry /\ chain' = chain
  BY CloseDoes DEF SameClient
<1>3. op.conn \subseteq ClientIds /\ op.closing \subseteq ClientIds
  BY DEF TypeOK, OpType
<1>4. client[c].st = "open" /\ ~Entered(client[c].acct)
  BY <1>1, <1>2 DEF OpFits
<1>5. c \notin op.conn
  BY <1>1, <1>4 DEF ConnFits
<1>6. \A a \in Accounts : Entered(a) => entry[a].client # c /\ entry[a].client \in ClientIds
  BY <1>1, <1>4 DEF EntriesFit, Entered, TypeOK, EntryType, ClientIds
<1>7. EntriesFit'
  BY <1>1, <1>2, <1>6 DEF EntriesFit, Entered
<1>8. OpenIsHeld'
  BY <1>1, <1>2 DEF OpenIsHeld
<1>9. ConnFits'
  BY <1>1, <1>2, <1>3, <1>4, <1>5 DEF ConnFits, Entered
<1>10. OpFits'
  BY <1>1, <1>2, <1>3 DEF OpFits, Entered, Aimed
<1>11. ChainFits'
  BY <1>1, <1>2 DEF ChainFits
<1> QED
  BY <1>7, <1>8, <1>9, <1>10, <1>11 DEF ClientsFit

LEMMA DoneKeepsClients ==
  ASSUME TypeOK, ClientsFit, chain # << >>, OpDone, op.closing = {}, op.conn = {},
         UNCHANGED << entry, client >>
  PROVE  ClientsFit'
<1>1. EntriesFit /\ OpenIsHeld /\ ConnFits /\ OpFits /\ ChainFits
  BY DEF ClientsFit
<1>2. op' = NoOp /\ ChainFits'
  BY <1>1, OpDoneDoes
<1>3. op'.at = "none" /\ op'.closing = {} /\ op'.conn = {}
  BY <1>2 DEF NoOp
<1>4. EntriesFit'
  BY <1>1 DEF EntriesFit, Entered
<1>5. OpenIsHeld'
  BY <1>1, <1>3 DEF OpenIsHeld
<1>6. ConnFits'
  BY <1>1, <1>3 DEF ConnFits, Entered
<1>7. OpFits'
  BY <1>3 DEF OpFits
<1> QED
  BY <1>2, <1>4, <1>5, <1>6, <1>7 DEF ClientsFit

LEMMA OpReadKeepsClients ==
  ASSUME TypeOK, ClientsFit, OpRead
  PROVE  ClientsFit'
<1>1. EntriesFit /\ OpenIsHeld /\ ConnFits /\ OpFits /\ ChainFits
  BY DEF ClientsFit
<1>2. /\ op.at = "close" /\ op.closing = {} /\ chain # << >> /\ entry' = entry
      /\ (OpDone /\ UNCHANGED client) \/ (chain' = chain /\ \E D, p : Reads(D, p))
  BY <1>1, OpReadDoes
<1>3. op.conn = {} /\ \A a \in Accounts : Aimed(a) => ~Entered(a)
  BY <1>1, <1>2 DEF OpFits
<1>4. CASE OpDone /\ UNCHANGED client
  BY <1>2, <1>3, <1>4, DoneKeepsClients
<1>5. ASSUME chain' = chain, NEW D, NEW p, Reads(D, p)
      PROVE  ClientsFit'
  <2>1. /\ D \subseteq Accounts /\ D \subseteq Targets
        /\ \A a \in D : p[a] \in Free /\ p[a] \in ClientIds /\ client'[p[a]] = NewClient(a)
        /\ \A c \in ClientIds : (\A a \in D : p[a] # c) => client'[c] = client[c]
        /\ op'.at = "connect" /\ op'.closing = op.closing /\ op'.conn = {p[a] : a \in D}
    BY <1>1, <1>2, <1>5, ReadsDoes
  <2>2. \A a \in D : ~Entered(a)
    BY <1>1, <1>2, <1>3, <2>1, TargetsFit
  <2>3. \A a \in D : client[p[a]].st \in {"free", "closed"}
    BY <2>1 DEF Free
  <2>4. \A a \in D : client'[p[a]].acct = a /\ client'[p[a]].st = "connecting"
    <3>1. \A a \in D : NewClient(a).acct = a /\ NewClient(a).st = "connecting"
      BY DEF NewClient
    <3> QED
      BY <2>1, <3>1
  <2>5. \A c \in ClientIds : client[c].st \in {"open", "connecting"} => client'[c] = client[c]
    BY <2>1, <2>3
  <2>6. \A c \in ClientIds : client'[c].st = "open" => client[c].st = "open" /\ client'[c] = client[c]
    BY <2>1, <2>4
  <2>7. EntriesFit'
    <3>1. \A a \in Accounts : Entered(a) => entry[a].client \in ClientIds
      BY DEF Entered, TypeOK, EntryType, ClientIds
    <3> QED
      BY <1>1, <1>2, <2>5, <3>1 DEF EntriesFit, Entered
  <2>8. OpenIsHeld'
    BY <1>1, <1>2, <2>1, <2>6 DEF OpenIsHeld
  <2>9. ConnFits'
    <3>1. \A c \in ClientIds : client[c].st # "connecting"
      BY <1>1, <1>3 DEF ConnFits
    <3>2. \A c \in ClientIds : client'[c].st = "connecting" <=> c \in op'.conn
      BY <2>1, <2>4, <3>1
    <3>3. \A c \in op'.conn : client'[c].acct \in Accounts /\ ~Entered(client'[c].acct)
      BY <2>1, <2>2, <2>4
    <3>4. \A c, d \in op'.conn : client'[c].acct = client'[d].acct => c = d
      BY <2>1, <2>4
    <3> QED
      BY <1>2, <3>2, <3>3, <3>4 DEF ConnFits, Entered
  <2>10. OpFits'
    BY <1>2, <1>5, <2>1 DEF OpFits
  <2>11. ChainFits'
    BY <1>1, <1>5 DEF ChainFits
  <2> QED
    BY <2>7, <2>8, <2>9, <2>10, <2>11 DEF ClientsFit
<1> QED
  BY <1>2, <1>4, <1>5

LEMMA ConnectOkKeepsClients ==
  ASSUME AccountsAssumption, TypeOK, ClientsFit, NEW c \in ClientIds, ConnectOk(c)
  PROVE  ClientsFit'
<1> DEFINE a == client[c].acct
<1>1. EntriesFit /\ OpenIsHeld /\ ConnFits /\ OpFits /\ ChainFits
  BY DEF ClientsFit
<1>2. /\ c \in op.conn /\ op'.at = op.at /\ op'.closing = op.closing /\ op'.conn = op.conn \ {c}
      /\ \A x \in ClientIds \ {c} : client'[x].acct = client[x].acct /\ client'[x].st = client[x].st
      /\ client'[c].acct = a /\ client'[c].st = "open"
      /\ entry'[a] = [client |-> c, cool |-> FALSE]
      /\ \A x \in Accounts \ {a} : entry'[x] = entry[x]
      /\ chain' = chain
  BY <1>1, ConnectOkDoes DEF SameClient
<1>3. a \in Accounts /\ entry[a].client = 0
  BY <1>1, <1>2 DEF ConnFits, Entered
<1>4. op.at = "connect" /\ op.closing = {} /\ op.conn \subseteq ClientIds
  BY <1>1, <1>2 DEF OpFits, TypeOK, OpType
<1>5. \A x \in op.conn : client[x].acct = a => x = c
  BY <1>1, <1>2 DEF ConnFits
<1> HIDE DEF a
<1>6. entry'[a].client = c /\ c # 0 /\ \A x \in Accounts \ {a} : entry'[x].client = entry[x].client
  BY <1>2 DEF ClientIds
<1>7. client[c].st = "connecting" /\ client[c].acct = a
  BY <1>1, <1>2 DEF ConnFits, a
<1>8. \A x \in Accounts : Entered(x) => entry[x].client # c /\ entry[x].client \in ClientIds
  BY <1>1, <1>7 DEF EntriesFit, Entered, TypeOK, EntryType, ClientIds
<1>9. EntriesFit'
  BY <1>1, <1>2, <1>3, <1>6, <1>8 DEF EntriesFit, Entered
<1>10. OpenIsHeld'
  <2> SUFFICES ASSUME NEW x \in ClientIds, client'[x].st = "open", x # c
               PROVE  client'[x].acct \in Accounts /\ entry'[client'[x].acct].client = x
    BY <1>2, <1>3, <1>6 DEF OpenIsHeld
  <2>1. client[x].st = "open" /\ client'[x].acct = client[x].acct
    BY <1>2
  <2>2. client[x].acct \in Accounts /\ entry[client[x].acct].client = x /\ x # 0
    BY <1>1, <1>4, <2>1 DEF OpenIsHeld, ClientIds
  <2>3. client[x].acct # a
    BY <1>3, <2>2
  <2> QED
    BY <1>6, <2>1, <2>2, <2>3
<1>11. ConnFits'
  <2>1. \A x \in ClientIds : client'[x].st = "connecting" <=> x \in op'.conn
    BY <1>1, <1>2 DEF ConnFits
  <2>2. \A x \in op'.conn : x \in op.conn /\ client'[x].acct = client[x].acct /\ client[x].acct # a
    BY <1>2, <1>4, <1>5
  <2>3. \A x \in op'.conn : client'[x].acct \in Accounts /\ entry'[client'[x].acct].client = 0
    BY <1>1, <1>6, <2>2 DEF ConnFits, Entered
  <2>4. \A x, y \in op'.conn : client'[x].acct = client'[y].acct => x = y
    BY <1>1, <2>2 DEF ConnFits
  <2> QED
    BY <2>1, <2>3, <2>4 DEF ConnFits, Entered
<1>12. OpFits'
  BY <1>1, <1>2, <1>4 DEF OpFits
<1>13. ChainFits'
  BY <1>1, <1>2 DEF ChainFits
<1> QED
  BY <1>9, <1>10, <1>11, <1>12, <1>13 DEF ClientsFit

LEMMA ConnectFailsKeepsClients ==
  ASSUME AccountsAssumption, TypeOK, ClientsFit, NEW c \in ClientIds, ConnectFails(c)
  PROVE  ClientsFit'
<1>1. EntriesFit /\ OpenIsHeld /\ ConnFits /\ OpFits /\ ChainFits
  BY DEF ClientsFit
<1>2. /\ c \in op.conn /\ op'.at = op.at /\ op'.closing = op.closing /\ op'.conn = op.conn \ {c}
      /\ \A x \in ClientIds \ {c} : client'[x].acct = client[x].acct /\ client'[x].st = client[x].st
      /\ client'[c].acct = client[c].acct /\ client'[c].st = "closed"
      /\ entry' = entry /\ chain' = chain
  BY <1>1, ConnectFailsDoes DEF SameClient
<1>3. op.at = "connect" /\ op.closing = {} /\ op.conn \subseteq ClientIds
  BY <1>1, <1>2 DEF OpFits, TypeOK, OpType
<1>4. client[c].st = "connecting"
  BY <1>1, <1>2 DEF ConnFits
<1>5. \A x \in Accounts : Entered(x) => entry[x].client # c /\ entry[x].client \in ClientIds
  BY <1>1, <1>4 DEF EntriesFit, Entered, TypeOK, EntryType, ClientIds
<1>6. EntriesFit'
  BY <1>1, <1>2, <1>5 DEF EntriesFit, Entered
<1>7. OpenIsHeld'
  BY <1>1, <1>2, <1>3 DEF OpenIsHeld
<1>8. ConnFits'
  BY <1>1, <1>2, <1>3 DEF ConnFits, Entered
<1>9. OpFits'
  BY <1>1, <1>2, <1>3 DEF OpFits
<1>10. ChainFits'
  BY <1>1, <1>2 DEF ChainFits
<1> QED
  BY <1>6, <1>7, <1>8, <1>9, <1>10 DEF ClientsFit

\* All others leave clients, entries and the running operation alone.
Calm ==
    /\ \A c \in ClientIds : SameClient(c)
    /\ \A a \in Accounts : entry'[a].client = entry[a].client
    /\ op' = op /\ ChainKept
LEMMA CalmKeepsClients ==
  ASSUME TypeOK, ClientsFit, Calm
  PROVE  ClientsFit'
<1>1. EntriesFit /\ OpenIsHeld /\ ConnFits /\ OpFits /\ ChainFits
  BY DEF ClientsFit
<1>2. /\ \A c \in ClientIds : client'[c].acct = client[c].acct /\ client'[c].st = client[c].st
      /\ \A a \in Accounts : entry'[a].client = entry[a].client
      /\ op' = op
  BY DEF Calm, SameClient
<1>3. ChainFits' /\ (chain # << >> => chain' # << >> /\ chain'[1] = chain[1])
  BY <1>1, ChainKeptDoes DEF Calm
<1>4. op.conn \subseteq ClientIds /\ op.closing \subseteq ClientIds
  BY DEF TypeOK, OpType
<1>5. \A a \in Accounts : Entered(a) => entry[a].client \in ClientIds
  BY DEF Entered, TypeOK, EntryType, ClientIds
<1>6. EntriesFit'
  BY <1>1, <1>2, <1>5 DEF EntriesFit, Entered
<1>7. OpenIsHeld'
  BY <1>1, <1>2 DEF OpenIsHeld
<1>8. ConnFits'
  BY <1>1, <1>2, <1>4 DEF ConnFits, Entered
<1>9. \A c \in op.closing : client[c].acct \in Accounts
  BY <1>1, <1>4 DEF OpFits, OpenIsHeld
<1>10. OpFits'
  BY <1>1, <1>2, <1>3, <1>4, <1>9 DEF OpFits, Entered, Aimed
<1> QED
  BY <1>3, <1>6, <1>7, <1>8, <1>10 DEF ClientsFit
-----------------------------------------------------------------------------
(* What calm steps keep                                                     *)

\* A step that leaves the wait of an account where it was, ends it, or records it.
WaitKept(a) ==
    \/ ~row'[a].cool
    \/ /\ Cooler(a) /\ (entry[a].cool => entry'[a].cool) /\ (a \in forgot => a \in forgot')
       /\ Cooling(a) => Cooling(a)'
    \/ Cooling(a)' /\ (a \in Connecting => a \in forgot')
    \/ Cooler(a) /\ (a \in forgot => a \in forgot') /\ (Entered(a) /\ row[a].cool => entry'[a].cool)

LEMMA WaitKeptKeepsCool ==
  ASSUME TypeOK, ClientsFit, CoolFits, Calm, \A a \in Accounts : WaitKept(a)
  PROVE  CoolFits'
<1>1. /\ \A c \in ClientIds : client'[c].acct = client[c].acct
      /\ \A a \in Accounts : entry'[a].client = entry[a].client
      /\ op' = op /\ op.conn \subseteq ClientIds
  BY DEF Calm, SameClient, TypeOK, OpType
<1>2. ASSUME NEW a \in Accounts, entry'[a].client # 0, row'[a].cool, ~entry'[a].cool
      PROVE  a \in forgot' \/ Cooling(a)'
  <2>1. entry[a].client # 0
    BY <1>1, <1>2
  <2>2. row[a].cool /\ ~entry[a].cool => a \in forgot \/ Cooling(a)
    BY <2>1 DEF CoolFits, Entered
  <2> QED
    BY <1>2, <2>1, <2>2 DEF WaitKept, Cooler, Entered
<1>3. ASSUME NEW c \in op.conn, row'[client[c].acct].cool
      PROVE  client[c].acct \in forgot'
  <2> DEFINE a == client[c].acct
  <2>1. a \in Accounts /\ (row[a].cool => a \in forgot)
    BY DEF ClientsFit, ConnFits, CoolFits
  <2>2. a \in Connecting
    BY DEF Connecting
  <2>3. WaitKept(a)
    BY <2>1
  <2> QED
    BY <1>3, <2>1, <2>2, <2>3 DEF WaitKept, Cooler
<1>4. \A a \in Accounts : entry'[a].client # 0 /\ row'[a].cool /\ ~entry'[a].cool =>
        a \in forgot' \/ Cooling(a)'
  BY <1>2
<1>5. \A c \in op'.conn : row'[client'[c].acct].cool => client'[c].acct \in forgot'
  BY <1>1, <1>3
<1> QED
  BY <1>4, <1>5 DEF CoolFits, Entered

LEMMA CoolingStays ==
  ASSUME NEW d \in Downloads, use[d].at # "cool", \A x \in Downloads \ {d} : use'[x] = use[x],
         NEW a
  PROVE  Cooling(a) => Cooling(a)'
BY DEF Cooling

LEMMA PendingStays ==
  ASSUME TypeOK, ChainFits, ChainKept, op' = op, NEW a
  PROVE  Pending(a) => Pending(a)'
<1>1. \A i \in DOMAIN chain : i \in DOMAIN chain' /\ chain'[i] = chain[i]
  BY ChainKeptDoes
<1> QED
  BY <1>1 DEF Pending

LEMMA CalmKeepsDisabled ==
  ASSUME TypeOK, ClientsFit, DisabledFits, Calm, \A a \in Accounts : Allows(a) \/ Pending(a)'
  PROVE  DisabledFits'
<1>1. /\ \A c \in ClientIds : client'[c].acct = client[c].acct
      /\ \A a \in Accounts : entry'[a].client = entry[a].client
      /\ op' = op /\ op.conn \subseteq ClientIds
  BY DEF Calm, SameClient, TypeOK, OpType
<1>2. Connecting' = Connecting
  BY <1>1 DEF Connecting
<1>3. ASSUME NEW a \in Accounts, row'[a].there, ~row'[a].enabled,
             entry'[a].client # 0 \/ a \in Connecting'
      PROVE  Pending(a)'
  <2>1. CASE Pending(a)'
    BY <2>1
  <2>2. CASE Allows(a)
    <3>1. row[a].there /\ ~row[a].enabled /\ (Entered(a) \/ a \in Connecting)
      BY <1>1, <1>2, <1>3, <2>2 DEF Allows, Entered
    <3>2. Pending(a)
      BY <3>1 DEF DisabledFits
    <3>3. ChainFits /\ ChainKept
      BY DEF ClientsFit, Calm
    <3> QED
      BY <1>1, <3>2, <3>3, PendingStays
  <2> QED
    BY <2>1, <2>2
<1>4. \A a \in Accounts : row'[a].there /\ ~row'[a].enabled /\ (entry'[a].client # 0 \/ a \in Connecting')
        => Pending(a)'
  BY <1>3
<1> QED
  BY <1>4 DEF DisabledFits, Entered

LEMMA CalmKeeps ==
  ASSUME PoolInv, TypeOK', UseFits', CountsAreHolders', Calm,
         \A a \in Accounts : WaitKept(a), \A a \in Accounts : Allows(a) \/ Pending(a)'
  PROVE  PoolInv'
<1>1. TypeOK /\ ClientsFit /\ CoolFits /\ DisabledFits
  BY DEF PoolInv
<1>2. ClientsFit'
  BY <1>1, CalmKeepsClients
<1>3. CoolFits'
  BY <1>1, WaitKeptKeepsCool
<1>4. DisabledFits'
  BY <1>1, CalmKeepsDisabled
<1> QED
  BY <1>2, <1>3, <1>4 DEF PoolInv
-----------------------------------------------------------------------------
(* The downloads                                                            *)

LEMMA CandidatesAreEntered ==
  ASSUME NEW a \in Candidates
  PROVE  /\ a \in Accounts /\ Entered(a) /\ ~entry[a].cool
         /\ client[entry[a].client].active < MaxConnections
BY DEF Candidates, IsRunnable

LEMMA SelectKeeps ==
  ASSUME AccountsAssumption, PoolInv, NEW d \in Downloads, Select(d)
  PROVE  PoolInv'
<1>1. TypeOK /\ UseFits /\ CountsAreHolders
  BY DEF PoolInv
<1>2. /\ use[d].at = "idle" /\ \E a \in Best : Take(d, a)
      /\ UNCHANGED << row, denied, revoked, entry, chain, op, req, forgot, events >>
  BY DEF Select
<1> PICK a \in Best : Take(d, a)
  BY <1>2
<1>3. a \in Accounts /\ Entered(a) /\ client[entry[a].client].active < MaxConnections
  BY CandidatesAreEntered DEF Best
<1>4. /\ ClientTypes' /\ UseTypes' /\ UseFits' /\ CountsAreHolders'
      /\ \A c \in ClientIds : SameClient(c)
      /\ use'[d].at = "use" /\ use'[d].acct = a
      /\ \A x \in Downloads \ {d} : use'[x] = use[x]
  BY <1>1, <1>2, <1>3, TakeDoes
<1>5. TypeOK'
  BY <1>1, <1>2, <1>4 DEF TypeOK, ClientTypes, UseTypes
<1>6. Calm
  BY <1>2, <1>4 DEF Calm, ChainKept
<1>7. \A x \in Accounts : Cooling(x) => Cooling(x)'
  BY <1>2, <1>4, CoolingStays
<1>8. \A x \in Accounts : WaitKept(x) /\ Allows(x)
  BY <1>2, <1>7 DEF WaitKept, Cooler, Allows
<1> QED
  BY <1>4, <1>5, <1>6, <1>8, CalmKeeps

LEMMA UseDefaultKeeps ==
  ASSUME AccountsAssumption, PoolInv, NEW d \in Downloads, UseDefault(d)
  PROVE  PoolInv'
<1>1. TypeOK /\ UseFits /\ CountsAreHolders
  BY DEF PoolInv
<1>2. /\ use[d].at = "idle"
      /\ UNCHANGED << row, denied, revoked, entry, client, chain, op, req, forgot, events >>
  BY DEF UseDefault
<1> PICK a \in Accounts : /\ IsRunnable(a)
                          /\ use' = [use EXCEPT ![d] = [at |-> "use", acct |-> a,
                                        client |-> entry[a].client, counted |-> FALSE]]
  BY DEF UseDefault
<1> DEFINE u == [at |-> "use", acct |-> a, client |-> entry[a].client, counted |-> FALSE]
<1>3. entry[a].client \in 0..Clients /\ entry[a].client # 0
  BY <1>1 DEF TypeOK, EntryType, IsRunnable, Entered
<1>4. u \in UseType
  BY <1>3 DEF UseType
<1>5. UseTypes
  BY <1>1 DEF TypeOK, UseTypes
<1>6. UseTypes' /\ use'[d] = u /\ \A x \in Downloads \ {d} : use'[x] = use[x]
  BY <1>4, <1>5, UpdateUse
<1>7. UseFits'
  BY <1>1, <1>3, <1>6 DEF UseFits
<1>8. ~use[d].counted /\ ~use'[d].counted
  BY <1>1, <1>2, <1>6 DEF UseFits, NoUse
<1>9. CountsAreHolders'
  <2>1. \A x \in Downloads : use[x].counted \/ use'[x].counted => SameHold(x)
    BY <1>6, <1>8 DEF SameHold
  <2>2. \A c \in ClientIds : SameCount(c)
    BY <1>2 DEF SameCount
  <2> QED
    BY <1>1, <2>1, <2>2, SameHoldsSameCounts
<1>10. TypeOK'
  BY <1>1, <1>2, <1>6 DEF TypeOK, UseTypes
<1>11. Calm
  BY <1>2 DEF Calm, ChainKept, SameClient
<1>12. \A x \in Accounts : Cooling(x) => Cooling(x)'
  BY <1>2, <1>6, CoolingStays
<1>13. \A x \in Accounts : WaitKept(x) /\ Allows(x)
  BY <1>2, <1>12 DEF WaitKept, Cooler, Allows
<1> QED
  BY <1>7, <1>9, <1>10, <1>11, <1>13, CalmKeeps

LEMMA FinishKeeps ==
  ASSUME AccountsAssumption, PoolInv, NEW d \in Downloads, Finish(d) \/ AccessDenied(d)
  PROVE  PoolInv'
<1>1. TypeOK /\ UseFits /\ CountsAreHolders
  BY DEF PoolInv
<1>2. /\ use[d].at = "use" /\ Release(d)
      /\ UNCHANGED << row, revoked, entry, chain, op, req, forgot >>
  BY DEF Finish, AccessDenied
<1>3. denied' \subseteq Accounts /\ events' \in 0..MaxEvents
  <2>1. use[d].acct \in Accounts
    BY <1>1, <1>2 DEF UseFits
  <2> QED
    BY <1>1, <2>1 DEF Finish, AccessDenied, Event, TypeOK, AccountsAssumption
<1>4. /\ ClientTypes' /\ UseTypes' /\ UseFits' /\ CountsAreHolders'
      /\ \A c \in ClientIds : SameClient(c)
      /\ \A x \in Downloads \ {d} : use'[x] = use[x]
  BY <1>1, <1>2, ReleaseDoes
<1>5. TypeOK'
  BY <1>1, <1>2, <1>3, <1>4 DEF TypeOK, ClientTypes, UseTypes
<1>6. Calm
  BY <1>2, <1>4 DEF Calm, ChainKept
<1>7. \A x \in Accounts : Cooling(x) => Cooling(x)'
  BY <1>2, <1>4, CoolingStays
<1>8. \A x \in Accounts : WaitKept(x) /\ Allows(x)
  BY <1>2, <1>7 DEF WaitKept, Cooler, Allows
<1> QED
  BY <1>4, <1>5, <1>6, <1>8, CalmKeeps

LEMMA FloodKeeps ==
  ASSUME AccountsAssumption, PoolInv, NEW d \in Downloads, Flood(d)
  PROVE  PoolInv'
<1> DEFINE a == use[d].acct
           r == [row[a] EXCEPT !.cool = TRUE, !.health = "degraded"]
<1>1. TypeOK /\ UseFits /\ CountsAreHolders
  BY DEF PoolInv
<1>2. /\ use[d].at = "use" /\ use[d].counted /\ Event
      /\ row' = [row EXCEPT ![a] = Known(a, r)]
      /\ forgot' = IF a \in Connecting THEN forgot \cup {a} ELSE forgot
      /\ use' = [use EXCEPT ![d].at = "cool"]
      /\ UNCHANGED << denied, revoked, entry, client, chain, op, req >>
  BY DEF Flood
<1>3. a \in Accounts
  BY <1>1, <1>2 DEF UseFits
<1>4. RowTypes /\ UseTypes
  BY <1>1 DEF TypeOK, RowTypes, UseTypes
<1>5. /\ UseTypes' /\ \A x \in Downloads \ {d} : use'[x] = use[x]
      /\ use'[d].at = "cool" /\ use'[d].acct = use[d].acct
      /\ use'[d].client = use[d].client /\ use'[d].counted = use[d].counted
  BY <1>2, <1>4, UpdateUsePlace
<1>6. UseFits'
  BY <1>1, <1>2, <1>5 DEF UseFits
<1>7. r \in RowType /\ r.there = row[a].there /\ r.enabled = row[a].enabled
  <2>1. row[a] \in RowType /\ TRUE \in BOOLEAN
    BY <1>3, <1>4 DEF RowTypes
  <2> QED
    BY <2>1, HealthRow
<1> HIDE DEF r, a
<1>8. /\ RowTypes' /\ (\A x \in Accounts : Allows(x)) /\ \A x \in Accounts \ {a} : SameRow(x)
  BY <1>2, <1>3, <1>4, <1>7, KnownRow
<1>9. CountsAreHolders'
  <2>1. \A x \in Downloads : SameHold(x)
    BY <1>5 DEF SameHold
  <2>2. \A c \in ClientIds : SameCount(c)
    BY <1>2 DEF SameCount
  <2> QED
    BY <1>1, <2>1, <2>2, SameHoldsSameCounts
<1>10. TypeOK'
  <2>1. events' \in 0..MaxEvents /\ forgot' \subseteq Accounts
    BY <1>1, <1>2, <1>3 DEF Event, TypeOK, AccountsAssumption
  <2> QED
    BY <1>1, <1>2, <1>5, <1>8, <2>1 DEF TypeOK, UseTypes, RowTypes
<1>11. Calm
  BY <1>2 DEF Calm, ChainKept, SameClient
<1>12. \A x \in Accounts : Cooling(x) => Cooling(x)'
  BY <1>2, <1>5, CoolingStays
<1>13. \A x \in Accounts : WaitKept(x)
  <2>1. Cooling(a)'
    BY <1>5 DEF Cooling, a
  <2>2. WaitKept(a)
    BY <1>2, <2>1 DEF WaitKept
  <2>3. ASSUME NEW x \in Accounts \ {a}  PROVE WaitKept(x)
    BY <1>2, <1>8, <1>12 DEF WaitKept, Cooler, SameRow
  <2> QED
    BY <2>2, <2>3
<1> QED
  BY <1>6, <1>8, <1>9, <1>10, <1>11, <1>13, CalmKeeps

LEMMA CoolEntryKeeps ==
  ASSUME AccountsAssumption, PoolInv, NEW d \in Downloads, CoolEntry(d)
  PROVE  PoolInv'
<1> DEFINE a == use[d].acct
<1>1. TypeOK /\ UseFits /\ CountsAreHolders
  BY DEF PoolInv
<1>2. /\ use[d].at = "cool" /\ Release(d)
      /\ entry' = IF Entered(a) /\ row[a].cool THEN [entry EXCEPT ![a].cool = TRUE] ELSE entry
      /\ UNCHANGED << row, denied, revoked, chain, op, req, forgot, events >>
  BY DEF CoolEntry
<1>3. a \in Accounts
  BY <1>1, <1>2 DEF UseFits
<1>4. /\ ClientTypes' /\ UseTypes' /\ UseFits' /\ CountsAreHolders'
      /\ \A c \in ClientIds : SameClient(c)
      /\ \A x \in Downloads \ {d} : use'[x] = use[x]
  BY <1>1, <1>2, ReleaseDoes
<1>5. ASSUME NEW x \in Accounts, x # a
      PROVE  Cooling(x) => Cooling(x)'
  BY <1>4, <1>5 DEF Cooling
<1> HIDE DEF a
<1>6. /\ EntryTypes' /\ \A x \in Accounts : entry'[x].client = entry[x].client
      /\ \A x \in Accounts : entry[x].cool => entry'[x].cool
      /\ Entered(a) /\ row[a].cool => entry'[a].cool
  <2> DEFINE e == [entry[a] EXCEPT !.cool = TRUE]
  <2>1. EntryTypes
    BY <1>1 DEF TypeOK, EntryTypes
  <2>2. entry[a] \in EntryType
    BY <1>3, <2>1 DEF EntryTypes
  <2>3. e \in EntryType /\ e.client = entry[a].client /\ e.cool
    BY <2>2 DEF EntryType
  <2>4. CASE Entered(a) /\ row[a].cool
    <3>1. entry' = [entry EXCEPT ![a] = e]
      BY <1>2, <2>4
    <3> HIDE DEF e
    <3>2. EntryTypes' /\ entry'[a] = e /\ \A x \in Accounts \ {a} : entry'[x] = entry[x]
      BY <1>3, <2>1, <2>3, <3>1, UpdateEntry
    <3> QED
      BY <2>3, <3>2
  <2>5. CASE ~(Entered(a) /\ row[a].cool)
    BY <1>2, <2>1, <2>5 DEF EntryTypes
  <2> QED
    BY <2>4, <2>5
<1>7. TypeOK'
  BY <1>1, <1>2, <1>4, <1>6 DEF TypeOK, ClientTypes, UseTypes, EntryTypes
<1>8. Calm
  BY <1>2, <1>4, <1>6 DEF Calm, ChainKept
<1>9. \A x \in Accounts : WaitKept(x)
  <2>1. WaitKept(a)
    BY <1>2, <1>6 DEF WaitKept, Cooler
  <2>2. ASSUME NEW x \in Accounts, x # a  PROVE WaitKept(x)
    BY <1>2, <1>5, <1>6, <2>2 DEF WaitKept, Cooler
  <2> QED
    BY <2>1, <2>2
<1>10. \A x \in Accounts : Allows(x)
  BY <1>2 DEF Allows
<1> QED
  BY <1>4, <1>7, <1>8, <1>9, <1>10, CalmKeeps

LEMMA MarkExpiredKeeps ==
  ASSUME AccountsAssumption, PoolInv, NEW d \in Downloads, MarkExpired(d)
  PROVE  PoolInv'
<1> DEFINE a == use[d].acct
           r == [row[a] EXCEPT !.health = "expired", !.cool = FALSE]
<1>1. TypeOK /\ UseFits /\ CountsAreHolders
  BY DEF PoolInv
<1>2. /\ use[d].at = "expire" /\ Release(d) /\ row' = [row EXCEPT ![a] = Known(a, r)]
      /\ UNCHANGED << denied, revoked, entry, chain, op, req, forgot, events >>
  BY DEF MarkExpired
<1>3. a \in Accounts
  BY <1>1, <1>2 DEF UseFits
<1>4. /\ ClientTypes' /\ UseTypes' /\ UseFits' /\ CountsAreHolders'
      /\ \A c \in ClientIds : SameClient(c)
      /\ \A x \in Downloads \ {d} : use'[x] = use[x]
  BY <1>1, <1>2, ReleaseDoes
<1>5. RowTypes
  BY <1>1 DEF TypeOK, RowTypes
<1>6. r \in RowType /\ r.there = row[a].there /\ r.enabled = row[a].enabled /\ ~r.cool
  <2>1. row[a] \in RowType /\ TRUE \in BOOLEAN
    BY <1>3, <1>5 DEF RowTypes
  <2> QED
    BY <2>1, HealthRow
<1> HIDE DEF r, a
<1>7. RowTypes' /\ (\A x \in Accounts : Allows(x)) /\ \A x \in Accounts : Cooler(x)
  BY <1>2, <1>3, <1>5, <1>6, KnownRow
<1>8. TypeOK'
  BY <1>1, <1>2, <1>4, <1>7 DEF TypeOK, ClientTypes, UseTypes, RowTypes
<1>9. Calm
  BY <1>2, <1>4 DEF Calm, ChainKept
<1>10. \A x \in Accounts : Cooling(x) => Cooling(x)'
  BY <1>2, <1>4, CoolingStays
<1>11. \A x \in Accounts : WaitKept(x)
  BY <1>2, <1>7, <1>10 DEF WaitKept
<1> QED
  BY <1>4, <1>7, <1>8, <1>9, <1>11, CalmKeeps

LEMMA ExpiredKeeps ==
  ASSUME AccountsAssumption, PoolInv, NEW d \in Downloads, Expired(d)
  PROVE  PoolInv'
<1> DEFINE o == [by |-> d, kind |-> "expire", acct |-> use[d].acct]
<1>1. TypeOK /\ UseFits /\ CountsAreHolders
  BY DEF PoolInv
<1>2. /\ use[d].at = "use" /\ use[d].counted /\ chain' = Append(chain, o)
      /\ use' = [use EXCEPT ![d].at = "expire"]
      /\ UNCHANGED << row, denied, revoked, entry, client, op, req, forgot, events >>
  BY DEF Expired, Enqueue
<1>3. use[d].acct \in Accounts
  BY <1>1, <1>2 DEF UseFits
<1>4. o \in Fitting
  BY <1>3 DEF Fitting, ChainType
<1> HIDE DEF o
<1>5. UseTypes
  BY <1>1 DEF TypeOK, UseTypes
<1>6. /\ UseTypes' /\ \A x \in Downloads \ {d} : use'[x] = use[x]
      /\ use'[d].at = "expire" /\ use'[d].acct = use[d].acct
      /\ use'[d].client = use[d].client /\ use'[d].counted = use[d].counted
  BY <1>2, <1>5, UpdateUsePlace
<1>7. UseFits'
  BY <1>1, <1>2, <1>6 DEF UseFits
<1>8. CountsAreHolders'
  <2>1. \A x \in Downloads : SameHold(x)
    BY <1>6 DEF SameHold
  <2>2. \A c \in ClientIds : SameCount(c)
    BY <1>2 DEF SameCount
  <2> QED
    BY <1>1, <2>1, <2>2, SameHoldsSameCounts
<1>9. Calm
  BY <1>2, <1>4 DEF Calm, ChainKept, SameClient
<1>10. TypeOK'
  <2>1. chain' \in Seq(ChainType)
    BY <1>1, <1>2, <1>4 DEF TypeOK, Fitting
  <2> QED
    BY <1>1, <1>2, <1>6, <2>1 DEF TypeOK, UseTypes
<1>11. \A x \in Accounts : Cooling(x) => Cooling(x)'
  BY <1>2, <1>6, CoolingStays
<1>12. \A x \in Accounts : WaitKept(x) /\ Allows(x)
  BY <1>2, <1>11 DEF WaitKept, Cooler, Allows
<1> QED
  BY <1>7, <1>8, <1>9, <1>10, <1>12, CalmKeeps
-----------------------------------------------------------------------------
(* The administrator, the clock and Telegram                                *)

Kinds == {"start", "enable", "disable", "login", "delete"}

LEMMA AskedRow ==
  ASSUME TypeOK, NEW a \in Accounts, NEW kind \in Kinds,
         kind \in {"enable", "disable"} => row[a].there
  PROVE  /\ Asked(kind, a) \in RowType /\ Asked(kind, a).cool = row[a].cool
         /\ kind # "disable" => (Asked(kind, a).there /\ ~Asked(kind, a).enabled =>
                                   row[a].there /\ ~row[a].enabled)
<1>1. RowTypes /\ row[a] \in RowType /\ TRUE \in BOOLEAN /\ FALSE \in BOOLEAN
  BY DEF TypeOK, RowTypes
<1> DEFINE on == [row[a] EXCEPT !.enabled = TRUE]
           off == [row[a] EXCEPT !.enabled = FALSE]
<1>2. on \in RowType /\ on.enabled /\ on.cool = row[a].cool
  <2>1. "healthy" \in {"healthy", "degraded", "expired"}
    OBVIOUS
  <2> QED
    BY <1>1, <2>1, HealthRow
<1>3. off \in RowType /\ off.cool = row[a].cool
  <2>1. "healthy" \in {"healthy", "degraded", "expired"}
    OBVIOUS
  <2> QED
    BY <1>1, <2>1, HealthRow
<1>4. LoggedIn(a) \in RowType /\ LoggedIn(a).enabled /\ LoggedIn(a).cool = row[a].cool
  BY <1>1, SwitchedRow
<1>5. CASE kind \in {"enable", "start"}
  <2>1. Asked(kind, a) = IF row[a].there THEN on ELSE row[a]
    BY <1>5 DEF Asked, Known
  <2> HIDE DEF on
  <2> QED
    BY <1>1, <1>2, <2>1
<1>6. CASE kind = "disable"
  <2>1. Asked(kind, a) = off
    BY <1>6 DEF Asked
  <2> HIDE DEF off
  <2> QED
    BY <1>3, <1>6, <2>1
<1>7. CASE kind = "login"
  <2>1. Asked(kind, a) = LoggedIn(a)
    BY <1>7 DEF Asked
  <2> QED
    BY <1>4, <2>1
<1>8. CASE kind = "delete"
  <2>1. Asked(kind, a) = row[a]
    BY <1>8 DEF Asked
  <2> QED
    BY <1>1, <2>1
<1> QED
  BY <1>5, <1>6, <1>7, <1>8 DEF Kinds

LEMMA RequestKeeps ==
  ASSUME AccountsAssumption, PoolInv, NEW r \in Requests, NEW kind \in Kinds, NEW a \in Accounts,
         Request(r, kind, a)
  PROVE  PoolInv'
<1> DEFINE k == CASE kind \in {"enable", "login"} -> "activate"
                  [] kind = "start" -> "init"
                  [] kind \in {"disable", "delete"} -> "expire"
           o == [by |-> r, kind |-> k, acct |-> a]
           v == Asked(kind, a)
<1>1. TypeOK /\ ClientsFit /\ UseFits /\ CountsAreHolders /\ ChainFits
  BY DEF PoolInv, ClientsFit
<1>2. /\ Event /\ (kind \in {"enable", "disable"} => row[a].there)
      /\ row' = [row EXCEPT ![a] = v]
      /\ denied' = IF kind = "login" /\ ~row[a].there THEN denied \ {a} ELSE denied
      /\ chain' = Append(chain, o)
      /\ req' = [req EXCEPT ![r] = [at |-> "pool", kind |-> kind, acct |-> a]]
      /\ UNCHANGED << revoked, entry, client, op, use, forgot >>
  BY DEF Request, Enqueue
<1>3. v \in RowType /\ v.cool = row[a].cool
      /\ (kind # "disable" => (v.there /\ ~v.enabled => row[a].there /\ ~row[a].enabled))
  BY <1>1, <1>2, AskedRow
<1>4. o \in Fitting
  <2>1. k \in {"init", "activate", "expire"}
    BY DEF Kinds
  <2> HIDE DEF k
  <2> QED
    BY <2>1 DEF Fitting, ChainType
<1>5. o.acct = a
  OBVIOUS
<1> HIDE DEF o, v
<1>6. RowTypes' /\ row'[a] = v /\ \A x \in Accounts \ {a} : row'[x] = row[x]
  <2>1. RowTypes
    BY <1>1 DEF TypeOK, RowTypes
  <2> QED
    BY <1>2, <1>3, <2>1, UpdateRow
<1>7. ChainKept /\ chain' \in Seq(ChainType)
  BY <1>1, <1>2, <1>4 DEF ChainKept, TypeOK, Fitting
<1>8. Calm
  BY <1>2, <1>7 DEF Calm, SameClient
<1>9. UseFits' /\ CountsAreHolders'
  <2>1. \A x \in Downloads : SameHold(x)
    BY <1>2 DEF SameHold
  <2>2. \A c \in ClientIds : SameCount(c)
    BY <1>2 DEF SameCount
  <2>3. CountsAreHolders'
    BY <1>1, <2>1, <2>2, SameHoldsSameCounts
  <2> QED
    BY <1>1, <1>2, <2>3 DEF UseFits
<1>10. TypeOK'
  <2>1. [at |-> "pool", kind |-> kind, acct |-> a] \in RequestType
    BY DEF RequestType, Kinds
  <2>2. req' \in [Requests -> RequestType]
    BY <1>1, <1>2, <2>1 DEF TypeOK
  <2>3. denied' \subseteq Accounts /\ events' \in 0..MaxEvents
    BY <1>1, <1>2 DEF TypeOK, Event, AccountsAssumption
  <2> QED
    BY <1>1, <1>2, <1>6, <1>7, <2>2, <2>3 DEF TypeOK, RowTypes
<1>11. \A x \in Accounts : WaitKept(x)
  <2>1. \A x \in Accounts : Cooler(x)
    BY <1>3, <1>6 DEF Cooler
  <2>2. \A x \in Accounts : Cooling(x) => Cooling(x)'
    BY <1>2 DEF Cooling
  <2> QED
    BY <1>2, <2>1, <2>2 DEF WaitKept
<1>12. Pending(a)'
  <2>1. chain \in Seq(ChainType) /\ Len(chain) \in Nat
    BY <1>1 DEF TypeOK
  <2>2. Len(chain) + 1 \in DOMAIN chain' /\ chain'[Len(chain) + 1] = o
    BY <1>2, <2>1
  <2>3. Len(chain) + 1 > 1 \/ op'.at = "none"
    <3>1. chain = << >> => op.at = "none"
      BY <1>1 DEF ClientsFit, OpFits
    <3> QED
      BY <1>2, <2>1, <3>1
  <2> QED
    BY <1>5, <2>2, <2>3 DEF Pending
<1>13. \A x \in Accounts : Allows(x) \/ Pending(x)'
  BY <1>6, <1>12 DEF Allows
<1> QED
  BY <1>8, <1>9, <1>10, <1>11, <1>13, CalmKeeps

LEMMA RequestEndsKeeps ==
  ASSUME AccountsAssumption, PoolInv, NEW r \in Requests, RequestEnds(r)
  PROVE  PoolInv'
<1> DEFINE a == req[r].acct
<1>1. TypeOK /\ UseFits /\ CountsAreHolders
  BY DEF PoolInv
<1>2. /\ req' = [req EXCEPT ![r] = NoRequest]
      /\ \/ row' = [row EXCEPT ![a] = Deleted(a)] /\ denied' = denied \ {a}
         \/ row' = row /\ denied' = denied
      /\ UNCHANGED << revoked, entry, client, chain, op, use, forgot, events >>
  BY DEF RequestEnds
<1> HIDE DEF a
<1>3. RowTypes
  BY <1>1 DEF TypeOK, RowTypes
<1>4. RowTypes' /\ \A x \in Accounts : Allows(x) /\ Cooler(x)
  <2>1. CASE row' = row
    BY <1>3, <2>1 DEF RowTypes, Allows, Cooler
  <2>2. CASE a \notin Accounts /\ row' = [row EXCEPT ![a] = Deleted(a)]
    <3>1. row' = row
      BY <1>3, <2>2 DEF RowTypes
    <3> QED
      BY <2>1, <3>1
  <2>3. CASE a \in Accounts /\ row' = [row EXCEPT ![a] = Deleted(a)]
    <3>1. Deleted(a) \in RowType /\ ~Deleted(a).there /\ (Deleted(a).cool => row[a].cool)
      BY <1>3, <2>3, SwitchedRow
    <3>2. RowTypes' /\ row'[a] = Deleted(a) /\ \A x \in Accounts \ {a} : row'[x] = row[x]
      BY <1>3, <2>3, <3>1, UpdateRow
    <3> QED
      BY <3>1, <3>2 DEF Allows, Cooler
  <2> QED
    BY <1>2, <2>1, <2>2, <2>3
<1>5. TypeOK'
  <2>1. NoRequest \in RequestType
    BY DEF NoRequest, RequestType
  <2>2. req' \in [Requests -> RequestType]
    BY <1>1, <1>2, <2>1 DEF TypeOK
  <2>3. denied' \subseteq Accounts
    BY <1>1, <1>2 DEF TypeOK
  <2> QED
    BY <1>1, <1>2, <1>4, <2>2, <2>3 DEF TypeOK, RowTypes
<1>6. Calm
  BY <1>2 DEF Calm, ChainKept, SameClient
<1>7. UseFits' /\ CountsAreHolders'
  BY <1>1, <1>2 DEF UseFits, CountsAreHolders
<1>8. \A x \in Accounts : WaitKept(x)
  <2>1. \A x \in Accounts : Cooling(x) => Cooling(x)'
    BY <1>2 DEF Cooling
  <2> QED
    BY <1>2, <1>4, <2>1 DEF WaitKept
<1> QED
  BY <1>4, <1>5, <1>6, <1>7, <1>8, CalmKeeps

LEMMA CooldownEndsKeeps ==
  ASSUME AccountsAssumption, PoolInv, NEW a \in Accounts, CooldownEnds(a)
  PROVE  PoolInv'
<1> DEFINE r == [row[a] EXCEPT !.cool = FALSE]
           e == [entry[a] EXCEPT !.cool = FALSE]
<1>1. TypeOK /\ UseFits /\ CountsAreHolders
  BY DEF PoolInv
<1>2. /\ row' = [row EXCEPT ![a] = r] /\ entry' = [entry EXCEPT ![a] = e]
      /\ forgot' = forgot \ {a}
      /\ UNCHANGED << denied, revoked, client, chain, op, req, use, events >>
  BY DEF CooldownEnds
<1>3. RowTypes /\ EntryTypes /\ row[a] \in RowType /\ entry[a] \in EntryType
  BY <1>1 DEF TypeOK, RowTypes, EntryTypes
<1>4. r \in RowType /\ r.there = row[a].there /\ r.enabled = row[a].enabled /\ ~r.cool
  BY <1>3 DEF RowType
<1>5. e \in EntryType /\ e.client = entry[a].client
  BY <1>3 DEF EntryType
<1> HIDE DEF r, e
<1>6. RowTypes' /\ row'[a] = r /\ \A x \in Accounts \ {a} : row'[x] = row[x]
  BY <1>2, <1>3, <1>4, UpdateRow
<1>7. EntryTypes' /\ entry'[a] = e /\ \A x \in Accounts \ {a} : entry'[x] = entry[x]
  BY <1>2, <1>3, <1>5, UpdateEntry
<1>8. TypeOK'
  BY <1>1, <1>2, <1>6, <1>7 DEF TypeOK, RowTypes, EntryTypes
<1>9. Calm
  BY <1>2, <1>5, <1>7 DEF Calm, ChainKept, SameClient
<1>10. UseFits' /\ CountsAreHolders'
  BY <1>1, <1>2 DEF UseFits, CountsAreHolders
<1>11. \A x \in Accounts : WaitKept(x)
  <2>1. WaitKept(a)
    BY <1>4, <1>6 DEF WaitKept
  <2>2. \A x \in Accounts : Cooling(x) => Cooling(x)'
    BY <1>2 DEF Cooling
  <2>3. ASSUME NEW x \in Accounts \ {a}  PROVE WaitKept(x)
    BY <1>2, <1>6, <1>7, <2>2 DEF WaitKept, Cooler
  <2> QED
    BY <2>1, <2>3
<1>12. \A x \in Accounts : Allows(x)
  BY <1>4, <1>6 DEF Allows
<1> QED
  BY <1>8, <1>9, <1>10, <1>11, <1>12, CalmKeeps

LEMMA RevokeKeeps ==
  ASSUME AccountsAssumption, PoolInv, NEW a \in Accounts, Revoke(a)
  PROVE  PoolInv'
<1>1. TypeOK /\ UseFits /\ CountsAreHolders
  BY DEF PoolInv
<1>2. /\ Event /\ revoked' = revoked \cup {<<a, row[a].sess>>}
      /\ UNCHANGED << row, denied, entry, client, chain, op, req, use, forgot >>
  BY DEF Revoke
<1>3. row[a].sess \in Nat
  BY <1>1 DEF TypeOK, RowType
<1>4. TypeOK'
  BY <1>1, <1>2, <1>3 DEF TypeOK, Event, AccountsAssumption
<1>5. Calm
  BY <1>2 DEF Calm, ChainKept, SameClient
<1>6. UseFits' /\ CountsAreHolders'
  BY <1>1, <1>2 DEF UseFits, CountsAreHolders
<1>7. \A x \in Accounts : WaitKept(x) /\ Allows(x)
  <2>1. \A x \in Accounts : Cooling(x) => Cooling(x)'
    BY <1>2 DEF Cooling
  <2> QED
    BY <1>2, <2>1 DEF WaitKept, Cooler, Allows
<1> QED
  BY <1>4, <1>5, <1>6, <1>7, CalmKeeps
-----------------------------------------------------------------------------
(* The steps of an operation                                                *)

\* Downloads and their counts do not change with an operation.
LEMMA OpKeepsUse ==
  ASSUME UseFits, CountsAreHolders, use' = use, \A c \in ClientIds : SameCount(c)
  PROVE  UseFits' /\ CountsAreHolders'
<1>1. UseFits'
  BY DEF UseFits
<1>2. \A d \in Downloads : SameHold(d)
  BY DEF SameHold
<1>3. CountsAreHolders'
  BY <1>2, SameHoldsSameCounts
<1> QED
  BY <1>1, <1>3

LEMMA OpBeginKeeps ==
  ASSUME AccountsAssumption, PoolInv, OpBegin
  PROVE  PoolInv'
<1>1. /\ TypeOK /\ ClientsFit /\ UseFits /\ CountsAreHolders /\ CoolFits /\ DisabledFits
      /\ ChainFits /\ OpFits
  BY DEF PoolInv, ClientsFit
<1> DEFINE T == Targets
<1>2. /\ TypeOK' /\ chain # << >> /\ op.at = "none" /\ op'.at = "close" /\ op'.conn = {}
      /\ \A a \in Accounts : entry'[a] = IF a \in T THEN [client |-> 0, cool |-> FALSE] ELSE entry[a]
      /\ row' = row /\ client' = client /\ chain' = chain /\ use' = use /\ forgot' = forgot
  BY <1>1, OpBeginDoes
<1>3. \A a \in Accounts : a \in T <=> Aimed(a)
  BY <1>1, <1>2, TargetsFit
<1> HIDE DEF T
<1>4. ASSUME NEW a \in Accounts, entry'[a].client # 0
      PROVE  Entered(a) /\ entry'[a] = entry[a] /\ ~Aimed(a)
  BY <1>2, <1>3, <1>4 DEF Entered
<1>5. ClientsFit'
  BY <1>1, OpBeginKeepsClients
<1>6. UseFits' /\ CountsAreHolders'
  BY <1>1, <1>2, OpKeepsUse DEF SameCount
<1>7. CoolFits'
  <2>1. \A a \in Accounts : Cooling(a)' <=> Cooling(a)
    BY <1>2 DEF Cooling
  <2>2. ASSUME NEW a \in Accounts, entry'[a].client # 0, row'[a].cool, ~entry'[a].cool
        PROVE  a \in forgot' \/ Cooling(a)'
    BY <1>1, <1>2, <1>4, <2>1, <2>2 DEF CoolFits
  <2>3. \A a \in Accounts : entry'[a].client # 0 /\ row'[a].cool /\ ~entry'[a].cool =>
          a \in forgot' \/ Cooling(a)'
    BY <2>2
  <2> QED
    BY <1>2, <2>3 DEF CoolFits, Entered
<1>8. DisabledFits'
  <2>1. Connecting' = {}
    BY <1>2 DEF Connecting
  <2>2. ASSUME NEW a \in Accounts, row'[a].there, ~row'[a].enabled, entry'[a].client # 0
        PROVE  Pending(a)'
    <3>1. Entered(a) /\ ~Aimed(a)
      BY <1>4, <2>2
    <3>2. Pending(a)
      BY <1>1, <1>2, <2>2, <3>1 DEF DisabledFits
    <3> PICK i \in DOMAIN chain : chain[i].kind = "init" \/ chain[i].acct = a
      BY <3>2 DEF Pending
    <3>3. i # 1
      BY <3>1 DEF Aimed
    <3>4. i > 1
      BY <1>1, <3>3 DEF TypeOK
    <3> QED
      BY <1>2, <3>4 DEF Pending
  <2>3. \A a \in Accounts : row'[a].there /\ ~row'[a].enabled /\ (entry'[a].client # 0 \/ a \in Connecting')
          => Pending(a)'
    BY <2>1, <2>2
  <2> QED
    BY <2>3 DEF DisabledFits, Entered
<1> QED
  BY <1>2, <1>5, <1>6, <1>7, <1>8 DEF PoolInv

\* The rest of an operation waits for what began before it.
LEMMA LaterStaysPending ==
  ASSUME TypeOK, ChainFits, chain # << >>, OpDone, op.at # "none", NEW a, Pending(a)
  PROVE  Pending(a)'
<1>1. /\ \A i \in DOMAIN chain : i > 1 => i - 1 \in DOMAIN chain' /\ chain'[i - 1] = chain[i]
      /\ op' = NoOp
  BY OpDoneDoes
<1>2. op'.at = "none"
  BY <1>1 DEF NoOp
<1> PICK i \in DOMAIN chain : (chain[i].kind = "init" \/ chain[i].acct = a) /\ i > 1
  BY DEF Pending
<1>3. i - 1 \in DOMAIN chain' /\ chain'[i - 1] = chain[i]
  BY <1>1
<1> QED
  BY <1>2, <1>3 DEF Pending

LEMMA DoneKeeps ==
  ASSUME PoolInv, TypeOK', chain # << >>, OpDone, op.at # "none", op.closing = {}, op.conn = {},
         UNCHANGED << row, entry, client, use, forgot >>
  PROVE  PoolInv'
<1>1. /\ TypeOK /\ ClientsFit /\ UseFits /\ CountsAreHolders /\ CoolFits /\ DisabledFits /\ ChainFits
  BY DEF PoolInv, ClientsFit
<1>2. ClientsFit'
  BY <1>1, DoneKeepsClients
<1>3. UseFits' /\ CountsAreHolders'
  BY <1>1, OpKeepsUse DEF SameCount
<1>4. op'.conn = {}
  BY DEF OpDone, NoOp
<1>5. CoolFits'
  BY <1>1, <1>4 DEF CoolFits, Entered, Cooling
<1>6. DisabledFits'
  <2>1. Connecting' = {} /\ Connecting = {}
    BY <1>4 DEF Connecting
  <2>2. ASSUME NEW a \in Accounts, row[a].there, ~row[a].enabled, entry[a].client # 0
        PROVE  Pending(a)'
    <3>1. Pending(a)
      BY <1>1, <2>2 DEF DisabledFits, Entered
    <3> QED
      BY <1>1, <3>1, LaterStaysPending
  <2> QED
    BY <2>1, <2>2 DEF DisabledFits, Entered
<1> QED
  BY <1>2, <1>3, <1>5, <1>6 DEF PoolInv

LEMMA CloseKeeps ==
  ASSUME PoolInv, NEW c \in ClientIds, CloseClient(c)
  PROVE  PoolInv'
<1>1. TypeOK /\ ClientsFit /\ UseFits /\ CountsAreHolders /\ CoolFits /\ DisabledFits
  BY DEF PoolInv
<1>2. /\ TypeOK' /\ op'.at = op.at /\ op'.conn = op.conn
      /\ \A x \in ClientIds : client'[x].acct = client[x].acct
      /\ \A x \in ClientIds : SameCount(x)
      /\ row' = row /\ entry' = entry /\ chain' = chain /\ use' = use /\ forgot' = forgot
  BY <1>1, CloseDoes DEF SameClient
<1>3. op.conn \subseteq ClientIds
  BY <1>1 DEF TypeOK, OpType
<1>4. ClientsFit'
  BY <1>1, CloseKeepsClients
<1>5. UseFits' /\ CountsAreHolders'
  BY <1>1, <1>2, OpKeepsUse
<1>6. CoolFits'
  BY <1>1, <1>2, <1>3 DEF CoolFits, Entered, Cooling
<1>7. Connecting' = Connecting
  BY <1>2, <1>3 DEF Connecting
<1>8. DisabledFits'
  BY <1>1, <1>2, <1>7 DEF DisabledFits, Entered, Pending
<1> QED
  BY <1>2, <1>4, <1>5, <1>6, <1>8 DEF PoolInv

LEMMA OpReadKeeps ==
  ASSUME AccountsAssumption, PoolInv, OpRead
  PROVE  PoolInv'
<1>1. /\ TypeOK /\ ClientsFit /\ UseFits /\ CountsAreHolders /\ CoolFits /\ DisabledFits
      /\ ChainFits /\ OpFits
  BY DEF PoolInv, ClientsFit
<1>2. /\ TypeOK' /\ op.at = "close" /\ op.closing = {} /\ chain # << >>
      /\ row' = row /\ entry' = entry /\ use' = use /\ forgot' = forgot
      /\ (OpDone /\ UNCHANGED client) \/ (chain' = chain /\ \E D, p : Reads(D, p))
  BY <1>1, OpReadDoes
<1>3. op.conn = {}
  BY <1>1, <1>2 DEF OpFits
<1>4. ASSUME OpDone, UNCHANGED client
      PROVE  PoolInv'
  BY <1>2, <1>3, <1>4, DoneKeeps
<1>5. ASSUME chain' = chain, NEW D, NEW p, Reads(D, p)
      PROVE  PoolInv'
  <2>1. /\ D \subseteq Accounts
        /\ \A a \in D : p[a] \in Free /\ p[a] \in ClientIds /\ client'[p[a]] = NewClient(a)
        /\ \A c \in ClientIds : (\A a \in D : p[a] # c) => client'[c] = client[c]
        /\ op'.at = "connect" /\ op'.conn = {p[a] : a \in D}
    BY <1>1, <1>2, <1>5, ReadsDoes
  <2>2. \A a \in D : Eligible(a)
    BY <1>5 DEF Reads
  <2>3. \A a \in D : client'[p[a]].acct = a /\ client'[p[a]].active = 0
    <3>1. \A a \in D : NewClient(a).acct = a /\ NewClient(a).active = 0
      BY DEF NewClient
    <3> QED
      BY <2>1, <3>1
  <2>4. \A c \in ClientIds : SameCount(c)
    <3>1. ASSUME NEW a \in D  PROVE client[p[a]].active = 0
      <4>1. \A d \in Downloads : use[d].client # p[a]
        BY <2>1 DEF Free
      <4>2. {d \in Downloads : use[d].counted /\ use[d].client = p[a]} = {}
        BY <4>1
      <4>3. client[p[a]].active = Cardinality({d \in Downloads : use[d].counted /\ use[d].client = p[a]})
        BY <1>1, <2>1 DEF CountsAreHolders
      <4> QED
        BY <4>2, <4>3, FS_EmptySet
    <3> QED
      BY <2>1, <2>3, <3>1 DEF SameCount
  <2>5. ClientsFit'
    BY <1>1, OpReadKeepsClients
  <2>6. UseFits' /\ CountsAreHolders'
    BY <1>1, <1>2, <2>4, OpKeepsUse
  <2>7. CoolFits'
    <3>1. \A c \in op'.conn : ~row[client'[c].acct].cool
      BY <2>1, <2>2, <2>3 DEF Eligible
    <3> QED
      BY <1>1, <1>2, <3>1 DEF CoolFits, Entered, Cooling
  <2>8. DisabledFits'
    <3>1. \A a \in Connecting' : row[a].enabled
      BY <2>1, <2>2, <2>3 DEF Connecting, Eligible
    <3>2. ASSUME NEW a \in Accounts, row[a].there, ~row[a].enabled, entry[a].client # 0
          PROVE  Pending(a)'
      <4>1. Pending(a)
        BY <1>1, <3>2 DEF DisabledFits, Entered
      <4> QED
        BY <1>2, <1>5, <4>1 DEF Pending
    <3> QED
      BY <1>2, <3>1, <3>2 DEF DisabledFits, Entered
  <2> QED
    BY <1>2, <2>5, <2>6, <2>7, <2>8 DEF PoolInv
<1> QED
  BY <1>2, <1>4, <1>5

LEMMA ConnectOkKeeps ==
  ASSUME AccountsAssumption, PoolInv, NEW c \in ClientIds, ConnectOk(c)
  PROVE  PoolInv'
<1> DEFINE a == client[c].acct
<1>1. /\ TypeOK /\ ClientsFit /\ UseFits /\ CountsAreHolders /\ CoolFits /\ DisabledFits /\ ConnFits
  BY DEF PoolInv, ClientsFit
<1>2. /\ TypeOK' /\ c \in op.conn /\ op'.at = op.at /\ op'.conn = op.conn \ {c}
      /\ \A x \in ClientIds : client'[x].acct = client[x].acct
      /\ \A x \in ClientIds : SameCount(x)
      /\ entry'[a] = [client |-> c, cool |-> FALSE]
      /\ \A x \in Accounts \ {a} : entry'[x] = entry[x]
      /\ \A x \in Accounts : Allows(x) /\ Cooler(x)
      /\ chain' = chain /\ use' = use /\ forgot' = forgot
  BY <1>1, ConnectOkDoes DEF SameClient
<1>3. op.conn \subseteq ClientIds /\ a \in Accounts
  BY <1>1, <1>2 DEF TypeOK, OpType, ConnFits
<1>4. \A x \in Accounts : Cooling(x)' <=> Cooling(x)
  BY <1>2 DEF Cooling
<1>5. a \in Connecting /\ Connecting' \subseteq Connecting
  BY <1>2, <1>3 DEF Connecting
<1>6. row[a].cool => a \in forgot
  BY <1>1, <1>2 DEF CoolFits
<1>7. \A x \in op'.conn : x \in op.conn /\ client'[x].acct = client[x].acct /\ client[x].acct \in Accounts
  BY <1>1, <1>2, <1>3 DEF ConnFits
<1> HIDE DEF a
<1>8. ClientsFit'
  BY <1>1, ConnectOkKeepsClients
<1>9. UseFits' /\ CountsAreHolders'
  BY <1>1, <1>2, OpKeepsUse
<1>10. CoolFits'
  <2>1. ASSUME NEW x \in Accounts, entry'[x].client # 0, row'[x].cool, ~entry'[x].cool
        PROVE  x \in forgot' \/ Cooling(x)'
    <3>1. row[x].cool
      BY <1>2, <2>1 DEF Cooler
    <3>2. CASE x = a
      BY <1>2, <1>6, <3>1, <3>2
    <3>3. CASE x # a
      BY <1>1, <1>2, <1>4, <2>1, <3>1, <3>3 DEF CoolFits, Entered
    <3> QED
      BY <3>2, <3>3
  <2>2. \A x \in op'.conn : row'[client'[x].acct].cool => client'[x].acct \in forgot'
    BY <1>1, <1>2, <1>7 DEF CoolFits, Cooler
  <2>3. \A x \in Accounts : entry'[x].client # 0 /\ row'[x].cool /\ ~entry'[x].cool =>
          x \in forgot' \/ Cooling(x)'
    BY <2>1
  <2> QED
    BY <2>2, <2>3 DEF CoolFits, Entered
<1>11. DisabledFits'
  <2>1. ASSUME NEW x \in Accounts, row'[x].there, ~row'[x].enabled,
               entry'[x].client # 0 \/ x \in Connecting'
        PROVE  Pending(x)'
    <3>1. row[x].there /\ ~row[x].enabled
      BY <1>2, <2>1 DEF Allows
    <3>2. Entered(x) \/ x \in Connecting
      BY <1>2, <1>5, <2>1 DEF Entered
    <3>3. Pending(x)
      BY <1>1, <3>1, <3>2 DEF DisabledFits
    <3> QED
      BY <1>2, <3>3 DEF Pending
  <2>2. \A x \in Accounts : row'[x].there /\ ~row'[x].enabled /\ (entry'[x].client # 0 \/ x \in Connecting')
          => Pending(x)'
    BY <2>1
  <2> QED
    BY <2>2 DEF DisabledFits, Entered
<1> QED
  BY <1>2, <1>8, <1>9, <1>10, <1>11 DEF PoolInv

LEMMA ConnectFailsKeeps ==
  ASSUME AccountsAssumption, PoolInv, NEW c \in ClientIds, ConnectFails(c)
  PROVE  PoolInv'
<1>1. /\ TypeOK /\ ClientsFit /\ UseFits /\ CountsAreHolders /\ CoolFits /\ DisabledFits /\ ConnFits
  BY DEF PoolInv, ClientsFit
<1>2. /\ TypeOK' /\ c \in op.conn /\ op'.at = op.at /\ op'.conn = op.conn \ {c}
      /\ \A x \in ClientIds : client'[x].acct = client[x].acct
      /\ \A x \in ClientIds : SameCount(x)
      /\ \A x \in Accounts : Allows(x) /\ Cooler(x)
      /\ entry' = entry /\ chain' = chain /\ use' = use /\ forgot' = forgot
  BY <1>1, ConnectFailsDoes DEF SameClient
<1>3. \A x \in op'.conn : x \in op.conn /\ client'[x].acct = client[x].acct /\ client[x].acct \in Accounts
  BY <1>1, <1>2 DEF TypeOK, OpType, ConnFits
<1>4. Connecting' \subseteq Connecting
  BY <1>3 DEF Connecting
<1>5. ClientsFit'
  BY <1>1, ConnectFailsKeepsClients
<1>6. UseFits' /\ CountsAreHolders'
  BY <1>1, <1>2, OpKeepsUse
<1>7. CoolFits'
  <2>1. \A x \in Accounts : entry'[x].client # 0 /\ row'[x].cool /\ ~entry'[x].cool =>
          x \in forgot' \/ Cooling(x)'
    BY <1>1, <1>2 DEF CoolFits, Entered, Cooler, Cooling
  <2>2. \A x \in op'.conn : row'[client'[x].acct].cool => client'[x].acct \in forgot'
    BY <1>1, <1>2, <1>3 DEF CoolFits, Cooler
  <2> QED
    BY <2>1, <2>2 DEF CoolFits, Entered
<1>8. DisabledFits'
  BY <1>1, <1>2, <1>4 DEF DisabledFits, Entered, Pending, Allows
<1> QED
  BY <1>2, <1>5, <1>6, <1>7, <1>8 DEF PoolInv

LEMMA OpEndsKeeps ==
  ASSUME PoolInv, OpEnds
  PROVE  PoolInv'
<1>1. TypeOK /\ ChainFits /\ OpFits
  BY DEF PoolInv, ClientsFit
<1>2. /\ TypeOK' /\ OpDone /\ op.at = "connect" /\ op.conn = {} /\ chain # << >>
      /\ UNCHANGED << row, entry, client, use, forgot >>
  BY <1>1, OpEndsDoes
<1>3. op.closing = {}
  BY <1>1, <1>2 DEF OpFits
<1> QED
  BY <1>2, <1>3, DoneKeeps
-----------------------------------------------------------------------------
(* The invariant                                                            *)

LEMMA PoolInit ==
  ASSUME AccountsAssumption, Init
  PROVE  PoolInv
<1>1. /\ row = [a \in Accounts |-> [there |-> TRUE, enabled |-> TRUE, health |-> "healthy",
                                   cool |-> FALSE, sess |-> 1]]
      /\ denied = {} /\ revoked = {} /\ entry = [a \in Accounts |-> [client |-> 0, cool |-> FALSE]]
      /\ client = [c \in ClientIds |-> NoClient]
      /\ chain = << [by |-> "boot", kind |-> "init", acct |-> "none"] >> /\ op = NoOp
      /\ req = [r \in Requests |-> NoRequest] /\ use = [d \in Downloads |-> NoUse]
      /\ forgot = {} /\ events = 0
  BY DEF Init
<1>2. TypeOK
  <2>1. RowTypes
    BY <1>1 DEF RowTypes, RowType
  <2>2. EntryTypes
    BY <1>1 DEF EntryTypes, EntryType, AccountsAssumption
  <2>3. ClientTypes
    BY <1>1 DEF ClientTypes, ClientType, NoClient
  <2>4. UseTypes
    BY <1>1 DEF UseTypes, UseType, NoUse, AccountsAssumption
  <2>5. OpTypes
    BY <1>1 DEF OpTypes, OpType, NoOp
  <2>6. chain \in Seq(ChainType)
    <3>1. [by |-> "boot", kind |-> "init", acct |-> "none"] \in ChainType
      BY DEF ChainType
    <3> QED
      BY <1>1, <3>1
  <2>7. Rest
    <3>1. NoRequest \in RequestType
      BY DEF NoRequest, RequestType
    <3> QED
      BY <1>1, <3>1 DEF Rest, AccountsAssumption
  <2> QED
    BY <2>1, <2>2, <2>3, <2>4, <2>5, <2>6, <2>7, TypeParts
<1>3. /\ \A a \in Accounts : ~Entered(a) /\ row[a].enabled
      /\ \A c \in ClientIds : client[c].st = "free" /\ client[c].active = 0
      /\ op.at = "none" /\ op.closing = {} /\ op.conn = {}
  BY <1>1 DEF Entered, NoClient, NoOp
<1>4. ClientsFit
  <2>1. ChainFits
    BY <1>1 DEF ChainFits
  <2> QED
    BY <1>3, <2>1 DEF ClientsFit, EntriesFit, OpenIsHeld, ConnFits, OpFits
<1>5. UseFits
  BY <1>1 DEF UseFits, NoUse
<1>6. CountsAreHolders
  <2>1. \A c \in ClientIds : {d \in Downloads : use[d].counted /\ use[d].client = c} = {}
    BY <1>1 DEF NoUse
  <2>2. 0 <= MaxConnections
    BY DEF AccountsAssumption
  <2> QED
    BY <1>3, <2>1, <2>2, FS_EmptySet DEF CountsAreHolders
<1>7. CoolFits
  BY <1>3 DEF CoolFits
<1>8. DisabledFits
  BY <1>3 DEF DisabledFits
<1> QED
  BY <1>2, <1>4, <1>5, <1>6, <1>7, <1>8 DEF PoolInv

LEMMA PoolStep ==
  ASSUME AccountsAssumption, PoolInv, [Next]_vars
  PROVE  PoolInv'
<1>1. CASE UNCHANGED vars
  BY <1>1 DEF vars, PoolInv, TypeOK, ClientsFit, EntriesFit, OpenIsHeld, ConnFits, OpFits, ChainFits,
     UseFits, CountsAreHolders, CoolFits, DisabledFits, Entered, Aimed, Cooling, Pending, Connecting
<1>2. CASE OpStep
  BY <1>2, OpBeginKeeps, OpReadKeeps, OpEndsKeeps, CloseKeeps, ConnectOkKeeps, ConnectFailsKeeps
     DEF OpStep
<1>3. CASE \E r \in Requests : RequestEnds(r)
  BY <1>3, RequestEndsKeeps
<1>4. CASE \E r \in Requests, kind \in Kinds, a \in Accounts : Request(r, kind, a)
  BY <1>4, RequestKeeps
<1>5. CASE \E d \in Downloads : Select(d) \/ UseDefault(d) \/ Ends(d) \/ AccessDenied(d)
                                \/ Flood(d) \/ Expired(d)
  BY <1>5, SelectKeeps, UseDefaultKeeps, FinishKeeps, FloodKeeps, CoolEntryKeeps, MarkExpiredKeeps,
     ExpiredKeeps DEF Ends
<1>6. CASE \E a \in Accounts : CooldownEnds(a) \/ Revoke(a)
  BY <1>6, CooldownEndsKeeps, RevokeKeeps
<1> QED
  BY <1>1, <1>2, <1>3, <1>4, <1>5, <1>6 DEF Next, Kinds

\* The invariant of the pool.
THEOREM PoolInvariant == AccountsAssumption => (Spec => []PoolInv)
<1> SUFFICES ASSUME AccountsAssumption PROVE Spec => []PoolInv
  OBVIOUS
<1>1. Init => PoolInv
  BY PoolInit
<1>2. PoolInv /\ [Next]_vars => PoolInv'
  BY PoolStep
<1> QED  BY <1>1, <1>2, PTL DEF Spec

\* Rows, entries, clients, operations, requests and downloads keep their types.
THEOREM TypeCorrect == AccountsAssumption => (Spec => []TypeOK)
<1> SUFFICES ASSUME AccountsAssumption PROVE Spec => []TypeOK
  OBVIOUS
<1>1. PoolInv => TypeOK
  BY DEF PoolInv
<1>2. Spec => []PoolInv
  BY PoolInvariant
<1> QED  BY <1>1, <1>2, PTL

\* One Telegram identity never has two running clients, whoever enables,
\* disables, logs in or deletes it, and whatever a start of the server connects
\* (runLifecycleOperation, shutdownEntries, expireEntry, connectAccount).
THEOREM OneClientRuns == AccountsAssumption => (Spec => []OneRuntime)
<1> SUFFICES ASSUME AccountsAssumption PROVE Spec => []OneRuntime
  OBVIOUS
<1>1. ASSUME PoolInv, NEW c \in ClientIds, NEW d \in ClientIds,
             {client[c].st, client[d].st} \subseteq {"connecting", "open"},
             client[c].acct = client[d].acct
      PROVE  c = d
  <2>1. EntriesFit /\ OpenIsHeld /\ ConnFits /\ OpFits
    BY <1>1 DEF PoolInv, ClientsFit
  <2>2. CASE client[c].st = "open" /\ client[d].st = "open"
    <3>1. /\ entry[client[c].acct].client = c \/ c \in op.closing
          /\ entry[client[c].acct].client = d \/ d \in op.closing
          /\ c # 0 /\ d # 0
      BY <1>1, <2>1, <2>2 DEF OpenIsHeld, ClientIds
    <3>2. \A x \in op.closing : entry[client[x].acct].client = 0
      BY <2>1 DEF OpFits, Entered
    <3>3. c \in op.closing /\ d \in op.closing => c = d
      BY <1>1, <2>1 DEF OpFits
    <3> QED
      BY <1>1, <3>1, <3>2, <3>3
  <2>3. CASE client[c].st = "connecting" /\ client[d].st = "connecting"
    BY <1>1, <2>1, <2>3 DEF ConnFits
  <2>4. \A x, y \in ClientIds : client[x].st = "connecting" /\ client[y].st = "open" =>
          client[x].acct # client[y].acct
    <3> SUFFICES ASSUME NEW x \in ClientIds, NEW y \in ClientIds,
                        client[x].st = "connecting", client[y].st = "open",
                        client[x].acct = client[y].acct
                 PROVE  FALSE
      OBVIOUS
    <3>1. x \in op.conn /\ entry[client[x].acct].client = 0
      BY <2>1 DEF ConnFits, Entered
    <3>2. op.closing = {}
      BY <1>1, <2>1, <3>1 DEF OpFits, PoolInv, TypeOK, OpType
    <3>3. entry[client[y].acct].client = y /\ y # 0
      BY <2>1, <3>2 DEF OpenIsHeld, ClientIds
    <3> QED
      BY <3>1, <3>3
  <2> QED
    BY <1>1, <2>2, <2>3, <2>4
<1>2. PoolInv => OneRuntime
  BY <1>1 DEF OneRuntime
<1>3. Spec => []PoolInv
  BY PoolInvariant
<1> QED  BY <1>2, <1>3, PTL

\* The count of a client is that of the downloads that chose it and did not yet
\* release it, and stays within the limit (select and its release).
THEOREM HoldersAreCounted == AccountsAssumption => (Spec => []CountsAreHolders)
<1> SUFFICES ASSUME AccountsAssumption PROVE Spec => []CountsAreHolders
  OBVIOUS
<1>1. PoolInv => CountsAreHolders
  BY DEF PoolInv
<1>2. Spec => []PoolInv
  BY PoolInvariant
<1> QED  BY <1>1, <1>2, PTL

\* An account that was disabled has no client once nothing is queued: whoever
\* connected it from an earlier row has an operation behind him that closes it.
THEOREM DisabledIsClosed == AccountsAssumption => (Spec => []DisabledIsDisconnected)
<1> SUFFICES ASSUME AccountsAssumption PROVE Spec => []DisabledIsDisconnected
  OBVIOUS
<1>1. PoolInv => DisabledIsDisconnected
  BY DEF PoolInv, DisabledFits, Pending, DisabledIsDisconnected, Quiet
<1>2. Spec => []PoolInv
  BY PoolInvariant
<1> QED  BY <1>1, <1>2, PTL

\* No download is given to an account that has to wait, but for one whose wait
\* was recorded while it was connecting, or is still being recorded.
THEOREM CooldownsAreRespected == AccountsAssumption => (Spec => [][RespectsCooldown]_vars)
<1> SUFFICES ASSUME AccountsAssumption PROVE Spec => [][RespectsCooldown]_vars
  OBVIOUS
<1>1. ASSUME PoolInv, [Next]_vars, NEW d \in Downloads, NEW a \in Accounts, Takes(d, a), row[a].cool
      PROVE  a \in forgot \/ \E e \in Downloads : use[e].at = "cool" /\ use[e].acct = a
  <2>1. TypeOK /\ CoolFits /\ UseFits /\ UseTypes
    BY <1>1 DEF PoolInv, TypeOK, UseTypes
  <2>2. use[d].at = "idle" /\ use'[d].at = "use" /\ use'[d].acct = a
    BY <1>1 DEF Takes
  <2>3. use' # use
    BY <2>2
  <2>4. PICK x \in Downloads : Select(x) \/ UseDefault(x) \/ Ends(x) \/ AccessDenied(x)
                              \/ Flood(x) \/ Expired(x)
    <3>1. ~OpStep
      BY <2>3 DEF OpStep, OpBegin, OpRead, OpEnds, CloseClient, ConnectOk, ConnectFails
    <3>2. \A r \in Requests : ~RequestEnds(r) /\ \A kind \in Kinds, b \in Accounts : ~Request(r, kind, b)
      BY <2>3 DEF RequestEnds, Request
    <3>3. \A b \in Accounts : ~CooldownEnds(b) /\ ~Revoke(b)
      BY <2>3 DEF CooldownEnds, Revoke
    <3>4. ~UNCHANGED vars
      BY <2>3 DEF vars
    <3> QED
      BY <1>1, <3>1, <3>2, <3>3, <3>4 DEF Next, Kinds
  <2>5. /\ ~Finish(x) /\ ~AccessDenied(x) /\ ~CoolEntry(x) /\ ~MarkExpired(x)
    BY <2>1, <2>2 DEF Finish, AccessDenied, CoolEntry, MarkExpired, Release, UseTypes, NoUse
  <2>6. ~Flood(x) /\ ~Expired(x)
    BY <2>1, <2>2 DEF Flood, Expired, UseTypes, UseType
  <2>7. Select(x) \/ UseDefault(x)
    BY <2>4, <2>5, <2>6 DEF Ends
  <2>8. PICK b \in Accounts : /\ IsRunnable(b) /\ use'[x].acct = b
                              /\ \A y \in Downloads \ {x} : use'[y] = use[y]
    <3>1. CASE Select(x)
      <4> PICK b \in Best : Take(x, b)
        BY <3>1 DEF Select
      <4>1. b \in Accounts /\ IsRunnable(b)
        BY DEF Best, Candidates
      <4>2. use' = [use EXCEPT ![x] = [at |-> "use", acct |-> b, client |-> entry[b].client,
                                       counted |-> TRUE]]
        BY DEF Take
      <4>3. use'[x].acct = b /\ \A y \in Downloads \ {x} : use'[y] = use[y]
        BY <2>1, <4>2 DEF UseTypes
      <4> QED
        BY <4>1, <4>3
    <3>2. CASE UseDefault(x)
      <4> PICK b \in Accounts : /\ IsRunnable(b)
                                /\ use' = [use EXCEPT ![x] = [at |-> "use", acct |-> b,
                                              client |-> entry[b].client, counted |-> FALSE]]
        BY <3>2 DEF UseDefault
      <4>1. use'[x].acct = b /\ \A y \in Downloads \ {x} : use'[y] = use[y]
        BY <2>1 DEF UseTypes
      <4> QED
        BY <4>1
    <3> QED
      BY <2>7, <3>1, <3>2
  <2>9. x = d /\ b = a
    BY <2>2, <2>8
  <2>10. Entered(a) /\ ~entry[a].cool
    BY <2>8, <2>9 DEF IsRunnable
  <2> QED
    BY <1>1, <2>1, <2>10 DEF CoolFits, Cooling
<1>2. PoolInv /\ [Next]_vars => [RespectsCooldown]_vars
  BY <1>1 DEF RespectsCooldown
<1>3. Spec => []PoolInv
  BY PoolInvariant
<1> QED  BY <1>2, <1>3, PTL DEF Spec
-----------------------------------------------------------------------------
(* The logins (LoginFlows): a second component with variables of its own    *)

CONSTANTS Handlers, MaxErrors, MaxFlows
VARIABLES flow, h, loginEvents
Login == INSTANCE LoginFlows WITH events <- loginEvents

FlowIds == 1..MaxFlows
Begun(x) == x.at \notin {"none", "starting"}

\* What holds of a flow by itself: a client that was handed on is closed, one that
\* is being connected is open and not listed, and later an open one is held.
FlowFits(x) ==
    /\ x \in Login!FlowType
    /\ x.handed => x.client = "closed"
    /\ x.at = "none" => x.client = "none" /\ ~x.listed /\ ~x.timer
    /\ x.at = "starting" => /\ x.held /\ ~x.listed /\ x.errors = 0
                           /\ x.client = "open"
    /\ Begun(x) /\ x.client = "open" => x.listed /\ x.held
FlowsFit == flow \in [FlowIds -> Login!FlowType] /\ \A f \in FlowIds : FlowFits(flow[f])

\* What holds of a handler and its flow.
Serving == {"sign", "turn", "export", "me", "handoff", "save"}
HandlerFits(r) ==
    /\ h[r].at \in {"idle", "remove"} => h[r].flow = 0
    /\ h[r].at = "connect" => h[r].flow \in FlowIds /\ flow[h[r].flow].at = "starting"
    /\ h[r].at \in Serving => h[r].flow \in FlowIds /\ Begun(flow[h[r].flow])
    /\ h[r].at = "save" => flow[h[r].flow].client = "closed"
    /\ \A f \in h[r].todo : Begun(flow[f])
HandlersFit == h \in [Handlers -> Login!HandlerType] /\ \A r \in Handlers : HandlerFits(r)

\* One handler connects the client of a flow.
ConnectsFit ==
    /\ \A f \in FlowIds : flow[f].at = "starting" =>
          \E r \in Handlers : h[r].at = "connect" /\ h[r].flow = f
    /\ \A r, s \in Handlers : h[r].at = "connect" /\ h[s].at = "connect" /\ h[r].flow = h[s].flow
          => r = s

\* Every handler of a flow may add one wrong answer to those that are counted.
AtFlow(f) == {r \in Handlers : h[r].flow = f}
ErrorsFit ==
    \A f \in FlowIds :
        flow[f].errors + Cardinality(AtFlow(f)) <= MaxErrors + Cardinality(Handlers) - 1

LoginInv ==
    /\ loginEvents \in 0..MaxEvents
    /\ FlowsFit /\ HandlersFit /\ ConnectsFit /\ ErrorsFit

LEMMA DeletedFits ==
  ASSUME NEW x \in Login!FlowType, Begun(x)
  PROVE  /\ FlowFits(Login!Deleted(x)) /\ Begun(Login!Deleted(x))
         /\ Login!Deleted(x).client = "closed" /\ Login!Deleted(x).errors = x.errors
BY DEF FlowFits, Begun, Login!Deleted, Login!Detached, Login!FlowType

LEMMA DetachedFits ==
  ASSUME NEW x \in Login!FlowType, Begun(x)
  PROVE  /\ FlowFits(Login!Detached(x)) /\ Begun(Login!Detached(x))
         /\ Login!Detached(x).client = "closed" /\ Login!Detached(x).errors = x.errors
BY DEF FlowFits, Begun, Login!Detached, Login!FlowType

LEMMA ErrFits ==
  ASSUME NEW x, FlowFits(x), Begun(x)
  PROVE  /\ FlowFits(Login!Err(x)) /\ Begun(Login!Err(x))
         /\ Login!Err(x).client \in {x.client, "closed"} /\ Login!Err(x).errors = x.errors + 1
<1> DEFINE y == [x EXCEPT !.errors = x.errors + 1]
<1>1. x \in Login!FlowType
  BY DEF FlowFits
<1>2. y \in Login!FlowType /\ Begun(y) /\ y.client = x.client /\ y.errors = x.errors + 1
  BY <1>1 DEF Login!FlowType, Begun
<1>3. FlowFits(y)
  BY <1>1, <1>2 DEF FlowFits, Login!FlowType, Begun
<1>4. Login!Err(x) = Login!Deleted(y) \/ Login!Err(x) = y
  BY DEF Login!Err
<1> HIDE DEF y
<1> QED
  BY <1>2, <1>3, <1>4, DeletedFits

LEMMA FailedFits ==
  ASSUME NEW x, FlowFits(x), Begun(x)
  PROVE  /\ FlowFits(Login!Failed(x)) /\ Begun(Login!Failed(x))
         /\ Login!Failed(x).client \in {x.client, "closed"} /\ Login!Failed(x).errors = x.errors
<1> DEFINE y == [x EXCEPT !.busy = FALSE]
           z == [Login!Detached(y) EXCEPT !.at = "error"]
<1>1. x \in Login!FlowType
  BY DEF FlowFits
<1>2. /\ y \in Login!FlowType /\ Begun(y) /\ FlowFits(y) /\ y.client = x.client
      /\ y.errors = x.errors
  BY <1>1 DEF Login!FlowType, Begun, FlowFits
<1>3. FlowFits(z) /\ Begun(z) /\ z.client = "closed" /\ z.errors = x.errors
  BY <1>1 DEF FlowFits, Begun, Login!Detached, Login!FlowType
<1>4. Login!Failed(x) = y \/ Login!Failed(x) = z
  BY DEF Login!Failed
<1> HIDE DEF y, z
<1> QED
  BY <1>2, <1>3, <1>4

\* What may happen to a flow, and to one that was connected.
FlowKept(f) ==
    /\ Begun(flow[f]) => Begun(flow'[f])
    /\ flow[f].client = "closed" => flow'[f].client = "closed"
StartingKept(f) == flow[f].at = "starting" <=> flow'[f].at = "starting"
Changes(f, y) ==
    /\ FlowFits(y) /\ Begun(flow[f]) /\ Begun(y) /\ y.client \in {flow[f].client, "closed"}
    /\ flow' = [flow EXCEPT ![f] = y]

LEMMA UpdateFlow ==
  ASSUME FlowsFit, NEW f \in FlowIds, NEW y, FlowFits(y), flow' = [flow EXCEPT ![f] = y]
  PROVE  FlowsFit' /\ flow'[f] = y /\ \A g \in FlowIds \ {f} : flow'[g] = flow[g]
<1>1. flow \in [FlowIds -> Login!FlowType] /\ y \in Login!FlowType
  BY DEF FlowsFit, FlowFits
<1>2. /\ flow' \in [FlowIds -> Login!FlowType] /\ flow'[f] = y
      /\ \A g \in FlowIds \ {f} : flow'[g] = flow[g]
  BY <1>1
<1>3. \A g \in FlowIds : FlowFits(flow'[g])
  BY <1>2 DEF FlowsFit
<1> QED
  BY <1>2, <1>3 DEF FlowsFit

LEMMA ChangesKeep ==
  ASSUME FlowsFit, NEW f \in FlowIds, NEW y, Changes(f, y)
  PROVE  /\ FlowsFit' /\ \A g \in FlowIds : FlowKept(g) /\ StartingKept(g)
         /\ flow'[f] = y /\ \A g \in FlowIds \ {f} : flow'[g] = flow[g]
<1>1. FlowsFit' /\ flow'[f] = y /\ \A g \in FlowIds \ {f} : flow'[g] = flow[g]
  BY UpdateFlow DEF Changes
<1>2. FlowKept(f) /\ StartingKept(f)
  BY <1>1 DEF FlowKept, StartingKept, Changes, Begun
<1>3. \A g \in FlowIds \ {f} : FlowKept(g) /\ StartingKept(g)
  BY <1>1 DEF FlowKept, StartingKept
<1> QED
  BY <1>1, <1>2, <1>3

HandlerTypes == h \in [Handlers -> Login!HandlerType]
LEMMA UpdateHandler ==
  ASSUME HandlerTypes, NEW r \in Handlers, NEW v \in Login!HandlerType, h' = [h EXCEPT ![r] = v]
  PROVE  HandlerTypes' /\ h'[r] = v /\ \A s \in Handlers \ {r} : h'[s] = h[s]
BY DEF HandlerTypes

LEMMA HandlerStays ==
  ASSUME NEW r \in Handlers, HandlerTypes, HandlerFits(r), h'[r] = h[r],
         \A g \in FlowIds : FlowKept(g),
         h[r].at = "connect" => flow'[h[r].flow].at = "starting"
  PROVE  HandlerFits(r)'
<1>1. h[r].todo \subseteq FlowIds
  BY DEF HandlerTypes, Login!HandlerType, Login!Flows, FlowIds
<1>2. h'[r].at \in {"idle", "remove"} => h'[r].flow = 0
  BY DEF HandlerFits
<1>3. h'[r].at = "connect" => h'[r].flow \in FlowIds /\ flow'[h'[r].flow].at = "starting"
  BY DEF HandlerFits
<1>4. h'[r].at \in Serving => h'[r].flow \in FlowIds /\ Begun(flow'[h'[r].flow])
  BY DEF HandlerFits, FlowKept
<1>5. h'[r].at = "save" => flow'[h'[r].flow].client = "closed"
  BY DEF HandlerFits, FlowKept, Serving
<1>6. \A f \in h'[r].todo : Begun(flow'[f])
  BY <1>1 DEF HandlerFits, FlowKept
<1> QED
  BY <1>2, <1>3, <1>4, <1>5, <1>6 DEF HandlerFits

\* How the errors of a flow, and the handlers that may add one, may change.
ErrorsKept(r, g) ==
    \/ (h'[r].flow = g => h[r].flow = g) /\ flow'[g].errors <= flow[g].errors
    \/ h[r].flow = g /\ h'[r].flow # g /\ flow'[g].errors <= flow[g].errors + 1
    \/ h'[r].flow # g /\ flow'[g].errors <= MaxErrors
    \/ flow'[g].errors <= MaxErrors - 1

\* The sets of LoginFlows are sets of this module.
LEMMA SameSets ==
  /\ Login!LoginAssumption => IsFiniteSet(Handlers)
  /\ Login!Cardinality(Handlers) = Cardinality(Handlers)
<1>1. Login!LoginAssumption => IsFiniteSet(Handlers)
  BY DEF Login!LoginAssumption, Login!IsFiniteSet, IsFiniteSet
<1>2. Login!Cardinality(Handlers) = Cardinality(Handlers)
  BY DEF Login!Cardinality, Cardinality
<1> QED
  BY <1>1, <1>2

LEMMA ErrorsStep ==
  ASSUME Login!LoginAssumption, FlowsFit, FlowsFit', ErrorsFit, NEW r \in Handlers,
         \A s \in Handlers \ {r} : h'[s] = h[s], \A g \in FlowIds : ErrorsKept(r, g)
  PROVE  ErrorsFit'
<1>1. ASSUME NEW g \in FlowIds
      PROVE  flow'[g].errors + Cardinality({s \in Handlers : h'[s].flow = g})
               <= MaxErrors + Cardinality(Handlers) - 1
  <2> DEFINE A == {s \in Handlers : h'[s].flow = g}
             B == AtFlow(g)
  <2>1. flow[g].errors \in Nat /\ flow'[g].errors \in Nat /\ MaxErrors \in Nat
    BY DEF FlowsFit, Login!FlowType, Login!LoginAssumption
  <2>2. /\ IsFiniteSet(Handlers) /\ A \in SUBSET Handlers /\ B \in SUBSET Handlers
        /\ Handlers \ {r} \in SUBSET Handlers
    BY SameSets DEF AtFlow
  <2>3. /\ IsFiniteSet(A) /\ IsFiniteSet(B) /\ IsFiniteSet(Handlers \ {r})
        /\ Cardinality(A) <= Cardinality(Handlers)
    BY <2>2, FS_Subset
  <2>4. /\ Cardinality(A) \in Nat /\ Cardinality(B) \in Nat /\ Cardinality(Handlers) \in Nat
        /\ Cardinality(Handlers \ {r}) = Cardinality(Handlers) - 1
    BY <2>2, <2>3, FS_CardinalityType, FS_RemoveElement
  <2>5. flow[g].errors + Cardinality(B) <= MaxErrors + Cardinality(Handlers) - 1
    BY DEF ErrorsFit
  <2>6. CASE (h'[r].flow = g => h[r].flow = g) /\ flow'[g].errors <= flow[g].errors
    <3>1. A \in SUBSET B
      BY <2>6 DEF AtFlow
    <3> HIDE DEF A, B
    <3>2. Cardinality(A) <= Cardinality(B)
      BY <2>3, <3>1, FS_Subset
    <3> QED
      BY <2>1, <2>4, <2>5, <2>6, <3>2 DEF A
  <2>7. CASE h[r].flow = g /\ h'[r].flow # g /\ flow'[g].errors <= flow[g].errors + 1
    <3>1. A = B \ {r} /\ r \in B
      BY <2>7 DEF AtFlow
    <3> HIDE DEF A, B
    <3>2. Cardinality(A) = Cardinality(B) - 1
      BY <2>3, <3>1, FS_RemoveElement
    <3> QED
      BY <2>1, <2>4, <2>5, <2>7, <3>2 DEF A
  <2>8. CASE h'[r].flow # g /\ flow'[g].errors <= MaxErrors
    <3>1. A \in SUBSET (Handlers \ {r})
      BY <2>8
    <3> HIDE DEF A
    <3>2. Cardinality(A) <= Cardinality(Handlers) - 1
      BY <2>3, <2>4, <3>1, FS_Subset
    <3> QED
      BY <2>1, <2>4, <2>8, <3>2 DEF A
  <2>9. CASE flow'[g].errors <= MaxErrors - 1
    <3> HIDE DEF A
    <3> QED
      BY <2>1, <2>3, <2>4, <2>9 DEF A
  <2> QED
    BY <2>6, <2>7, <2>8, <2>9 DEF ErrorsKept
<1> QED
  BY <1>1 DEF ErrorsFit, AtFlow

\* A step of one handler keeps the invariant if it keeps each part of it.
LEMMA StepKeeps ==
  ASSUME Login!LoginAssumption, LoginInv, loginEvents' \in 0..MaxEvents, FlowsFit',
         NEW r \in Handlers, NEW v \in Login!HandlerType, h' = [h EXCEPT ![r] = v],
         HandlerFits(r)', ConnectsFit', \A g \in FlowIds : FlowKept(g) /\ ErrorsKept(r, g),
         \A s \in Handlers \ {r} : h[s].at = "connect" => flow'[h[s].flow].at = "starting"
  PROVE  LoginInv'
<1>1. FlowsFit /\ HandlersFit /\ ErrorsFit /\ HandlerTypes
  BY DEF LoginInv, HandlersFit, HandlerTypes
<1>2. HandlerTypes' /\ \A s \in Handlers \ {r} : h'[s] = h[s]
  BY <1>1, UpdateHandler
<1>3. HandlersFit'
  <2>1. ASSUME NEW s \in Handlers \ {r}  PROVE HandlerFits(s)'
    BY <1>1, <1>2, HandlerStays DEF HandlersFit
  <2> QED
    BY <1>2, <2>1 DEF HandlersFit, HandlerTypes
<1>4. ErrorsFit'
  BY <1>1, <1>2, ErrorsStep
<1> QED
  BY <1>3, <1>4 DEF LoginInv

\* A handler that connects nothing goes on.
LEMMA HandlerGoes ==
  ASSUME Login!LoginAssumption, LoginInv, loginEvents' \in 0..MaxEvents, FlowsFit',
         NEW r \in Handlers, NEW v \in Login!HandlerType, h' = [h EXCEPT ![r] = v],
         h[r].at # "connect", v.at # "connect", HandlerFits(r)',
         \A g \in FlowIds : FlowKept(g) /\ StartingKept(g) /\ ErrorsKept(r, g)
  PROVE  LoginInv'
<1>1. HandlersFit /\ ConnectsFit /\ HandlerTypes
  BY DEF LoginInv, HandlersFit, HandlerTypes
<1>2. h'[r] = v /\ \A s \in Handlers \ {r} : h'[s] = h[s]
  BY <1>1, UpdateHandler
<1>3. \A s \in Handlers : h'[s].at = "connect" <=> h[s].at = "connect"
  BY <1>2
<1>4. \A s \in Handlers : h[s].at = "connect" => h'[s] = h[s] /\ h[s].flow \in FlowIds
                                                /\ flow'[h[s].flow].at = "starting"
  BY <1>1, <1>2 DEF HandlersFit, HandlerFits, StartingKept
<1>5. ConnectsFit'
  <2>1. ASSUME NEW f \in FlowIds, flow'[f].at = "starting"
        PROVE  \E s \in Handlers : h'[s].at = "connect" /\ h'[s].flow = f
    <3>1. flow[f].at = "starting"
      BY <2>1 DEF StartingKept
    <3>2. PICK s \in Handlers : h[s].at = "connect" /\ h[s].flow = f
      BY <1>1, <3>1 DEF ConnectsFit
    <3> QED
      BY <1>4, <3>2
  <2>2. \A s, t \in Handlers : h'[s].at = "connect" /\ h'[t].at = "connect" /\ h'[s].flow = h'[t].flow
          => s = t
    BY <1>1, <1>3, <1>4 DEF ConnectsFit
  <2> QED
    BY <2>1, <2>2 DEF ConnectsFit
<1> QED
  BY <1>4, <1>5, StepKeeps

\* A flow changes by itself.
LEMMA FlowGoes ==
  ASSUME LoginInv, loginEvents' \in 0..MaxEvents, FlowsFit', h' = h,
         \A g \in FlowIds : FlowKept(g) /\ StartingKept(g) /\ flow'[g].errors = flow[g].errors
  PROVE  LoginInv'
<1>1. FlowsFit /\ HandlersFit /\ ConnectsFit /\ ErrorsFit /\ HandlerTypes
  BY DEF LoginInv, HandlersFit, HandlerTypes
<1>2. HandlersFit'
  <2>1. ASSUME NEW s \in Handlers  PROVE HandlerFits(s)'
    BY <1>1, HandlerStays DEF HandlersFit, HandlerFits, StartingKept
  <2> QED
    BY <1>1, <2>1 DEF HandlersFit, HandlerTypes
<1>3. ConnectsFit'
  BY <1>1 DEF ConnectsFit, StartingKept
<1>4. ErrorsFit'
  BY <1>1 DEF ErrorsFit, AtFlow
<1> QED
  BY <1>2, <1>3, <1>4 DEF LoginInv

LEMMA Served ==
  ASSUME LoginInv, NEW r \in Handlers
  PROVE  /\ FlowsFit /\ h[r] \in Login!HandlerType /\ HandlerFits(r) /\ HandlerTypes
         /\ h' = [h EXCEPT ![r] = h[r]] <=> h' = h
         /\ h[r].at \in Serving => /\ h[r].flow \in FlowIds /\ FlowFits(flow[h[r].flow])
                                  /\ Begun(flow[h[r].flow])
BY DEF LoginInv, FlowsFit, HandlersFit, HandlerFits, HandlerTypes, Login!HandlerType

\* A handler is done with its flow, and may have counted one wrong answer.
LEMMA Leaves ==
  ASSUME Login!LoginAssumption, LoginInv, loginEvents' \in 0..MaxEvents,
         NEW r \in Handlers, h[r].at \in Serving, Login!Leave(r),
         NEW f, f = h[r].flow, NEW y, Changes(f, y), y.errors <= flow[f].errors + 1
  PROVE  LoginInv'
<1>1. f \in FlowIds /\ FlowsFit /\ HandlerTypes
  BY Served
<1>2. /\ FlowsFit' /\ \A g \in FlowIds : FlowKept(g) /\ StartingKept(g)
      /\ flow'[f] = y /\ \A g \in FlowIds \ {f} : flow'[g] = flow[g]
  BY <1>1, ChangesKeep
<1>3. /\ Login!Idle \in Login!HandlerType /\ Login!Idle.at = "idle" /\ Login!Idle.flow = 0
      /\ Login!Idle.todo = {}
  BY DEF Login!Idle, Login!HandlerType, Login!Flows, Login!LoginAssumption
<1>4. h' = [h EXCEPT ![r] = Login!Idle] /\ h'[r] = Login!Idle
  BY <1>1, <1>3, UpdateHandler DEF Login!Leave
<1>5. HandlerFits(r)'
  BY <1>3, <1>4 DEF HandlerFits, Serving
<1>6. h[r].at # "connect"
  BY DEF Serving
<1>7. ASSUME NEW g \in FlowIds  PROVE ErrorsKept(r, g)
  <2>1. CASE g = f
    BY <1>2, <1>3, <1>4, <2>1 DEF ErrorsKept, FlowIds
  <2>2. CASE g # f
    <3>1. flow'[g] = flow[g] /\ flow[g].errors \in Nat
      BY <1>1, <1>2, <2>2 DEF FlowsFit, Login!FlowType
    <3> QED
      BY <1>3, <1>4, <3>1 DEF ErrorsKept, FlowIds
  <2> QED
    BY <2>1, <2>2
<1> QED
  BY <1>2, <1>3, <1>4, <1>5, <1>6, <1>7, HandlerGoes

\* A handler goes on with its flow.
LEMMA GoesOn ==
  ASSUME Login!LoginAssumption, LoginInv, loginEvents' \in 0..MaxEvents,
         NEW r \in Handlers, h[r].at \in Serving, NEW f, f = h[r].flow,
         NEW y, Changes(f, y), y.errors = flow[f].errors,
         NEW at \in Serving, Login!Goto(r, at), at = "save" => y.client = "closed"
  PROVE  LoginInv'
<1> DEFINE v == [h[r] EXCEPT !.at = at]
<1>1. f \in FlowIds /\ FlowsFit /\ HandlerTypes /\ h[r] \in Login!HandlerType /\ HandlerFits(r)
  BY Served
<1>2. /\ FlowsFit' /\ \A g \in FlowIds : FlowKept(g) /\ StartingKept(g)
      /\ flow'[f] = y /\ \A g \in FlowIds \ {f} : flow'[g] = flow[g]
  BY <1>1, ChangesKeep
<1>3. v \in Login!HandlerType /\ v.at = at /\ v.flow = f /\ v.todo = h[r].todo
  BY <1>1 DEF Login!HandlerType, Serving
<1>4. h' = [h EXCEPT ![r] = v]
  BY DEF Login!Goto
<1> HIDE DEF v
<1>5. h'[r] = v
  BY <1>1, <1>3, <1>4, UpdateHandler
<1>6. v.todo \subseteq FlowIds
  BY <1>1, <1>3 DEF Login!HandlerType, Login!Flows, FlowIds
<1>7. HandlerFits(r)'
  <2>1. \A g \in h'[r].todo : Begun(flow'[g])
    BY <1>1, <1>2, <1>3, <1>5, <1>6 DEF HandlerFits, FlowKept
  <2>2. Begun(flow'[f])
    BY <1>2 DEF Changes
  <2> QED
    BY <1>1, <1>2, <1>3, <1>5, <2>1, <2>2 DEF HandlerFits, Serving
<1>8. h[r].at # "connect" /\ v.at # "connect"
  BY <1>3 DEF Serving
<1>9. \A g \in FlowIds : ErrorsKept(r, g)
  <2>1. \A g \in FlowIds : flow'[g].errors = flow[g].errors /\ flow[g].errors \in Nat
    BY <1>1, <1>2 DEF FlowsFit, Login!FlowType
  <2> QED
    BY <1>3, <1>5, <2>1 DEF ErrorsKept
<1> QED
  BY <1>2, <1>3, <1>4, <1>7, <1>8, <1>9, HandlerGoes

\* One that leaves its flow as it is changes it to itself.
LEMMA SameFlow ==
  ASSUME LoginInv, NEW r \in Handlers, h[r].at \in Serving, NEW f, f = h[r].flow, flow' = flow
  PROVE  Changes(f, flow[f]) /\ flow[f].errors <= flow[f].errors + 1
<1>1. FlowsFit /\ f \in FlowIds /\ FlowFits(flow[f]) /\ Begun(flow[f])
  BY Served
<1> QED
  BY <1>1 DEF FlowsFit, Changes, Login!FlowType

\* A handler that was idle turns to a flow that is not over.
LEMMA Enters ==
  ASSUME Login!LoginAssumption, LoginInv, loginEvents' = loginEvents,
         NEW r \in Handlers, h[r].at = "idle", NEW f \in FlowIds, Login!Usable(f),
         NEW at \in {"sign", "turn"}, flow' = flow,
         h' = [h EXCEPT ![r] = [Login!Idle EXCEPT !.at = at, !.flow = f]]
  PROVE  LoginInv'
<1> DEFINE v == [Login!Idle EXCEPT !.at = at, !.flow = f]
<1>1. FlowsFit /\ HandlerTypes /\ h[r] \in Login!HandlerType
  BY Served
<1>2. /\ v \in Login!HandlerType /\ v.at = at /\ v.flow = f /\ v.todo = {}
      /\ Login!Idle.flow = 0
  <2>1. Login!Idle \in Login!HandlerType /\ Login!Idle.todo = {} /\ Login!Idle.flow = 0
    BY DEF Login!LoginAssumption, Login!Idle, Login!HandlerType
  <2>2. f \in 0..MaxFlows
    BY DEF FlowIds
  <2> QED
    BY <2>1, <2>2 DEF Login!HandlerType
<1>3. h' = [h EXCEPT ![r] = v]
  OBVIOUS
<1> HIDE DEF v
<1>4. h'[r] = v
  BY <1>1, <1>2, <1>3, UpdateHandler
<1>5. Begun(flow[f]) /\ flow[f].errors < MaxErrors /\ flow[f].errors \in Nat /\ MaxErrors \in Nat
  <2>1. flow[f].listed /\ FlowFits(flow[f]) /\ ~(flow[f].errors >= MaxErrors)
    BY <1>1 DEF Login!Usable, Login!Over, FlowsFit
  <2>2. Begun(flow[f])
    BY <2>1 DEF FlowFits, Begun
  <2> QED
    BY <2>1, <2>2 DEF FlowFits, Login!FlowType, Login!LoginAssumption
<1>6. FlowsFit' /\ \A g \in FlowIds : FlowKept(g) /\ StartingKept(g)
  BY <1>1 DEF FlowsFit, FlowKept, StartingKept
<1>7. HandlerFits(r)'
  BY <1>2, <1>4, <1>5 DEF HandlerFits, Serving
<1>8. ASSUME NEW g \in FlowIds  PROVE ErrorsKept(r, g)
  <2>1. flow[g].errors \in Nat /\ flow'[g] = flow[g]
    BY <1>1 DEF FlowsFit, Login!FlowType
  <2>2. CASE g = f
    BY <1>5, <2>1, <2>2 DEF ErrorsKept
  <2>3. CASE g # f
    BY <1>2, <1>4, <2>1, <2>3 DEF ErrorsKept
  <2> QED
    BY <2>2, <2>3
<1>9. loginEvents' \in 0..MaxEvents
  BY DEF LoginInv
<1> QED
  BY <1>2, <1>3, <1>6, <1>7, <1>8, <1>9, HandlerGoes

\* An idle handler closes a flow, which forgets nothing of it.
LEMMA FlowCloses ==
  ASSUME LoginInv, loginEvents' \in 0..MaxEvents, NEW f \in FlowIds, NEW y, Changes(f, y),
         y.errors = flow[f].errors, h' = h
  PROVE  LoginInv'
<1>1. FlowsFit
  BY DEF LoginInv
<1>2. /\ FlowsFit' /\ \A g \in FlowIds : FlowKept(g) /\ StartingKept(g)
      /\ flow'[f] = y /\ \A g \in FlowIds \ {f} : flow'[g] = flow[g]
  BY <1>1, ChangesKeep
<1>3. \A g \in FlowIds : flow'[g].errors = flow[g].errors
  BY <1>2
<1> QED
  BY <1>2, <1>3, FlowGoes

LEMMA EventsStay ==
  ASSUME Login!LoginAssumption, LoginInv, Login!Event \/ loginEvents' = loginEvents
  PROVE  loginEvents' \in 0..MaxEvents
BY DEF LoginInv, Login!Event, Login!LoginAssumption

\* A listed flow was connected.
LEMMA ListedBegun ==
  ASSUME LoginInv, NEW f \in FlowIds, flow[f].listed
  PROVE  Begun(flow[f]) /\ FlowFits(flow[f]) /\ flow[f] \in Login!FlowType
BY DEF LoginInv, FlowsFit, FlowFits, Begun

\* Closing a flow that was connected.
LEMMA DeletedChanges ==
  ASSUME NEW f, FlowFits(flow[f]), Begun(flow[f]), Login!Set(f, Login!Deleted(flow[f]))
  PROVE  Changes(f, Login!Deleted(flow[f])) /\ Login!Deleted(flow[f]).errors = flow[f].errors
<1>1. flow[f] \in Login!FlowType
  BY DEF FlowFits
<1>2. /\ FlowFits(Login!Deleted(flow[f])) /\ Begun(Login!Deleted(flow[f]))
      /\ Login!Deleted(flow[f]).client = "closed" /\ Login!Deleted(flow[f]).errors = flow[f].errors
  BY <1>1, DeletedFits
<1> QED
  BY <1>2 DEF Changes, Login!Set

LEMMA SubmitKeeps ==
  ASSUME Login!LoginAssumption, LoginInv, NEW r \in Handlers, NEW f \in FlowIds, Login!Submit(r, f)
  PROVE  LoginInv'
<1>1. loginEvents' = loginEvents /\ loginEvents' \in 0..MaxEvents
  BY EventsStay DEF Login!Submit
<1>2. CASE flow[f].held
  BY <1>1, <1>2, Enters DEF Login!Submit
<1>3. CASE ~flow[f].held
  <2> DEFINE y == Login!Err(flow[f])
  <2>1. flow[f].listed /\ ~(flow[f].errors >= MaxErrors) /\ h' = h /\ flow' = [flow EXCEPT ![f] = y]
        /\ h[r].at = "idle"
    BY <1>3 DEF Login!Submit, Login!Usable, Login!Over, Login!Set
  <2>2. FlowFits(flow[f]) /\ Begun(flow[f]) /\ flow[f].errors \in Nat /\ MaxErrors \in Nat
    BY <2>1, ListedBegun DEF Login!FlowType, Login!LoginAssumption
  <2>3. /\ FlowFits(y) /\ Begun(y) /\ y.client \in {flow[f].client, "closed"}
        /\ y.errors = flow[f].errors + 1
    BY <2>2, ErrFits
  <2> HIDE DEF y
  <2>4. Changes(f, y)
    BY <2>1, <2>2, <2>3 DEF Changes
  <2>5. FlowsFit /\ HandlerTypes /\ h[r] \in Login!HandlerType /\ HandlerFits(r)
    BY Served
  <2>6. /\ FlowsFit' /\ \A g \in FlowIds : FlowKept(g) /\ StartingKept(g)
        /\ flow'[f] = y /\ \A g \in FlowIds \ {f} : flow'[g] = flow[g]
    BY <2>4, <2>5, ChangesKeep
  <2>7. HandlerFits(r)'
    BY <2>1, <2>5, <2>6, HandlerStays
  <2>8. ASSUME NEW g \in FlowIds  PROVE ErrorsKept(r, g)
    <3>1. h'[r].flow = 0
      BY <2>1, <2>5 DEF HandlerFits
    <3>2. CASE g = f
      BY <2>1, <2>2, <2>3, <2>6, <3>1, <3>2 DEF ErrorsKept, FlowIds
    <3>3. CASE g # f
      BY <2>1, <2>5, <2>6, <3>3 DEF ErrorsKept, FlowsFit, Login!FlowType
    <3> QED
      BY <3>2, <3>3
  <2>9. h' = [h EXCEPT ![r] = h[r]]
    BY <2>1, Served
  <2> QED
    BY <1>1, <2>1, <2>5, <2>6, <2>7, <2>8, <2>9, HandlerGoes
<1> QED
  BY <1>2, <1>3

LEMMA AdvanceKeeps ==
  ASSUME Login!LoginAssumption, LoginInv, NEW r \in Handlers, NEW f \in FlowIds, Login!Advance(r, f)
  PROVE  LoginInv'
BY Enters DEF Login!Advance

LEMMA CancelKeeps ==
  ASSUME Login!LoginAssumption, LoginInv, NEW r \in Handlers, NEW f \in FlowIds,
         Login!Cancel(r, f) \/ Login!Refuse(r, f)
  PROVE  LoginInv'
<1> DEFINE y == Login!Deleted(flow[f])
<1>1. loginEvents' = loginEvents /\ h' = h /\ Login!Set(f, y) /\ flow[f].listed
  BY DEF Login!Cancel, Login!Refuse, Login!Usable, Login!Over
<1>2. FlowFits(flow[f]) /\ Begun(flow[f])
  BY <1>1, ListedBegun
<1>3. Changes(f, y) /\ y.errors = flow[f].errors
  BY <1>1, <1>2, DeletedChanges
<1>4. loginEvents' \in 0..MaxEvents
  BY <1>1, EventsStay
<1> HIDE DEF y
<1> QED
  BY <1>1, <1>3, <1>4, FlowCloses

\* A flow whose time is over is closed if it is listed, and else only marked.
LEMMA StaleFits ==
  ASSUME LoginInv, NEW f \in FlowIds
  PROVE  LET y == [flow[f] EXCEPT !.fresh = FALSE]
             z == [flow[f] EXCEPT !.timer = FALSE, !.fresh = FALSE]
         IN  /\ flow[f].listed => /\ FlowFits(Login!Deleted(y)) /\ Begun(Login!Deleted(y))
                                  /\ Login!Deleted(y).client = "closed"
                                  /\ Login!Deleted(y).errors = flow[f].errors
             /\ /\ FlowFits(y) /\ y.at = flow[f].at /\ y.client = flow[f].client
                /\ y.errors = flow[f].errors
             /\ /\ FlowFits(z) /\ z.at = flow[f].at /\ z.client = flow[f].client
                /\ z.errors = flow[f].errors
<1> DEFINE y == [flow[f] EXCEPT !.fresh = FALSE]
           z == [flow[f] EXCEPT !.timer = FALSE, !.fresh = FALSE]
<1>1. flow[f] \in Login!FlowType /\ FlowFits(flow[f])
  BY DEF LoginInv, FlowsFit, FlowFits
<1>2. FlowFits(y) /\ y.at = flow[f].at /\ y.client = flow[f].client /\ y.errors = flow[f].errors
  BY <1>1 DEF FlowFits, Login!FlowType, Begun
<1>3. FlowFits(z) /\ z.at = flow[f].at /\ z.client = flow[f].client /\ z.errors = flow[f].errors
  BY <1>1 DEF FlowFits, Login!FlowType, Begun
<1>4. ASSUME flow[f].listed
      PROVE  /\ FlowFits(Login!Deleted(y)) /\ Begun(Login!Deleted(y))
             /\ Login!Deleted(y).client = "closed" /\ Login!Deleted(y).errors = flow[f].errors
  <2>1. Begun(flow[f])
    BY <1>4, ListedBegun
  <2>2. Begun(y) /\ y \in Login!FlowType
    BY <1>2, <2>1 DEF Begun, FlowFits
  <2> HIDE DEF y
  <2> QED
    BY <1>2, <2>2, DeletedFits
<1> QED
  BY <1>2, <1>3, <1>4

\* What changes neither where a flow is nor its client is harmless.
LEMMA FlowFades ==
  ASSUME Login!LoginAssumption, LoginInv, loginEvents' \in 0..MaxEvents, NEW f \in FlowIds,
         NEW y, FlowFits(y), y.at = flow[f].at, y.client = flow[f].client,
         y.errors = flow[f].errors, flow' = [flow EXCEPT ![f] = y], h' = h
  PROVE  LoginInv'
<1>1. FlowsFit
  BY DEF LoginInv
<1>2. FlowsFit' /\ flow'[f] = y /\ \A g \in FlowIds \ {f} : flow'[g] = flow[g]
  BY <1>1, UpdateFlow
<1>3. \A g \in FlowIds : FlowKept(g) /\ StartingKept(g) /\ flow'[g].errors = flow[g].errors
  BY <1>2 DEF FlowKept, StartingKept, Begun
<1> QED
  BY <1>2, <1>3, FlowGoes

LEMMA TimesKeep ==
  ASSUME Login!LoginAssumption, LoginInv, NEW f \in FlowIds,
         Login!Timer(f) \/ Login!TimerAtLast(f) \/ Login!Expires(f)
  PROVE  LoginInv'
<1> DEFINE y == [flow[f] EXCEPT !.fresh = FALSE]
           z == [flow[f] EXCEPT !.timer = FALSE, !.fresh = FALSE]
           d == Login!Deleted(y)
<1>1. loginEvents' \in 0..MaxEvents /\ h' = h
  BY EventsStay DEF Login!Timer, Login!TimerAtLast, Login!Expires
<1>2. \/ flow[f].listed /\ flow' = [flow EXCEPT ![f] = d]
      \/ flow' = [flow EXCEPT ![f] = y] \/ flow' = [flow EXCEPT ![f] = z]
  BY DEF Login!Timer, Login!TimerAtLast, Login!Expires, Login!Set
<1>3. FlowFits(y) /\ y.at = flow[f].at /\ y.client = flow[f].client /\ y.errors = flow[f].errors
  BY StaleFits
<1>4. FlowFits(z) /\ z.at = flow[f].at /\ z.client = flow[f].client /\ z.errors = flow[f].errors
  BY StaleFits
<1>5. flow[f].listed => FlowFits(d) /\ Begun(d) /\ d.client = "closed" /\ d.errors = flow[f].errors
  BY StaleFits
<1> HIDE DEF y, z, d
<1>6. CASE flow[f].listed /\ flow' = [flow EXCEPT ![f] = d]
  <2>1. Changes(f, d)
    BY <1>5, <1>6, ListedBegun DEF Changes
  <2> QED
    BY <1>1, <1>5, <1>6, <2>1, FlowCloses
<1>7. CASE flow' = [flow EXCEPT ![f] = y]
  BY <1>1, <1>3, <1>7, FlowFades
<1>8. CASE flow' = [flow EXCEPT ![f] = z]
  BY <1>1, <1>4, <1>8, FlowFades
<1> QED
  BY <1>2, <1>6, <1>7, <1>8

LEMMA SignFailsKeeps ==
  ASSUME Login!LoginAssumption, LoginInv, NEW r \in Handlers, Login!SignFails(r)
  PROVE  LoginInv'
<1> DEFINE f == h[r].flow
           y == Login!Err(flow[f])
<1>1. /\ h[r].at \in Serving /\ Login!Leave(r) /\ flow' = [flow EXCEPT ![f] = y]
      /\ loginEvents' \in 0..MaxEvents
  BY EventsStay DEF Login!SignFails, Serving, Login!Set, Login!F
<1>2. FlowFits(flow[f]) /\ Begun(flow[f]) /\ flow[f].errors \in Nat
  BY <1>1, Served DEF FlowFits, Login!FlowType
<1>3. FlowFits(y) /\ Begun(y) /\ y.client \in {flow[f].client, "closed"} /\ y.errors = flow[f].errors + 1
  BY <1>2, ErrFits
<1> HIDE DEF y
<1>4. Changes(f, y) /\ y.errors <= flow[f].errors + 1
  BY <1>1, <1>2, <1>3 DEF Changes
<1> QED
  BY <1>1, <1>4, Leaves

LEMMA PasswordNeededKeeps ==
  ASSUME Login!LoginAssumption, LoginInv, NEW r \in Handlers, Login!PasswordNeeded(r)
  PROVE  LoginInv'
<1> DEFINE f == h[r].flow
           y == [flow[f] EXCEPT !.at = "password"]
<1>1. /\ h[r].at \in Serving /\ Login!Leave(r) /\ flow' = [flow EXCEPT ![f] = y]
      /\ loginEvents' \in 0..MaxEvents
  BY EventsStay DEF Login!PasswordNeeded, Serving, Login!Set, Login!F
<1>2. FlowFits(flow[f]) /\ Begun(flow[f]) /\ flow[f].errors \in Nat
  BY <1>1, Served DEF FlowFits, Login!FlowType
<1>3. FlowFits(y) /\ Begun(y) /\ y.client = flow[f].client /\ y.errors = flow[f].errors
  BY <1>2 DEF FlowFits, Begun, Login!FlowType
<1> HIDE DEF y
<1>4. Changes(f, y) /\ y.errors <= flow[f].errors + 1
  BY <1>1, <1>2, <1>3 DEF Changes
<1> QED
  BY <1>1, <1>4, Leaves

LEMMA SignedInKeeps ==
  ASSUME Login!LoginAssumption, LoginInv, NEW r \in Handlers, Login!SignedIn(r)
  PROVE  LoginInv'
<1> DEFINE f == h[r].flow
<1>1. /\ h[r].at \in Serving /\ Login!Goto(r, "me") /\ flow' = flow
      /\ loginEvents' \in 0..MaxEvents /\ "me" \in Serving
  BY EventsStay DEF Login!SignedIn, Serving
<1>2. Changes(f, flow[f])
  BY <1>1, SameFlow
<1> QED
  BY <1>1, <1>2, GoesOn

LEMMA TurnKeeps ==
  ASSUME Login!LoginAssumption, LoginInv, NEW r \in Handlers, Login!Turn(r)
  PROVE  LoginInv'
<1> DEFINE f == h[r].flow
           y == [flow[f] EXCEPT !.busy = TRUE]
           z == [flow[f] EXCEPT !.at = "error"]
<1>1. /\ h[r].at \in Serving /\ "export" \in Serving /\ "export" # "save"
      /\ loginEvents' \in 0..MaxEvents
  BY EventsStay DEF Login!Turn, Serving
<1>2. \/ Login!Goto(r, "export") /\ flow' = [flow EXCEPT ![f] = y]
      \/ ~flow[f].held /\ Login!Leave(r) /\ flow' = [flow EXCEPT ![f] = z]
      \/ Login!Leave(r) /\ flow' = flow
  BY DEF Login!Turn, Login!Set, Login!F
<1>3. FlowFits(flow[f]) /\ Begun(flow[f]) /\ flow[f].errors \in Nat
  BY <1>1, Served DEF FlowFits, Login!FlowType
<1>4. FlowFits(y) /\ Begun(y) /\ y.client = flow[f].client /\ y.errors = flow[f].errors
  BY <1>3 DEF FlowFits, Begun, Login!FlowType
<1>5. ~flow[f].held => FlowFits(z) /\ Begun(z) /\ z.client = flow[f].client /\ z.errors = flow[f].errors
  BY <1>3 DEF FlowFits, Begun, Login!FlowType
<1> HIDE DEF y, z
<1>6. CASE Login!Goto(r, "export") /\ flow' = [flow EXCEPT ![f] = y]
  <2>1. Changes(f, y)
    BY <1>3, <1>4, <1>6 DEF Changes
  <2> QED
    BY <1>1, <1>4, <1>6, <2>1, GoesOn
<1>7. CASE ~flow[f].held /\ Login!Leave(r) /\ flow' = [flow EXCEPT ![f] = z]
  <2>1. Changes(f, z) /\ z.errors <= flow[f].errors + 1
    BY <1>3, <1>5, <1>7 DEF Changes
  <2> QED
    BY <1>1, <1>7, <2>1, Leaves
<1>8. CASE Login!Leave(r) /\ flow' = flow
  <2>1. Changes(f, flow[f]) /\ flow[f].errors <= flow[f].errors + 1
    BY <1>1, <1>8, SameFlow
  <2> QED
    BY <1>1, <1>8, <2>1, Leaves
<1> QED
  BY <1>2, <1>6, <1>7, <1>8

LEMMA ExportedKeeps ==
  ASSUME Login!LoginAssumption, LoginInv, NEW r \in Handlers, Login!Exported(r)
  PROVE  LoginInv'
<1> DEFINE f == h[r].flow
           y == [flow[f] EXCEPT !.busy = FALSE]
           z == [flow[f] EXCEPT !.busy = FALSE, !.at = "password"]
<1>1. /\ h[r].at \in Serving /\ "me" \in Serving /\ "me" # "save"
      /\ loginEvents' \in 0..MaxEvents
  BY EventsStay DEF Login!Exported, Serving
<1>2. \/ Login!Leave(r) /\ flow' = [flow EXCEPT ![f] = y]
      \/ Login!Leave(r) /\ flow' = [flow EXCEPT ![f] = z]
      \/ Login!Goto(r, "me") /\ flow' = flow
  BY DEF Login!Exported, Login!Set, Login!F
<1>3. FlowFits(flow[f]) /\ Begun(flow[f]) /\ flow[f].errors \in Nat
  BY <1>1, Served DEF FlowFits, Login!FlowType
<1>4. FlowFits(y) /\ Begun(y) /\ y.client = flow[f].client /\ y.errors = flow[f].errors
  BY <1>3 DEF FlowFits, Begun, Login!FlowType
<1>5. FlowFits(z) /\ Begun(z) /\ z.client = flow[f].client /\ z.errors = flow[f].errors
  BY <1>3 DEF FlowFits, Begun, Login!FlowType
<1> HIDE DEF y, z
<1>6. CASE Login!Leave(r) /\ flow' = [flow EXCEPT ![f] = y]
  <2>1. Changes(f, y) /\ y.errors <= flow[f].errors + 1
    BY <1>3, <1>4, <1>6 DEF Changes
  <2> QED
    BY <1>1, <1>6, <2>1, Leaves
<1>7. CASE Login!Leave(r) /\ flow' = [flow EXCEPT ![f] = z]
  <2>1. Changes(f, z) /\ z.errors <= flow[f].errors + 1
    BY <1>3, <1>5, <1>7 DEF Changes
  <2> QED
    BY <1>1, <1>7, <2>1, Leaves
<1>8. CASE Login!Goto(r, "me") /\ flow' = flow
  <2>1. Changes(f, flow[f])
    BY <1>1, <1>8, SameFlow
  <2> QED
    BY <1>1, <1>8, <2>1, GoesOn
<1> QED
  BY <1>2, <1>6, <1>7, <1>8

LEMMA ExportFailsKeeps ==
  ASSUME Login!LoginAssumption, LoginInv, NEW r \in Handlers, Login!ExportFails(r)
  PROVE  LoginInv'
<1> DEFINE f == h[r].flow
           y == Login!Failed(flow[f])
<1>1. /\ h[r].at \in Serving /\ Login!Leave(r) /\ flow' = [flow EXCEPT ![f] = y]
      /\ loginEvents' \in 0..MaxEvents
  BY EventsStay DEF Login!ExportFails, Serving, Login!Set, Login!F
<1>2. FlowFits(flow[f]) /\ Begun(flow[f]) /\ flow[f].errors \in Nat
  BY <1>1, Served DEF FlowFits, Login!FlowType
<1>3. FlowFits(y) /\ Begun(y) /\ y.client \in {flow[f].client, "closed"} /\ y.errors = flow[f].errors
  BY <1>2, FailedFits
<1> HIDE DEF y
<1>4. Changes(f, y) /\ y.errors <= flow[f].errors + 1
  BY <1>1, <1>2, <1>3 DEF Changes
<1> QED
  BY <1>1, <1>4, Leaves

LEMMA MeKeeps ==
  ASSUME Login!LoginAssumption, LoginInv, NEW r \in Handlers, Login!Me(r)
  PROVE  LoginInv'
<1> DEFINE f == h[r].flow
<1>1. /\ h[r].at \in Serving /\ Login!Goto(r, "handoff") /\ flow' = flow
      /\ loginEvents' \in 0..MaxEvents /\ "handoff" \in Serving
  BY EventsStay DEF Login!Me, Serving
<1>2. Changes(f, flow[f])
  BY <1>1, SameFlow
<1> QED
  BY <1>1, <1>2, GoesOn

LEMMA HandOffKeeps ==
  ASSUME Login!LoginAssumption, LoginInv, NEW r \in Handlers, Login!HandOff(r)
  PROVE  LoginInv'
<1> DEFINE f == h[r].flow
           d == Login!Detached(flow[f])
           y == [d EXCEPT !.handed = TRUE]
<1>1. /\ h[r].at \in Serving /\ Login!Goto(r, "save") /\ flow' = [flow EXCEPT ![f] = y]
      /\ loginEvents' \in 0..MaxEvents /\ "save" \in Serving
  BY EventsStay DEF Login!HandOff, Serving, Login!Set, Login!F
<1>2. FlowFits(flow[f]) /\ Begun(flow[f]) /\ flow[f] \in Login!FlowType
  BY <1>1, Served DEF FlowFits
<1>3. FlowFits(d) /\ Begun(d) /\ d.client = "closed" /\ d.errors = flow[f].errors
  BY <1>2, DetachedFits
<1> HIDE DEF d
<1>4. FlowFits(y) /\ Begun(y) /\ y.client = "closed" /\ y.errors = flow[f].errors
  BY <1>3 DEF FlowFits, Begun, Login!FlowType
<1> HIDE DEF y
<1>5. Changes(f, y)
  BY <1>1, <1>2, <1>4 DEF Changes
<1> QED
  BY <1>1, <1>4, <1>5, GoesOn

LEMMA SavedKeeps ==
  ASSUME Login!LoginAssumption, LoginInv, NEW r \in Handlers, Login!Saved(r)
  PROVE  LoginInv'
<1> DEFINE f == h[r].flow
           x == [flow[f] EXCEPT !.at = "complete", !.busy = FALSE]
           z == [x EXCEPT !.listed = FALSE, !.timer = FALSE]
<1>1. /\ h[r].at \in Serving /\ h[r].at = "save" /\ Login!Leave(r)
      /\ loginEvents' \in 0..MaxEvents
  BY EventsStay DEF Login!Saved, Serving
<1>2. flow' = [flow EXCEPT ![f] = x] \/ flow' = [flow EXCEPT ![f] = z]
  BY DEF Login!Saved, Login!Set, Login!F
<1>3. FlowFits(flow[f]) /\ Begun(flow[f]) /\ flow[f].errors \in Nat /\ flow[f].client = "closed"
  BY <1>1, Served DEF FlowFits, Login!FlowType, HandlerFits
<1>4. FlowFits(x) /\ Begun(x) /\ x.client = "closed" /\ x.errors = flow[f].errors
  BY <1>3 DEF FlowFits, Begun, Login!FlowType
<1> HIDE DEF x
<1>5. FlowFits(z) /\ Begun(z) /\ z.client = "closed" /\ z.errors = flow[f].errors
  BY <1>4 DEF FlowFits, Begun, Login!FlowType
<1> HIDE DEF z
<1>6. CASE flow' = [flow EXCEPT ![f] = x]
  <2>1. Changes(f, x) /\ x.errors <= flow[f].errors + 1
    BY <1>3, <1>4, <1>6 DEF Changes
  <2> QED
    BY <1>1, <2>1, Leaves
<1>7. CASE flow' = [flow EXCEPT ![f] = z]
  <2>1. Changes(f, z) /\ z.errors <= flow[f].errors + 1
    BY <1>3, <1>5, <1>7 DEF Changes
  <2> QED
    BY <1>1, <2>1, Leaves
<1> QED
  BY <1>2, <1>6, <1>7

LEMMA AuthorizeFailsKeeps ==
  ASSUME Login!LoginAssumption, LoginInv, NEW r \in Handlers, Login!AuthorizeFails(r)
  PROVE  LoginInv'
<1> DEFINE f == h[r].flow
           x == Login!Detached(flow[f])
           y == Login!Failed(x)
           z == Login!Err(x)
<1>1. /\ h[r].at \in Serving /\ Login!Leave(r) /\ loginEvents' \in 0..MaxEvents
  BY EventsStay DEF Login!AuthorizeFails, Serving
<1>2. flow' = [flow EXCEPT ![f] = y] \/ flow' = [flow EXCEPT ![f] = z]
  BY DEF Login!AuthorizeFails, Login!Set, Login!F
<1>3. /\ FlowFits(flow[f]) /\ Begun(flow[f]) /\ flow[f].errors \in Nat
      /\ flow[f] \in Login!FlowType
  BY <1>1, Served DEF FlowFits, Login!FlowType
<1>4. FlowFits(x) /\ Begun(x) /\ x.client = "closed" /\ x.errors = flow[f].errors
  BY <1>3, DetachedFits
<1> HIDE DEF x
<1>5. FlowFits(y) /\ Begun(y) /\ y.client = "closed" /\ y.errors = flow[f].errors
  BY <1>4, FailedFits
<1>6. FlowFits(z) /\ Begun(z) /\ z.client = "closed" /\ z.errors = flow[f].errors + 1
  BY <1>4, ErrFits
<1> HIDE DEF y, z
<1>7. CASE flow' = [flow EXCEPT ![f] = y]
  <2>1. Changes(f, y) /\ y.errors <= flow[f].errors + 1
    BY <1>3, <1>5, <1>7 DEF Changes
  <2> QED
    BY <1>1, <2>1, Leaves
<1>8. CASE flow' = [flow EXCEPT ![f] = z]
  <2>1. Changes(f, z) /\ z.errors <= flow[f].errors + 1
    BY <1>3, <1>6, <1>8 DEF Changes
  <2> QED
    BY <1>1, <2>1, Leaves
<1> QED
  BY <1>2, <1>7, <1>8

LEMMA StartKeeps ==
  ASSUME Login!LoginAssumption, LoginInv, NEW r \in Handlers, NEW kind \in {"phone", "qr", "web"},
         Login!Start(r, kind)
  PROVE  LoginInv'
<1> DEFINE T == {f \in Login!Flows : flow[f].listed /\ Login!SameMap(flow[f].kind, kind)}
           v == [at |-> "remove", flow |-> 0, kind |-> kind, todo |-> T]
<1>1. /\ h[r].at = "idle" /\ h' = [h EXCEPT ![r] = v] /\ flow' = flow
      /\ loginEvents' \in 0..MaxEvents
  BY EventsStay DEF Login!Start
<1>2. FlowsFit /\ HandlerTypes
  BY Served
<1>3. \A f \in T : Begun(flow[f])
  BY ListedBegun DEF FlowIds, Login!Flows
<1>4. T \in SUBSET Login!Flows
  OBVIOUS
<1> HIDE DEF T
<1>5. v \in Login!HandlerType /\ v.at = "remove" /\ v.flow = 0 /\ v.todo = T
  BY <1>4 DEF Login!HandlerType, Login!LoginAssumption
<1> HIDE DEF v
<1>6. h'[r] = v
  BY <1>1, <1>2, <1>5, UpdateHandler
<1>7. FlowsFit' /\ \A g \in FlowIds : FlowKept(g) /\ StartingKept(g)
  BY <1>1, <1>2 DEF FlowsFit, FlowKept, StartingKept
<1>8. HandlerFits(r)'
  BY <1>1, <1>3, <1>5, <1>6 DEF HandlerFits, Serving
<1>9. \A g \in FlowIds : ErrorsKept(r, g)
  BY <1>1, <1>2, <1>5, <1>6 DEF ErrorsKept, FlowsFit, Login!FlowType, FlowIds
<1> QED
  BY <1>1, <1>5, <1>7, <1>8, <1>9, HandlerGoes

LEMMA RemoveOneKeeps ==
  ASSUME Login!LoginAssumption, LoginInv, NEW r \in Handlers, Login!RemoveOne(r)
  PROVE  LoginInv'
<1>1. /\ h[r].at = "remove" /\ loginEvents' \in 0..MaxEvents
      /\ \E f \in h[r].todo : /\ Login!Set(f, Login!Deleted(flow[f]))
                               /\ h' = [h EXCEPT ![r].todo = h[r].todo \ {f}]
  BY EventsStay DEF Login!RemoveOne
<1>2. PICK f \in h[r].todo : /\ Login!Set(f, Login!Deleted(flow[f]))
                             /\ h' = [h EXCEPT ![r].todo = h[r].todo \ {f}]
  BY <1>1
<1> DEFINE y == Login!Deleted(flow[f])
           v == [h[r] EXCEPT !.todo = h[r].todo \ {f}]
<1>3. FlowsFit /\ HandlerTypes /\ h[r] \in Login!HandlerType /\ HandlerFits(r)
  BY Served
<1>4. f \in FlowIds /\ FlowFits(flow[f]) /\ Begun(flow[f]) /\ h[r].todo \subseteq FlowIds
  BY <1>3 DEF Login!HandlerType, Login!Flows, FlowIds, HandlerFits, FlowsFit
<1>5. Changes(f, y) /\ y.errors = flow[f].errors
  BY <1>2, <1>4, DeletedChanges
<1> HIDE DEF y
<1>6. /\ FlowsFit' /\ \A g \in FlowIds : FlowKept(g) /\ StartingKept(g)
      /\ flow'[f] = y /\ \A g \in FlowIds \ {f} : flow'[g] = flow[g]
  BY <1>3, <1>4, <1>5, ChangesKeep
<1>7. /\ v \in Login!HandlerType /\ v.at = "remove" /\ v.flow = h[r].flow /\ v.flow = 0
      /\ v.todo \subseteq h[r].todo
  BY <1>1, <1>3 DEF Login!HandlerType, HandlerFits
<1>8. h' = [h EXCEPT ![r] = v]
  BY <1>2
<1> HIDE DEF v
<1>9. h'[r] = v
  BY <1>3, <1>7, <1>8, UpdateHandler
<1>10. HandlerFits(r)'
  <2>1. \A g \in h'[r].todo : Begun(flow'[g])
    BY <1>3, <1>4, <1>6, <1>7, <1>9 DEF HandlerFits, FlowKept
  <2> QED
    BY <1>7, <1>9, <2>1 DEF HandlerFits, Serving
<1>11. \A g \in FlowIds : ErrorsKept(r, g)
  <2>1. \A g \in FlowIds : flow'[g].errors = flow[g].errors /\ flow[g].errors \in Nat
    BY <1>3, <1>5, <1>6 DEF FlowsFit, Login!FlowType
  <2> QED
    BY <1>7, <1>9, <2>1 DEF ErrorsKept
<1> QED
  BY <1>1, <1>6, <1>7, <1>8, <1>10, <1>11, HandlerGoes

LEMMA ConnectKeeps ==
  ASSUME Login!LoginAssumption, LoginInv, NEW r \in Handlers, Login!Connect(r)
  PROVE  LoginInv'
<1>1. /\ h[r].at = "remove" /\ h[r].todo = {} /\ loginEvents' \in 0..MaxEvents
      /\ \E f \in FlowIds :
           /\ flow[f].at = "none"
           /\ flow' = [flow EXCEPT ![f] =
                 [Login!NoFlow EXCEPT !.kind = h[r].kind, !.at = "starting", !.held = TRUE,
                                      !.client = "open", !.timer = h[r].kind = "qr"]]
           /\ h' = [h EXCEPT ![r].at = "connect", ![r].flow = f]
  BY EventsStay DEF Login!Connect, Login!Set, Login!Flows, FlowIds
<1>2. PICK f \in FlowIds :
           /\ flow[f].at = "none"
           /\ flow' = [flow EXCEPT ![f] =
                 [Login!NoFlow EXCEPT !.kind = h[r].kind, !.at = "starting", !.held = TRUE,
                                      !.client = "open", !.timer = h[r].kind = "qr"]]
           /\ h' = [h EXCEPT ![r].at = "connect", ![r].flow = f]
  BY <1>1
<1> DEFINE y == [Login!NoFlow EXCEPT !.kind = h[r].kind, !.at = "starting", !.held = TRUE,
                                      !.client = "open", !.timer = h[r].kind = "qr"]
           v == [h[r] EXCEPT !.at = "connect", !.flow = f]
<1>3. /\ FlowsFit /\ HandlerTypes /\ h[r] \in Login!HandlerType /\ HandlersFit /\ ConnectsFit
  BY Served DEF LoginInv
<1>4. FlowFits(y) /\ y.at = "starting" /\ y.errors = 0
  <2>1. Login!NoFlow \in Login!FlowType /\ ~Login!NoFlow.listed /\ ~Login!NoFlow.handed
        /\ Login!NoFlow.errors = 0
    BY DEF Login!NoFlow, Login!FlowType
  <2>2. y \in Login!FlowType
    BY <1>3, <2>1 DEF Login!FlowType, Login!HandlerType
  <2>3. /\ y.at = "starting" /\ y.held /\ y.client = "open" /\ y.listed = Login!NoFlow.listed
        /\ y.handed = Login!NoFlow.handed /\ y.errors = Login!NoFlow.errors
    BY <2>1 DEF Login!FlowType
  <2> HIDE DEF y
  <2> QED
    BY <2>1, <2>2, <2>3 DEF FlowFits, Begun
<1>5. v \in Login!HandlerType /\ v.at = "connect" /\ v.flow = f /\ v.todo = {}
  <2>1. f \in 0..MaxFlows
    BY DEF FlowIds
  <2> QED
    BY <1>1, <1>3, <2>1 DEF Login!HandlerType
<1>6. h' = [h EXCEPT ![r] = v] /\ flow' = [flow EXCEPT ![f] = y]
  BY <1>2
<1> HIDE DEF y, v
<1>7. FlowsFit' /\ flow'[f] = y /\ \A g \in FlowIds \ {f} : flow'[g] = flow[g]
  BY <1>3, <1>4, <1>6, UpdateFlow
<1>8. h'[r] = v /\ \A s \in Handlers \ {r} : h'[s] = h[s]
  BY <1>3, <1>5, <1>6, UpdateHandler
<1>9. \A g \in FlowIds : FlowKept(g)
  <2>1. ~Begun(flow[f]) /\ flow[f].client # "closed"
    BY <1>2, <1>3 DEF Begun, FlowsFit, FlowFits
  <2> QED
    BY <1>7, <2>1 DEF FlowKept
<1>10. HandlerFits(r)'
  BY <1>4, <1>5, <1>7, <1>8 DEF HandlerFits, Serving
<1>11. ASSUME NEW g \in FlowIds  PROVE ErrorsKept(r, g)
  <2>1. CASE g = f
    <3>1. flow'[g].errors = 0 /\ MaxErrors \in Nat \ {0}
      BY <1>4, <1>7, <2>1 DEF Login!LoginAssumption
    <3> QED
      BY <3>1 DEF ErrorsKept
  <2>2. CASE g # f
    BY <1>3, <1>5, <1>7, <1>8, <2>2 DEF ErrorsKept, FlowsFit, Login!FlowType
  <2> QED
    BY <2>1, <2>2
<1>12. \A s \in Handlers \ {r} : h[s].at = "connect" =>
          h[s].flow \in FlowIds \ {f} /\ flow'[h[s].flow].at = "starting"
  BY <1>2, <1>3, <1>7 DEF HandlersFit, HandlerFits
<1>13. ConnectsFit'
  <2>1. ASSUME NEW g \in FlowIds, flow'[g].at = "starting"
        PROVE  \E s \in Handlers : h'[s].at = "connect" /\ h'[s].flow = g
    <3>1. CASE g = f
      BY <1>5, <1>8, <3>1
    <3>2. CASE g # f
      <4>1. PICK s \in Handlers : h[s].at = "connect" /\ h[s].flow = g
        BY <1>3, <1>7, <2>1, <3>2 DEF ConnectsFit
      <4> QED
        BY <1>1, <1>8, <4>1
    <3> QED
      BY <3>1, <3>2
  <2>2. ASSUME NEW s \in Handlers, NEW t \in Handlers, h'[s].at = "connect", h'[t].at = "connect",
               h'[s].flow = h'[t].flow
        PROVE  s = t
    <3>1. CASE s = r \/ t = r
      BY <1>5, <1>8, <1>12, <2>2, <3>1
    <3>2. CASE s # r /\ t # r
      BY <1>3, <1>8, <2>2, <3>2 DEF ConnectsFit
    <3> QED
      BY <3>1, <3>2
  <2> QED
    BY <2>1, <2>2 DEF ConnectsFit
<1> QED
  BY <1>1, <1>5, <1>6, <1>7, <1>9, <1>10, <1>11, <1>12, <1>13, StepKeeps

\* The handler that connects a client is done with that, or shows its QR code.
IsDone(v, f) ==
    \/ v.at = "idle" /\ v.flow = 0
    \/ v.at = "turn" /\ v.flow = f
LEMMA ConnectEnds ==
  ASSUME Login!LoginAssumption, LoginInv, loginEvents' \in 0..MaxEvents, NEW r \in Handlers,
         h[r].at = "connect", NEW f, f = h[r].flow, NEW y, FlowFits(y), Begun(y),
         y.errors = flow[f].errors, flow' = [flow EXCEPT ![f] = y],
         NEW v \in Login!HandlerType, h' = [h EXCEPT ![r] = v], v.todo \in {{}, h[r].todo}, IsDone(v, f)
  PROVE  LoginInv'
<1>1. /\ FlowsFit /\ HandlerTypes /\ h[r] \in Login!HandlerType /\ HandlersFit /\ ConnectsFit
      /\ HandlerFits(r) /\ h[r].todo \subseteq FlowIds
  BY Served DEF LoginInv, Login!HandlerType, Login!Flows, FlowIds
<1>2. f \in FlowIds /\ flow[f].at = "starting" /\ ~Begun(flow[f])
  BY <1>1 DEF HandlerFits, Begun
<1>3. FlowsFit' /\ flow'[f] = y /\ \A g \in FlowIds \ {f} : flow'[g] = flow[g]
  BY <1>1, <1>2, UpdateFlow
<1>4. h'[r] = v /\ \A s \in Handlers \ {r} : h'[s] = h[s]
  BY <1>1, UpdateHandler
<1>5. \A g \in FlowIds : FlowKept(g)
  <2>1. flow[f].client # "closed"
    BY <1>1, <1>2 DEF FlowsFit, FlowFits
  <2> QED
    BY <1>2, <1>3, <2>1 DEF FlowKept
<1>6. HandlerFits(r)'
  <2>1. \A g \in h'[r].todo : Begun(flow'[g])
    BY <1>1, <1>4, <1>5 DEF HandlerFits, FlowKept
  <2>2. 0 \notin FlowIds /\ Begun(flow'[f])
    BY <1>3 DEF FlowIds
  <2> QED
    BY <1>2, <1>4, <2>1, <2>2 DEF HandlerFits, Serving, IsDone
<1>7. \A g \in FlowIds : ErrorsKept(r, g)
  <2>1. \A g \in FlowIds : flow'[g].errors = flow[g].errors /\ flow[g].errors \in Nat
    BY <1>1, <1>3 DEF FlowsFit, Login!FlowType
  <2> QED
    BY <1>4, <2>1 DEF ErrorsKept, FlowIds, IsDone
<1>8. \A s \in Handlers \ {r} : h[s].at = "connect" =>
          h[s].flow \in FlowIds \ {f} /\ flow'[h[s].flow].at = "starting"
  BY <1>1, <1>3 DEF HandlersFit, HandlerFits, ConnectsFit
<1>9. ConnectsFit'
  <2>1. ASSUME NEW g \in FlowIds, flow'[g].at = "starting"
        PROVE  \E s \in Handlers : h'[s].at = "connect" /\ h'[s].flow = g
    <3>1. g # f /\ flow[g].at = "starting"
      BY <1>3, <2>1 DEF Begun
    <3>2. PICK s \in Handlers : h[s].at = "connect" /\ h[s].flow = g
      BY <1>1, <3>1 DEF ConnectsFit
    <3>3. s # r => h'[s] = h[s]
      BY <1>4
    <3>4. s # r
      BY <3>1, <3>2
    <3> QED
      BY <3>2, <3>3, <3>4
  <2>2. ASSUME NEW s \in Handlers, NEW t \in Handlers, h'[s].at = "connect", h'[t].at = "connect",
               h'[s].flow = h'[t].flow
        PROVE  s = t
    <3>1. s # r /\ t # r
      BY <1>4, <2>2 DEF IsDone
    <3> QED
      BY <1>1, <1>4, <2>2, <3>1 DEF ConnectsFit
  <2> QED
    BY <2>1, <2>2 DEF ConnectsFit
<1> QED
  BY <1>3, <1>5, <1>6, <1>7, <1>8, <1>9, StepKeeps

\* A handler that is done is idle.
LEMMA IdleIs ==
  ASSUME Login!LoginAssumption
  PROVE  /\ Login!Idle \in Login!HandlerType /\ Login!Idle.at = "idle" /\ Login!Idle.flow = 0
         /\ Login!Idle.todo = {}
BY DEF Login!Idle, Login!HandlerType, Login!Flows, Login!LoginAssumption

LEMMA StillConnects ==
  ASSUME LoginInv, NEW r \in Handlers, h[r].at = "connect"
  PROVE  /\ h[r].flow \in FlowIds /\ flow[h[r].flow] \in Login!FlowType
         /\ FlowFits(flow[h[r].flow]) /\ flow[h[r].flow].at = "starting"
         /\ ~flow[h[r].flow].listed /\ flow[h[r].flow].held
BY DEF LoginInv, FlowsFit, HandlersFit, HandlerFits, FlowFits

LEMMA ConnectedKeeps ==
  ASSUME Login!LoginAssumption, LoginInv, NEW r \in Handlers, Login!Connected(r)
  PROVE  LoginInv'
<1> DEFINE f == h[r].flow
           x == flow[f]
           y == [x EXCEPT !.listed = TRUE, !.at = "pending", !.late = ~x.timer]
           z == [x EXCEPT !.listed = TRUE, !.at = "code", !.timer = x.kind = "phone"]
           v == [h[r] EXCEPT !.at = "turn"]
<1>1. /\ h[r].at = "connect" /\ loginEvents' \in 0..MaxEvents /\ h[r] \in Login!HandlerType
  BY EventsStay, Served DEF Login!Connected
<1>2. \/ flow' = [flow EXCEPT ![f] = y] /\ h' = [h EXCEPT ![r] = v]
      \/ flow' = [flow EXCEPT ![f] = z] /\ h' = [h EXCEPT ![r] = Login!Idle]
  BY DEF Login!Connected, Login!Set, Login!F, Login!Goto, Login!Leave
<1>3. x \in Login!FlowType /\ FlowFits(x) /\ x.held
  BY <1>1, StillConnects
<1> HIDE DEF x
<1>4. FlowFits(y) /\ Begun(y) /\ y.errors = x.errors
  BY <1>3 DEF FlowFits, Begun, Login!FlowType
<1>5. FlowFits(z) /\ Begun(z) /\ z.errors = x.errors
  BY <1>3 DEF FlowFits, Begun, Login!FlowType
<1>6. v \in Login!HandlerType /\ IsDone(v, f) /\ v.todo \in {{}, h[r].todo}
  BY <1>1 DEF Login!HandlerType, IsDone
<1> HIDE DEF y, z, v
<1>7. CASE flow' = [flow EXCEPT ![f] = y] /\ h' = [h EXCEPT ![r] = v]
  BY <1>1, <1>4, <1>6, <1>7, ConnectEnds DEF x
<1>8. CASE flow' = [flow EXCEPT ![f] = z] /\ h' = [h EXCEPT ![r] = Login!Idle]
  <2> QED
    BY <1>1, <1>5, <1>8, IdleIs, ConnectEnds DEF x, IsDone
<1> QED
  BY <1>2, <1>7, <1>8

LEMMA LoginConnectFails ==
  ASSUME Login!LoginAssumption, LoginInv, NEW r \in Handlers, Login!ConnectFails(r)
  PROVE  LoginInv'
<1> DEFINE f == h[r].flow
           x == flow[f]
           y == [Login!Deleted(x) EXCEPT !.at = "error"]
<1>1. /\ h[r].at = "connect" /\ loginEvents' \in 0..MaxEvents
      /\ flow' = [flow EXCEPT ![f] = y] /\ h' = [h EXCEPT ![r] = Login!Idle]
  BY EventsStay DEF Login!ConnectFails, Login!Set, Login!F, Login!Leave
<1>2. x \in Login!FlowType
  BY <1>1, StillConnects
<1> HIDE DEF x
<1>3. FlowFits(y) /\ Begun(y) /\ y.errors = x.errors
  BY <1>2 DEF FlowFits, Begun, Login!FlowType, Login!Deleted, Login!Detached
<1> HIDE DEF y
<1> QED
  BY <1>1, <1>3, IdleIs, ConnectEnds DEF x, IsDone

LEMMA LoginStarts ==
  ASSUME Login!LoginAssumption, Login!Init
  PROVE  LoginInv
<1>1. /\ flow = [f \in FlowIds |-> Login!NoFlow] /\ h = [r \in Handlers |-> Login!Idle]
      /\ loginEvents \in 0..MaxEvents
  BY DEF Login!Init, Login!Flows, FlowIds, Login!LoginAssumption
<1>2. /\ Login!NoFlow \in Login!FlowType /\ FlowFits(Login!NoFlow) /\ Login!NoFlow.at = "none"
      /\ Login!NoFlow.errors = 0
  BY DEF Login!NoFlow, Login!FlowType, FlowFits, Begun
<1>3. FlowsFit
  BY <1>1, <1>2 DEF FlowsFit
<1>4. HandlersFit
  BY <1>1, IdleIs DEF HandlersFit, HandlerFits, Serving
<1>5. ConnectsFit
  BY <1>1, <1>2, IdleIs DEF ConnectsFit
<1>6. ErrorsFit
  <2>1. ASSUME NEW f \in FlowIds
        PROVE  flow[f].errors + Cardinality(AtFlow(f)) <= MaxErrors + Cardinality(Handlers) - 1
    <3>1. AtFlow(f) = {}
      BY <1>1, IdleIs DEF AtFlow, FlowIds
    <3>2. Cardinality(AtFlow(f)) = 0 /\ Cardinality(Handlers) \in Nat
      BY <3>1, SameSets, FS_EmptySet, FS_CardinalityType
    <3>3. flow[f].errors = 0 /\ MaxErrors \in Nat \ {0}
      BY <1>1, <1>2 DEF Login!LoginAssumption
    <3> QED
      BY <3>2, <3>3
  <2> QED
    BY <2>1 DEF ErrorsFit
<1> QED
  BY <1>1, <1>3, <1>4, <1>5, <1>6 DEF LoginInv

LEMMA LoginStep ==
  ASSUME Login!LoginAssumption, LoginInv, [Login!Next]_Login!vars
  PROVE  LoginInv'
<1>1. CASE UNCHANGED Login!vars
  BY <1>1 DEF Login!vars, LoginInv, FlowsFit, HandlersFit, HandlerFits, ConnectsFit, ErrorsFit, AtFlow
<1>2. ASSUME NEW r \in Handlers, Login!Serve(r)  PROVE LoginInv'
  BY <1>2, RemoveOneKeeps, ConnectKeeps, ConnectedKeeps, LoginConnectFails, SignFailsKeeps,
     PasswordNeededKeeps, SignedInKeeps, TurnKeeps, ExportedKeeps, ExportFailsKeeps, MeKeeps,
     HandOffKeeps, SavedKeeps, AuthorizeFailsKeeps DEF Login!Serve
<1>3. ASSUME NEW r \in Handlers, NEW kind \in {"phone", "qr", "web"}, Login!Start(r, kind)
      PROVE  LoginInv'
  BY <1>3, StartKeeps
<1>4. ASSUME NEW r \in Handlers, NEW f \in FlowIds,
             Login!Submit(r, f) \/ Login!Advance(r, f) \/ Login!Cancel(r, f) \/ Login!Refuse(r, f)
      PROVE  LoginInv'
  BY <1>4, SubmitKeeps, AdvanceKeeps, CancelKeeps
<1>5. ASSUME NEW f \in FlowIds, Login!Timer(f) \/ Login!TimerAtLast(f) \/ Login!Expires(f)
      PROVE  LoginInv'
  BY <1>5, TimesKeep
<1>6. \/ UNCHANGED Login!vars
      \/ \E r \in Handlers : Login!Serve(r)
      \/ \E r \in Handlers, kind \in {"phone", "qr", "web"} : Login!Start(r, kind)
      \/ \E r \in Handlers, f \in FlowIds :
           Login!Submit(r, f) \/ Login!Advance(r, f) \/ Login!Cancel(r, f) \/ Login!Refuse(r, f)
      \/ \E f \in FlowIds : Login!Timer(f) \/ Login!TimerAtLast(f) \/ Login!Expires(f)
  BY DEF Login!Next, Login!Flows, FlowIds
<1> QED
  BY <1>1, <1>2, <1>3, <1>4, <1>5, <1>6

\* The invariant of the logins.
THEOREM LoginInvariant == Login!LoginAssumption => (Login!Spec => []LoginInv)
<1> SUFFICES ASSUME Login!LoginAssumption PROVE Login!Spec => []LoginInv
  OBVIOUS
<1>1. Login!Init => LoginInv
  BY LoginStarts
<1>2. LoginInv /\ [Login!Next]_Login!vars => LoginInv'
  BY LoginStep
<1> QED
  BY <1>1, <1>2, PTL DEF Login!Spec

\* Every variable of the logins has its type.
THEOREM LoginTypeCorrect == Login!LoginAssumption => (Login!Spec => []Login!TypeOK)
<1> SUFFICES ASSUME Login!LoginAssumption PROVE Login!Spec => []Login!TypeOK
  OBVIOUS
<1>1. LoginInv => Login!TypeOK
  BY DEF LoginInv, FlowsFit, HandlersFit, Login!TypeOK, Login!Flows, FlowIds
<1>2. Login!Spec => []LoginInv
  BY LoginInvariant
<1> QED
  BY <1>1, <1>2, PTL

\* A client that was connected for a login can be found again: through the map of
\* flows, or by the handler that is connecting it.
THEOREM ClientsAreOwned == Login!LoginAssumption => (Login!Spec => []Login!ClientIsOwned)
<1> SUFFICES ASSUME Login!LoginAssumption PROVE Login!Spec => []Login!ClientIsOwned
  OBVIOUS
<1>1. LoginInv => Login!ClientIsOwned
  <2> SUFFICES ASSUME LoginInv, NEW f \in FlowIds, flow[f].client = "open"
               PROVE  \/ flow[f].listed /\ flow[f].held
                      \/ \E r \in Handlers : h[r].flow = f /\ h[r].at = "connect"
    BY DEF Login!ClientIsOwned, Login!Flows, FlowIds, Login!F
  <2>1. FlowFits(flow[f]) /\ ConnectsFit
    BY DEF LoginInv, FlowsFit
  <2>2. CASE flow[f].at = "starting"
    BY <2>1, <2>2 DEF ConnectsFit
  <2>3. CASE flow[f].at # "starting"
    BY <2>1, <2>3 DEF FlowFits, Begun
  <2> QED
    BY <2>2, <2>3
<1>2. Login!Spec => []LoginInv
  BY LoginInvariant
<1> QED
  BY <1>1, <1>2, PTL

\* A session that was handed to the pool is not in use by its login any more.
THEOREM HandedOffIsClosed == Login!LoginAssumption => (Login!Spec => []Login!HandedOffIsClosed)
<1> SUFFICES ASSUME Login!LoginAssumption PROVE Login!Spec => []Login!HandedOffIsClosed
  OBVIOUS
<1>1. LoginInv => Login!HandedOffIsClosed
  BY DEF LoginInv, FlowsFit, FlowFits, Login!HandedOffIsClosed, Login!Flows, FlowIds
<1>2. Login!Spec => []LoginInv
  BY LoginInvariant
<1> QED
  BY <1>1, <1>2, PTL

\* The connected client of a login has one owner, its flow or the pool: the two together.
THEOREM LoginsHaveOneOwner ==
    Login!LoginAssumption => (Login!Spec => [](Login!ClientIsOwned /\ Login!HandedOffIsClosed))
<1> SUFFICES ASSUME Login!LoginAssumption
             PROVE  Login!Spec => [](Login!ClientIsOwned /\ Login!HandedOffIsClosed)
  OBVIOUS
<1>1. Login!Spec => []Login!ClientIsOwned
  BY ClientsAreOwned
<1>2. Login!Spec => []Login!HandedOffIsClosed
  BY HandedOffIsClosed
<1> QED
  BY <1>1, <1>2, PTL

\* A login allows maxErrors wrong answers, and those that were under way.
THEOREM ErrorsAreBounded == Login!LoginAssumption => (Login!Spec => []Login!ErrorsAreBounded)
<1> SUFFICES ASSUME Login!LoginAssumption PROVE Login!Spec => []Login!ErrorsAreBounded
  OBVIOUS
<1>1. LoginInv => Login!ErrorsAreBounded
  <2> SUFFICES ASSUME LoginInv, NEW f \in FlowIds
               PROVE  flow[f].errors <= MaxErrors + Cardinality(Handlers) - 1
    BY SameSets DEF Login!ErrorsAreBounded, Login!Flows, FlowIds
  <2>1. AtFlow(f) \in SUBSET Handlers /\ IsFiniteSet(Handlers)
    BY SameSets DEF AtFlow
  <2>2. Cardinality(AtFlow(f)) \in Nat /\ Cardinality(Handlers) \in Nat
    BY <2>1, FS_Subset, FS_CardinalityType
  <2>3. flow[f].errors + Cardinality(AtFlow(f)) <= MaxErrors + Cardinality(Handlers) - 1
    BY DEF LoginInv, ErrorsFit
  <2>4. flow[f].errors \in Nat /\ MaxErrors \in Nat
    BY DEF LoginInv, FlowsFit, Login!FlowType, Login!LoginAssumption
  <2> QED
    BY <2>2, <2>3, <2>4
<1>2. Login!Spec => []LoginInv
  BY LoginInvariant
<1> QED
  BY <1>1, <1>2, PTL
-----------------------------------------------------------------------------
(* Who may use the bot (TelegramAuth)                                       *)

CONSTANTS Users, MaxFail, MaxOps
VARIABLES pin, twoFactor, allow, rows, cache, state, failed, locked, handler, tx, change,
          grant, late, met, authOps, authEvents
Auth == INSTANCE TelegramAuth WITH ops <- authOps, events <- authEvents

AuthLabels ==
    {"free", "verify", "list", "count", "add", "write", "saving", "second", "code", "setup",
     "insert", "cache", "delete", "uncache"}
BusyLabels == {"insert", "cache", "delete", "uncache"}
ProvingLabels ==
    {"list", "count", "add", "write", "saving", "second", "code", "insert", "cache"}
Update ==
    [at : AuthLabels, user : Users \cup {"none"}, pin : Nat, list : SUBSET Users, clears : BOOLEAN]
Waiting == [what : {"none", "login", "setup"}, pin : Nat]
Saving == [at : {"idle", "open"}, by : Handlers \cup {"none", "admin"}, list : SUBSET Users]

\* Nobody gives a PIN that there never was.
AuthTypes ==
    /\ pin \in Nat \ {0} /\ authOps \in 0..MaxOps /\ authEvents \in 0..MaxEvents /\ pin <= authOps + 1
    /\ twoFactor \in BOOLEAN /\ change \in {"idle", "clear"}
    /\ allow \in SUBSET Users /\ rows \in SUBSET Users /\ cache \in SUBSET Users
    /\ locked \in SUBSET Users /\ late \in SUBSET Users /\ met \in SUBSET Users
    /\ grant \in [Users -> Nat] /\ failed \in [Users -> Nat] /\ state \in [Users -> Waiting]
    /\ handler \in [Handlers -> Update] /\ tx \in Saving
PinsFit ==
    /\ \A u \in Users : grant[u] <= pin /\ state[u].pin <= pin
    /\ \A x \in Handlers : handler[x].pin <= pin
UserFits(x) == handler[x].at # "free" => handler[x].user \in Users
UsersFit == \A x \in Handlers : UserFits(x)

\* The list is saved for a handler that waits for that.
TxFits ==
    tx.at = "open" =>
        /\ tx.by \in Handlers \cup {"admin"}
        /\ tx.by \in Handlers => handler[tx.by].at = "saving"

\* Every PIN that is being checked may be wrong, and a user who is not locked out has
\* tries left.
Checking(u) == {x \in Handlers : handler[x].at = "verify" /\ handler[x].user = u}
TriesFit ==
    \A u \in Users :
        /\ failed[u] + Cardinality(Checking(u)) <= MaxFail + Cardinality(Handlers) - 1
        /\ u \notin locked => failed[u] < MaxFail

\* Who has checked a PIN, or waits for the code after that, gave the PIN of now, unless
\* it changed meanwhile.
Proved(x) ==
    handler[x].at \in ProvingLabels /\ handler[x].user \notin late =>
        handler[x].pin = pin /\ (handler[x].at = "cache" => grant[handler[x].user] = pin)
GrantsFit ==
    /\ \A u \in rows \ late : grant[u] = pin
    /\ change = "idle" => \A u \in cache \ late : grant[u] = pin
    /\ change = "idle" => \A u \in Users \ late : state[u].what = "login" => state[u].pin = pin
    /\ \A x \in Handlers : Proved(x)

\* Unless steps of one user overlapped, one handler at a time is between his row and his
\* cache, and who is in the cache has a row or such a handler that removes him.
IsBusy(x) == handler[x].at \in BusyLabels
OneIsBusy ==
    \A x, y \in Handlers : IsBusy(x) /\ IsBusy(y) /\ handler[x].user = handler[y].user
        => x = y \/ handler[x].user \in met
BusyMet == change = "clear" \/ tx.at = "open" => \A x \in Handlers : IsBusy(x) => handler[x].user \in met
RowFits(x) == handler[x].at = "cache" => handler[x].user \in rows \cup met
SavedFits == tx.at = "open" => \A u \in rows \ tx.list : u \notin cache \/ u \in met
CacheFits ==
    change = "clear" \/ \A u \in cache \ met :
        u \in rows \/ \E x \in Handlers : handler[x].at = "uncache" /\ handler[x].user = u
RowsFit ==
    OneIsBusy /\ BusyMet /\ (\A x \in Handlers : RowFits(x)) /\ SavedFits /\ CacheFits

AuthInv == AuthTypes /\ PinsFit /\ UsersFit /\ TxFits /\ TriesFit /\ GrantsFit /\ RowsFit

AuthVersions == pin' = pin /\ change' = change
LEMMA HandlerTurns ==
  ASSUME AuthTypes, NEW x \in Handlers, NEW v \in Update, handler' = [handler EXCEPT ![x] = v]
  PROVE  /\ handler' \in [Handlers -> Update] /\ handler'[x] = v
         /\ \A y \in Handlers \ {x} : handler'[y] = handler[y]
BY DEF AuthTypes

LEMMA UsersKeep ==
  ASSUME UsersFit, NEW x \in Handlers, \A y \in Handlers \ {x} : handler'[y] = handler[y],
         UserFits(x)'
  PROVE  UsersFit'
BY DEF UsersFit, UserFits

LEMMA TxKeeps ==
  ASSUME TxFits, tx' = tx, NEW x \in Handlers, \A y \in Handlers \ {x} : handler'[y] = handler[y],
         handler[x].at = "saving" => handler'[x].at = "saving"
  PROVE  TxFits'
BY DEF TxFits

\* The sets of TelegramAuth are sets of this module.
LEMMA SameAuthSets ==
  /\ Auth!AuthAssumption => IsFiniteSet(Handlers)
  /\ Auth!Cardinality(Handlers) = Cardinality(Handlers)
<1>1. Auth!AuthAssumption => IsFiniteSet(Handlers)
  BY DEF Auth!AuthAssumption, Auth!IsFiniteSet, IsFiniteSet
<1>2. Auth!Cardinality(Handlers) = Cardinality(Handlers)
  BY DEF Auth!Cardinality, Cardinality
<1> QED
  BY <1>1, <1>2

LEMMA CheckingIsFinite ==
  ASSUME Auth!AuthAssumption, NEW u
  PROVE  /\ IsFiniteSet(Checking(u)) /\ Cardinality(Checking(u)) \in Nat
         /\ Cardinality(Handlers) \in Nat /\ Cardinality(Checking(u)) <= Cardinality(Handlers)
         /\ IsFiniteSet(Handlers)
<1>1. IsFiniteSet(Handlers) /\ Checking(u) \in SUBSET Handlers
  BY SameAuthSets DEF Checking
<1> QED
  BY <1>1, FS_Subset, FS_CardinalityType

LEMMA TriesKeep ==
  ASSUME Auth!AuthAssumption, AuthTypes, TriesFit, NEW x \in Handlers, failed' = failed, locked' = locked,
         \A y \in Handlers \ {x} : handler'[y] = handler[y],
         handler'[x].at = "verify" =>
            handler[x].at = "verify" /\ handler'[x].user = handler[x].user
  PROVE  TriesFit'
<1>1. ASSUME NEW u \in Users
      PROVE  /\ failed'[u] + Cardinality({y \in Handlers : handler'[y].at = "verify" /\ handler'[y].user = u})
                   <= MaxFail + Cardinality(Handlers) - 1
             /\ u \notin locked' => failed'[u] < MaxFail
  <2> DEFINE A == {y \in Handlers : handler'[y].at = "verify" /\ handler'[y].user = u}
             B == Checking(u)
  <2>1. A \in SUBSET B
    BY DEF Checking
  <2>2. IsFiniteSet(B) /\ Cardinality(B) \in Nat /\ Cardinality(Handlers) \in Nat
    BY CheckingIsFinite
  <2>3. failed[u] + Cardinality(B) <= MaxFail + Cardinality(Handlers) - 1
    BY DEF TriesFit
  <2> HIDE DEF A, B
  <2>4. Cardinality(A) <= Cardinality(B) /\ Cardinality(A) \in Nat
    BY <2>1, <2>2, FS_Subset, FS_CardinalityType
  <2>5. failed[u] \in Nat /\ MaxFail \in Nat
    BY DEF AuthTypes, Auth!AuthAssumption
  <2>6. u \notin locked' => failed'[u] < MaxFail
    BY DEF TriesFit
  <2> QED
    BY <2>2, <2>3, <2>4, <2>5, <2>6 DEF A
<1> QED
  BY <1>1 DEF TriesFit, Checking

LEMMA GrantsKeep ==
  ASSUME AuthTypes, AuthTypes', UsersFit', GrantsFit, AuthVersions, NEW x \in Handlers,
         \A y \in Handlers \ {x} : handler'[y] = handler[y],
         late \subseteq late', Proved(x)',
         \A u \in Users : grant'[u] = grant[u] \/ grant'[u] = pin \/ u \in late',
         \A u \in Users : u \in rows' => u \in rows \/ grant'[u] = pin \/ u \in late',
         \A u \in Users : u \in cache' => u \in cache \/ grant'[u] = pin \/ u \in late',
         \A u \in Users : \/ state'[u] = state[u] \/ u \in late'
                          \/ state'[u].what = "login" => state'[u].pin = pin
  PROVE  GrantsFit'
<1>1. \A u \in rows' \ late' : grant'[u] = pin'
  BY DEF AuthTypes, GrantsFit, AuthVersions
<1>2. change' = "idle" => \A u \in cache' \ late' : grant'[u] = pin'
  BY DEF AuthTypes, GrantsFit, AuthVersions
<1>3. change' = "idle" =>
        \A u \in Users \ late' : state'[u].what = "login" => state'[u].pin = pin'
  BY DEF GrantsFit, AuthVersions
<1>4. ASSUME NEW y \in Handlers \ {x}  PROVE Proved(y)'
  <2>1. handler'[y] = handler[y] /\ Proved(y)
    BY DEF GrantsFit
  <2>2. handler'[y].at \in ProvingLabels => handler'[y].user \in Users
    BY DEF UsersFit, UserFits, ProvingLabels
  <2> QED
    BY <2>1, <2>2 DEF Proved, AuthVersions, ProvingLabels
<1>5. \A y \in Handlers : Proved(y)'
  BY <1>4
<1> QED
  BY <1>1, <1>2, <1>3, <1>5 DEF GrantsFit

\* A handler that becomes busy alone, or while nothing else is under way.
Alone(x) ==
    \/ handler'[x].user \in met'
    \/ /\ change = "idle" /\ tx.at = "idle"
       /\ \A y \in Handlers : IsBusy(y) => handler[y].user # handler'[x].user

LEMMA RowsKeep ==
  ASSUME AuthTypes, AuthTypes', RowsFit, AuthVersions, tx' = tx, NEW x \in Handlers, met \subseteq met',
         \A y \in Handlers \ {x} : handler'[y] = handler[y],
         IsBusy(x)' => (IsBusy(x) /\ handler'[x].user = handler[x].user) \/ Alone(x),
         RowFits(x)',
         \A u \in rows' \ rows : IsBusy(x) /\ handler[x].user = u,
         \A u \in cache' \ cache : IsBusy(x) /\ handler[x].user = u /\ (u \in rows' \/ u \in met'),
         \A u \in rows \ rows' : /\ IsBusy(x) /\ handler[x].user = u
                                 /\ handler'[x].at = "uncache" /\ handler'[x].user = u,
         handler[x].at = "uncache" => handler[x].user \notin cache'
  PROVE  RowsFit'
<1>1. OneIsBusy'
  <2>1. ASSUME NEW y \in Handlers, NEW z \in Handlers, IsBusy(y)', IsBusy(z)',
               handler'[y].user = handler'[z].user, y # z
        PROVE  handler'[y].user \in met'
    <3>1. CASE y # x /\ z # x
      BY <2>1, <3>1 DEF RowsFit, OneIsBusy, IsBusy
    <3>2. CASE y = x /\ z # x
      BY <2>1, <3>2 DEF RowsFit, OneIsBusy, IsBusy, Alone
    <3>3. CASE z = x /\ y # x
      BY <2>1, <3>3 DEF RowsFit, OneIsBusy, IsBusy, Alone
    <3> QED
      BY <2>1, <3>1, <3>2, <3>3
  <2> QED
    BY <2>1 DEF OneIsBusy
<1>2. BusyMet'
  <2>1. ASSUME change' = "clear" \/ tx'.at = "open", NEW y \in Handlers, IsBusy(y)'
        PROVE  handler'[y].user \in met'
    <3>1. CASE y = x
      BY <2>1, <3>1 DEF RowsFit, BusyMet, IsBusy, Alone, AuthVersions
    <3>2. CASE y # x
      BY <2>1, <3>2 DEF RowsFit, BusyMet, IsBusy, AuthVersions
    <3> QED
      BY <3>1, <3>2
  <2> QED
    BY <2>1 DEF BusyMet
<1>3. ASSUME NEW y \in Handlers  PROVE RowFits(y)'
  <2>1. CASE y = x
    BY <2>1
  <2>2. CASE y # x
    <3>1. handler'[y] = handler[y] /\ RowFits(y)
      BY <2>2 DEF RowsFit
    <3>2. ASSUME handler[y].at = "cache", handler[y].user \in rows \ rows', handler[y].user \notin met
          PROVE  FALSE
      <4>1. IsBusy(x) /\ IsBusy(y) /\ handler[x].user = handler[y].user
        BY <3>2 DEF IsBusy, BusyLabels
      <4> QED
        BY <2>2, <3>2, <4>1 DEF RowsFit, OneIsBusy
    <3> QED
      BY <3>1, <3>2 DEF RowFits
  <2> QED
    BY <2>1, <2>2
<1>4. SavedFits'
  <2>1. ASSUME tx'.at = "open", NEW u \in rows' \ tx'.list, u \in cache'  PROVE u \in met'
    <3>1. CASE u \in rows /\ u \in cache
      BY <2>1, <3>1 DEF RowsFit, SavedFits
    <3>2. CASE u \notin rows \/ u \notin cache
      BY <2>1, <3>2 DEF RowsFit, BusyMet
    <3> QED
      BY <3>1, <3>2
  <2> QED
    BY <2>1 DEF SavedFits
<1>5. CacheFits'
  <2>1. ASSUME change' # "clear", NEW u \in cache' \ met', u \notin rows'
        PROVE  \E y \in Handlers : handler'[y].at = "uncache" /\ handler'[y].user = u
    <3>1. CASE u \notin cache \/ u \in rows
      BY <2>1, <3>1
    <3>2. CASE u \in cache /\ u \notin rows
      <4>1. PICK y \in Handlers : handler[y].at = "uncache" /\ handler[y].user = u
        BY <2>1, <3>2 DEF RowsFit, CacheFits, AuthVersions
      <4> QED
        BY <2>1, <4>1
    <3> QED
      BY <3>1, <3>2
  <2> QED
    BY <2>1 DEF CacheFits
<1> QED
  BY <1>1, <1>2, <1>3, <1>4, <1>5 DEF RowsFit

\* A handler turns, and rows, cache and list stay as they are.
Turns(x, v) == v \in Update /\ handler' = [handler EXCEPT ![x] = v]
RowsStay == rows' = rows /\ cache' = cache /\ grant' = grant /\ tx' = tx /\ late \subseteq late' /\ met \subseteq met'
StateFits(u) ==
    \/ state'[u] = state[u]
    \/ state'[u].pin <= pin /\ (u \in late' \/ (state'[u].what = "login" => state'[u].pin = pin))

LEMMA QuietStep ==
  ASSUME Auth!AuthAssumption, AuthInv, NEW x \in Handlers, NEW v, Turns(x, v), AuthTypes',
         AuthVersions, RowsStay, TriesFit',
         v.at # "free" => v.user \in Users, v.pin <= pin,
         handler[x].at = "saving" => v.at = "saving",
         handler[x].at # "uncache" \/ v = handler[x],
         v.at \in ProvingLabels /\ v.user \notin late' =>
            v.pin = pin /\ (v.at = "cache" => v = handler[x]),
         v.at \in BusyLabels => v = handler[x] \/ (v.at # "cache" /\ Alone(x)),
         \A u \in Users : StateFits(u)
  PROVE  AuthInv'
<1>1. /\ AuthTypes /\ PinsFit /\ UsersFit /\ TxFits /\ GrantsFit /\ RowsFit
  BY DEF AuthInv
<1>2. handler'[x] = v /\ \A y \in Handlers \ {x} : handler'[y] = handler[y]
  BY <1>1, HandlerTurns DEF Turns
<1>3. UsersFit'
  <2>1. UserFits(x)'
    BY <1>2 DEF UserFits
  <2> QED
    BY <1>1, <1>2, <2>1, UsersKeep
<1>4. PinsFit'
  <2>1. \A y \in Handlers : handler'[y].pin <= pin'
    BY <1>1, <1>2 DEF PinsFit, AuthVersions
  <2>2. \A u \in Users : grant'[u] <= pin' /\ state'[u].pin <= pin'
    BY <1>1 DEF PinsFit, AuthVersions, RowsStay, StateFits
  <2> QED
    BY <2>1, <2>2 DEF PinsFit
<1>5. TxFits'
  BY <1>1, <1>2, TxKeeps DEF RowsStay
<1>6. GrantsFit'
  <2>1. v = handler[x] => (v.at = "cache" /\ v.user \notin late' => grant'[v.user] = pin)
    BY <1>1 DEF GrantsFit, Proved, RowsStay, ProvingLabels
  <2>2. Proved(x)'
    BY <1>2, <2>1 DEF Proved, AuthVersions, ProvingLabels
  <2>3. \A u \in Users : \/ state'[u] = state[u] \/ u \in late'
                         \/ state'[u].what = "login" => state'[u].pin = pin
    BY DEF StateFits
  <2> QED
    BY <1>1, <1>2, <1>3, <2>2, <2>3, GrantsKeep DEF RowsStay
<1>7. RowsFit'
  <2>1. IsBusy(x)' => (IsBusy(x) /\ handler'[x].user = handler[x].user) \/ Alone(x)
    BY <1>2 DEF IsBusy
  <2>2. v = handler[x] => (v.at = "cache" => v.user \in rows \cup met)
    BY <1>1 DEF RowsFit, RowFits
  <2>3. RowFits(x)'
    BY <1>2, <2>2 DEF RowFits, RowsStay, BusyLabels
  <2>4. CASE v = handler[x]
    <3>1. \A y \in Handlers : handler'[y] = handler[y]
      BY <1>2, <2>4
    <3>2. OneIsBusy'
      BY <1>1, <3>1 DEF RowsFit, OneIsBusy, IsBusy, RowsStay
    <3>3. BusyMet'
      BY <1>1, <3>1 DEF RowsFit, BusyMet, IsBusy, RowsStay, AuthVersions
    <3>4. \A y \in Handlers : RowFits(y)'
      BY <1>1, <3>1 DEF RowsFit, RowFits, RowsStay
    <3>5. SavedFits' /\ CacheFits'
      BY <1>1, <3>1 DEF RowsFit, SavedFits, CacheFits, RowsStay, AuthVersions
    <3> QED
      BY <3>2, <3>3, <3>4, <3>5 DEF RowsFit
  <2>5. CASE v # handler[x]
    <3>1. handler[x].at # "uncache"
      BY <2>5
    <3> QED
      BY <1>1, <1>2, <2>1, <2>3, <3>1, RowsKeep DEF RowsStay
  <2> QED
    BY <2>4, <2>5
<1> QED
  BY <1>3, <1>4, <1>5, <1>6, <1>7 DEF AuthInv

\* The records that the steps leave in a handler.
LEMMA FreeIs ==
  /\ Auth!Free \in Update /\ Auth!Free.at = "free" /\ Auth!Free.pin = 0 /\ Auth!Free.user = "none"
  /\ Auth!NoState \in Waiting /\ Auth!NoState.what = "none" /\ Auth!NoState.pin = 0
BY DEF Auth!Free, Update, AuthLabels, Auth!NoState, Waiting

LEMMA ToIs ==
  ASSUME NEW x \in Handlers, handler[x] \in Update, NEW at \in AuthLabels
  PROVE  LET v == [handler[x] EXCEPT !.at = at] IN
         v \in Update /\ v.at = at /\ v.user = handler[x].user /\ v.pin = handler[x].pin
BY DEF Update

\* A handler that was busy with nothing but its user, or with none, as the invariant sees it.
LEMMA HandlerIs ==
  ASSUME AuthInv, NEW x \in Handlers
  PROVE  /\ handler[x] \in Update /\ handler[x].pin <= pin /\ handler[x].pin \in Nat
         /\ handler[x].at # "free" => handler[x].user \in Users
         /\ handler[x].at \in ProvingLabels /\ handler[x].user \notin late => handler[x].pin = pin
         /\ handler[x].at = "cache" /\ handler[x].user \notin late => grant[handler[x].user] = pin
         /\ AuthTypes /\ pin \in Nat \ {0}
BY DEF AuthInv, AuthTypes, PinsFit, UsersFit, UserFits, GrantsFit, Proved, ProvingLabels, Update

LEMMA EventsFit ==
  ASSUME Auth!AuthAssumption, AuthInv
  PROVE  /\ Auth!Op => authOps' \in 0..MaxOps /\ authEvents' \in 0..MaxEvents /\ authOps' = authOps + 1
         /\ Auth!Event => authOps' \in 0..MaxOps /\ authEvents' \in 0..MaxEvents /\ authOps' = authOps
         /\ Auth!Goes => authOps' \in 0..MaxOps /\ authEvents' \in 0..MaxEvents /\ authOps' = authOps
BY DEF AuthInv, AuthTypes, Auth!AuthAssumption, Auth!Op, Auth!Event, Auth!Goes

\* What is neither a handler's nor a counter's is in its type when it stays.
OthersTyped ==
    /\ twoFactor' \in BOOLEAN /\ rows' \in SUBSET Users /\ cache' \in SUBSET Users
    /\ allow' \in SUBSET Users /\ locked' \in SUBSET Users /\ late' \in SUBSET Users
    /\ met' \in SUBSET Users /\ grant' \in [Users -> Nat] /\ failed' \in [Users -> Nat]
    /\ state' \in [Users -> Waiting] /\ tx' \in Saving
LEMMA TypesKeep ==
  ASSUME Auth!AuthAssumption, AuthInv, NEW x \in Handlers, NEW v, Turns(x, v), AuthVersions,
         Auth!Op \/ Auth!Event \/ Auth!Goes, OthersTyped
  PROVE  AuthTypes'
<1>1. handler' \in [Handlers -> Update]
  BY HandlerTurns DEF AuthInv, Turns
<1>2. authOps' \in 0..MaxOps /\ authEvents' \in 0..MaxEvents
  BY EventsFit
<1>3. pin \in Nat /\ pin <= authOps' + 1 /\ pin # 0
  <2>1. authOps' = authOps \/ authOps' = authOps + 1
    BY EventsFit
  <2>2. authOps \in Nat /\ pin \in Nat /\ pin # 0 /\ pin <= authOps + 1
    BY DEF AuthInv, AuthTypes, Auth!AuthAssumption
  <2> QED
    BY <2>1, <2>2
<1>4. pin' \in Nat \ {0} /\ pin' <= authOps' + 1
  <2>1. pin' = pin
    BY DEF AuthVersions
  <2> QED
    BY <1>3, <2>1
<1> QED
  BY <1>1, <1>2, <1>4 DEF AuthTypes, AuthInv, OthersTyped, AuthVersions

\* The steps that touch no row: who types a PIN is being checked from then on.
LEMMA TypePinKeeps ==
  ASSUME Auth!AuthAssumption, AuthInv, NEW x \in Handlers, NEW u \in Users, Auth!TypePin(x, u)
  PROVE  AuthInv'
<1>1. /\ handler[x] = Auth!Free /\ u \notin locked /\ Auth!Op
      /\ \E typed \in 0..pin :
           handler' = [handler EXCEPT ![x] = [Auth!Free EXCEPT !.at = "verify", !.user = u, !.pin = typed]]
  BY DEF Auth!TypePin, Auth!Step
<1>2. PICK typed \in 0..pin :
           handler' = [handler EXCEPT ![x] = [Auth!Free EXCEPT !.at = "verify", !.user = u, !.pin = typed]]
  BY <1>1
<1> DEFINE v == [Auth!Free EXCEPT !.at = "verify", !.user = u, !.pin = typed]
<1>3. v \in Update /\ v.at = "verify" /\ v.user = u /\ v.pin = typed /\ typed \in Nat /\ typed <= pin
  <2>1. typed \in Nat /\ typed <= pin
    BY HandlerIs
  <2>2. Auth!Free \in Update
    BY FreeIs
  <2> QED
    BY <2>1, <2>2 DEF Update, AuthLabels
<1> HIDE DEF v
<1>4. Turns(x, v)
  BY <1>2, <1>3 DEF Turns, v
<1>5. AuthVersions /\ RowsStay /\ state' = state /\ failed' = failed /\ locked' = locked
  BY DEF Auth!TypePin, Auth!settings, Auth!store, Auth!pinTries, Auth!marks, AuthVersions, RowsStay
<1>6. OthersTyped
  BY DEF Auth!TypePin, Auth!settings, Auth!store, Auth!pinTries, Auth!marks, OthersTyped, AuthInv, AuthTypes
<1>7. AuthTypes'
  BY <1>1, <1>4, <1>5, <1>6, TypesKeep
<1>8. TriesFit'
  <2>1. AuthTypes /\ TriesFit
    BY DEF AuthInv
  <2>2. handler'[x] = v /\ \A y \in Handlers \ {x} : handler'[y] = handler[y]
    BY <1>4, <2>1, HandlerTurns DEF Turns
  <2>3. ASSUME NEW w \in Users
        PROVE  /\ failed'[w] + Cardinality({y \in Handlers : handler'[y].at = "verify" /\ handler'[y].user = w})
                     <= MaxFail + Cardinality(Handlers) - 1
               /\ w \notin locked' => failed'[w] < MaxFail
    <3> DEFINE A == {y \in Handlers : handler'[y].at = "verify" /\ handler'[y].user = w}
               B == Checking(w)
    <3>1. /\ IsFiniteSet(B) /\ Cardinality(B) \in Nat /\ Cardinality(Handlers) \in Nat
          /\ IsFiniteSet(Handlers)
      BY CheckingIsFinite
    <3>2. /\ failed[w] + Cardinality(B) <= MaxFail + Cardinality(Handlers) - 1
          /\ w \notin locked => failed[w] < MaxFail
      BY <2>1 DEF TriesFit
    <3>3. failed[w] \in Nat /\ MaxFail \in Nat
      BY <2>1 DEF AuthTypes, Auth!AuthAssumption
    <3>4. A \in SUBSET Handlers
      OBVIOUS
    <3>5. w # u => A \in SUBSET B
      BY <1>3, <2>2 DEF Checking
    <3> HIDE DEF A, B
    <3>6. IsFiniteSet(A) /\ Cardinality(A) \in Nat /\ Cardinality(A) <= Cardinality(Handlers)
      BY <3>1, <3>4, FS_Subset, FS_CardinalityType
    <3>7. CASE w # u
      <4>1. Cardinality(A) <= Cardinality(B)
        BY <3>1, <3>5, <3>7, FS_Subset
      <4> QED
        BY <1>5, <3>1, <3>2, <3>3, <3>6, <4>1 DEF A
    <3>8. CASE w = u
      <4>1. failed[w] < MaxFail
        BY <1>1, <3>2, <3>8
      <4> QED
        BY <1>5, <3>1, <3>3, <3>6, <4>1 DEF A
    <3> QED
      BY <3>7, <3>8
  <2> QED
    BY <2>3 DEF TriesFit, Checking
<1>9. /\ handler[x].at = "free" /\ v.at \notin ProvingLabels /\ v.at \notin BusyLabels
      /\ v.at # "free" => v.user \in Users
  BY <1>1, <1>3, FreeIs DEF ProvingLabels, BusyLabels
<1>10. \A w \in Users : StateFits(w)
  BY <1>5 DEF StateFits
<1> QED
  BY <1>3, <1>4, <1>5, <1>7, <1>8, <1>9, <1>10, QuietStep

LEMMA VerifyKeeps ==
  ASSUME Auth!AuthAssumption, AuthInv, NEW x \in Handlers, Auth!Verify(x)
  PROVE  AuthInv'
<1> DEFINE u == handler[x].user
           ok == [handler[x] EXCEPT !.at = "list"]
<1>1. /\ handler[x].at = "verify" /\ Auth!Goes /\ handler[x] \in Update /\ u \in Users
      /\ handler[x].pin <= pin
  BY HandlerIs DEF Auth!Verify
<1>2. /\ AuthVersions /\ RowsStay /\ state' = state /\ twoFactor' = twoFactor /\ allow' = allow
      /\ late' = late /\ met' = met
  BY DEF Auth!Verify, Auth!settings, Auth!store, Auth!marks, AuthVersions, RowsStay
<1>3. \/ handler[x].pin = pin /\ handler' = [handler EXCEPT ![x] = ok] /\ failed' = failed /\ locked' = locked
      \/ /\ handler' = [handler EXCEPT ![x] = Auth!Free]
         /\ failed' = [failed EXCEPT ![u] = failed[u] + 1]
         /\ locked' = IF failed[u] + 1 >= MaxFail THEN locked \cup {u} ELSE locked
  BY DEF Auth!Verify, Auth!To, Auth!Step, Auth!End, Auth!pinTries, Auth!Full
<1>4. ok \in Update /\ ok.at = "list" /\ ok.user = u /\ ok.pin = handler[x].pin
  BY <1>1 DEF Update, AuthLabels
<1> HIDE DEF ok
<1>5. \A w \in Users : StateFits(w)
  BY <1>2 DEF StateFits
<1>6. CASE handler[x].pin = pin /\ handler' = [handler EXCEPT ![x] = ok] /\ failed' = failed /\ locked' = locked
  <2>1. Turns(x, ok)
    BY <1>4, <1>6 DEF Turns
  <2>2. OthersTyped
    BY <1>2, <1>6 DEF OthersTyped, AuthInv, AuthTypes, RowsStay
  <2>3. AuthTypes'
    BY <1>1, <1>2, <2>1, <2>2, TypesKeep
  <2>4. TriesFit'
    <3>1. handler'[x] = ok /\ \A y \in Handlers \ {x} : handler'[y] = handler[y]
      BY <2>1, HandlerTurns DEF Turns, AuthInv
    <3> QED
      BY <1>4, <1>6, <3>1, TriesKeep DEF AuthInv
  <2> QED
    BY <1>1, <1>2, <1>4, <1>5, <1>6, <2>1, <2>3, <2>4, QuietStep DEF BusyLabels
<1>7. CASE /\ handler' = [handler EXCEPT ![x] = Auth!Free]
           /\ failed' = [failed EXCEPT ![u] = failed[u] + 1]
           /\ locked' = IF failed[u] + 1 >= MaxFail THEN locked \cup {u} ELSE locked
  <2> DEFINE v == Auth!Free
  <2>1. Turns(x, v) /\ v.at = "free" /\ v.pin = 0
    BY <1>7, FreeIs DEF Turns
  <2> HIDE DEF v
  <2>2. failed \in [Users -> Nat] /\ locked \in SUBSET Users
    BY DEF AuthInv, AuthTypes
  <2>3. /\ failed' \in [Users -> Nat] /\ locked' \in SUBSET Users /\ failed'[u] = failed[u] + 1
        /\ \A w \in Users \ {u} : failed'[w] = failed[w]
    BY <1>1, <1>7, <2>2
  <2>4. OthersTyped
    BY <1>2, <2>3 DEF OthersTyped, AuthInv, AuthTypes, RowsStay
  <2>5. AuthTypes'
    BY <1>1, <1>2, <2>1, <2>4, TypesKeep
  <2>6. TriesFit'
    <3>1. handler'[x] = v /\ \A y \in Handlers \ {x} : handler'[y] = handler[y]
      BY <2>1, HandlerTurns DEF Turns, AuthInv
    <3>2. ASSUME NEW w \in Users
          PROVE  /\ failed'[w] + Cardinality({y \in Handlers : handler'[y].at = "verify" /\ handler'[y].user = w})
                       <= MaxFail + Cardinality(Handlers) - 1
                 /\ w \notin locked' => failed'[w] < MaxFail
      <4> DEFINE A == {y \in Handlers : handler'[y].at = "verify" /\ handler'[y].user = w}
                 B == Checking(w)
      <4>1. IsFiniteSet(B) /\ Cardinality(B) \in Nat /\ Cardinality(Handlers) \in Nat
        BY CheckingIsFinite
      <4>2. /\ failed[w] + Cardinality(B) <= MaxFail + Cardinality(Handlers) - 1
            /\ w \notin locked => failed[w] < MaxFail
        BY DEF AuthInv, TriesFit
      <4>3. failed[w] \in Nat /\ MaxFail \in Nat
        BY <2>2 DEF Auth!AuthAssumption
      <4>4. A = B \ {x} /\ (w = u => x \in B)
        BY <1>1, <2>1, <3>1 DEF Checking
      <4> HIDE DEF A, B
      <4>5. IsFiniteSet(A) /\ Cardinality(A) \in Nat /\ Cardinality(A) <= Cardinality(B)
        BY <4>1, <4>4, FS_Subset, FS_CardinalityType
      <4>6. CASE w # u
        <5>1. failed'[w] = failed[w] /\ (w \notin locked' => w \notin locked)
          BY <1>7, <2>3, <4>6
        <5> QED
          BY <4>1, <4>2, <4>3, <4>5, <5>1 DEF A
      <4>7. CASE w = u
        <5>1. Cardinality(A) = Cardinality(B) - 1
          BY <4>1, <4>4, <4>7, FS_RemoveElement
        <5>2. failed'[w] = failed[w] + 1
          BY <2>3, <4>7
        <5>3. w \notin locked' => ~(failed[w] + 1 >= MaxFail)
          BY <1>7, <4>7
        <5> QED
          BY <4>1, <4>2, <4>3, <4>5, <5>1, <5>2, <5>3 DEF A
      <4> QED
        BY <4>6, <4>7
    <3> QED
      BY <3>2 DEF TriesFit, Checking
  <2>7. 0 <= pin
    BY HandlerIs
  <2> QED
    BY <1>1, <1>2, <1>5, <2>1, <2>5, <2>6, <2>7, QuietStep DEF ProvingLabels, BusyLabels
<1> QED
  BY <1>3, <1>6, <1>7

\* A quiet step in which no PIN is checked.
LEMMA QuietTurn ==
  ASSUME Auth!AuthAssumption, AuthInv, NEW x \in Handlers, NEW v, Turns(x, v), AuthVersions, RowsStay,
         OthersTyped, Auth!Op \/ Auth!Event \/ Auth!Goes, failed' = failed, locked' = locked,
         v.at # "verify" \/ v = handler[x],
         v.at # "free" => v.user \in Users, v.pin <= pin,
         handler[x].at = "saving" => v.at = "saving",
         handler[x].at # "uncache" \/ v = handler[x],
         v.at \in ProvingLabels /\ v.user \notin late' =>
            v.pin = pin /\ (v.at = "cache" => v = handler[x]),
         v.at \in BusyLabels => v = handler[x] \/ (v.at # "cache" /\ Alone(x)),
         \A u \in Users : StateFits(u)
  PROVE  AuthInv'
<1>1. AuthTypes'
  BY TypesKeep
<1>2. TriesFit'
  <2>1. handler'[x] = v /\ \A y \in Handlers \ {x} : handler'[y] = handler[y]
    BY HandlerTurns DEF Turns, AuthInv
  <2> QED
    BY <2>1, TriesKeep DEF AuthInv
<1> QED
  BY <1>1, <1>2, QuietStep

\* The handlers stay as they are.
LEMMA NoTurn ==
  ASSUME AuthInv, NEW x \in Handlers, handler' = handler
  PROVE  Turns(x, handler[x])
BY DEF Turns, AuthInv, AuthTypes

LEMMA FailuresEndKeeps ==
  ASSUME Auth!AuthAssumption, AuthInv, NEW u \in Users, Auth!FailuresEnd(u)
  PROVE  AuthInv'
<1> PICK x \in Handlers : TRUE
  BY DEF Auth!AuthAssumption
<1> DEFINE v == handler[x]
<1>1. /\ AuthVersions /\ RowsStay /\ state' = state /\ handler' = handler /\ Auth!Event
      /\ failed' = [failed EXCEPT ![u] = 0] /\ locked' = locked \ {u}
  BY DEF Auth!FailuresEnd, Auth!settings, Auth!store, Auth!marks, AuthVersions, RowsStay
<1>2. Turns(x, v)
  BY <1>1, NoTurn
<1>3. failed' \in [Users -> Nat] /\ locked' \in SUBSET Users
  BY <1>1 DEF AuthInv, AuthTypes
<1>4. OthersTyped
  BY <1>1, <1>3 DEF OthersTyped, AuthInv, AuthTypes, Auth!FailuresEnd, Auth!settings, Auth!store, Auth!marks
<1>5. AuthTypes'
  BY <1>1, <1>2, <1>4, TypesKeep
<1>6. TriesFit'
  <2>1. ASSUME NEW w \in Users
        PROVE  /\ failed'[w] + Cardinality({y \in Handlers : handler'[y].at = "verify" /\ handler'[y].user = w})
                     <= MaxFail + Cardinality(Handlers) - 1
               /\ w \notin locked' => failed'[w] < MaxFail
    <3> DEFINE A == {y \in Handlers : handler'[y].at = "verify" /\ handler'[y].user = w}
    <3>1. A = Checking(w)
      BY <1>1 DEF Checking
    <3> HIDE DEF A
    <3>2. /\ Cardinality(A) \in Nat /\ Cardinality(Handlers) \in Nat
          /\ Cardinality(A) <= Cardinality(Handlers)
      BY <3>1, CheckingIsFinite
    <3>3. /\ failed[w] + Cardinality(A) <= MaxFail + Cardinality(Handlers) - 1
          /\ w \notin locked => failed[w] < MaxFail
      BY <3>1 DEF AuthInv, TriesFit
    <3>4. MaxFail \in Nat /\ MaxFail # 0 /\ failed[w] \in Nat
      BY DEF AuthInv, AuthTypes, Auth!AuthAssumption
    <3>5. CASE w = u
      <4>1. failed'[w] = 0
        BY <1>1, <3>5 DEF AuthInv, AuthTypes
      <4> QED
        BY <3>2, <3>4, <4>1 DEF A
    <3>6. CASE w # u
      <4>1. failed'[w] = failed[w] /\ (w \notin locked' => w \notin locked)
        BY <1>1, <3>6 DEF AuthInv, AuthTypes
      <4> QED
        BY <3>3, <4>1 DEF A
    <3> QED
      BY <3>5, <3>6
  <2> QED
    BY <2>1 DEF TriesFit, Checking
<1>7. \A w \in Users : StateFits(w)
  BY <1>1 DEF StateFits
<1>8. late' = late
  BY DEF Auth!FailuresEnd, Auth!marks
<1> QED
  BY <1>1, <1>2, <1>5, <1>6, <1>7, <1>8, HandlerIs, QuietStep DEF AuthInv, GrantsFit, Proved

LEMMA StateExpiresKeeps ==
  ASSUME Auth!AuthAssumption, AuthInv, NEW u \in Users, Auth!StateExpires(u)
  PROVE  AuthInv'
<1> PICK x \in Handlers : TRUE
  BY DEF Auth!AuthAssumption
<1> DEFINE v == handler[x]
<1>1. /\ AuthVersions /\ RowsStay /\ handler' = handler /\ Auth!Event /\ late' = late
      /\ failed' = failed /\ locked' = locked /\ state' = [state EXCEPT ![u] = Auth!NoState]
  BY DEF Auth!StateExpires, Auth!settings, Auth!store, Auth!pinTries, Auth!marks, AuthVersions, RowsStay
<1>2. Turns(x, v)
  BY <1>1, NoTurn
<1>3. state' \in [Users -> Waiting]
  BY <1>1, FreeIs DEF AuthInv, AuthTypes
<1>4. OthersTyped
  BY <1>1, <1>3 DEF OthersTyped, AuthInv, AuthTypes, Auth!StateExpires, Auth!settings, Auth!store, Auth!marks
<1>5. \A w \in Users : StateFits(w)
  BY <1>1, FreeIs, HandlerIs DEF StateFits, AuthInv, AuthTypes
<1> QED
  BY <1>1, <1>2, <1>4, <1>5, HandlerIs, QuietTurn DEF AuthInv, GrantsFit, Proved

LEMMA SetupKeeps ==
  ASSUME Auth!AuthAssumption, AuthInv, NEW u \in Users, Auth!Setup(u)
  PROVE  AuthInv'
<1> PICK x \in Handlers : TRUE
  BY DEF Auth!AuthAssumption
<1> DEFINE v == handler[x]
           s == [what |-> "setup", pin |-> 0]
<1>1. /\ AuthVersions /\ RowsStay /\ handler' = handler /\ Auth!Op /\ late' = late
      /\ failed' = failed /\ locked' = locked /\ state' = [state EXCEPT ![u] = s]
  BY DEF Auth!Setup, Auth!settings, Auth!store, Auth!pinTries, Auth!marks, AuthVersions, RowsStay
<1>2. Turns(x, v)
  BY <1>1, NoTurn
<1>3. s \in Waiting /\ s.what = "setup" /\ s.pin = 0
  BY DEF Waiting
<1> HIDE DEF s
<1>4. state' \in [Users -> Waiting]
  BY <1>1, <1>3 DEF AuthInv, AuthTypes
<1>5. OthersTyped
  BY <1>1, <1>4 DEF OthersTyped, AuthInv, AuthTypes, Auth!Setup, Auth!settings, Auth!store, Auth!marks
<1>6. \A w \in Users : StateFits(w)
  BY <1>1, <1>3, HandlerIs DEF StateFits, AuthInv, AuthTypes
<1> QED
  BY <1>1, <1>2, <1>5, <1>6, HandlerIs, QuietTurn DEF AuthInv, GrantsFit, Proved

\* A handler that becomes busy with its user notes whether that is alone.
LEMMA EntersAlone ==
  ASSUME AuthInv, NEW x \in Handlers, NEW v, Turns(x, v), NEW u \in Users, v.user = u, Auth!Enters(u)
  PROVE  Alone(x) /\ met \subseteq met' /\ met' \in SUBSET Users
<1>1. handler'[x] = v
  BY HandlerTurns DEF Turns, AuthInv
<1>2. met' = IF u \in Auth!BusyUsers \/ change # "idle" \/ tx.at # "idle" THEN met \cup {u} ELSE met
  BY DEF Auth!Enters
<1>3. Auth!BusyUsers = {handler[y].user : y \in {z \in Handlers : IsBusy(z)}}
  BY DEF Auth!BusyUsers, Auth!Busy, IsBusy, BusyLabels
<1>4. Alone(x)
  <2>1. CASE u \in met'
    BY <1>1, <2>1 DEF Alone
  <2>2. CASE u \notin met'
    BY <1>1, <1>2, <1>3, <2>2 DEF Alone
  <2> QED
    BY <2>1, <2>2
<1>5. met \in SUBSET Users
  BY DEF AuthInv, AuthTypes
<1> QED
  BY <1>2, <1>4, <1>5

LEMMA DropFits ==
  ASSUME AuthInv, NEW x \in Handlers, handler[x].at # "free", state' = Auth!DropState(x)
  PROVE  state' \in [Users -> Waiting] /\ \A u \in Users : StateFits(u)
<1>1. state \in [Users -> Waiting] /\ handler[x].user \in Users /\ pin \in Nat
  BY HandlerIs DEF AuthTypes
<1>2. state' = state \/ state' = [state EXCEPT ![handler[x].user] = Auth!NoState]
  BY DEF Auth!DropState
<1>3. ASSUME NEW u \in Users  PROVE state'[u] = state[u] \/ state'[u] = Auth!NoState
  BY <1>1, <1>2
<1>4. state' \in [Users -> Waiting]
  BY <1>1, <1>2, FreeIs
<1>5. 0 <= pin
  BY <1>1
<1> QED
  BY <1>3, <1>4, <1>5, FreeIs DEF StateFits

\* A handler that ends.
LEMMA EndKeeps ==
  ASSUME Auth!AuthAssumption, AuthInv, NEW x \in Handlers, handler' = [handler EXCEPT ![x] = Auth!Free],
         handler[x].at \notin {"saving", "uncache"}, AuthVersions, RowsStay, late' = late,
         OthersTyped, Auth!Op \/ Auth!Event \/ Auth!Goes, failed' = failed, locked' = locked,
         \A u \in Users : StateFits(u)
  PROVE  AuthInv'
<1> DEFINE v == Auth!Free
<1>1. v \in Update /\ v.at = "free" /\ v.pin = 0
  BY FreeIs
<1>2. 0 <= pin
  BY HandlerIs
<1>3. Turns(x, v)
  BY <1>1 DEF Turns
<1> HIDE DEF v
<1> QED
  BY <1>1, <1>2, <1>3, QuietTurn DEF ProvingLabels, BusyLabels

\* A handler that goes on with the check it has passed, to a step that is not busy.
LEMMA ProvesOn ==
  ASSUME Auth!AuthAssumption, AuthInv, NEW x \in Handlers, NEW v, Turns(x, v),
         handler[x].at \in ProvingLabels \ {"saving"}, v.at \in ProvingLabels, v.at # "cache",
         v.user = handler[x].user, v.pin = handler[x].pin, v.at \in BusyLabels => Alone(x),
         AuthVersions, RowsStay, late' = late, OthersTyped, Auth!Op \/ Auth!Event \/ Auth!Goes,
         failed' = failed, locked' = locked, state' = state
  PROVE  AuthInv'
<1>1. /\ handler[x].at # "free" /\ handler[x].at # "saving" /\ handler[x].at # "uncache"
      /\ v.at # "verify" /\ v.user \in Users /\ v.pin <= pin
  BY HandlerIs DEF ProvingLabels
<1>2. v.user \notin late' => v.pin = pin
  BY HandlerIs
<1>3. \A u \in Users : StateFits(u)
  BY DEF StateFits
<1> QED
  BY <1>1, <1>2, <1>3, QuietTurn

LEMMA ReadListKeeps ==
  ASSUME Auth!AuthAssumption, AuthInv, NEW x \in Handlers, Auth!ReadList(x)
  PROVE  AuthInv'
<1> DEFINE u == handler[x].user
<1>1. /\ handler[x].at = "list" /\ (Auth!Goes \/ Auth!Event)
      /\ \E list \in {allow, {}} :
           handler' = [handler EXCEPT ![x] =
              [handler[x] EXCEPT !.list = list, !.at = IF u \in list THEN "second" ELSE "count"]]
  BY DEF Auth!ReadList, Auth!Step
<1>2. PICK list \in {allow, {}} :
           handler' = [handler EXCEPT ![x] =
              [handler[x] EXCEPT !.list = list, !.at = IF u \in list THEN "second" ELSE "count"]]
  BY <1>1
<1> DEFINE at == IF u \in list THEN "second" ELSE "count"
           v == [handler[x] EXCEPT !.list = list, !.at = at]
<1>3. list \in SUBSET Users
  BY DEF AuthInv, AuthTypes
<1>4. at \in AuthLabels /\ at \in ProvingLabels /\ at # "cache" /\ at \notin BusyLabels
  BY DEF AuthLabels, ProvingLabels, BusyLabels
<1>5. handler' = [handler EXCEPT ![x] = v]
  BY <1>2
<1> HIDE DEF at
<1>6. v \in Update /\ v.at = at /\ v.user = u /\ v.pin = handler[x].pin
  BY <1>3, <1>4, HandlerIs DEF Update
<1> HIDE DEF v
<1>7. Turns(x, v)
  BY <1>5, <1>6 DEF Turns
<1>8. AuthVersions /\ RowsStay /\ late' = late /\ failed' = failed /\ locked' = locked /\ state' = state
  BY DEF Auth!ReadList, Auth!settings, Auth!store, Auth!pinTries, Auth!marks, AuthVersions, RowsStay
<1>9. OthersTyped
  BY DEF OthersTyped, AuthInv, AuthTypes, Auth!ReadList, Auth!settings, Auth!store, Auth!pinTries, Auth!marks
<1>10. handler[x].at \in ProvingLabels \ {"saving"}
  BY <1>1 DEF ProvingLabels
<1> QED
  BY <1>1, <1>4, <1>6, <1>7, <1>8, <1>9, <1>10, ProvesOn

LEMMA CountKeeps ==
  ASSUME Auth!AuthAssumption, AuthInv, NEW x \in Handlers, Auth!Count(x)
  PROVE  AuthInv'
<1> DEFINE v == [handler[x] EXCEPT !.at = "add"]
<1>1. /\ handler[x].at = "count" /\ Auth!Goes
      /\ handler' = [handler EXCEPT ![x] = v] \/ handler' = [handler EXCEPT ![x] = Auth!Free]
  BY DEF Auth!Count, Auth!To, Auth!Step, Auth!End
<1>2. v \in Update /\ v.at = "add" /\ v.user = handler[x].user /\ v.pin = handler[x].pin
  BY HandlerIs, ToIs DEF AuthLabels
<1> HIDE DEF v
<1>3. AuthVersions /\ RowsStay /\ late' = late /\ failed' = failed /\ locked' = locked /\ state' = state
  BY DEF Auth!Count, Auth!settings, Auth!store, Auth!pinTries, Auth!marks, AuthVersions, RowsStay
<1>4. OthersTyped
  BY DEF OthersTyped, AuthInv, AuthTypes, Auth!Count, Auth!settings, Auth!store, Auth!pinTries, Auth!marks
<1>5. handler[x].at \in ProvingLabels \ {"saving"} /\ "add" \in ProvingLabels /\ "add" \notin BusyLabels
  BY <1>1 DEF ProvingLabels, BusyLabels
<1>6. CASE handler' = [handler EXCEPT ![x] = v]
  <2>1. Turns(x, v)
    BY <1>2, <1>6 DEF Turns
  <2> QED
    BY <1>1, <1>2, <1>3, <1>4, <1>5, <2>1, ProvesOn
<1>7. CASE handler' = [handler EXCEPT ![x] = Auth!Free]
  <2>1. \A u \in Users : StateFits(u)
    BY <1>3 DEF StateFits
  <2> QED
    BY <1>1, <1>3, <1>4, <1>7, <2>1, EndKeeps
<1> QED
  BY <1>1, <1>6, <1>7

LEMMA AddUserKeeps ==
  ASSUME Auth!AuthAssumption, AuthInv, NEW x \in Handlers, Auth!AddUser(x)
  PROVE  AuthInv'
<1> DEFINE l == allow \cup {handler[x].user}
           v == [handler[x] EXCEPT !.list = l, !.at = "write"]
<1>1. handler[x].at = "add" /\ Auth!Goes /\ handler' = [handler EXCEPT ![x] = v]
  BY DEF Auth!AddUser, Auth!Step
<1>2. l \in SUBSET Users
  BY <1>1, HandlerIs DEF AuthTypes
<1> HIDE DEF l
<1>3. v \in Update /\ v.at = "write" /\ v.user = handler[x].user /\ v.pin = handler[x].pin
  BY <1>2, HandlerIs DEF Update, AuthLabels
<1> HIDE DEF v
<1>4. Turns(x, v)
  BY <1>1, <1>3 DEF Turns
<1>5. AuthVersions /\ RowsStay /\ late' = late /\ failed' = failed /\ locked' = locked /\ state' = state
  BY DEF Auth!AddUser, Auth!settings, Auth!store, Auth!pinTries, Auth!marks, AuthVersions, RowsStay
<1>6. OthersTyped
  BY DEF OthersTyped, AuthInv, AuthTypes, Auth!AddUser, Auth!settings, Auth!store, Auth!pinTries, Auth!marks
<1>7. handler[x].at \in ProvingLabels \ {"saving"} /\ v.at \in ProvingLabels /\ v.at \notin BusyLabels
  BY <1>1, <1>3 DEF ProvingLabels, BusyLabels
<1> QED
  BY <1>1, <1>3, <1>4, <1>5, <1>6, <1>7, ProvesOn

LEMMA SecondKeeps ==
  ASSUME Auth!AuthAssumption, AuthInv, NEW x \in Handlers, Auth!Second(x)
  PROVE  AuthInv'
<1> DEFINE u == handler[x].user
           s == [what |-> "login", pin |-> handler[x].pin]
           v == [handler[x] EXCEPT !.at = "insert"]
<1>1. /\ handler[x].at = "second" /\ Auth!Goes
      /\ \/ state' = [state EXCEPT ![u] = s] /\ handler' = [handler EXCEPT ![x] = Auth!Free] /\ met' = met
         \/ handler' = [handler EXCEPT ![x] = v] /\ Auth!Enters(u) /\ state' = state
  BY DEF Auth!Second, Auth!To, Auth!Step, Auth!End
<1>2. /\ v \in Update /\ v.at = "insert" /\ v.user = u /\ v.pin = handler[x].pin
      /\ s \in Waiting /\ s.what = "login" /\ s.pin = handler[x].pin
  BY HandlerIs, ToIs DEF AuthLabels, Waiting
<1> HIDE DEF v, s
<1>3. /\ AuthVersions /\ rows' = rows /\ cache' = cache /\ grant' = grant /\ tx' = tx
      /\ late' = late /\ failed' = failed /\ locked' = locked
  BY DEF Auth!Second, Auth!settings, Auth!store, Auth!pinTries, AuthVersions
<1>4. handler[x].at \in ProvingLabels \ {"saving"} /\ "insert" \in ProvingLabels /\ u \in Users
  BY <1>1, HandlerIs DEF ProvingLabels
<1>5. CASE state' = [state EXCEPT ![u] = s] /\ handler' = [handler EXCEPT ![x] = Auth!Free] /\ met' = met
  <2>1. state' \in [Users -> Waiting]
    BY <1>2, <1>5 DEF AuthInv, AuthTypes
  <2>2. \A w \in Users : StateFits(w)
    <3>1. handler[x].pin <= pin /\ (u \in late' \/ handler[x].pin = pin)
      BY <1>3, <1>4, HandlerIs
    <3> QED
      BY <1>2, <1>4, <1>5, <3>1 DEF StateFits, AuthInv, AuthTypes
  <2>3. OthersTyped
    BY <1>5, <2>1 DEF OthersTyped, AuthInv, AuthTypes, Auth!Second, Auth!settings, Auth!store, Auth!pinTries
  <2>4. RowsStay
    BY <1>3, <1>5 DEF RowsStay
  <2> QED
    BY <1>1, <1>3, <1>5, <2>2, <2>3, <2>4, EndKeeps
<1>6. CASE handler' = [handler EXCEPT ![x] = v] /\ Auth!Enters(u) /\ state' = state
  <2>1. Turns(x, v)
    BY <1>2, <1>6 DEF Turns
  <2>2. Alone(x) /\ met \subseteq met' /\ met' \in SUBSET Users
    BY <1>2, <1>4, <1>6, <2>1, EntersAlone
  <2>3. OthersTyped
    BY <1>6, <2>2 DEF OthersTyped, AuthInv, AuthTypes, Auth!Second, Auth!settings, Auth!store, Auth!pinTries
  <2>4. RowsStay
    BY <1>3, <2>2 DEF RowsStay
  <2> QED
    BY <1>1, <1>2, <1>3, <1>4, <1>6, <2>1, <2>2, <2>3, <2>4, ProvesOn
<1> QED
  BY <1>1, <1>5, <1>6

LEMMA CodeVerifiedKeeps ==
  ASSUME Auth!AuthAssumption, AuthInv, NEW x \in Handlers, Auth!CodeVerified(x)
  PROVE  AuthInv'
<1> DEFINE u == handler[x].user
           v == [handler[x] EXCEPT !.at = "insert"]
<1>1. /\ handler[x].at = "code" /\ Auth!Goes
      /\ \/ handler' = [handler EXCEPT ![x] = Auth!Free] /\ met' = met
         \/ handler' = [handler EXCEPT ![x] = v] /\ Auth!Enters(u)
  BY DEF Auth!CodeVerified, Auth!To, Auth!Step, Auth!End
<1>2. v \in Update /\ v.at = "insert" /\ v.user = u /\ v.pin = handler[x].pin
  BY HandlerIs, ToIs DEF AuthLabels
<1> HIDE DEF v
<1>3. /\ AuthVersions /\ rows' = rows /\ cache' = cache /\ grant' = grant /\ tx' = tx
      /\ late' = late /\ failed' = failed /\ locked' = locked /\ state' = state
  BY DEF Auth!CodeVerified, Auth!settings, Auth!store, Auth!pinTries, AuthVersions
<1>4. handler[x].at \in ProvingLabels \ {"saving"} /\ "insert" \in ProvingLabels /\ u \in Users
  BY <1>1, HandlerIs DEF ProvingLabels
<1>5. CASE handler' = [handler EXCEPT ![x] = Auth!Free] /\ met' = met
  <2>1. \A w \in Users : StateFits(w)
    BY <1>3 DEF StateFits
  <2>2. OthersTyped
    BY <1>5 DEF OthersTyped, AuthInv, AuthTypes, Auth!CodeVerified, Auth!settings, Auth!store, Auth!pinTries
  <2>3. RowsStay
    BY <1>3, <1>5 DEF RowsStay
  <2> QED
    BY <1>1, <1>3, <1>5, <2>1, <2>2, <2>3, EndKeeps
<1>6. CASE handler' = [handler EXCEPT ![x] = v] /\ Auth!Enters(u)
  <2>1. Turns(x, v)
    BY <1>2, <1>6 DEF Turns
  <2>2. Alone(x) /\ met \subseteq met' /\ met' \in SUBSET Users
    BY <1>2, <1>4, <1>6, <2>1, EntersAlone
  <2>3. OthersTyped
    BY <2>2 DEF OthersTyped, AuthInv, AuthTypes, Auth!CodeVerified, Auth!settings, Auth!store, Auth!pinTries
  <2>4. RowsStay
    BY <1>3, <2>2 DEF RowsStay
  <2> QED
    BY <1>1, <1>2, <1>3, <1>4, <1>6, <2>1, <2>2, <2>3, <2>4, ProvesOn
<1> QED
  BY <1>1, <1>5, <1>6

\* The PIN of a waiting login is that of now, or a change is not yet cleared from memory.
LEMMA SendCodeKeeps ==
  ASSUME Auth!AuthAssumption, AuthInv, NEW x \in Handlers, NEW u \in Users, Auth!SendCode(x, u)
  PROVE  AuthInv'
<1> DEFINE at == IF state[u].what = "login" THEN "code" ELSE "setup"
           v == [Auth!Free EXCEPT !.at = at, !.user = u, !.pin = state[u].pin, !.clears = TRUE]
<1>1. /\ handler[x] = Auth!Free /\ state[u].what # "none" /\ Auth!Op
      /\ handler' = [handler EXCEPT ![x] = v]
      /\ late' = IF change = "clear" THEN late \cup {u} ELSE late
  BY DEF Auth!SendCode, Auth!Step
<1>2. /\ at \in AuthLabels /\ at # "verify" /\ at # "cache" /\ at \notin BusyLabels /\ at # "free"
      /\ at \in ProvingLabels => state[u].what = "login"
  BY DEF AuthLabels, BusyLabels, ProvingLabels
<1>3. /\ state[u].pin \in Nat /\ state[u].pin <= pin /\ change \in {"idle", "clear"}
      /\ u \notin late /\ change = "idle" /\ state[u].what = "login" => state[u].pin = pin
  BY DEF AuthInv, AuthTypes, PinsFit, GrantsFit, Waiting
<1> HIDE DEF at
<1>4. v \in Update /\ v.at = at /\ v.user = u /\ v.pin = state[u].pin
  BY <1>2, <1>3, FreeIs DEF Update
<1> HIDE DEF v
<1>5. Turns(x, v)
  BY <1>1, <1>4 DEF Turns
<1>6. v.at \in ProvingLabels /\ v.user \notin late' => v.pin = pin
  BY <1>1, <1>2, <1>3, <1>4
<1>7. AuthVersions /\ RowsStay /\ failed' = failed /\ locked' = locked /\ state' = state
  BY <1>1 DEF Auth!SendCode, Auth!settings, Auth!store, Auth!pinTries, AuthVersions, RowsStay
<1>8. OthersTyped
  BY <1>1 DEF OthersTyped, AuthInv, AuthTypes, Auth!SendCode, Auth!settings, Auth!store, Auth!pinTries
<1>9. \A w \in Users : StateFits(w)
  BY <1>7 DEF StateFits
<1>10. handler[x].at = "free"
  BY <1>1, FreeIs
<1> QED
  BY <1>1, <1>2, <1>3, <1>4, <1>5, <1>6, <1>7, <1>8, <1>9, <1>10, QuietTurn

LEMMA SetupVerifiedKeeps ==
  ASSUME Auth!AuthAssumption, AuthInv, NEW x \in Handlers, Auth!SetupVerified(x)
  PROVE  AuthInv'
<1> DEFINE u == handler[x].user
<1> DEFINE b == twoFactor \/ (u \in cache /\ ~Auth!Refused(u))
<1>0. /\ handler[x].at = "setup" /\ Auth!Goes /\ Auth!End(x)
      /\ \/ UNCHANGED << state, twoFactor >>
         \/ state' = [state EXCEPT ![u] = Auth!NoState] /\ twoFactor' = b
      /\ UNCHANGED << pin, allow, Auth!store, Auth!pinTries, tx, change, Auth!marks >>
  BY Zenon DEF Auth!SetupVerified
<1>b. b \in BOOLEAN
  BY Zenon
<1> HIDE DEF b
<1>1. /\ handler[x].at = "setup" /\ Auth!Goes /\ handler' = [handler EXCEPT ![x] = Auth!Free]
      /\ state' = state \/ state' = [state EXCEPT ![u] = Auth!NoState]
  BY <1>0 DEF Auth!End, Auth!Step
<1>2. u \in Users /\ 0 <= pin
  BY <1>1, HandlerIs
<1>3. state' \in [Users -> Waiting] /\ \A w \in Users : StateFits(w)
  BY <1>1, <1>2, FreeIs DEF StateFits, AuthInv, AuthTypes
<1>4. AuthVersions /\ RowsStay /\ late' = late /\ failed' = failed /\ locked' = locked
  BY <1>0 DEF Auth!store, Auth!pinTries, Auth!marks, AuthVersions, RowsStay
<1>5. twoFactor' \in BOOLEAN
  BY <1>0, <1>b DEF AuthInv, AuthTypes
<1>6. OthersTyped
  BY <1>0, <1>3, <1>5 DEF OthersTyped, AuthInv, AuthTypes, Auth!store, Auth!pinTries, Auth!marks
<1> QED
  BY <1>1, <1>3, <1>4, <1>6, EndKeeps

LEMMA RevokeUserKeeps ==
  ASSUME Auth!AuthAssumption, AuthInv, NEW x \in Handlers, NEW u \in Users, Auth!Revoke(x, u)
  PROVE  AuthInv'
<1> DEFINE c == ~Auth!Refused(u)
           v == [Auth!Free EXCEPT !.at = "delete", !.user = u, !.clears = c]
<1>1. /\ handler[x] = Auth!Free /\ Auth!Op /\ handler' = [handler EXCEPT ![x] = v] /\ Auth!Enters(u)
  BY DEF Auth!Revoke, Auth!Step
<1>2. c \in BOOLEAN
  BY Zenon
<1> HIDE DEF c
<1>3. v \in Update /\ v.at = "delete" /\ v.user = u /\ v.pin = 0
  BY <1>2, FreeIs DEF Update, AuthLabels
<1> HIDE DEF v
<1>4. Turns(x, v)
  BY <1>1, <1>3 DEF Turns
<1>5. Alone(x) /\ met \subseteq met' /\ met' \in SUBSET Users
  BY <1>1, <1>3, <1>4, EntersAlone
<1>6. AuthVersions /\ RowsStay /\ late' = late /\ failed' = failed /\ locked' = locked /\ state' = state
  BY <1>5 DEF Auth!Revoke, Auth!settings, Auth!store, Auth!pinTries, AuthVersions, RowsStay
<1>7. OthersTyped
  BY <1>5 DEF OthersTyped, AuthInv, AuthTypes, Auth!Revoke, Auth!settings, Auth!store, Auth!pinTries
<1>8. \A w \in Users : StateFits(w)
  BY <1>6 DEF StateFits
<1>9. handler[x].at = "free" /\ v.at \notin ProvingLabels /\ 0 <= pin
  BY <1>1, <1>3, FreeIs, HandlerIs DEF ProvingLabels
<1> QED
  BY <1>1, <1>3, <1>4, <1>5, <1>6, <1>7, <1>8, <1>9, QuietTurn

\* The steps on the row and the cache of a user: what they leave alone.
LEMMA RowStep ==
  ASSUME Auth!AuthAssumption, AuthInv, NEW x \in Handlers, NEW v, Turns(x, v), AuthVersions,
         OthersTyped, Auth!Op \/ Auth!Event \/ Auth!Goes, tx' = tx, failed' = failed, locked' = locked,
         handler[x].at # "saving", v.at # "verify", v.at # "free" => v.user \in Users, v.pin <= pin,
         \A u \in Users : StateFits(u), \A u \in Users : grant'[u] <= pin
  PROVE  /\ AuthTypes' /\ PinsFit' /\ UsersFit' /\ TxFits' /\ TriesFit'
         /\ handler'[x] = v /\ \A y \in Handlers \ {x} : handler'[y] = handler[y]
<1>1. AuthTypes'
  BY TypesKeep
<1>2. /\ AuthTypes /\ PinsFit /\ UsersFit /\ TxFits /\ TriesFit
  BY DEF AuthInv
<1>3. handler'[x] = v /\ \A y \in Handlers \ {x} : handler'[y] = handler[y]
  BY <1>2, HandlerTurns DEF Turns
<1>4. UsersFit'
  <2>1. UserFits(x)'
    BY <1>3 DEF UserFits
  <2> QED
    BY <1>2, <1>3, <2>1, UsersKeep
<1>5. PinsFit'
  <2>1. \A y \in Handlers : handler'[y].pin <= pin'
    BY <1>2, <1>3 DEF PinsFit, AuthVersions
  <2>2. \A u \in Users : grant'[u] <= pin' /\ state'[u].pin <= pin'
    BY <1>2 DEF PinsFit, AuthVersions, StateFits
  <2> QED
    BY <2>1, <2>2 DEF PinsFit
<1>6. TxFits'
  BY <1>2, <1>3, TxKeeps
<1>7. TriesFit'
  BY <1>2, <1>3, TriesKeep
<1> QED
  BY <1>1, <1>3, <1>4, <1>5, <1>6, <1>7

LEMMA InsertKeeps ==
  ASSUME Auth!AuthAssumption, AuthInv, NEW x \in Handlers, Auth!Insert(x)
  PROVE  AuthInv'
<1> DEFINE u == handler[x].user
           v == [handler[x] EXCEPT !.at = "cache"]
           ok == /\ Auth!Goes /\ handler' = [handler EXCEPT ![x] = v] /\ state' = state
                 /\ rows' = rows \cup {u} /\ grant' = [grant EXCEPT ![u] = handler[x].pin]
           fails == /\ Auth!Event /\ handler' = [handler EXCEPT ![x] = Auth!Free]
                    /\ state' = Auth!DropState(x) /\ rows' = rows /\ grant' = grant
<1>1. handler[x].at = "insert" /\ (ok \/ fails)
  BY DEF Auth!Insert, Auth!To, Auth!Step, Auth!End
<1>2. /\ v \in Update /\ v.at = "cache" /\ v.user = u /\ v.pin = handler[x].pin
  BY HandlerIs, ToIs DEF AuthLabels
<1> HIDE DEF v
<1>3. /\ AuthVersions /\ cache' = cache /\ tx' = tx /\ late' = late /\ met' = met
      /\ failed' = failed /\ locked' = locked /\ twoFactor' = twoFactor /\ allow' = allow
  BY DEF Auth!Insert, Auth!settings, Auth!pinTries, Auth!marks, AuthVersions
<1>4. /\ u \in Users /\ handler[x].pin <= pin /\ handler[x].pin \in Nat
      /\ u \notin late => handler[x].pin = pin
  BY <1>1, HandlerIs DEF ProvingLabels
<1>5. /\ AuthTypes /\ PinsFit /\ GrantsFit /\ RowsFit
  BY DEF AuthInv
<1>6. CASE fails
  <2>1. state' \in [Users -> Waiting] /\ \A w \in Users : StateFits(w)
    BY <1>1, <1>6, DropFits
  <2>2. OthersTyped
    BY <1>3, <1>5, <1>6, <2>1 DEF OthersTyped, AuthTypes
  <2>3. RowsStay
    BY <1>3, <1>6 DEF RowsStay
  <2> QED
    BY <1>1, <1>3, <1>6, <2>1, <2>2, <2>3, EndKeeps
<1>7. CASE ok
  <2>1. Turns(x, v)
    BY <1>2, <1>7 DEF Turns
  <2>2. /\ grant' \in [Users -> Nat] /\ grant'[u] = handler[x].pin
        /\ \A w \in Users \ {u} : grant'[w] = grant[w]
    BY <1>4, <1>5, <1>7 DEF AuthTypes
  <2>3. OthersTyped
    BY <1>3, <1>4, <1>5, <1>7, <2>2 DEF OthersTyped, AuthTypes
  <2>4. \A w \in Users : StateFits(w)
    BY <1>7 DEF StateFits
  <2>5. \A w \in Users : grant'[w] <= pin
    BY <1>4, <1>5, <2>2 DEF PinsFit
  <2>6. /\ AuthTypes' /\ PinsFit' /\ UsersFit' /\ TxFits' /\ TriesFit'
        /\ handler'[x] = v /\ \A y \in Handlers \ {x} : handler'[y] = handler[y]
    BY <1>1, <1>2, <1>3, <1>4, <1>7, <2>1, <2>3, <2>4, <2>5, RowStep
  <2>7. GrantsFit'
    <3>1. Proved(x)'
      BY <1>2, <1>3, <1>4, <2>2, <2>6 DEF Proved, AuthVersions
    <3>2. \A w \in Users : grant'[w] = grant[w] \/ grant'[w] = pin \/ w \in late'
      BY <1>3, <1>4, <2>2
    <3>3. \A w \in Users : w \in rows' => w \in rows \/ grant'[w] = pin \/ w \in late'
      BY <1>3, <1>4, <1>7, <2>2
    <3> QED
      BY <1>3, <1>5, <1>7, <2>6, <3>1, <3>2, <3>3, GrantsKeep
  <2>8. RowsFit'
    <3>1. IsBusy(x) /\ handler'[x].user = handler[x].user /\ RowFits(x)' /\ handler[x].at # "uncache"
      BY <1>1, <1>2, <1>7, <2>6 DEF IsBusy, BusyLabels, RowFits
    <3>2. \A w \in rows' \ rows : IsBusy(x) /\ handler[x].user = w
      BY <1>7, <3>1
    <3>3. rows \ rows' = {} /\ cache' \ cache = {} /\ met \subseteq met'
      BY <1>3, <1>7
    <3> QED
      BY <1>3, <1>5, <2>6, <3>1, <3>2, <3>3, RowsKeep
  <2> QED
    BY <2>6, <2>7, <2>8 DEF AuthInv
<1> QED
  BY <1>1, <1>6, <1>7

\* Who is remembered has a row, or two steps of his overlapped.
LEMMA RememberKeeps ==
  ASSUME Auth!AuthAssumption, AuthInv, NEW x \in Handlers, Auth!Remember(x)
  PROVE  AuthInv'
<1> DEFINE u == handler[x].user
           v == Auth!Free
<1>1. /\ handler[x].at = "cache" /\ Auth!Goes /\ cache' = cache \cup {u} /\ state' = Auth!DropState(x)
      /\ handler' = [handler EXCEPT ![x] = v]
  BY DEF Auth!Remember, Auth!Step, Auth!End
<1>2. v \in Update /\ v.at = "free" /\ v.pin = 0 /\ 0 <= pin
  BY FreeIs, HandlerIs
<1> HIDE DEF v
<1>3. /\ AuthVersions /\ rows' = rows /\ grant' = grant /\ tx' = tx /\ late' = late /\ met' = met
      /\ failed' = failed /\ locked' = locked /\ twoFactor' = twoFactor /\ allow' = allow
  BY DEF Auth!Remember, Auth!settings, Auth!pinTries, Auth!marks, AuthVersions
<1>4. u \in Users /\ (u \notin late => grant[u] = pin)
  BY <1>1, HandlerIs
<1>5. /\ AuthTypes /\ PinsFit /\ GrantsFit /\ RowsFit
  BY DEF AuthInv
<1>6. state' \in [Users -> Waiting] /\ \A w \in Users : StateFits(w)
  BY <1>1, DropFits
<1>7. Turns(x, v)
  BY <1>1, <1>2 DEF Turns
<1>8. OthersTyped
  BY <1>1, <1>3, <1>4, <1>5, <1>6 DEF OthersTyped, AuthTypes
<1>9. \A w \in Users : grant'[w] <= pin
  BY <1>3, <1>5 DEF PinsFit
<1>10. /\ AuthTypes' /\ PinsFit' /\ UsersFit' /\ TxFits' /\ TriesFit'
       /\ handler'[x] = v /\ \A y \in Handlers \ {x} : handler'[y] = handler[y]
  BY <1>1, <1>2, <1>3, <1>6, <1>7, <1>8, <1>9, RowStep
<1>11. GrantsFit'
  <2>1. Proved(x)'
    BY <1>2, <1>10 DEF Proved, ProvingLabels
  <2>2. \A w \in Users : w \in cache' => w \in cache \/ grant'[w] = pin \/ w \in late'
    BY <1>1, <1>3, <1>4
  <2>3. \A w \in Users : \/ state'[w] = state[w] \/ w \in late'
                         \/ state'[w].what = "login" => state'[w].pin = pin
    BY <1>6 DEF StateFits
  <2> QED
    BY <1>3, <1>5, <1>10, <2>1, <2>2, <2>3, GrantsKeep
<1>12. RowsFit'
  <2>1. IsBusy(x) /\ ~IsBusy(x)' /\ RowFits(x)' /\ handler[x].at # "uncache"
    BY <1>1, <1>2, <1>10 DEF IsBusy, BusyLabels, RowFits
  <2>2. u \in rows \/ u \in met
    BY <1>1, <1>5 DEF RowsFit, RowFits
  <2>3. \A w \in cache' \ cache : IsBusy(x) /\ handler[x].user = w /\ (w \in rows' \/ w \in met')
    BY <1>1, <1>3, <2>1, <2>2
  <2>4. rows' \ rows = {} /\ rows \ rows' = {} /\ met \subseteq met'
    BY <1>3
  <2> QED
    BY <1>3, <1>5, <1>10, <2>1, <2>3, <2>4, RowsKeep
<1> QED
  BY <1>10, <1>11, <1>12 DEF AuthInv

LEMMA DeleteKeeps ==
  ASSUME Auth!AuthAssumption, AuthInv, NEW x \in Handlers, Auth!Delete(x)
  PROVE  AuthInv'
<1> DEFINE u == handler[x].user
           v == [handler[x] EXCEPT !.at = "uncache"]
           ok == /\ Auth!Goes /\ handler' = [handler EXCEPT ![x] = v] /\ rows' = rows \ {u}
           fails == /\ Auth!Event /\ handler' = [handler EXCEPT ![x] = Auth!Free] /\ rows' = rows
<1>1. handler[x].at = "delete" /\ (ok \/ fails)
  BY DEF Auth!Delete, Auth!To, Auth!Step, Auth!End
<1>2. /\ v \in Update /\ v.at = "uncache" /\ v.user = u /\ v.pin = handler[x].pin
  BY HandlerIs, ToIs DEF AuthLabels
<1> HIDE DEF v
<1>3. /\ AuthVersions /\ cache' = cache /\ grant' = grant /\ state' = state /\ tx' = tx
      /\ late' = late /\ met' = met
      /\ failed' = failed /\ locked' = locked /\ twoFactor' = twoFactor /\ allow' = allow
  BY DEF Auth!Delete, Auth!settings, Auth!pinTries, Auth!marks, AuthVersions
<1>4. u \in Users /\ handler[x].pin <= pin
  BY <1>1, HandlerIs
<1>5. /\ AuthTypes /\ PinsFit /\ GrantsFit /\ RowsFit
  BY DEF AuthInv
<1>6. \A w \in Users : StateFits(w)
  BY <1>3 DEF StateFits
<1>7. OthersTyped
  BY <1>1, <1>3, <1>5 DEF OthersTyped, AuthTypes
<1>8. CASE fails
  <2>1. RowsStay
    BY <1>3, <1>8 DEF RowsStay
  <2> QED
    BY <1>1, <1>3, <1>6, <1>7, <1>8, <2>1, EndKeeps
<1>9. CASE ok
  <2>1. Turns(x, v)
    BY <1>2, <1>9 DEF Turns
  <2>2. \A w \in Users : grant'[w] <= pin
    BY <1>3, <1>5 DEF PinsFit
  <2>3. /\ AuthTypes' /\ PinsFit' /\ UsersFit' /\ TxFits' /\ TriesFit'
        /\ handler'[x] = v /\ \A y \in Handlers \ {x} : handler'[y] = handler[y]
    BY <1>1, <1>2, <1>3, <1>4, <1>6, <1>7, <1>9, <2>1, <2>2, RowStep
  <2>4. GrantsFit'
    <3>1. Proved(x)'
      BY <1>2, <2>3 DEF Proved, ProvingLabels
    <3> QED
      BY <1>3, <1>5, <1>9, <2>3, <3>1, GrantsKeep
  <2>5. RowsFit'
    <3>1. IsBusy(x) /\ handler'[x].user = handler[x].user /\ RowFits(x)' /\ handler[x].at # "uncache"
      BY <1>1, <1>2, <2>3 DEF IsBusy, BusyLabels, RowFits
    <3>2. \A w \in rows \ rows' : /\ IsBusy(x) /\ handler[x].user = w
                                  /\ handler'[x].at = "uncache" /\ handler'[x].user = w
      BY <1>2, <1>9, <2>3, <3>1
    <3>3. rows' \ rows = {} /\ cache' \ cache = {} /\ met \subseteq met'
      BY <1>3, <1>9
    <3> QED
      BY <1>3, <1>5, <2>3, <3>1, <3>2, <3>3, RowsKeep
  <2> QED
    BY <2>3, <2>4, <2>5 DEF AuthInv
<1> QED
  BY <1>1, <1>8, <1>9

LEMMA ForgetKeeps ==
  ASSUME Auth!AuthAssumption, AuthInv, NEW x \in Handlers, Auth!Forget(x)
  PROVE  AuthInv'
<1> DEFINE u == handler[x].user
           v == Auth!Free
<1>1. /\ handler[x].at = "uncache" /\ Auth!Goes /\ cache' = cache \ {u} /\ state' = Auth!DropState(x)
      /\ handler' = [handler EXCEPT ![x] = v]
  BY DEF Auth!Forget, Auth!Forgotten, Auth!Step, Auth!End
<1>2. v \in Update /\ v.at = "free" /\ v.pin = 0 /\ 0 <= pin
  BY FreeIs, HandlerIs
<1> HIDE DEF v
<1>3. /\ AuthVersions /\ rows' = rows /\ grant' = grant /\ tx' = tx /\ late' = late /\ met' = met
      /\ failed' = failed /\ locked' = locked /\ twoFactor' = twoFactor /\ allow' = allow
  BY DEF Auth!Forget, Auth!settings, Auth!pinTries, Auth!marks, AuthVersions
<1>4. /\ AuthTypes /\ PinsFit /\ GrantsFit /\ RowsFit
  BY DEF AuthInv
<1>5. state' \in [Users -> Waiting] /\ \A w \in Users : StateFits(w)
  BY <1>1, DropFits
<1>6. Turns(x, v)
  BY <1>1, <1>2 DEF Turns
<1>7. OthersTyped
  BY <1>1, <1>3, <1>4, <1>5 DEF OthersTyped, AuthTypes
<1>8. \A w \in Users : grant'[w] <= pin
  BY <1>3, <1>4 DEF PinsFit
<1>9. /\ AuthTypes' /\ PinsFit' /\ UsersFit' /\ TxFits' /\ TriesFit'
      /\ handler'[x] = v /\ \A y \in Handlers \ {x} : handler'[y] = handler[y]
  BY <1>1, <1>2, <1>3, <1>5, <1>6, <1>7, <1>8, RowStep
<1>10. GrantsFit'
  <2>1. Proved(x)'
    BY <1>2, <1>9 DEF Proved, ProvingLabels
  <2>2. \A w \in Users : \/ state'[w] = state[w] \/ w \in late'
                         \/ state'[w].what = "login" => state'[w].pin = pin
    BY <1>5 DEF StateFits
  <2> QED
    BY <1>1, <1>3, <1>4, <1>9, <2>1, <2>2, GrantsKeep
<1>11. RowsFit'
  <2>1. ~IsBusy(x)' /\ RowFits(x)'
    BY <1>2, <1>9 DEF IsBusy, BusyLabels, RowFits
  <2>2. rows' \ rows = {} /\ rows \ rows' = {} /\ met \subseteq met' /\ cache' \ cache = {} /\ u \notin cache'
    BY <1>1, <1>3
  <2> QED
    BY <1>3, <1>4, <1>9, <2>1, <2>2, RowsKeep
<1> QED
  BY <1>9, <1>10, <1>11 DEF AuthInv

\* The steps of a save: a handler that saves, or none, turns.
Waits(x, v) ==
    \/ v = handler[x]
    \/ /\ handler[x].at \in {"write", "saving"} /\ v.at \in {"saving", "second", "free"}
       /\ v.pin <= pin
       /\ v.at # "free" => v.user = handler[x].user /\ v.pin = handler[x].pin

LEMMA SavingStep ==
  ASSUME Auth!AuthAssumption, AuthInv, NEW x \in Handlers, NEW v, Turns(x, v), Waits(x, v),
         AuthVersions, OthersTyped, Auth!Op \/ Auth!Event \/ Auth!Goes,
         failed' = failed, locked' = locked, grant' = grant, state' = state, late' = late,
         rows' \subseteq rows, cache' \subseteq cache
  PROVE  /\ AuthTypes' /\ PinsFit' /\ UsersFit' /\ TriesFit' /\ GrantsFit'
         /\ handler'[x] = v /\ \A y \in Handlers \ {x} : handler'[y] = handler[y]
         /\ \A y \in Handlers : IsBusy(y)' \/ IsBusy(y) => handler'[y] = handler[y]
<1>1. AuthTypes'
  BY TypesKeep
<1>2. /\ AuthTypes /\ PinsFit /\ UsersFit /\ TriesFit /\ GrantsFit
  BY DEF AuthInv
<1>3. handler'[x] = v /\ \A y \in Handlers \ {x} : handler'[y] = handler[y]
  BY <1>2, HandlerTurns DEF Turns
<1>4. v.at # "free" => v.user \in Users
  BY HandlerIs DEF Waits
<1>5. UsersFit'
  <2>1. UserFits(x)'
    BY <1>3, <1>4 DEF UserFits
  <2> QED
    BY <1>2, <1>3, <2>1, UsersKeep
<1>6. PinsFit'
  <2>1. \A y \in Handlers : handler'[y].pin <= pin'
    BY <1>2, <1>3, HandlerIs DEF PinsFit, AuthVersions, Waits
  <2> QED
    BY <1>2, <2>1 DEF PinsFit, AuthVersions
<1>7. TriesFit'
  <2>1. v.at = "verify" => handler[x].at = "verify" /\ v.user = handler[x].user
    BY DEF Waits
  <2> QED
    BY <1>2, <1>3, <2>1, TriesKeep
<1>8. GrantsFit'
  <2>1. Proved(x)'
    <3>1. CASE v = handler[x]
      BY <1>2, <1>3, <3>1 DEF Proved, GrantsFit, AuthVersions
    <3>2. CASE v # handler[x]
      BY <1>3, <3>2, HandlerIs DEF Proved, Waits, AuthVersions, ProvingLabels
    <3> QED
      BY <3>1, <3>2
  <2> QED
    BY <1>1, <1>2, <1>3, <1>5, <2>1, GrantsKeep
<1>9. \A y \in Handlers : IsBusy(y)' \/ IsBusy(y) => handler'[y] = handler[y]
  BY <1>3 DEF IsBusy, BusyLabels, Waits
<1> QED
  BY <1>1, <1>3, <1>5, <1>6, <1>7, <1>8, <1>9

\* Whoever is busy when the list is saved, or the PIN changed, is met.
LEMMA BusyAreMet ==
  ASSUME AuthInv, met' = met \cup Auth!BusyUsers
  PROVE  /\ met \subseteq met' /\ \A y \in Handlers : IsBusy(y) => handler[y].user \in met'
         /\ met' \in SUBSET Users
<1>1. Auth!BusyUsers = {handler[y].user : y \in {z \in Handlers : IsBusy(z)}}
  BY DEF Auth!BusyUsers, Auth!Busy, IsBusy, BusyLabels
<1>2. \A y \in Handlers : IsBusy(y) => handler[y].user \in Users
  BY HandlerIs DEF IsBusy, BusyLabels
<1>3. met \in SUBSET Users
  BY DEF AuthInv, AuthTypes
<1> QED
  BY <1>1, <1>2, <1>3

LEMMA SaveKeeps ==
  ASSUME Auth!AuthAssumption, AuthInv, NEW x \in Handlers, NEW v, Turns(x, v), Waits(x, v),
         NEW by, NEW list \in SUBSET Users, Auth!Save(by, list),
         by = "admin" \/ (by = x /\ v.at = "saving"), Auth!Op \/ Auth!Goes,
         UNCHANGED << Auth!settings, rows, grant, state, Auth!pinTries, change, late >>
  PROVE  AuthInv'
<1>1. /\ AuthVersions /\ rows' = rows /\ grant' = grant /\ state' = state /\ late' = late
      /\ failed' = failed /\ locked' = locked /\ twoFactor' = twoFactor /\ allow' = allow
  BY DEF Auth!settings, Auth!pinTries, AuthVersions
<1>2. /\ tx' = [at |-> "open", by |-> by, list |-> list] /\ cache' = cache \ (rows \ list)
      /\ met' = met \cup Auth!BusyUsers
  BY DEF Auth!Save
<1>3. tx' \in Saving /\ tx'.at = "open" /\ tx'.by = by /\ tx'.list = list
  BY <1>2 DEF Saving
<1>4. /\ met \subseteq met' /\ \A y \in Handlers : IsBusy(y) => handler[y].user \in met'
      /\ met' \in SUBSET Users
  BY <1>2, BusyAreMet
<1>5. OthersTyped
  BY <1>1, <1>2, <1>3, <1>4 DEF OthersTyped, AuthInv, AuthTypes
<1>6. /\ AuthTypes' /\ PinsFit' /\ UsersFit' /\ TriesFit' /\ GrantsFit'
      /\ handler'[x] = v
      /\ \A y \in Handlers : IsBusy(y)' \/ IsBusy(y) => handler'[y] = handler[y]
  BY <1>1, <1>2, <1>5, SavingStep
<1>7. TxFits'
  BY <1>3, <1>6 DEF TxFits, Auth!AuthAssumption
<1>8. RowsFit'
  <2>1. \A y \in Handlers : IsBusy(y)' => handler'[y].user \in met'
    BY <1>4, <1>6 DEF IsBusy
  <2>2. OneIsBusy' /\ BusyMet'
    BY <2>1 DEF OneIsBusy, BusyMet
  <2>3. \A y \in Handlers : RowFits(y)'
    BY <2>1 DEF RowFits, IsBusy, BusyLabels
  <2>4. SavedFits'
    BY <1>1, <1>2, <1>3 DEF SavedFits
  <2>5. CacheFits'
    <3>1. ASSUME change' # "clear", NEW u \in cache' \ met', u \notin rows'
          PROVE  \E y \in Handlers : handler'[y].at = "uncache" /\ handler'[y].user = u
      <4>1. PICK y \in Handlers : handler[y].at = "uncache" /\ handler[y].user = u
        BY <1>1, <1>2, <1>4, <3>1 DEF AuthInv, RowsFit, CacheFits, AuthVersions
      <4> QED
        BY <1>6, <4>1 DEF IsBusy, BusyLabels
    <3> QED
      BY <3>1 DEF CacheFits
  <2> QED
    BY <2>2, <2>3, <2>4, <2>5 DEF RowsFit
<1> QED
  BY <1>6, <1>7, <1>8 DEF AuthInv

LEMMA SaveListKeeps ==
  ASSUME Auth!AuthAssumption, AuthInv, Auth!SaveList
  PROVE  AuthInv'
<1>1. PICK list \in SUBSET Users : Auth!Save("admin", list)
  BY DEF Auth!SaveList
<1>2. /\ Auth!Op /\ handler' = handler
      /\ UNCHANGED << Auth!settings, rows, grant, state, Auth!pinTries, change, late >>
  BY DEF Auth!SaveList
<1>3. PICK x \in Handlers : TRUE
  BY DEF Auth!AuthAssumption
<1>4. Turns(x, handler[x]) /\ Waits(x, handler[x])
  BY <1>2, NoTurn DEF Waits
<1> QED
  BY <1>1, <1>2, <1>4, SaveKeeps

LEMMA SaveAddedKeeps ==
  ASSUME Auth!AuthAssumption, AuthInv, NEW x \in Handlers, Auth!SaveAdded(x)
  PROVE  AuthInv'
<1> DEFINE v == [handler[x] EXCEPT !.at = "saving"]
           list == handler[x].list
<1>1. /\ handler[x].at = "write" /\ Auth!Goes /\ handler' = [handler EXCEPT ![x] = v]
      /\ Auth!Save(x, list)
      /\ UNCHANGED << Auth!settings, rows, grant, state, Auth!pinTries, change, late >>
  BY DEF Auth!SaveAdded, Auth!To, Auth!Step
<1>2. /\ v \in Update /\ v.at = "saving" /\ v.user = handler[x].user /\ v.pin = handler[x].pin
  BY HandlerIs, ToIs DEF AuthLabels
<1>3. list \in SUBSET Users /\ handler[x].pin <= pin
  BY HandlerIs DEF Update
<1> HIDE DEF v, list
<1>4. Turns(x, v) /\ Waits(x, v)
  BY <1>1, <1>2, <1>3 DEF Turns, Waits
<1> QED
  BY <1>1, <1>2, <1>3, <1>4, SaveKeeps

\* The handler for which the list was saved goes on, if there is one.
LEMMA AfterTurns ==
  ASSUME Auth!AuthAssumption, AuthInv, tx.at = "open", NEW at \in {"second", "free"}, Auth!After(at)
  PROVE  \E x \in Handlers, v \in Update : Turns(x, v) /\ Waits(x, v)
<1>1. TxFits /\ AuthTypes /\ tx \in Saving
  BY DEF AuthInv, AuthTypes
<1>2. CASE tx.by = "admin"
  <2>1. PICK x \in Handlers : TRUE
    BY DEF Auth!AuthAssumption
  <2>2. handler' = handler
    BY <1>2 DEF Auth!After
  <2>3. Turns(x, handler[x]) /\ Waits(x, handler[x]) /\ handler[x] \in Update
    BY <2>2, NoTurn, HandlerIs DEF Waits
  <2> QED
    BY <2>3
<1>3. CASE tx.by # "admin"
  <2> DEFINE x == tx.by
             s == [handler[x] EXCEPT !.at = at]
             v == IF at = "free" THEN Auth!Free ELSE s
  <2>1. x \in Handlers /\ handler[x].at = "saving"
    BY <1>1, <1>3 DEF TxFits
  <2>2. handler' = [handler EXCEPT ![x] = v]
    BY <1>1, <1>3, <2>1 DEF Auth!After, AuthTypes
  <2>3. s \in Update /\ s.at = at /\ s.user = handler[x].user /\ s.pin = handler[x].pin
    <3>1. at \in AuthLabels /\ handler[x] \in Update
      BY <2>1, HandlerIs DEF AuthLabels
    <3> QED
      BY <2>1, <3>1, ToIs
  <2>4. 0 <= pin /\ handler[x].pin <= pin
    BY <2>1, HandlerIs
  <2> HIDE DEF s
  <2>5. v \in Update /\ Waits(x, v)
    BY <2>1, <2>3, <2>4, FreeIs DEF Waits
  <2> QED
    BY <2>1, <2>2, <2>5 DEF Turns
<1> QED
  BY <1>2, <1>3

LEMMA NoTxIs ==
  Auth!NoTx \in Saving /\ Auth!NoTx.at = "idle"
BY DEF Auth!NoTx, Saving

LEMMA CommitKeeps ==
  ASSUME Auth!AuthAssumption, AuthInv, Auth!Commit
  PROVE  AuthInv'
<1>1. /\ tx.at = "open" /\ Auth!Goes /\ Auth!After("second") /\ tx' = Auth!NoTx
      /\ allow' = tx.list /\ rows' = rows \cap tx.list /\ met' = met \cup Auth!BusyUsers
      /\ AuthVersions /\ cache' = cache /\ grant' = grant /\ state' = state /\ late' = late
      /\ failed' = failed /\ locked' = locked /\ twoFactor' = twoFactor
  BY DEF Auth!Commit, Auth!pinTries, AuthVersions
<1>2. PICK x \in Handlers, v \in Update : Turns(x, v) /\ Waits(x, v)
  BY <1>1, AfterTurns
<1>3. /\ met \subseteq met' /\ \A y \in Handlers : IsBusy(y) => handler[y].user \in met'
      /\ met' \in SUBSET Users
  BY <1>1, BusyAreMet
<1>4. OthersTyped
  BY <1>1, <1>3, NoTxIs DEF OthersTyped, AuthInv, AuthTypes, Saving
<1>5. /\ AuthTypes' /\ PinsFit' /\ UsersFit' /\ TriesFit' /\ GrantsFit'
      /\ \A y \in Handlers : IsBusy(y)' \/ IsBusy(y) => handler'[y] = handler[y]
  BY <1>1, <1>2, <1>4, SavingStep
<1>6. TxFits'
  BY <1>1, NoTxIs DEF TxFits
<1>7. RowsFit'
  <2>1. \A y \in Handlers : IsBusy(y)' => handler'[y].user \in met'
    BY <1>3, <1>5 DEF IsBusy
  <2>2. OneIsBusy' /\ BusyMet'
    BY <2>1 DEF OneIsBusy, BusyMet
  <2>3. \A y \in Handlers : RowFits(y)'
    BY <2>1 DEF RowFits, IsBusy, BusyLabels
  <2>4. SavedFits'
    BY <1>1, NoTxIs DEF SavedFits
  <2>5. CacheFits'
    <3>1. ASSUME change' # "clear", NEW u \in cache' \ met', u \notin rows'
          PROVE  \E y \in Handlers : handler'[y].at = "uncache" /\ handler'[y].user = u
      <4>1. u \notin rows
        BY <1>1, <1>3, <3>1 DEF AuthInv, RowsFit, SavedFits
      <4>2. PICK y \in Handlers : handler[y].at = "uncache" /\ handler[y].user = u
        BY <1>1, <1>3, <3>1, <4>1 DEF AuthInv, RowsFit, CacheFits, AuthVersions
      <4> QED
        BY <1>5, <4>2 DEF IsBusy, BusyLabels
    <3> QED
      BY <3>1 DEF CacheFits
  <2> QED
    BY <2>2, <2>3, <2>4, <2>5 DEF RowsFit
<1> QED
  BY <1>5, <1>6, <1>7 DEF AuthInv

LEMMA RollbackKeeps ==
  ASSUME Auth!AuthAssumption, AuthInv, Auth!Rollback
  PROVE  AuthInv'
<1>1. /\ tx.at = "open" /\ Auth!Event /\ Auth!After("free") /\ tx' = Auth!NoTx
      /\ AuthVersions /\ rows' = rows /\ cache' = cache /\ grant' = grant /\ state' = state
      /\ late' = late /\ met' = met /\ failed' = failed /\ locked' = locked
      /\ twoFactor' = twoFactor /\ allow' = allow
  BY DEF Auth!Rollback, Auth!settings, Auth!store, Auth!pinTries, Auth!marks, AuthVersions
<1>2. PICK x \in Handlers, v \in Update : Turns(x, v) /\ Waits(x, v)
  BY <1>1, AfterTurns
<1>3. OthersTyped
  BY <1>1, NoTxIs DEF OthersTyped, AuthInv, AuthTypes
<1>4. /\ AuthTypes' /\ PinsFit' /\ UsersFit' /\ TriesFit' /\ GrantsFit'
      /\ \A y \in Handlers : IsBusy(y)' \/ IsBusy(y) => handler'[y] = handler[y]
  BY <1>1, <1>2, <1>3, SavingStep
<1>5. TxFits'
  BY <1>1, NoTxIs DEF TxFits
<1>6. RowsFit'
  <2>1. OneIsBusy' /\ BusyMet'
    BY <1>1, <1>4 DEF AuthInv, RowsFit, OneIsBusy, BusyMet, IsBusy
  <2>2. \A y \in Handlers : RowFits(y)'
    BY <1>1, <1>4 DEF AuthInv, RowsFit, RowFits, IsBusy, BusyLabels
  <2>3. SavedFits'
    BY <1>1, NoTxIs DEF SavedFits
  <2>4. CacheFits'
    <3>1. ASSUME change' # "clear", NEW u \in cache' \ met', u \notin rows'
          PROVE  \E y \in Handlers : handler'[y].at = "uncache" /\ handler'[y].user = u
      <4>1. PICK y \in Handlers : handler[y].at = "uncache" /\ handler[y].user = u
        BY <1>1, <3>1 DEF AuthInv, RowsFit, CacheFits, AuthVersions
      <4> QED
        BY <1>4, <4>1 DEF IsBusy, BusyLabels
    <3> QED
      BY <3>1 DEF CacheFits
  <2> QED
    BY <2>1, <2>2, <2>3, <2>4 DEF RowsFit
<1> QED
  BY <1>4, <1>5, <1>6 DEF AuthInv

LEMMA ChangePinKeeps ==
  ASSUME Auth!AuthAssumption, AuthInv, Auth!ChangePin
  PROVE  AuthInv'
<1>1. /\ pin' = pin + 1 /\ rows' = {} /\ change' = "clear" /\ Auth!Op /\ met' = met \cup Auth!BusyUsers
      /\ late' = late \cup {handler[y].user : y \in Auth!Proving}
      /\ cache' = cache /\ grant' = grant /\ state' = state /\ handler' = handler /\ tx' = tx
      /\ failed' = failed /\ locked' = locked /\ twoFactor' = twoFactor /\ allow' = allow
  BY DEF Auth!ChangePin, Auth!pinTries
<1>2. /\ AuthTypes /\ PinsFit /\ UsersFit /\ TxFits /\ TriesFit
  BY DEF AuthInv
<1>3. /\ met \subseteq met' /\ \A y \in Handlers : IsBusy(y) => handler[y].user \in met'
      /\ met' \in SUBSET Users
  BY <1>1, BusyAreMet
<1>4. /\ \A y \in Handlers : handler[y].at \in ProvingLabels => handler[y].user \in late'
      /\ late' \in SUBSET Users
  <2>1. Auth!Proving = {y \in Handlers : handler[y].at \in ProvingLabels}
    BY DEF Auth!Proving, ProvingLabels
  <2>2. \A y \in Handlers : handler[y].at \in ProvingLabels => handler[y].user \in Users
    BY HandlerIs DEF ProvingLabels
  <2> QED
    BY <1>1, <1>2, <2>1, <2>2 DEF AuthTypes
<1>5. pin \in Nat /\ pin' \in Nat /\ pin' # 0 /\ pin < pin'
  BY <1>1, <1>2 DEF AuthTypes
<1>6. AuthTypes'
  <2>1. authOps' \in 0..MaxOps /\ authEvents' \in 0..MaxEvents /\ authOps' = authOps + 1
    BY <1>1, EventsFit
  <2>2. pin' <= authOps' + 1
    <3>1. authOps \in Nat /\ pin <= authOps + 1
      BY <1>2 DEF AuthTypes, Auth!AuthAssumption
    <3> QED
      BY <1>1, <1>5, <2>1, <3>1
  <2> QED
    BY <1>1, <1>2, <1>3, <1>4, <1>5, <2>1, <2>2 DEF AuthTypes
<1>7. PinsFit'
  <2>1. /\ \A u \in Users : grant[u] \in Nat /\ state[u].pin \in Nat
        /\ \A y \in Handlers : handler[y].pin \in Nat
    BY <1>2 DEF AuthTypes, Waiting, Update
  <2> QED
    BY <1>1, <1>2, <1>5, <2>1 DEF PinsFit
<1>8. UsersFit' /\ TxFits'
  BY <1>1, <1>2 DEF UsersFit, UserFits, TxFits
<1>9. TriesFit'
  BY <1>1, <1>2 DEF TriesFit, Checking
<1>10. GrantsFit'
  BY <1>1, <1>4 DEF GrantsFit, Proved
<1>11. RowsFit'
  <2>1. \A y \in Handlers : IsBusy(y)' => handler'[y].user \in met'
    BY <1>1, <1>3 DEF IsBusy
  <2>2. OneIsBusy' /\ BusyMet' /\ \A y \in Handlers : RowFits(y)'
    BY <2>1 DEF OneIsBusy, BusyMet, RowFits, IsBusy, BusyLabels
  <2>3. SavedFits' /\ CacheFits'
    BY <1>1 DEF SavedFits, CacheFits
  <2> QED
    BY <2>2, <2>3 DEF RowsFit
<1> QED
  BY <1>6, <1>7, <1>8, <1>9, <1>10, <1>11 DEF AuthInv

LEMMA ClearAllKeeps ==
  ASSUME Auth!AuthAssumption, AuthInv, Auth!ClearAll
  PROVE  AuthInv'
<1>1. /\ cache' = {} /\ change' = "idle" /\ Auth!Goes /\ met' = met \cup Auth!BusyUsers
      /\ state' = [u \in Users |-> Auth!NoState]
      /\ late' = late \cup {handler[y].user : y \in Auth!Proving}
      /\ pin' = pin /\ rows' = rows /\ grant' = grant /\ handler' = handler /\ tx' = tx
      /\ failed' = failed /\ locked' = locked /\ twoFactor' = twoFactor /\ allow' = allow
  BY DEF Auth!ClearAll, Auth!Cleared, Auth!settings, Auth!pinTries
<1>2. /\ AuthTypes /\ PinsFit /\ UsersFit /\ TxFits /\ TriesFit /\ GrantsFit
  BY DEF AuthInv
<1>3. /\ met \subseteq met' /\ \A y \in Handlers : IsBusy(y) => handler[y].user \in met'
      /\ met' \in SUBSET Users
  BY <1>1, BusyAreMet
<1>4. late \subseteq late' /\ late' \in SUBSET Users
  <2>1. Auth!Proving = {y \in Handlers : handler[y].at \in ProvingLabels}
    BY DEF Auth!Proving, ProvingLabels
  <2>2. \A y \in Handlers : handler[y].at \in ProvingLabels => handler[y].user \in Users
    BY HandlerIs DEF ProvingLabels
  <2> QED
    BY <1>1, <1>2, <2>1, <2>2 DEF AuthTypes
<1>5. /\ state' \in [Users -> Waiting]
      /\ \A u \in Users : state'[u].what = "none" /\ state'[u].pin = 0
  BY <1>1, FreeIs
<1>6. AuthTypes'
  <2>1. authOps' = authOps /\ authEvents' \in 0..MaxEvents /\ authOps' \in 0..MaxOps
    BY <1>1, EventsFit
  <2> QED
    BY <1>1, <1>2, <1>3, <1>4, <1>5, <2>1 DEF AuthTypes
<1>7. PinsFit'
  BY <1>1, <1>2, <1>5 DEF PinsFit, AuthTypes
<1>8. UsersFit' /\ TxFits'
  BY <1>1, <1>2 DEF UsersFit, UserFits, TxFits
<1>9. TriesFit'
  BY <1>1, <1>2 DEF TriesFit, Checking
<1>10. GrantsFit'
  <2>1. \A y \in Handlers : Proved(y)'
    BY <1>1, <1>2, <1>4 DEF GrantsFit, Proved
  <2> QED
    BY <1>1, <1>2, <1>4, <1>5, <2>1 DEF GrantsFit
<1>11. RowsFit'
  <2>1. \A y \in Handlers : IsBusy(y)' => handler'[y].user \in met'
    BY <1>1, <1>3 DEF IsBusy
  <2>2. OneIsBusy' /\ BusyMet' /\ \A y \in Handlers : RowFits(y)'
    BY <2>1 DEF OneIsBusy, BusyMet, RowFits, IsBusy, BusyLabels
  <2>3. SavedFits' /\ CacheFits'
    BY <1>1 DEF SavedFits, CacheFits
  <2> QED
    BY <2>2, <2>3 DEF RowsFit
<1> QED
  BY <1>6, <1>7, <1>8, <1>9, <1>10, <1>11 DEF AuthInv

\* No PIN is being checked and none was wrong.
LEMMA TriesStart ==
  ASSUME Auth!AuthAssumption, NEW u \in Users, failed[u] = 0,
         \A y \in Handlers : handler[y].at = "free"
  PROVE  /\ failed[u] + Cardinality(Checking(u)) <= MaxFail + Cardinality(Handlers) - 1
         /\ u \notin locked => failed[u] < MaxFail
<1>1. Cardinality(Checking(u)) = 0
  <2>1. Checking(u) = {}
    BY DEF Checking
  <2> QED
    BY <2>1, FS_EmptySet
<1>2. Cardinality(Handlers) \in Nat /\ MaxFail \in Nat /\ MaxFail # 0
  BY CheckingIsFinite DEF Auth!AuthAssumption
<1> QED
  BY <1>1, <1>2

LEMMA RestartKeeps ==
  ASSUME Auth!AuthAssumption, AuthInv, Auth!Restart
  PROVE  AuthInv'
<1>1. /\ Auth!Event /\ rows' \subseteq rows /\ cache' = rows' /\ tx' = Auth!NoTx /\ change' = "idle"
      /\ state' = [u \in Users |-> Auth!NoState] /\ failed' = [u \in Users |-> 0] /\ locked' = {}
      /\ handler' = [y \in Handlers |-> Auth!Free]
      /\ pin' = pin /\ grant' = grant /\ late' = late /\ met' = met
      /\ twoFactor' = twoFactor /\ allow' = allow
  BY DEF Auth!Restart, Auth!settings, Auth!marks
<1>2. /\ AuthTypes /\ PinsFit /\ GrantsFit
  BY DEF AuthInv
<1>3. /\ state' \in [Users -> Waiting] /\ handler' \in [Handlers -> Update]
      /\ \A u \in Users : state'[u].what = "none" /\ state'[u].pin = 0
      /\ \A y \in Handlers : handler'[y].at = "free" /\ handler'[y].pin = 0
      /\ failed' \in [Users -> Nat] /\ \A u \in Users : failed'[u] = 0
      /\ tx' \in Saving /\ tx'.at = "idle"
  BY <1>1, FreeIs, NoTxIs
<1>4. AuthTypes'
  <2>1. authOps' = authOps /\ authEvents' \in 0..MaxEvents /\ authOps' \in 0..MaxOps
    BY <1>1, EventsFit
  <2> QED
    BY <1>1, <1>2, <1>3, <2>1 DEF AuthTypes
<1>5. PinsFit'
  BY <1>1, <1>2, <1>3 DEF PinsFit, AuthTypes
<1>6. UsersFit' /\ TxFits'
  BY <1>3 DEF UsersFit, UserFits, TxFits
<1>7. TriesFit'
  <2>1. ASSUME NEW u \in Users
        PROVE  /\ failed'[u] + Cardinality({y \in Handlers : handler'[y].at = "verify" /\ handler'[y].user = u})
                     <= MaxFail + Cardinality(Handlers) - 1
               /\ u \notin locked' => failed'[u] < MaxFail
    <3> DEFINE A == {y \in Handlers : handler'[y].at = "verify" /\ handler'[y].user = u}
    <3>1. Cardinality(A) = 0
      <4>1. A = {}
        BY <1>3
      <4> QED
        BY <4>1, FS_EmptySet
    <3>2. Cardinality(Handlers) \in Nat /\ MaxFail \in Nat /\ MaxFail # 0 /\ failed'[u] = 0
      BY <1>3, CheckingIsFinite DEF Auth!AuthAssumption
    <3> HIDE DEF A
    <3> QED
      BY <3>1, <3>2 DEF A
  <2> QED
    BY <2>1 DEF TriesFit, Checking
<1>8. GrantsFit'
  BY <1>1, <1>2, <1>3 DEF GrantsFit, Proved, ProvingLabels
<1>9. RowsFit'
  BY <1>1, <1>3 DEF RowsFit, OneIsBusy, BusyMet, RowFits, SavedFits, CacheFits, IsBusy, BusyLabels
<1> QED
  BY <1>4, <1>5, <1>6, <1>7, <1>8, <1>9 DEF AuthInv

LEMMA AuthStarts ==
  Auth!AuthAssumption /\ Auth!Init => AuthInv
<1> SUFFICES ASSUME Auth!AuthAssumption, Auth!Init  PROVE AuthInv
  OBVIOUS
<1>1. /\ pin = 1 /\ twoFactor \in BOOLEAN /\ allow \in SUBSET Users /\ rows = {} /\ cache = {}
      /\ grant = [u \in Users |-> 0] /\ state = [u \in Users |-> Auth!NoState]
      /\ failed = [u \in Users |-> 0] /\ locked = {} /\ handler = [y \in Handlers |-> Auth!Free]
      /\ tx = Auth!NoTx /\ change = "idle" /\ late = {} /\ met = {} /\ authOps = 0 /\ authEvents = 0
  BY DEF Auth!Init
<1>2. /\ state \in [Users -> Waiting] /\ handler \in [Handlers -> Update]
      /\ \A u \in Users : state[u].what = "none" /\ state[u].pin = 0 /\ grant[u] = 0 /\ failed[u] = 0
      /\ \A y \in Handlers : handler[y].at = "free" /\ handler[y].pin = 0
      /\ tx \in Saving /\ tx.at = "idle"
  BY <1>1, FreeIs, NoTxIs
<1>3. AuthTypes
  <2>1. MaxOps \in Nat /\ MaxEvents \in Nat
    BY DEF Auth!AuthAssumption
  <2> QED
    BY <1>1, <1>2, <2>1 DEF AuthTypes
<1>4. PinsFit /\ UsersFit /\ TxFits
  BY <1>1, <1>2 DEF PinsFit, UsersFit, UserFits, TxFits
<1>5. TriesFit
  BY <1>2, TriesStart DEF TriesFit
<1>6. GrantsFit
  BY <1>1, <1>2 DEF GrantsFit, Proved, ProvingLabels
<1>7. RowsFit
  BY <1>1, <1>2 DEF RowsFit, OneIsBusy, BusyMet, RowFits, SavedFits, CacheFits, IsBusy, BusyLabels
<1> QED
  BY <1>3, <1>4, <1>5, <1>6, <1>7 DEF AuthInv

LEMMA AuthStep ==
  Auth!AuthAssumption /\ AuthInv /\ [Auth!Next]_(Auth!vars) => AuthInv'
<1> SUFFICES ASSUME Auth!AuthAssumption, AuthInv, [Auth!Next]_(Auth!vars)  PROVE AuthInv'
  OBVIOUS
<1>1. CASE \E x \in Handlers, u \in Users : Auth!TypePin(x, u) \/ Auth!SendCode(x, u) \/ Auth!Revoke(x, u)
  BY <1>1, TypePinKeeps, SendCodeKeeps, RevokeUserKeeps
<1>2. ASSUME NEW x \in Handlers,
             \/ Auth!Verify(x) \/ Auth!ReadList(x) \/ Auth!Count(x) \/ Auth!AddUser(x)
             \/ Auth!SaveAdded(x) \/ Auth!Second(x)
      PROVE  AuthInv'
  BY <1>2, VerifyKeeps, ReadListKeeps, CountKeeps, AddUserKeeps, SaveAddedKeeps, SecondKeeps
<1>3. ASSUME NEW x \in Handlers,
             \/ Auth!Insert(x) \/ Auth!Remember(x) \/ Auth!CodeVerified(x) \/ Auth!SetupVerified(x)
             \/ Auth!Delete(x) \/ Auth!Forget(x)
      PROVE  AuthInv'
  BY <1>3, InsertKeeps, RememberKeeps, CodeVerifiedKeeps, SetupVerifiedKeeps, DeleteKeeps, ForgetKeeps
<1>4. CASE \E u \in Users : Auth!FailuresEnd(u) \/ Auth!StateExpires(u) \/ Auth!Setup(u)
  BY <1>4, FailuresEndKeeps, StateExpiresKeeps, SetupKeeps
<1>5. CASE Auth!SaveList \/ Auth!Commit \/ Auth!Rollback \/ Auth!ChangePin \/ Auth!ClearAll \/ Auth!Restart
  BY <1>5, SaveListKeeps, CommitKeeps, RollbackKeeps, ChangePinKeeps, ClearAllKeeps, RestartKeeps
<1>6. CASE UNCHANGED Auth!vars
  <2>1. /\ pin' = pin /\ twoFactor' = twoFactor /\ allow' = allow /\ rows' = rows /\ cache' = cache
        /\ state' = state /\ failed' = failed /\ locked' = locked /\ handler' = handler /\ tx' = tx
        /\ change' = change /\ grant' = grant /\ late' = late /\ met' = met
        /\ authOps' = authOps /\ authEvents' = authEvents
    BY <1>6 DEF Auth!vars
  <2> QED
    BY <2>1 DEF AuthInv, AuthTypes, PinsFit, UsersFit, UserFits, TxFits, TriesFit, Checking, GrantsFit,
                Proved, RowsFit, OneIsBusy, BusyMet, RowFits, SavedFits, CacheFits, IsBusy
<1> QED
  BY <1>1, <1>2, <1>3, <1>4, <1>5, <1>6 DEF Auth!Next

\* The invariant of who may use the bot: PINs that were given, tries that are left, grants
\* by the PIN of now and rows behind the cache.
THEOREM AuthInvariant == Auth!AuthAssumption => (Auth!Spec => []AuthInv)
<1> SUFFICES ASSUME Auth!AuthAssumption  PROVE Auth!Spec => []AuthInv
  OBVIOUS
<1>1. Auth!Init => AuthInv
  BY AuthStarts
<1>2. AuthInv /\ [Auth!Next]_(Auth!vars) => AuthInv'
  BY AuthStep
<1> QED
  BY <1>1, <1>2, PTL DEF Auth!Spec

\* Who may use the bot is kept in variables of their types.
THEOREM AuthTypeCorrect == Auth!AuthAssumption => (Auth!Spec => []Auth!TypeOK)
<1> SUFFICES ASSUME Auth!AuthAssumption  PROVE Auth!Spec => []Auth!TypeOK
  OBVIOUS
<1>1. AuthInv => Auth!TypeOK
  <2> SUFFICES ASSUME AuthInv  PROVE Auth!TypeOK
    OBVIOUS
  <2>1. AuthTypes /\ PinsFit
    BY DEF AuthInv
  <2>2. pin \in 1..(MaxOps + 1)
    <3>1. MaxOps \in Nat /\ authOps \in 0..MaxOps /\ pin \in Nat /\ pin # 0 /\ pin <= authOps + 1
      BY <2>1 DEF AuthTypes, Auth!AuthAssumption
    <3> QED
      BY <3>1
  <2>3. \A u \in Users : state[u].what \in {"none", "login", "setup"} /\ grant[u] \in 0..pin
    BY <2>1 DEF AuthTypes, PinsFit, Waiting
  <2>4. \A y \in Handlers : handler[y].at \in AuthLabels
    BY <2>1 DEF AuthTypes, Update
  <2>5. tx.at \in {"idle", "open"}
    BY <2>1 DEF AuthTypes, Saving
  <2> QED
    BY <2>1, <2>2, <2>3, <2>4, <2>5 DEF Auth!TypeOK, AuthTypes, AuthLabels
<1>2. Auth!Spec => []AuthInv
  BY AuthInvariant
<1> QED
  BY <1>1, <1>2, PTL

\* Who is let in gave the PIN of now, unless his login was under way when the PIN changed
\* (changeTelegramPin and the handlers of PIN and code).
THEOREM GrantsAreByPin == Auth!AuthAssumption => (Auth!Spec => []Auth!GrantsFitPin)
<1> SUFFICES ASSUME Auth!AuthAssumption  PROVE Auth!Spec => []Auth!GrantsFitPin
  OBVIOUS
<1>1. AuthInv => Auth!GrantsFitPin
  BY DEF AuthInv, GrantsFit, Auth!GrantsFitPin
<1>2. Auth!Spec => []AuthInv
  BY AuthInvariant
<1> QED
  BY <1>1, <1>2, PTL

\* When nothing is under way, who is in the cache has a row and is let in after a restart,
\* unless two steps of his overlapped (persistAuthenticatedUser, revokeAuthenticatedUser).
THEOREM CachedHaveRows == Auth!AuthAssumption => (Auth!Spec => []Auth!CacheHasRow)
<1> SUFFICES ASSUME Auth!AuthAssumption  PROVE Auth!Spec => []Auth!CacheHasRow
  OBVIOUS
<1>1. AuthInv => Auth!CacheHasRow
  <2> SUFFICES ASSUME AuthInv, Auth!Busy = {}, change = "idle", NEW u \in cache \ met  PROVE u \in rows
    BY DEF Auth!CacheHasRow
  <2>1. \A y \in Handlers : handler[y].at # "uncache"
    BY DEF Auth!Busy
  <2> QED
    BY <2>1 DEF AuthInv, RowsFit, CacheFits
<1>2. Auth!Spec => []AuthInv
  BY AuthInvariant
<1> QED
  BY <1>1, <1>2, PTL

\* Beyond the tries of a PIN there are only those under way when the last one was wrong
\* (recordPinFailure).
THEOREM TriesAreFew == Auth!AuthAssumption => (Auth!Spec => []Auth!TriesAreBounded)
<1> SUFFICES ASSUME Auth!AuthAssumption  PROVE Auth!Spec => []Auth!TriesAreBounded
  OBVIOUS
<1>1. AuthInv => Auth!TriesAreBounded
  <2> SUFFICES ASSUME AuthInv, NEW u \in Users
               PROVE  failed[u] < MaxFail + Auth!Cardinality(Handlers)
    BY DEF Auth!TriesAreBounded
  <2>1. /\ Cardinality(Checking(u)) \in Nat /\ Cardinality(Handlers) \in Nat
        /\ Auth!Cardinality(Handlers) = Cardinality(Handlers)
    BY CheckingIsFinite, SameAuthSets
  <2>2. failed[u] + Cardinality(Checking(u)) <= MaxFail + Cardinality(Handlers) - 1
    BY DEF AuthInv, TriesFit
  <2>3. failed[u] \in Nat /\ MaxFail \in Nat
    BY DEF AuthInv, AuthTypes, Auth!AuthAssumption
  <2> QED
    BY <2>1, <2>2, <2>3
<1>2. Auth!Spec => []AuthInv
  BY AuthInvariant
<1> QED
  BY <1>1, <1>2, PTL
-----------------------------------------------------------------------------
(* The bot (BotLifecycle)                                                   *)

CONSTANTS HasEnvironment, Required, WebCreds
VARIABLES config, bot, bots, status, init, botOp, timer, resume, workers, restored, odd,
          botOps, botEvents
Bot == INSTANCE BotLifecycle WITH
    client <- bot, op <- botOp, ops <- botOps, events <- botEvents

Settings == [web : {0, 1} \cup WebCreds, enabled : BOOLEAN]
BotClientTypes == [creds : Nat, handlers : Nat, up : BOOLEAN]
InitTypes ==
    [at : {"idle", "begin", "storage", "start", "setup", "identity", "ready", "failed", "over"},
     creds : Nat, bot : Nat]
BotOpTypes ==
    [at : {"idle", "save", "stop", "stop again", "stopping", "stopping again", "restart",
           "restart again", "starting", "starting again", "delete", "done", "failed"},
     kind : {"none", "put", "put disabled", "migrate", "disable", "delete"},
     creds : {0, 1} \cup WebCreds, bot : Nat, previous : Settings]
LaterTypes == [at : {"idle", "set", "accounts"}, bot : Nat, accounts : BOOLEAN, current : BOOLEAN]
OddTypes == [overlap : BOOLEAN, migrated : BOOLEAN, replaced : BOOLEAN, kept : BOOLEAN]

BotTypes ==
    /\ config \in Settings /\ bot \in {0} \cup DOMAIN bots /\ workers \in {0} \cup DOMAIN bots
    /\ IsFiniteSet(DOMAIN bots) /\ DOMAIN bots \subseteq Nat \ {0}
    /\ bots \in [DOMAIN bots -> BotClientTypes]
    /\ status \in {"not_configured", "starting", "ready", "error"}
    /\ init \in [{"boot", "op"} -> InitTypes] /\ botOp \in BotOpTypes
    /\ timer \in LaterTypes /\ resume \in LaterTypes /\ restored \in BOOLEAN /\ odd \in OddTypes

StartingLabels == {"storage", "start", "setup", "identity"}
BotRuns(a) == init[a].at \in StartingLabels
Emptied == botOp.at \in {"restart", "restart again", "delete"}

\* Only an operation that starts the bot has an initialisation, and the server begins
\* with nothing.
StartsFit ==
    /\ init["boot"].at # "idle"
    /\ init["op"].at # "idle" <=> botOp.at \in {"starting", "starting again"}
    /\ init["op"].at \notin {"begin", "over"}
    /\ init["boot"].at = "begin" => bot = 0 /\ workers = 0 /\ status # "ready" /\ botOp.at = "idle"

\* A client gets its handlers at most once by the start of the server and once by the
\* operation that found it or created it.
EarlyBoot == init["boot"].at \in {"begin", "storage", "start", "setup"}
EarlyOp == Emptied \/ init["op"].at \in {"storage", "start", "setup"}
HandlersAreFew ==
    /\ \A b \in DOMAIN bots : bots[b].handlers <= 2
    /\ bot # 0 /\ (EarlyBoot \/ EarlyOp) => bots[bot].handlers <= 1
    /\ bot # 0 /\ EarlyBoot /\ EarlyOp => bots[bot].handlers = 0

\* Without overlap one initialisation runs at a time, in a server without a client and
\* workers, and what is stopped is the client of now.
ClientFits ==
    /\ \A b \in DOMAIN bots : bots[b].up => b = bot
    /\ bot # 0 => bots[bot].up /\ bots[bot].handlers <= 1
    /\ workers # 0 => workers = bot
StepFits ==
    /\ botOp.at # "idle" => init["boot"].at \in {"ready", "failed", "over"}
    /\ Emptied => bot = 0 /\ workers = 0 /\ status # "ready"
    /\ botOp.at \in {"stopping", "stopping again"} => botOp.bot = bot
InitFits(a) ==
    /\ init[a].at = "storage" => bot = 0
    /\ init[a].at \in {"start", "setup", "identity"} => init[a].bot = bot /\ bot # 0
    /\ init[a].at \in {"start", "setup"} => bots[bot].handlers = 0
    /\ BotRuns(a) => workers = 0 /\ status # "ready"
AloneFits == ~odd.overlap => ClientFits /\ StepFits /\ \A a \in {"boot", "op"} : InitFits(a)

\* What an operation saved it starts the bot with, and what failed is put back.
PlanFits ==
    /\ botOp.at \in {"stop", "stopping", "restart"} /\ botOp.kind \in {"put", "migrate"} =>
          config.web = botOp.creds /\ config.enabled /\ botOp.creds # 0
    /\ botOp.at = "save" /\ botOp.kind \in {"put", "migrate"} => botOp.creds # 0
    /\ botOp.at = "delete" => botOp.kind = "delete"
    /\ botOp.at = "restart" => botOp.kind \in {"put", "migrate", "delete"}
    /\ botOp.at = "restart" /\ botOp.kind = "delete" => config.web = 0 /\ config.enabled /\ HasEnvironment
    /\ botOp.at \in {"stop again", "stopping again", "restart again", "starting again", "failed"} =>
          botOp.kind = "delete" \/ config = botOp.previous
    /\ odd.kept

\* Without overlap, and unless a migration was rolled back, the bot that starts or serves
\* is the one of the settings.
NamedInit(a) == Bot!Enabled(config) /\ init[a].creds = Bot!Creds(config)
NamedBot == Bot!Enabled(config) /\ bots[bot].creds = Bot!Creds(config)
ServedFits ==
    ~odd.overlap /\ ~odd.migrated =>
        /\ \A a \in {"boot", "op"} :
              /\ BotRuns(a) => NamedInit(a)
              /\ init[a].at \in {"start", "setup", "identity"} => bots[bot].creds = init[a].creds
        /\ status = "ready" /\ botOp.at \in {"idle", "starting", "starting again", "done", "failed"} =>
              bot # 0 /\ NamedBot

BotInv == BotTypes /\ StartsFit /\ HandlersAreFew /\ AloneFits /\ PlanFits /\ ServedFits

Actors == {"boot", "op"}
InitLabels ==
    {"idle", "begin", "storage", "start", "setup", "identity", "ready", "failed", "over"}
LEMMA InitAt ==
  ASSUME BotTypes, NEW a \in Actors, NEW st \in InitLabels, init' = [init EXCEPT ![a].at = st]
  PROVE  /\ init' \in [Actors -> InitTypes] /\ init'[a].at = st
         /\ init'[a].creds = init[a].creds /\ init'[a].bot = init[a].bot
         /\ \A y \in Actors \ {a} : init'[y] = init[y]
<1>1. init \in [Actors -> InitTypes]
  BY DEF BotTypes, Actors
<1> DEFINE v == [init[a] EXCEPT !.at = st]
<1>2. init' = [init EXCEPT ![a] = v]
  BY <1>1
<1>3. v \in InitTypes /\ v.at = st /\ v.creds = init[a].creds /\ v.bot = init[a].bot
  BY <1>1 DEF InitTypes, InitLabels
<1> HIDE DEF v
<1> QED
  BY <1>1, <1>2, <1>3

LEMMA OpAt ==
  ASSUME botOp \in BotOpTypes,
         NEW st \in {"idle", "save", "stop", "stop again", "stopping", "stopping again", "restart",
                     "restart again", "starting", "starting again", "delete", "done", "failed"},
         botOp' = [botOp EXCEPT !.at = st]
  PROVE  /\ botOp' \in BotOpTypes /\ botOp'.at = st /\ botOp'.kind = botOp.kind
         /\ botOp'.creds = botOp.creds /\ botOp'.bot = botOp.bot /\ botOp'.previous = botOp.previous
BY DEF BotOpTypes

LEMMA OddIs ==
  ASSUME odd \in OddTypes, NEW b \in BOOLEAN
  PROVE  /\ LET r == [odd EXCEPT !.overlap = b] IN
              r \in OddTypes /\ r.overlap = b /\ r.migrated = odd.migrated /\ r.kept = odd.kept
         /\ LET r == [odd EXCEPT !.replaced = b] IN
              r \in OddTypes /\ r.overlap = odd.overlap /\ r.migrated = odd.migrated /\ r.kept = odd.kept
         /\ LET r == [odd EXCEPT !.kept = b] IN
              r \in OddTypes /\ r.overlap = odd.overlap /\ r.migrated = odd.migrated /\ r.kept = b
BY DEF OddTypes

\* A client is disconnected.
LEMMA DownIs ==
  ASSUME BotTypes, NEW id,
         bots' = [b \in Bot!Ids |-> IF b = id THEN [bots[b] EXCEPT !.up = FALSE] ELSE bots[b]]
  PROVE  /\ DOMAIN bots' = DOMAIN bots /\ bots' \in [DOMAIN bots -> BotClientTypes]
         /\ \A b \in DOMAIN bots : /\ bots'[b].handlers = bots[b].handlers
                                   /\ bots'[b].creds = bots[b].creds
                                   /\ bots'[b].up => b # id /\ bots[b].up
<1>1. bots \in [DOMAIN bots -> BotClientTypes] /\ Bot!Ids = DOMAIN bots
  BY DEF BotTypes, Bot!Ids
<1>2. DOMAIN bots' = DOMAIN bots
  BY <1>1
<1>3. ASSUME NEW b \in DOMAIN bots
      PROVE  /\ bots'[b] \in BotClientTypes /\ bots'[b].handlers = bots[b].handlers
             /\ bots'[b].creds = bots[b].creds /\ (bots'[b].up => b # id /\ bots[b].up)
  <2> DEFINE r == [bots[b] EXCEPT !.up = FALSE]
  <2>1. bots[b] \in BotClientTypes
    BY <1>1
  <2>2. r \in BotClientTypes /\ r.handlers = bots[b].handlers /\ r.creds = bots[b].creds /\ ~r.up
    BY <2>1 DEF BotClientTypes
  <2>3. bots'[b] = IF b = id THEN r ELSE bots[b]
    BY <1>1
  <2> HIDE DEF r
  <2> QED
    BY <2>1, <2>2, <2>3
<1>4. bots' \in [DOMAIN bots -> BotClientTypes]
  BY <1>1, <1>2, <1>3
<1> QED
  BY <1>2, <1>3, <1>4

\* What an initialisation of the bot may rely on when nothing overlaps.
LEMMA OnlyOne ==
  ASSUME StartsFit, AloneFits, ~odd.overlap, NEW a \in Actors, BotRuns(a)
  PROVE  /\ \A y \in Actors \ {a} : ~BotRuns(y)
         /\ ~Emptied /\ botOp.at \notin {"stopping", "stopping again"}
         /\ botOp.at \in {"idle", "starting", "starting again"}
         /\ workers = 0 /\ status # "ready"
BY DEF StartsFit, AloneFits, StepFits, InitFits, BotRuns, StartingLabels, Emptied, Actors


\* An initialisation leaves settings, operation and the rest alone.
InitFrame ==
    /\ config' = config /\ botOp' = botOp /\ odd' = odd
    /\ timer' = timer /\ resume' = resume /\ workers' = workers /\ restored' = restored

LEMMA FailKeeps ==
  ASSUME BotInv, NEW a \in Actors, Bot!Fail(a), init[a].at \in {"start", "setup", "identity"}, InitFrame
  PROVE  BotInv'
<1>1. /\ BotTypes /\ StartsFit /\ HandlersAreFew /\ AloneFits /\ PlanFits /\ ServedFits
  BY DEF BotInv
<1>2. /\ init' = [init EXCEPT ![a].at = "failed"] /\ bot' = 0 /\ status' = "error"
      /\ bots' = [b \in Bot!Ids |-> IF b = bot THEN [bots[b] EXCEPT !.up = FALSE] ELSE bots[b]]
  BY DEF Bot!Fail, Bot!At, Bot!None
<1>3. /\ init' \in [Actors -> InitTypes] /\ init'[a].at = "failed"
      /\ \A y \in Actors \ {a} : init'[y] = init[y]
  BY <1>1, <1>2, InitAt DEF InitLabels
<1>4. /\ DOMAIN bots' = DOMAIN bots /\ bots' \in [DOMAIN bots -> BotClientTypes]
      /\ \A b \in DOMAIN bots : /\ bots'[b].handlers = bots[b].handlers
                                /\ bots'[b].creds = bots[b].creds
                                /\ bots'[b].up => b # bot /\ bots[b].up
  BY <1>1, <1>2, DownIs
<1>5. BotTypes'
  BY <1>1, <1>2, <1>3, <1>4 DEF BotTypes, InitFrame, Actors
<1>6. StartsFit'
  BY <1>1, <1>2, <1>3 DEF StartsFit, InitFrame, Actors
<1>7. HandlersAreFew'
  BY <1>1, <1>2, <1>4 DEF HandlersAreFew
<1>8. BotRuns(a)
  BY DEF BotRuns, StartingLabels
<1>9. AloneFits'
  <2> SUFFICES ASSUME ~odd.overlap  PROVE ClientFits' /\ StepFits' /\ \A y \in Actors : InitFits(y)'
    BY DEF AloneFits, InitFrame, Actors
  <2>1. /\ \A y \in Actors \ {a} : ~BotRuns(y)
        /\ ~Emptied /\ botOp.at \notin {"stopping", "stopping again"} /\ workers = 0
    BY <1>1, <1>8, OnlyOne
  <2>2. ClientFits'
    BY <1>1, <1>2, <1>4, <2>1 DEF AloneFits, ClientFits, InitFrame
  <2>3. StepFits'
    BY <1>1, <1>3, <2>1 DEF AloneFits, StepFits, InitFrame, Emptied, Actors
  <2>4. \A y \in Actors : InitFits(y)'
    BY <1>3, <2>1 DEF InitFits, BotRuns, StartingLabels
  <2> QED
    BY <2>2, <2>3, <2>4
<1>10. PlanFits'
  BY <1>1 DEF PlanFits, InitFrame
<1>11. ServedFits'
  <2> SUFFICES ASSUME ~odd.overlap, ~odd.migrated, NEW y \in Actors, BotRuns(y)'  PROVE FALSE
    BY <1>2 DEF ServedFits, InitFrame, Actors, BotRuns, StartingLabels
  <2>1. \A z \in Actors \ {a} : ~BotRuns(z)
    BY <1>1, <1>8, OnlyOne
  <2> QED
    BY <1>3, <2>1 DEF BotRuns, StartingLabels
<1> QED
  BY <1>5, <1>6, <1>7, <1>9, <1>10, <1>11 DEF BotInv

\* The first steps that succeed: a client of a new number, without handlers.
LEMMA CreateKeeps ==
  ASSUME BotInv, NEW a \in Actors, Bot!Create(a)
  PROVE  BotInv'
<1>1. /\ BotTypes /\ StartsFit /\ HandlersAreFew /\ AloneFits /\ PlanFits /\ ServedFits
  BY DEF BotInv
<1> DEFINE id == Bot!Cardinality(Bot!Ids) + 1
           new == [creds |-> init[a].creds, handlers |-> 0, up |-> TRUE]
           v == [[init[a] EXCEPT !.at = "start"] EXCEPT !.bot = id]
<1>2. /\ init[a].at = "storage" /\ bot' = id /\ InitFrame /\ status' = status
      /\ bots' = [b \in Bot!Ids \cup {id} |-> IF b = id THEN new ELSE bots[b]]
      /\ init' = [init EXCEPT ![a].at = "start", ![a].bot = id]
  BY DEF Bot!Create, Bot!laterVars, InitFrame
<1>3. id \in Nat \ {0}
  <2>1. Bot!Cardinality(Bot!Ids) = Cardinality(DOMAIN bots) /\ IsFiniteSet(DOMAIN bots)
    BY <1>1 DEF Bot!Cardinality, Cardinality, Bot!Ids, BotTypes
  <2> QED
    BY <2>1, FS_CardinalityType
<1> HIDE DEF id
<1>4. init \in [Actors -> InitTypes]
  BY <1>1 DEF BotTypes, Actors
<1>5. v \in InitTypes /\ v.at = "start" /\ v.bot = id /\ v.creds = init[a].creds
  <2> DEFINE w == [init[a] EXCEPT !.at = "start"]
  <2>1. init[a] \in InitTypes
    BY <1>4
  <2>2. w \in InitTypes /\ w.at = "start" /\ w.creds = init[a].creds
    BY <2>1 DEF InitTypes
  <2>3. v = [w EXCEPT !.bot = id]
    OBVIOUS
  <2> HIDE DEF w, v
  <2> QED
    BY <1>3, <2>2, <2>3 DEF InitTypes
<1>6. init' = [init EXCEPT ![a] = v]
  BY <1>2, <1>4
<1> HIDE DEF v
<1>7. init' \in [Actors -> InitTypes] /\ init'[a] = v /\ \A y \in Actors \ {a} : init'[y] = init[y]
  BY <1>4, <1>5, <1>6
<1>8. new \in BotClientTypes /\ new.handlers = 0 /\ new.creds = init[a].creds /\ new.up
  <2>1. init[a].creds \in Nat
    BY <1>4 DEF InitTypes
  <2> QED
    BY <2>1 DEF BotClientTypes
<1> HIDE DEF new
<1>9. /\ DOMAIN bots' = DOMAIN bots \cup {id} /\ bots'[id] = new
      /\ \A b \in DOMAIN bots \ {id} : bots'[b] = bots[b]
  BY <1>2 DEF Bot!Ids
<1>10. bots' \in [DOMAIN bots' -> BotClientTypes] /\ IsFiniteSet(DOMAIN bots') /\ DOMAIN bots' \subseteq Nat \ {0}
  <2>1. /\ bots \in [DOMAIN bots -> BotClientTypes] /\ IsFiniteSet(DOMAIN bots)
        /\ DOMAIN bots \subseteq Nat \ {0}
    BY <1>1 DEF BotTypes
  <2>2. IsFiniteSet(DOMAIN bots')
    BY <1>9, <2>1, FS_AddElement
  <2>3. bots' = [b \in DOMAIN bots \cup {id} |-> IF b = id THEN new ELSE bots[b]]
    BY <1>2 DEF Bot!Ids
  <2>4. bots' \in [DOMAIN bots \cup {id} -> BotClientTypes]
    BY <1>8, <2>1, <2>3
  <2> QED
    BY <1>3, <1>9, <2>1, <2>2, <2>4
<1>11. BotTypes'
  BY <1>1, <1>2, <1>7, <1>9, <1>10 DEF BotTypes, InitFrame, Actors
<1>12. StartsFit'
  BY <1>1, <1>2, <1>5, <1>7 DEF StartsFit, InitFrame, Actors
<1>13. HandlersAreFew'
  BY <1>1, <1>2, <1>8, <1>9 DEF HandlersAreFew
<1>14. BotRuns(a)
  BY <1>2 DEF BotRuns, StartingLabels
<1>15. ASSUME ~odd.overlap
       PROVE  /\ bot = 0 /\ \A b \in DOMAIN bots : ~bots[b].up
              /\ \A y \in Actors \ {a} : ~BotRuns(y)
              /\ ~Emptied /\ botOp.at \notin {"stopping", "stopping again"}
              /\ workers = 0 /\ status # "ready"
  <2>1. bot = 0
    BY <1>1, <1>2, <1>15 DEF AloneFits, InitFits, Actors
  <2>2. \A b \in DOMAIN bots : ~bots[b].up
    BY <1>1, <1>15, <2>1 DEF AloneFits, ClientFits, BotTypes
  <2> QED
    BY <1>1, <1>14, <1>15, <2>1, <2>2, OnlyOne
<1>16. AloneFits'
  <2> SUFFICES ASSUME ~odd.overlap  PROVE ClientFits' /\ StepFits' /\ \A y \in Actors : InitFits(y)'
    BY <1>2 DEF AloneFits, InitFrame, Actors
  <2>1. ClientFits'
    <3>1. \A b \in DOMAIN bots' : bots'[b].up => b = bot'
      BY <1>2, <1>9, <1>15
    <3>2. bots'[bot'].up /\ bots'[bot'].handlers <= 1
      BY <1>2, <1>8, <1>9
    <3>3. workers' = 0
      BY <1>2, <1>15 DEF InitFrame
    <3> QED
      BY <3>1, <3>2, <3>3 DEF ClientFits
  <2>2. StepFits'
    BY <1>1, <1>2, <1>7, <1>15 DEF AloneFits, StepFits, InitFrame, Emptied, Actors, BotRuns, StartingLabels
  <2>3. InitFits(a)'
    BY <1>2, <1>3, <1>5, <1>7, <1>8, <1>9, <1>15 DEF InitFits, InitFrame
  <2>4. \A y \in Actors \ {a} : InitFits(y)'
    BY <1>7, <1>15 DEF InitFits, BotRuns, StartingLabels
  <2> QED
    BY <2>1, <2>2, <2>3, <2>4
<1>17. PlanFits'
  BY <1>1, <1>2 DEF PlanFits, InitFrame
<1>18. ServedFits'
  <2> SUFFICES ASSUME ~odd.overlap, ~odd.migrated
               PROVE  /\ \A y \in Actors \ {a} : ~BotRuns(y)' /\ init'[y].at \notin {"start", "setup", "identity"}
                      /\ NamedInit(a)' /\ bots'[bot'].creds = init'[a].creds /\ status' # "ready"
    BY <1>2 DEF ServedFits, InitFrame, Actors
  <2>1. status' # "ready"
    BY <1>2, <1>15
  <2>2. NamedInit(a)
    BY <1>1, <1>14 DEF ServedFits, Actors
  <2>3. NamedInit(a)'
    BY <1>2, <1>5, <1>7, <2>2 DEF NamedInit, Bot!Enabled, Bot!Creds, InitFrame
  <2>4. bots'[bot'].creds = init'[a].creds
    BY <1>2, <1>5, <1>7, <1>8, <1>9
  <2>5. \A y \in Actors \ {a} : ~BotRuns(y)' /\ init'[y].at \notin {"start", "setup", "identity"}
    BY <1>7, <1>15 DEF BotRuns, StartingLabels
  <2> QED
    BY <2>1, <2>3, <2>4, <2>5
<1> QED
  BY <1>11, <1>12, <1>13, <1>16, <1>17, <1>18 DEF BotInv

LEMMA StartedKeeps ==
  ASSUME BotInv, NEW a \in Actors, Bot!Start(a, TRUE)
  PROVE  BotInv'
<1>1. /\ BotTypes /\ StartsFit /\ HandlersAreFew /\ AloneFits /\ PlanFits /\ ServedFits
  BY DEF BotInv
<1>2. /\ init[a].at = "start" /\ init' = [init EXCEPT ![a].at = "setup"] /\ InitFrame
      /\ bot' = bot /\ bots' = bots /\ status' = status
  BY DEF Bot!Start, Bot!At, Bot!laterVars, InitFrame
<1>3. /\ init' \in [Actors -> InitTypes] /\ init'[a].at = "setup" /\ init'[a].creds = init[a].creds
      /\ init'[a].bot = init[a].bot /\ \A y \in Actors \ {a} : init'[y] = init[y]
  BY <1>1, <1>2, InitAt DEF InitLabels
<1>4. BotTypes'
  BY <1>1, <1>2, <1>3 DEF BotTypes, InitFrame, Actors
<1>5. StartsFit' /\ HandlersAreFew' /\ PlanFits'
  BY <1>1, <1>2, <1>3 DEF StartsFit, HandlersAreFew, EarlyBoot, EarlyOp, Emptied, PlanFits, InitFrame, Actors
<1>6. AloneFits'
  <2>1. ~odd.overlap => ClientFits' /\ StepFits'
    BY <1>1, <1>2, <1>3 DEF AloneFits, ClientFits, StepFits, InitFrame, Emptied, Actors
  <2>2. ASSUME ~odd.overlap, NEW y \in Actors  PROVE InitFits(y)'
    BY <1>1, <1>2, <1>3, <2>2 DEF AloneFits, InitFits, InitFrame, BotRuns, StartingLabels, Actors
  <2> QED
    BY <1>2, <2>1, <2>2 DEF AloneFits, InitFrame, Actors
<1>7. ServedFits'
  BY <1>1, <1>2, <1>3 DEF ServedFits, NamedInit, NamedBot, Bot!Enabled, Bot!Creds, InitFrame, BotRuns, StartingLabels, Actors
<1> QED
  BY <1>4, <1>5, <1>6, <1>7 DEF BotInv

LEMMA SetUpKeeps ==
  ASSUME BotInv, NEW a \in Actors, Bot!SetUp(a)
  PROVE  BotInv'
<1>1. /\ BotTypes /\ StartsFit /\ HandlersAreFew /\ AloneFits /\ PlanFits /\ ServedFits
  BY DEF BotInv
<1>2. init[a].at = "setup" /\ InitFrame
  BY DEF Bot!SetUp, Bot!laterVars, InitFrame
<1>3. CASE bot = 0
  <2>1. Bot!Fail(a)
    BY <1>3 DEF Bot!SetUp, Bot!None
  <2> QED
    BY <1>2, <2>1, FailKeeps
<1>4. CASE bot # 0
  <2> DEFINE new == [bots[bot] EXCEPT !.handlers = bots[bot].handlers + 1]
  <2>1. /\ init' = [init EXCEPT ![a].at = "identity"] /\ bot' = bot /\ status' = status
        /\ bots' = [bots EXCEPT ![bot].handlers = bots[bot].handlers + 1]
    BY <1>4 DEF Bot!SetUp, Bot!None, Bot!At
  <2>2. bot \in DOMAIN bots /\ bots \in [DOMAIN bots -> BotClientTypes]
    BY <1>1, <1>4 DEF BotTypes
  <2>3. bots' = [bots EXCEPT ![bot] = new]
    BY <2>1, <2>2
  <2>4. /\ new \in BotClientTypes /\ new.handlers = bots[bot].handlers + 1 /\ bots[bot].handlers \in Nat
        /\ new.creds = bots[bot].creds /\ new.up = bots[bot].up
    BY <2>2 DEF BotClientTypes
  <2> HIDE DEF new
  <2>5. /\ DOMAIN bots' = DOMAIN bots /\ bots' \in [DOMAIN bots -> BotClientTypes] /\ bots'[bot] = new
        /\ \A b \in DOMAIN bots \ {bot} : bots'[b] = bots[b]
    BY <2>2, <2>3, <2>4
  <2>6. /\ init' \in [Actors -> InitTypes] /\ init'[a].at = "identity" /\ init'[a].creds = init[a].creds
        /\ init'[a].bot = init[a].bot /\ \A y \in Actors \ {a} : init'[y] = init[y]
    BY <1>1, <2>1, InitAt DEF InitLabels
  <2>7. BotTypes'
    BY <1>1, <1>2, <2>1, <2>5, <2>6 DEF BotTypes, InitFrame, Actors
  <2>8. StartsFit' /\ PlanFits'
    BY <1>1, <1>2, <2>1, <2>6 DEF StartsFit, PlanFits, InitFrame, Actors
  <2>9. HandlersAreFew'
    <3>1. bots[bot].handlers <= 1 /\ (EarlyBoot /\ EarlyOp => bots[bot].handlers = 0)
      BY <1>1, <1>2, <1>4 DEF HandlersAreFew, EarlyBoot, EarlyOp, Actors
    <3>2. a = "boot" => ~EarlyBoot'
      BY <2>6 DEF EarlyBoot
    <3>3. a = "op" => ~EarlyOp'
      BY <1>1, <1>2, <2>6 DEF EarlyOp, Emptied, InitFrame, StartsFit
    <3>4. a = "boot" => EarlyBoot /\ (EarlyOp' => EarlyOp)
      BY <1>2, <2>6 DEF EarlyBoot, EarlyOp, Emptied, InitFrame, Actors
    <3>5. a = "op" => EarlyOp /\ (EarlyBoot' => EarlyBoot)
      BY <1>2, <2>6 DEF EarlyBoot, EarlyOp, Actors
    <3>6. \A b \in DOMAIN bots : bots[b].handlers <= 2
      BY <1>1 DEF HandlersAreFew
    <3>7. a \in {"boot", "op"}
      BY DEF Actors
    <3> QED
      BY <2>1, <2>4, <2>5, <3>1, <3>2, <3>3, <3>4, <3>5, <3>6, <3>7 DEF HandlersAreFew
  <2>10. AloneFits'
    <3> SUFFICES ASSUME ~odd.overlap  PROVE ClientFits' /\ StepFits' /\ \A y \in Actors : InitFits(y)'
      BY <1>2 DEF AloneFits, InitFrame, Actors
    <3>1. BotRuns(a)
      BY <1>2 DEF BotRuns, StartingLabels
    <3>2. /\ \A y \in Actors \ {a} : ~BotRuns(y)
          /\ ~Emptied /\ botOp.at \notin {"stopping", "stopping again"}
          /\ workers = 0 /\ status # "ready"
      BY <1>1, <3>1, OnlyOne
    <3>3. init[a].bot = bot /\ bots[bot].handlers = 0
      BY <1>1, <1>2 DEF AloneFits, InitFits, Actors
    <3>4. ClientFits'
      BY <1>1, <1>2, <2>1, <2>4, <2>5, <3>3 DEF AloneFits, ClientFits, InitFrame
    <3>5. StepFits'
      BY <1>1, <1>2, <2>1, <2>6, <3>2 DEF AloneFits, StepFits, InitFrame, Emptied, Actors
    <3>6. InitFits(a)'
      BY <1>2, <1>4, <2>1, <2>6, <3>2, <3>3 DEF InitFits, InitFrame
    <3>7. \A y \in Actors \ {a} : InitFits(y)'
      BY <2>6, <3>2 DEF InitFits, BotRuns, StartingLabels
    <3> QED
      BY <3>4, <3>5, <3>6, <3>7
  <2>11. ServedFits'
    <3> SUFFICES ASSUME ~odd.overlap, ~odd.migrated
                 PROVE  /\ \A y \in Actors :
                              /\ BotRuns(y)' => NamedInit(y)'
                              /\ init'[y].at \in {"start", "setup", "identity"} => bots'[bot'].creds = init'[y].creds
                        /\ status = "ready" /\ botOp.at \in {"idle", "starting", "starting again", "done", "failed"} =>
                              bot' # 0 /\ NamedBot'
      BY <1>2, <2>1 DEF ServedFits, InitFrame, Actors
    <3>1. bots'[bot'].creds = bots[bot].creds
      BY <2>1, <2>4, <2>5
    <3>2. \A y \in Actors : init'[y].creds = init[y].creds
      BY <2>6
    <3>3. /\ \A y \in Actors : BotRuns(y)' => BotRuns(y)
          /\ \A y \in Actors : init'[y].at \in {"start", "setup", "identity"} =>
                init[y].at \in {"start", "setup", "identity"}
      BY <1>2, <2>6 DEF BotRuns, StartingLabels
    <3>4. \A y \in Actors : BotRuns(y) => NamedInit(y)
      BY <1>1 DEF ServedFits, Actors
    <3>5. \A y \in Actors : init[y].at \in {"start", "setup", "identity"} => bots[bot].creds = init[y].creds
      BY <1>1 DEF ServedFits, Actors
    <3>6. \A y \in Actors : NamedInit(y) => NamedInit(y)'
      BY <1>2, <3>2 DEF NamedInit, Bot!Enabled, Bot!Creds, InitFrame
    <3>7. ASSUME status = "ready", botOp.at \in {"idle", "starting", "starting again", "done", "failed"}
          PROVE  bot' # 0 /\ NamedBot'
      <4>1. bot # 0 /\ NamedBot
        BY <1>1, <3>7 DEF ServedFits
      <4> QED
        BY <1>2, <2>1, <3>1, <4>1 DEF NamedBot, Bot!Enabled, Bot!Creds, InitFrame
    <3> QED
      BY <3>1, <3>2, <3>3, <3>4, <3>5, <3>6, <3>7
  <2> QED
    BY <2>7, <2>8, <2>9, <2>10, <2>11 DEF BotInv
<1> QED
  BY <1>3, <1>4

LEMMA IdentifyKeeps ==
  ASSUME BotInv, NEW a \in Actors, Bot!Identify(a)
  PROVE  BotInv'
<1>1. /\ BotTypes /\ StartsFit /\ HandlersAreFew /\ AloneFits /\ PlanFits /\ ServedFits
  BY DEF BotInv
<1>2. init[a].at = "identity" /\ InitFrame
  BY DEF Bot!Identify, Bot!laterVars, InitFrame
<1>3. CASE bot = 0
  <2>1. Bot!Fail(a)
    BY <1>3 DEF Bot!Identify, Bot!None
  <2> QED
    BY <1>2, <2>1, FailKeeps
<1>4. CASE bot # 0
  <2>1. /\ init' = [init EXCEPT ![a].at = "ready"] /\ bot' = bot /\ status' = "ready" /\ bots' = bots
    BY <1>4 DEF Bot!Identify, Bot!None, Bot!At
  <2>2. /\ init' \in [Actors -> InitTypes] /\ init'[a].at = "ready"
        /\ \A y \in Actors \ {a} : init'[y] = init[y]
    BY <1>1, <2>1, InitAt DEF InitLabels
  <2>3. BotTypes'
    BY <1>1, <1>2, <2>1, <2>2 DEF BotTypes, InitFrame, Actors
  <2>4. HandlersAreFew' /\ PlanFits'
    BY <1>1, <1>2, <2>1, <2>2 DEF HandlersAreFew, EarlyBoot, EarlyOp, Emptied, PlanFits, InitFrame, Actors
  <2>5. StartsFit'
    <3>1. BotRuns(a)
      BY <1>2 DEF BotRuns, StartingLabels
    <3>2. init["boot"].at # "begin"
      BY <1>1, <1>2, <1>4 DEF StartsFit, Actors
    <3> QED
      BY <1>1, <1>2, <2>1, <2>2, <3>2 DEF StartsFit, InitFrame, Actors
  <2>6. BotRuns(a)
    BY <1>2 DEF BotRuns, StartingLabels
  <2>7. AloneFits'
    <3> SUFFICES ASSUME ~odd.overlap  PROVE ClientFits' /\ StepFits' /\ \A y \in Actors : InitFits(y)'
      BY <1>2 DEF AloneFits, InitFrame, Actors
    <3>1. /\ \A y \in Actors \ {a} : ~BotRuns(y)
          /\ ~Emptied /\ botOp.at \notin {"stopping", "stopping again"}
      BY <1>1, <2>6, OnlyOne
    <3>2. ClientFits' /\ StepFits'
      BY <1>1, <1>2, <2>1, <2>2, <3>1 DEF AloneFits, ClientFits, StepFits, InitFrame, Emptied, Actors
    <3>3. \A y \in Actors : InitFits(y)'
      BY <2>2, <3>1 DEF InitFits, BotRuns, StartingLabels
    <3> QED
      BY <3>2, <3>3
  <2>8. ServedFits'
    <3> SUFFICES ASSUME ~odd.overlap, ~odd.migrated
                 PROVE  /\ \A y \in Actors : ~BotRuns(y)' /\ init'[y].at \notin {"start", "setup", "identity"}
                        /\ bot' # 0 /\ NamedBot
      BY <1>2, <2>1 DEF ServedFits, NamedInit, NamedBot, Bot!Enabled, Bot!Creds, InitFrame, Actors
    <3>1. \A y \in Actors \ {a} : ~BotRuns(y)
      BY <1>1, <2>6, OnlyOne
    <3>2. NamedInit(a) /\ bots[bot].creds = init[a].creds
      BY <1>1, <1>2, <2>6 DEF ServedFits, Actors
    <3> QED
      BY <1>4, <2>1, <2>2, <3>1, <3>2 DEF BotRuns, StartingLabels, NamedInit, NamedBot
  <2> QED
    BY <2>3, <2>4, <2>5, <2>7, <2>8 DEF BotInv
<1> QED
  BY <1>3, <1>4

LEMMA StartFailedKeeps ==
  ASSUME BotInv, NEW a \in Actors, Bot!Start(a, FALSE)
  PROVE  BotInv'
<1>1. init[a].at = "start" /\ Bot!Fail(a) /\ InitFrame
  BY DEF Bot!Start, Bot!laterVars, InitFrame
<1> QED
  BY <1>1, FailKeeps

LEMMA CredsAre ==
  ASSUME Bot!BotAssumption, BotTypes
  PROVE  Bot!Creds(config) \in Nat /\ Bot!Creds(config) \in {0, 1} \cup WebCreds /\ config.web \in Nat
<1>1. \A w \in WebCreds : w \in Nat
  BY DEF Bot!BotAssumption
<1>2. config.web \in {0, 1} \cup WebCreds
  BY DEF BotTypes, Settings
<1>3. Bot!Creds(config) = config.web \/ Bot!Creds(config) = 1 \/ Bot!Creds(config) = 0
  BY DEF Bot!Creds
<1> DEFINE c == Bot!Creds(config)
<1>4. config.web \in Nat
  BY <1>1, <1>2
<1>5. c = config.web \/ c = 1 \/ c = 0
  BY <1>3
<1> HIDE DEF c
<1>6. c \in Nat /\ c \in {0, 1} \cup WebCreds
  BY <1>2, <1>4, <1>5
<1> QED
  BY <1>4, <1>6 DEF c

LEMMA NoInitIs ==
  /\ Bot!NoInit \in InitTypes /\ Bot!NoInit.at = "idle"
  /\ Bot!NoResume \in LaterTypes
BY DEF Bot!NoInit, InitTypes, Bot!NoResume, LaterTypes

LEMMA ScheduledIs ==
  ASSUME BotTypes, NEW b \in BOOLEAN
  PROVE  /\ Bot!Scheduled(b) \in LaterTypes
         /\ [resume EXCEPT !.current = FALSE] \in LaterTypes
         /\ [timer EXCEPT !.at = "accounts"] \in LaterTypes
<1>1. bot \in Nat
  BY DEF BotTypes
<1>2. Bot!Scheduled(b) \in LaterTypes
  BY <1>1 DEF Bot!Scheduled, LaterTypes
<1> QED
  BY <1>2 DEF BotTypes, LaterTypes

\* The start of the server.
LEMMA BootKeeps ==
  ASSUME Bot!BotAssumption, BotInv, Bot!Boot
  PROVE  BotInv'
<1>1. /\ BotTypes /\ StartsFit /\ HandlersAreFew /\ AloneFits /\ PlanFits /\ ServedFits
  BY DEF BotInv
<1>2. /\ init["boot"].at = "begin" /\ config' = config /\ bot' = bot /\ bots' = bots /\ botOp' = botOp
      /\ timer' = timer /\ resume' = resume /\ workers' = workers /\ odd' = odd
  BY DEF Bot!Boot
<1>3. /\ bot = 0 /\ workers = 0 /\ status # "ready" /\ botOp.at = "idle" /\ init["op"].at = "idle"
  BY <1>1, <1>2 DEF StartsFit
<1>4. "boot" \in Actors /\ "op" \in Actors /\ init \in [Actors -> InitTypes]
  BY <1>1 DEF Actors, BotTypes
<1>5. ASSUME init' \in [Actors -> InitTypes], init'["op"] = init["op"], status' # "ready", restored' \in BOOLEAN,
             status' \in {"not_configured", "starting", "ready", "error"},
             \/ init'["boot"].at = "storage" /\ NamedInit("boot")'
             \/ init'["boot"].at = "over"
      PROVE  BotInv'
  <2>1. BotTypes'
    BY <1>1, <1>2, <1>5 DEF BotTypes, Actors
  <2>2. StartsFit' /\ HandlersAreFew' /\ PlanFits'
    BY <1>1, <1>2, <1>3, <1>5 DEF StartsFit, HandlersAreFew, PlanFits
  <2>3. AloneFits'
    BY <1>1, <1>2, <1>3, <1>5 DEF AloneFits, ClientFits, StepFits, InitFits, Emptied, BotRuns, StartingLabels
  <2>4. ServedFits'
    BY <1>2, <1>3, <1>5 DEF ServedFits, BotRuns, StartingLabels
  <2> QED
    BY <2>1, <2>2, <2>3, <2>4 DEF BotInv
<1>6. CASE Bot!Enabled(config)
  <2> DEFINE v == [Bot!NoInit EXCEPT !.at = "storage", !.creds = Bot!Creds(config)]
  <2>1. init' = [init EXCEPT !["boot"] = v] /\ status' = "starting" /\ restored' = restored
    BY <1>6 DEF Bot!Boot
  <2>2. v \in InitTypes /\ v.at = "storage" /\ v.creds = Bot!Creds(config)
    BY <1>1, NoInitIs, CredsAre DEF InitTypes
  <2> HIDE DEF v
  <2>3. init' \in [Actors -> InitTypes] /\ init'["boot"] = v /\ init'["op"] = init["op"]
    BY <1>4, <2>1, <2>2
  <2>4. NamedInit("boot")'
    BY <1>2, <1>6, <2>2, <2>3 DEF NamedInit, Bot!Enabled, Bot!Creds
  <2> QED
    BY <1>1, <1>5, <2>1, <2>2, <2>3, <2>4 DEF BotTypes
<1>7. CASE ~Bot!Enabled(config)
  <2>1. init' = [init EXCEPT !["boot"].at = "over"] /\ status' = status /\ restored' = TRUE
    BY <1>7 DEF Bot!Boot, Bot!At
  <2>2. init' \in [Actors -> InitTypes] /\ init'["boot"].at = "over" /\ init'["op"] = init["op"]
    BY <1>1, <1>4, <2>1, InitAt DEF InitLabels, Actors
  <2> QED
    BY <1>1, <1>3, <1>5, <2>1, <2>2 DEF BotTypes
<1> QED
  BY <1>6, <1>7

\* Steps of accounts and workers, and the end of a start: clients, operation and
\* settings stay.
LaterFrame ==
    /\ config' = config /\ bot' = bot /\ bots' = bots /\ status' = status /\ botOp' = botOp /\ odd' = odd
LEMMA LaterKeeps ==
  ASSUME BotInv, LaterFrame, init' \in [Actors -> InitTypes], init'["op"] = init["op"],
         init' = init \/ (init["boot"].at \in {"ready", "failed"} /\ init'["boot"].at = "over"),
         timer' \in LaterTypes, resume' \in LaterTypes, restored' \in BOOLEAN,
         workers' = workers \/ (workers' = bot /\ bot # 0 /\ status = "ready")
  PROVE  BotInv'
<1>1. /\ BotTypes /\ StartsFit /\ HandlersAreFew /\ AloneFits /\ PlanFits /\ ServedFits
  BY DEF BotInv
<1>2. BotTypes'
  BY <1>1 DEF BotTypes, LaterFrame, Actors
<1>3. HandlersAreFew' /\ PlanFits'
  BY <1>1 DEF HandlersAreFew, EarlyBoot, EarlyOp, Emptied, PlanFits, LaterFrame
<1>4. StartsFit'
  BY <1>1 DEF StartsFit, LaterFrame
<1>5. AloneFits'
  BY <1>1 DEF AloneFits, ClientFits, StepFits, InitFits, Emptied, BotRuns, StartingLabels, LaterFrame
<1>6. ServedFits'
  BY <1>1 DEF ServedFits, NamedInit, NamedBot, Bot!Enabled, Bot!Creds, BotRuns, StartingLabels, LaterFrame
<1> QED
  BY <1>2, <1>3, <1>4, <1>5, <1>6 DEF BotInv

LEMMA BootEndsKeeps ==
  ASSUME BotInv, Bot!BootEnds
  PROVE  BotInv'
<1>1. /\ LaterFrame /\ workers' = workers /\ init["boot"].at \in {"ready", "failed"}
      /\ init' = [init EXCEPT !["boot"].at = "over"]
  BY DEF Bot!BootEnds, Bot!At, LaterFrame
<1>2. BotTypes
  BY DEF BotInv
<1>3. init' \in [Actors -> InitTypes] /\ init'["boot"].at = "over" /\ init'["op"] = init["op"]
  BY <1>1, <1>2, InitAt DEF InitLabels, Actors
<1>4. timer' \in LaterTypes /\ resume' \in LaterTypes
  <2>1. \/ timer' = timer /\ resume' = resume
        \/ timer' = Bot!Scheduled(TRUE) /\ resume' = [resume EXCEPT !.current = FALSE]
    BY DEF Bot!BootEnds
  <2> QED
    BY <1>2, <2>1, ScheduledIs DEF BotTypes
<1>5. restored' \in BOOLEAN
  <2> DEFINE b == restored \/ ~Required
  <2>1. b \in BOOLEAN
    BY Zenon
  <2>2. restored' = restored \/ restored' = b
    BY Zenon DEF Bot!BootEnds
  <2> HIDE DEF b
  <2> QED
    BY <1>2, <2>1, <2>2 DEF BotTypes
<1> QED
  BY <1>1, <1>3, <1>4, <1>5, LaterKeeps

LEMMA FireKeeps ==
  ASSUME BotInv, Bot!Fire
  PROVE  BotInv'
<1>1. /\ LaterFrame /\ workers' = workers /\ init' = init /\ restored' = restored
      /\ resume' = [timer EXCEPT !.at = "accounts"] /\ timer' = Bot!NoResume
  BY DEF Bot!Fire, LaterFrame
<1>2. BotTypes
  BY DEF BotInv
<1>3. timer' \in LaterTypes /\ resume' \in LaterTypes
  BY <1>1, <1>2, NoInitIs, ScheduledIs
<1> QED
  BY <1>1, <1>2, <1>3, LaterKeeps DEF BotTypes, Actors

LEMMA ResumeKeeps ==
  ASSUME BotInv, Bot!Resume
  PROVE  BotInv'
<1>1. LaterFrame /\ init' = init /\ resume' = Bot!NoResume /\ timer' = timer
  BY DEF Bot!Resume, LaterFrame
<1>2. BotTypes
  BY DEF BotInv
<1>3. workers' = workers \/ (workers' = bot /\ bot # 0 /\ status = "ready")
  BY DEF Bot!Resume, Bot!StillCurrent, Bot!None
<1>4. restored' \in BOOLEAN
  <2> DEFINE b == restored \/ resume.accounts
  <2>1. b \in BOOLEAN
    BY Zenon
  <2>2. restored' = b
    BY Zenon DEF Bot!Resume
  <2> HIDE DEF b
  <2> QED
    BY <2>1, <2>2
<1> QED
  BY <1>1, <1>2, <1>3, <1>4, NoInitIs, LaterKeeps DEF BotTypes, Actors

\* Steps of an operation that turn neither client nor initialisation.
OpFrame == bot' = bot /\ bots' = bots /\ status' = status /\ init' = init /\ workers' = workers
LEMMA OpStepKeeps ==
  ASSUME BotInv, OpFrame, botOp' \in BotOpTypes, config' \in Settings, timer' \in LaterTypes,
         resume' \in LaterTypes, restored' = restored, odd' \in OddTypes,
         odd.overlap => odd'.overlap, odd'.migrated = odd.migrated,
         botOp.at \notin {"starting", "starting again"}, botOp'.at \notin {"starting", "starting again"},
         Emptied' => Emptied,
         init["boot"].at = "begin" => botOp'.at = "idle",
         botOp.at = "idle" => config' = config /\ (odd'.overlap \/ ~BotRuns("boot")),
         botOp'.at \in {"stopping", "stopping again"} => botOp'.bot = bot,
         botOp'.at \in {"idle", "done", "failed"} =>
            /\ botOp.at \in {"idle", "done", "failed", "delete"}
            /\ config' = config \/ botOp.at = "delete",
         PlanFits'
  PROVE  BotInv'
<1>1. /\ BotTypes /\ StartsFit /\ HandlersAreFew /\ AloneFits /\ ServedFits
  BY DEF BotInv
<1>2. BotTypes'
  BY <1>1 DEF BotTypes, OpFrame
<1>3. StartsFit'
  BY <1>1 DEF StartsFit, OpFrame
<1>4. HandlersAreFew'
  BY <1>1 DEF HandlersAreFew, EarlyBoot, EarlyOp, OpFrame
<1>5. init["boot"].at \in InitLabels \ {"idle"} /\ init["op"].at = "idle"
  BY <1>1 DEF BotTypes, InitTypes, InitLabels, StartsFit
<1>6. AloneFits'
  <2> SUFFICES ASSUME ~odd'.overlap  PROVE ClientFits' /\ StepFits' /\ \A a \in Actors : InitFits(a)'
    BY DEF AloneFits, Actors
  <2>1. ClientFits /\ StepFits /\ \A a \in Actors : InitFits(a)
    BY <1>1 DEF AloneFits, Actors
  <2>2. ClientFits' /\ \A a \in Actors : InitFits(a)'
    BY <2>1 DEF ClientFits, InitFits, BotRuns, OpFrame
  <2>3. StepFits'
    BY <1>5, <2>1 DEF StepFits, OpFrame, BotRuns, StartingLabels, InitLabels
  <2> QED
    BY <2>2, <2>3
<1>7. ServedFits'
  <2> SUFFICES ASSUME ~odd'.overlap, ~odd'.migrated
               PROVE  /\ \A a \in Actors :
                            /\ BotRuns(a)' => NamedInit(a)'
                            /\ init'[a].at \in {"start", "setup", "identity"} => bots'[bot'].creds = init'[a].creds
                      /\ status' = "ready" /\ botOp'.at \in {"idle", "starting", "starting again", "done", "failed"} =>
                            bot' # 0 /\ NamedBot'
    BY DEF ServedFits, Actors
  <2>1. ~odd.overlap /\ ~odd.migrated
    OBVIOUS
  <2>2. StepFits
    BY <1>1, <2>1 DEF AloneFits
  <2>3. ASSUME NEW a \in Actors, BotRuns(a)'
        PROVE  NamedInit(a)'
    <3>1. BotRuns(a) /\ a = "boot"
      BY <1>5, <2>3 DEF BotRuns, OpFrame, Actors, StartingLabels
    <3>2. botOp.at = "idle"
      BY <2>2, <3>1 DEF StepFits, BotRuns, StartingLabels
    <3>3. config' = config /\ NamedInit(a)
      BY <1>1, <2>1, <3>1, <3>2 DEF ServedFits
    <3> QED
      BY <3>3 DEF NamedInit, Bot!Enabled, Bot!Creds, OpFrame
  <2>4. ASSUME NEW a \in Actors, init'[a].at \in {"start", "setup", "identity"}
        PROVE  bots'[bot'].creds = init'[a].creds
    BY <1>1, <2>1, <2>4 DEF ServedFits, OpFrame, Actors
  <2>5. ASSUME status' = "ready", botOp'.at \in {"idle", "starting", "starting again", "done", "failed"}
        PROVE  bot' # 0 /\ NamedBot'
    <3>1. status = "ready" /\ botOp'.at \in {"idle", "done", "failed"}
      BY <2>5 DEF OpFrame
    <3>2. botOp.at # "delete"
      BY <2>2, <3>1 DEF StepFits, Emptied
    <3>3. botOp.at \in {"idle", "done", "failed"} /\ config' = config
      BY <3>1, <3>2
    <3>4. bot # 0 /\ NamedBot
      BY <1>1, <2>1, <3>1, <3>3 DEF ServedFits
    <3> QED
      BY <3>3, <3>4 DEF NamedBot, Bot!Enabled, Bot!Creds, OpFrame
  <2> QED
    BY <2>3, <2>4, <2>5
<1> QED
  BY <1>2, <1>3, <1>4, <1>6, <1>7 DEF BotInv

LEMMA BeginKeeps ==
  ASSUME Bot!BotAssumption, BotInv, NEW kind \in {"put", "put disabled", "migrate", "disable", "delete"},
         NEW creds \in {0, 1} \cup WebCreds, kind \in {"put", "migrate"} => creds # 0, Bot!Begin(kind, creds)
  PROVE  BotInv'
<1> DEFINE st == IF kind = "delete" THEN "stop" ELSE "save"
           v == [at |-> st, kind |-> kind, creds |-> creds, bot |-> 0, previous |-> config]
           b == Bot!Overlapping
<1>1. /\ BotTypes /\ PlanFits
  BY DEF BotInv
<1>2. /\ botOp.at = "idle" /\ init["boot"].at # "begin" /\ botOp' = v /\ odd' = [odd EXCEPT !.overlap = b]
      /\ config' = config /\ OpFrame /\ timer' = timer /\ resume' = resume /\ restored' = restored
  BY DEF Bot!Begin, Bot!laterVars, OpFrame
<1>3. b \in BOOLEAN
  BY Zenon DEF Bot!Overlapping
<1>4. ~b => ~odd.overlap /\ ~BotRuns("boot")
  BY DEF Bot!Overlapping, Bot!Running, BotRuns, StartingLabels
<1>5. st \in {"save", "stop"} /\ (st = "stop" => kind = "delete")
  OBVIOUS
<1> HIDE DEF st, b
<1>6. /\ v \in BotOpTypes /\ v.at = st /\ v.kind = kind /\ v.creds = creds
  BY <1>1, <1>5 DEF BotOpTypes, BotTypes
<1> HIDE DEF v
<1>7. odd' \in OddTypes /\ odd'.overlap = b /\ odd'.migrated = odd.migrated /\ odd'.kept = odd.kept
  BY <1>1, <1>2, <1>3, OddIs DEF BotTypes
<1>8. PlanFits'
  BY <1>1, <1>2, <1>5, <1>6, <1>7 DEF PlanFits
<1>9. ~Emptied' /\ botOp'.at \in {"save", "stop"}
  BY <1>2, <1>5, <1>6 DEF Emptied
<1>10. (odd.overlap => odd'.overlap) /\ (odd'.overlap \/ ~BotRuns("boot"))
  BY <1>3, <1>4, <1>7
<1>11. /\ botOp' \in BotOpTypes /\ config' \in Settings /\ timer' \in LaterTypes /\ resume' \in LaterTypes
  BY <1>1, <1>2, <1>6 DEF BotTypes
<1>12. /\ botOp.at = "idle" /\ config' = config /\ OpFrame /\ restored' = restored
       /\ init["boot"].at # "begin"
  BY <1>2
<1>13. odd' \in OddTypes /\ odd'.migrated = odd.migrated
  BY <1>7
<1> QED
  BY <1>8, <1>9, <1>10, <1>11, <1>12, <1>13, OpStepKeeps

LEMMA SettingsStep ==
  ASSUME Bot!BotAssumption, BotInv, Bot!Put \/ Bot!Migrate \/ Bot!Disable \/ Bot!Delete
  PROVE  BotInv'
<1>1. \A w \in WebCreds : w # 0
  BY DEF Bot!BotAssumption
<1>2. CASE Bot!Put
  <2>1. PICK c \in WebCreds, kind \in {"put", "put disabled"} : Bot!Begin(kind, c)
    BY <1>2 DEF Bot!Put
  <2>2. c \in {0, 1} \cup WebCreds /\ c # 0
    BY <1>1
  <2> QED
    BY <2>1, <2>2, BeginKeeps
<1>3. CASE Bot!Migrate
  <2>1. Bot!Begin("migrate", 1)
    BY <1>3, Zenon DEF Bot!Migrate
  <2>2. 1 \in {0, 1} \cup WebCreds /\ 1 # 0
    OBVIOUS
  <2> QED
    BY <2>1, <2>2, BeginKeeps
<1>4. CASE Bot!Disable
  <2>1. Bot!Begin("disable", 0)
    BY <1>4, Zenon DEF Bot!Disable
  <2> QED
    BY <2>1, BeginKeeps
<1>5. CASE Bot!Delete
  <2>1. Bot!Begin("delete", 0)
    BY <1>5, Zenon DEF Bot!Delete
  <2> QED
    BY <2>1, BeginKeeps
<1> QED
  BY <1>2, <1>3, <1>4, <1>5

LEMMA SaveConfigKeeps ==
  ASSUME BotInv, Bot!Save
  PROVE  BotInv'
<1> DEFINE e == botOp.kind # "put disabled"
           off == [config EXCEPT !.enabled = FALSE]
           new == [web |-> botOp.creds, enabled |-> e]
<1>1. /\ BotTypes /\ PlanFits /\ StartsFit
  BY DEF BotInv
<1>2. /\ botOp.at = "save" /\ botOp' = [botOp EXCEPT !.at = "stop"] /\ OpFrame
      /\ config' = IF botOp.kind = "disable" THEN off ELSE new
      /\ timer' = timer /\ resume' = resume /\ restored' = restored /\ odd' = odd
  BY DEF Bot!Save, Bot!To, Bot!laterVars, OpFrame
<1>3. e \in BOOLEAN
  BY Zenon
<1>4. botOp.kind \in {"put", "migrate"} => e
  OBVIOUS
<1> HIDE DEF e
<1>5. new \in Settings /\ off \in Settings /\ new.web = botOp.creds /\ new.enabled = e
  BY <1>1, <1>3 DEF Settings, BotTypes, BotOpTypes
<1> HIDE DEF new, off
<1>6. config' \in Settings /\ (botOp.kind \in {"put", "migrate"} => config'.web = botOp.creds /\ config'.enabled)
  BY <1>2, <1>3, <1>4, <1>5
<1>7. /\ botOp' \in BotOpTypes /\ botOp'.at = "stop" /\ botOp'.kind = botOp.kind
      /\ botOp'.creds = botOp.creds
  BY <1>1, <1>2, OpAt DEF BotTypes
<1>8. PlanFits'
  BY <1>1, <1>2, <1>6, <1>7 DEF PlanFits
<1>9. ~Emptied' /\ init["boot"].at # "begin"
  BY <1>1, <1>2, <1>7 DEF Emptied, StartsFit
<1> QED
  BY <1>1, <1>2, <1>6, <1>7, <1>8, <1>9, OpStepKeeps DEF BotTypes

LEMMA StopBeginKeeps ==
  ASSUME BotInv, Bot!StopBegin
  PROVE  BotInv'
<1> DEFINE st == IF botOp.at = "stop" THEN "stopping" ELSE "stopping again"
           w == [botOp EXCEPT !.at = st]
           v == [w EXCEPT !.bot = bot]
           b == odd.replaced \/ (timer.at = "set" /\ timer.accounts)
<1>1. /\ BotTypes /\ PlanFits /\ StartsFit
  BY DEF BotInv
<1>2. /\ botOp.at \in {"stop", "stop again"} /\ botOp' = v /\ OpFrame
      /\ odd' = [odd EXCEPT !.replaced = b]
      /\ config' = config /\ timer' = Bot!NoResume /\ resume' = [resume EXCEPT !.current = FALSE]
      /\ restored' = restored
  BY DEF Bot!StopBegin, Bot!Stopping, OpFrame
<1>3. b \in BOOLEAN
  BY Zenon
<1>4. /\ st \in {"stopping", "stopping again"} /\ (botOp.at = "stop" => st = "stopping")
      /\ (botOp.at = "stop again" => st = "stopping again")
  OBVIOUS
<1> HIDE DEF st, b
<1>5. /\ w \in BotOpTypes /\ w.at = st /\ w.kind = botOp.kind /\ w.creds = botOp.creds
      /\ w.previous = botOp.previous
  BY <1>1, <1>4 DEF BotTypes, BotOpTypes
<1> HIDE DEF w
<1>6. bot \in Nat
  BY <1>1 DEF BotTypes
<1>7. /\ v \in BotOpTypes /\ v.at = st /\ v.kind = botOp.kind /\ v.creds = botOp.creds
      /\ v.previous = botOp.previous /\ v.bot = bot
  BY <1>5, <1>6 DEF BotOpTypes
<1> HIDE DEF v
<1>8. odd' \in OddTypes /\ odd'.overlap = odd.overlap /\ odd'.migrated = odd.migrated /\ odd'.kept = odd.kept
  BY <1>1, <1>2, <1>3, OddIs DEF BotTypes
<1>9. PlanFits'
  BY <1>1, <1>2, <1>4, <1>7, <1>8 DEF PlanFits
<1>10. ~Emptied' /\ init["boot"].at # "begin" /\ timer' \in LaterTypes /\ resume' \in LaterTypes
  BY <1>1, <1>2, <1>4, <1>7, NoInitIs, ScheduledIs DEF Emptied, StartsFit
<1> QED
  BY <1>1, <1>2, <1>4, <1>7, <1>8, <1>9, <1>10, OpStepKeeps DEF BotTypes

LEMMA DeleteConfigKeeps ==
  ASSUME BotInv, Bot!DeleteConfig
  PROVE  BotInv'
<1> DEFINE st == IF HasEnvironment THEN "restart" ELSE "done"
           new == [web |-> 0, enabled |-> TRUE]
<1>1. /\ BotTypes /\ PlanFits /\ StartsFit
  BY DEF BotInv
<1>2. /\ botOp.at = "delete" /\ botOp' = [botOp EXCEPT !.at = st] /\ OpFrame /\ config' = new
      /\ timer' = timer /\ resume' = resume /\ restored' = restored /\ odd' = odd
  BY DEF Bot!DeleteConfig, Bot!To, Bot!laterVars, OpFrame
<1>3. st \in {"restart", "done"} /\ (st = "restart" => HasEnvironment)
  OBVIOUS
<1> HIDE DEF st
<1>4. new \in Settings /\ new.web = 0 /\ new.enabled
  BY DEF Settings
<1> HIDE DEF new
<1>5. /\ botOp' \in BotOpTypes /\ botOp'.at = st /\ botOp'.kind = botOp.kind
  BY <1>1, <1>2, <1>3, OpAt DEF BotTypes
<1>6. botOp.kind = "delete"
  BY <1>1, <1>2 DEF PlanFits
<1>7. PlanFits'
  BY <1>1, <1>2, <1>3, <1>4, <1>5, <1>6 DEF PlanFits
<1>8. Emptied /\ init["boot"].at # "begin"
  BY <1>1, <1>2 DEF Emptied, StartsFit
<1> QED
  BY <1>1, <1>2, <1>3, <1>4, <1>5, <1>7, <1>8, OpStepKeeps DEF BotTypes

LEMMA AnswerKeeps ==
  ASSUME BotInv, Bot!Answer
  PROVE  BotInv'
<1> DEFINE b == botOp.at = "failed" /\ botOp.kind # "delete" => config = botOp.previous
<1>1. /\ BotTypes /\ PlanFits /\ StartsFit
  BY DEF BotInv
<1>2. /\ botOp.at \in {"done", "failed"} /\ botOp' = Bot!NoOp /\ OpFrame /\ odd' = [odd EXCEPT !.kept = b]
      /\ config' = config /\ timer' = timer /\ resume' = resume /\ restored' = restored
  BY DEF Bot!Answer, Bot!laterVars, OpFrame
<1>3. b \in BOOLEAN
  BY Zenon
<1>4. b
  BY <1>1 DEF PlanFits
<1> HIDE DEF b
<1>5. odd' \in OddTypes /\ odd'.overlap = odd.overlap /\ odd'.migrated = odd.migrated /\ odd'.kept = b
  BY <1>1, <1>2, <1>3, OddIs DEF BotTypes
<1>6. Bot!NoOp \in BotOpTypes /\ Bot!NoOp.at = "idle"
  BY DEF Bot!NoOp, BotOpTypes, Settings
<1>7. PlanFits'
  BY <1>2, <1>4, <1>5, <1>6 DEF PlanFits
<1>8. ~Emptied'
  BY <1>2, <1>6 DEF Emptied
<1>9. /\ botOp' \in BotOpTypes /\ botOp'.at = "idle" /\ config' \in Settings
      /\ timer' \in LaterTypes /\ resume' \in LaterTypes
  BY <1>1, <1>2, <1>6 DEF BotTypes
<1>10. (odd.overlap => odd'.overlap) /\ odd'.migrated = odd.migrated /\ odd' \in OddTypes
  BY <1>5
<1> QED
  BY <1>2, <1>7, <1>8, <1>9, <1>10, OpStepKeeps

LEMMA StopEndKeeps ==
  ASSUME BotInv, Bot!StopEnd
  PROVE  BotInv'
<1> DEFINE st == Bot!After
<1>1. /\ BotTypes /\ StartsFit /\ HandlersAreFew /\ AloneFits /\ PlanFits
  BY DEF BotInv
<1>2. /\ botOp.at \in {"stopping", "stopping again"} /\ botOp' = [botOp EXCEPT !.at = st]
      /\ workers' = 0 /\ bot' = 0 /\ status' = "not_configured" /\ init' = init
      /\ config' = config /\ timer' = timer /\ resume' = resume /\ restored' = restored /\ odd' = odd
      /\ bots' = [b \in Bot!Ids |-> IF b = botOp.bot THEN [bots[b] EXCEPT !.up = FALSE] ELSE bots[b]]
  BY DEF Bot!StopEnd, Bot!StopWorkers, Bot!To, Bot!None
<1>3. /\ st \in {"restart", "delete", "done", "restart again", "failed"}
      /\ st = "restart" => botOp.at = "stopping" /\ botOp.kind \in {"put", "migrate"}
      /\ st = "delete" => botOp.kind = "delete"
      /\ st \in {"restart again", "failed"} => botOp.at = "stopping again"
  BY <1>2 DEF Bot!After
<1> HIDE DEF st
<1>4. /\ botOp' \in BotOpTypes /\ botOp'.at = st /\ botOp'.kind = botOp.kind
      /\ botOp'.creds = botOp.creds /\ botOp'.previous = botOp.previous
  BY <1>1, <1>2, <1>3, OpAt DEF BotTypes
<1>5. /\ DOMAIN bots' = DOMAIN bots /\ bots' \in [DOMAIN bots -> BotClientTypes]
      /\ \A b \in DOMAIN bots : /\ bots'[b].handlers = bots[b].handlers
                                /\ bots'[b].creds = bots[b].creds
                                /\ bots'[b].up => b # botOp.bot /\ bots[b].up
  BY <1>1, <1>2, DownIs
<1>6. BotTypes'
  BY <1>1, <1>2, <1>4, <1>5 DEF BotTypes
<1>7. StartsFit'
  BY <1>1, <1>2, <1>3, <1>4 DEF StartsFit
<1>8. HandlersAreFew'
  BY <1>1, <1>2, <1>5 DEF HandlersAreFew
<1>9. ASSUME ~odd.overlap
      PROVE  ClientFits' /\ StepFits' /\ \A a \in Actors : InitFits(a)' /\ ~BotRuns(a)'
  <2>1. ClientFits /\ StepFits
    BY <1>1, <1>9 DEF AloneFits
  <2>2. init["boot"].at \in {"ready", "failed", "over"} /\ init["op"].at = "idle" /\ botOp.bot = bot
    BY <1>1, <1>2, <2>1 DEF StepFits, StartsFit
  <2>3. ClientFits'
    BY <1>2, <1>5, <2>1, <2>2 DEF ClientFits
  <2>4. StepFits'
    BY <1>2, <1>3, <1>4, <2>2 DEF StepFits, Emptied
  <2>5. \A a \in Actors : init'[a].at \notin StartingLabels
    BY <1>2, <2>2 DEF Actors, StartingLabels
  <2>6. \A a \in Actors : InitFits(a)' /\ ~BotRuns(a)'
    BY <2>5 DEF InitFits, BotRuns, StartingLabels
  <2> QED
    BY <2>3, <2>4, <2>6
<1>10. AloneFits'
  BY <1>2, <1>9 DEF AloneFits, Actors
<1>11. PlanFits'
  BY <1>1, <1>2, <1>3, <1>4 DEF PlanFits
<1>12. ServedFits'
  BY <1>2, <1>9 DEF ServedFits, Actors, BotRuns, StartingLabels
<1> QED
  BY <1>6, <1>7, <1>8, <1>10, <1>11, <1>12 DEF BotInv

\* Credentials are numbers, and those of the environment are enabled with the settings.
LEMMA CredsAreNumbers ==
  ASSUME Bot!BotAssumption, NEW c \in {0, 1} \cup WebCreds
  PROVE  c \in Nat
<1>1. \A w \in WebCreds : w \in Nat
  BY DEF Bot!BotAssumption
<1> QED
  BY <1>1

LEMMA EnabledIs ==
  ASSUME NEW c, c.enabled, Bot!Creds(c) = 1
  PROVE  Bot!Enabled(c)
<1> DEFINE k == Bot!Creds(c)
<1>1. k = 1
  OBVIOUS
<1> HIDE DEF k
<1>2. k # 0
  BY <1>1
<1> QED
  BY <1>2, Zenon DEF Bot!Enabled, k

\* The bot starts with the credentials of the settings, unless a migration was rolled back.
LEMMA WantedIs ==
  ASSUME Bot!BotAssumption, BotInv, botOp.at \in {"restart", "restart again"}
  PROVE  /\ Bot!Wanted \in Nat
         /\ botOp.at = "restart" => Bot!Enabled(config) /\ Bot!Wanted = Bot!Creds(config)
<1>1. BotTypes /\ PlanFits
  BY DEF BotInv
<1>2. Bot!Creds(config) \in Nat /\ config.web \in Nat
  BY <1>1, CredsAre
<1>3. botOp.creds \in Nat
  <2>1. botOp.creds \in {0, 1} \cup WebCreds
    BY <1>1 DEF BotTypes, BotOpTypes
  <2> QED
    BY <2>1, CredsAreNumbers
<1>4. CASE botOp.at = "restart" /\ botOp.kind = "delete"
  <2>1. Bot!Wanted = Bot!Creds(config)
    BY <1>4 DEF Bot!Wanted
  <2>2. config.web = 0 /\ config.enabled /\ HasEnvironment
    BY <1>1, <1>4 DEF PlanFits
  <2>3. Bot!Creds(config) = 1
    BY <2>2 DEF Bot!Creds
  <2>5. Bot!Enabled(config)
    BY <2>2, <2>3, EnabledIs
  <2> QED
    BY <1>2, <2>1, <2>5
<1>5. CASE botOp.at = "restart" /\ botOp.kind # "delete"
  <2>1. Bot!Wanted = botOp.creds
    BY <1>5 DEF Bot!Wanted
  <2>2. config.web = botOp.creds /\ config.enabled /\ botOp.creds # 0
    BY <1>1, <1>5 DEF PlanFits
  <2>3. Bot!Creds(config) = botOp.creds
    BY <2>2 DEF Bot!Creds
  <2>4. Bot!Enabled(config)
    BY <2>2, <2>3 DEF Bot!Enabled
  <2> QED
    BY <1>3, <2>1, <2>3, <2>4
<1>6. CASE botOp.at = "restart again"
  <2>1. Bot!Wanted = botOp.creds \/ Bot!Wanted = Bot!Creds(config)
    BY <1>6 DEF Bot!Wanted
  <2> QED
    BY <1>2, <1>3, <1>6, <2>1
<1> QED
  BY <1>4, <1>5, <1>6

LEMMA RestartBotKeeps ==
  ASSUME Bot!BotAssumption, BotInv, Bot!Restart
  PROVE  BotInv'
<1> DEFINE c == Bot!Wanted
           v == [Bot!NoInit EXCEPT !.at = "storage", !.creds = c]
           st == IF botOp.at = "restart" THEN "starting" ELSE "starting again"
           b == Bot!Overlapping
           m == odd.migrated \/ (botOp.at = "restart again" /\ (~Bot!Enabled(config) \/ c # Bot!Creds(config)))
<1>1. /\ BotTypes /\ StartsFit /\ HandlersAreFew /\ AloneFits /\ PlanFits /\ ServedFits
  BY DEF BotInv
<1>2. /\ botOp.at \in {"restart", "restart again"} /\ init' = [init EXCEPT !["op"] = v]
      /\ status' = "starting" /\ botOp' = [botOp EXCEPT !.at = st]
      /\ config' = config /\ bot' = bot /\ bots' = bots /\ timer' = timer /\ resume' = resume
      /\ workers' = workers /\ restored' = restored
      /\ odd' = [odd EXCEPT !.overlap = b, !.migrated = m]
  BY DEF Bot!Restart, Bot!To, Bot!laterVars
<1>3. b \in BOOLEAN /\ (~b => ~odd.overlap /\ ~BotRuns("boot"))
  <2>1. b \in BOOLEAN
    BY Zenon DEF Bot!Overlapping
  <2>2. ~b => ~odd.overlap /\ ~BotRuns("boot")
    BY DEF Bot!Overlapping, Bot!Running, BotRuns, StartingLabels
  <2> QED
    BY <2>1, <2>2
<1>4. m \in BOOLEAN
  BY Zenon
<1>5. c \in Nat
  BY <1>2, WantedIs
<1>6. ~m => ~odd.migrated /\ Bot!Enabled(config) /\ c = Bot!Creds(config)
  <2>1. ~m => ~odd.migrated
    BY Zenon
  <2>2. CASE botOp.at = "restart"
    BY <2>1, <2>2, WantedIs
  <2>3. CASE botOp.at = "restart again"
    BY <2>1, <2>3
  <2> QED
    BY <1>2, <2>2, <2>3
<1>7. /\ st \in {"starting", "starting again"} /\ (st = "starting" <=> botOp.at = "restart")
  BY <1>2
<1> HIDE DEF st, b, m, c
<1>8. v \in InitTypes /\ v.at = "storage" /\ v.creds = c
  BY <1>5, NoInitIs DEF InitTypes
<1> HIDE DEF v
<1>9. init' \in [Actors -> InitTypes] /\ init'["op"] = v /\ init'["boot"] = init["boot"]
  BY <1>1, <1>2, <1>8 DEF BotTypes, Actors
<1>10. odd' \in OddTypes /\ odd'.overlap = b /\ odd'.migrated = m /\ odd'.kept = odd.kept
  <2>1. odd \in OddTypes
    BY <1>1 DEF BotTypes
  <2> QED
    BY <1>2, <1>3, <1>4, <2>1 DEF OddTypes
<1>11. /\ botOp' \in BotOpTypes /\ botOp'.at = st /\ botOp'.kind = botOp.kind
       /\ botOp'.creds = botOp.creds /\ botOp'.previous = botOp.previous
  BY <1>1, <1>2, <1>7, OpAt DEF BotTypes
<1>12. BotTypes'
  BY <1>1, <1>2, <1>9, <1>10, <1>11 DEF BotTypes, Actors
<1>13. StartsFit'
  BY <1>1, <1>2, <1>7, <1>8, <1>9, <1>11 DEF StartsFit
<1>14. HandlersAreFew'
  <2>1. EarlyOp /\ (EarlyBoot' <=> EarlyBoot)
    BY <1>2, <1>9 DEF EarlyOp, Emptied, EarlyBoot
  <2> QED
    BY <1>1, <1>2, <2>1 DEF HandlersAreFew
<1>15. ASSUME ~b
       PROVE  ClientFits' /\ StepFits' /\ \A a \in Actors : InitFits(a)'
  <2>1. ClientFits /\ StepFits /\ ~BotRuns("boot")
    BY <1>1, <1>3, <1>15 DEF AloneFits
  <2>2. /\ init["boot"].at \in {"ready", "failed", "over"} /\ bot = 0 /\ workers = 0
    BY <1>2, <2>1 DEF StepFits, Emptied
  <2>3. ClientFits'
    BY <1>2, <2>1 DEF ClientFits
  <2>4. StepFits'
    BY <1>7, <1>9, <1>11, <2>2 DEF StepFits, Emptied
  <2>5. InitFits("op")'
    BY <1>2, <1>8, <1>9, <2>2 DEF InitFits
  <2>6. InitFits("boot")'
    BY <1>9, <2>2 DEF InitFits, BotRuns, StartingLabels
  <2> QED
    BY <2>3, <2>4, <2>5, <2>6 DEF Actors
<1>16. AloneFits'
  BY <1>3, <1>10, <1>15 DEF AloneFits, Actors
<1>17. PlanFits'
  BY <1>1, <1>2, <1>7, <1>10, <1>11 DEF PlanFits
<1>18. ServedFits'
  <2> SUFFICES ASSUME ~b, ~m
               PROVE  /\ ~BotRuns("boot")' /\ init'["boot"].at \notin {"start", "setup", "identity"}
                      /\ NamedInit("op")' /\ init'["op"].at = "storage" /\ status' # "ready"
    BY <1>10 DEF ServedFits
  <2>1. ~BotRuns("boot")
    BY <1>3
  <2>2. NamedInit("op")'
    BY <1>2, <1>6, <1>8, <1>9 DEF NamedInit, Bot!Enabled, Bot!Creds
  <2> QED
    BY <1>2, <1>8, <1>9, <2>1, <2>2 DEF BotRuns, StartingLabels
<1> QED
  BY <1>12, <1>13, <1>14, <1>16, <1>17, <1>18 DEF BotInv

LEMMA RestartedKeeps ==
  ASSUME BotInv, Bot!Restarted
  PROVE  BotInv'
<1> DEFINE b == odd.replaced \/ (timer.at = "set" /\ timer.accounts)
<1>1. /\ BotTypes /\ StartsFit /\ HandlersAreFew /\ AloneFits /\ PlanFits /\ ServedFits
  BY DEF BotInv
<1>2. /\ botOp.at \in {"starting", "starting again"} /\ init["op"].at \in {"ready", "failed"}
      /\ init' = [init EXCEPT !["op"] = Bot!NoInit] /\ odd' = [odd EXCEPT !.replaced = b]
      /\ bot' = bot /\ bots' = bots /\ status' = status /\ workers' = workers /\ restored' = restored
  BY DEF Bot!Restarted
<1>3. b \in BOOLEAN
  BY Zenon
<1> HIDE DEF b
<1>4. odd' \in OddTypes /\ odd'.overlap = odd.overlap /\ odd'.migrated = odd.migrated /\ odd'.kept = odd.kept
  BY <1>1, <1>2, <1>3, OddIs DEF BotTypes
<1>5. timer' \in LaterTypes /\ resume' \in LaterTypes
  <2>1. \/ timer' = timer /\ resume' = resume
        \/ timer' = Bot!Scheduled(FALSE) /\ resume' = [resume EXCEPT !.current = FALSE]
    BY DEF Bot!Restarted
  <2> QED
    BY <1>1, <2>1, ScheduledIs DEF BotTypes
<1>6. \E st \in {"done", "failed", "stop again"} :
         /\ botOp' = [botOp EXCEPT !.at = st]
         /\ config' = IF st = "stop again" THEN botOp.previous ELSE config
         /\ st = "failed" => botOp.at = "starting again" \/ botOp.kind = "delete"
  BY <1>2 DEF Bot!Restarted, Bot!To, Bot!RolledBack
<1>7. PICK st \in {"done", "failed", "stop again"} :
         /\ botOp' = [botOp EXCEPT !.at = st]
         /\ config' = IF st = "stop again" THEN botOp.previous ELSE config
         /\ st = "failed" => botOp.at = "starting again" \/ botOp.kind = "delete"
  BY <1>6
<1>8. /\ botOp' \in BotOpTypes /\ botOp'.at = st /\ botOp'.kind = botOp.kind
      /\ botOp'.creds = botOp.creds /\ botOp'.previous = botOp.previous
  BY <1>1, <1>7, OpAt DEF BotTypes
<1>9. init' \in [Actors -> InitTypes] /\ init'["op"].at = "idle" /\ init'["boot"] = init["boot"]
  BY <1>1, <1>2, NoInitIs DEF BotTypes, Actors
<1>10. config' \in Settings
  BY <1>1, <1>7 DEF BotTypes, BotOpTypes
<1>11. BotTypes'
  BY <1>1, <1>2, <1>4, <1>5, <1>8, <1>9, <1>10 DEF BotTypes, Actors
<1>12. StartsFit'
  BY <1>1, <1>2, <1>8, <1>9 DEF StartsFit
<1>13. HandlersAreFew'
  <2>1. ~EarlyOp' /\ (EarlyBoot' <=> EarlyBoot)
    BY <1>8, <1>9 DEF EarlyOp, Emptied, EarlyBoot
  <2> QED
    BY <1>1, <1>2, <2>1 DEF HandlersAreFew
<1>14. ASSUME ~odd.overlap
       PROVE  /\ ClientFits' /\ StepFits'
              /\ \A a \in Actors : InitFits(a)' /\ ~BotRuns(a)'
  <2>1. ClientFits /\ StepFits
    BY <1>1, <1>14 DEF AloneFits
  <2>2. init["boot"].at \in {"ready", "failed", "over"}
    BY <1>2, <2>1 DEF StepFits
  <2>3. ClientFits' /\ StepFits'
    BY <1>2, <1>8, <1>9, <2>1, <2>2 DEF ClientFits, StepFits, Emptied
  <2>4. \A a \in Actors : init'[a].at \notin StartingLabels
    BY <1>9, <2>2 DEF Actors, StartingLabels
  <2>5. \A a \in Actors : InitFits(a)' /\ ~BotRuns(a)'
    BY <2>4 DEF InitFits, BotRuns, StartingLabels
  <2> QED
    BY <2>3, <2>5
<1>15. AloneFits'
  BY <1>4, <1>14 DEF AloneFits, Actors
<1>16. PlanFits'
  BY <1>1, <1>2, <1>4, <1>7, <1>8 DEF PlanFits
<1>17. ServedFits'
  <2> SUFFICES ASSUME ~odd.overlap, ~odd.migrated
               PROVE  /\ \A a \in Actors : ~BotRuns(a)' /\ init'[a].at \notin {"start", "setup", "identity"}
                      /\ status' = "ready" /\ st \in {"done", "failed"} => bot' # 0 /\ NamedBot'
    BY <1>4, <1>8 DEF ServedFits, Actors
  <2>1. \A a \in Actors : ~BotRuns(a)' /\ init'[a].at \notin {"start", "setup", "identity"}
    BY <1>14 DEF BotRuns, StartingLabels
  <2>2. ASSUME status' = "ready", st \in {"done", "failed"}
        PROVE  bot' # 0 /\ NamedBot'
    <3>1. config' = config /\ bot # 0 /\ NamedBot
      BY <1>1, <1>2, <1>7, <2>2 DEF ServedFits
    <3> QED
      BY <1>2, <3>1 DEF NamedBot, Bot!Enabled, Bot!Creds
  <2> QED
    BY <2>1, <2>2
<1> QED
  BY <1>11, <1>12, <1>13, <1>15, <1>16, <1>17 DEF BotInv

\* A server that starts: no client, no operation, and its initialisation is about to begin.
Fresh ==
    /\ bot = 0 /\ bots = << >> /\ status = "not_configured" /\ botOp = Bot!NoOp
    /\ init = [a \in Bot!Actors |-> IF a = "boot" THEN [Bot!NoInit EXCEPT !.at = "begin"] ELSE Bot!NoInit]
    /\ timer = Bot!NoResume /\ resume = Bot!NoResume /\ workers = 0 /\ restored = FALSE
    /\ odd = [overlap |-> FALSE, migrated |-> FALSE, replaced |-> FALSE, kept |-> TRUE]

LEMMA NoOpIs == Bot!NoOp \in BotOpTypes /\ Bot!NoOp.at = "idle" /\ Bot!NoOp.kind = "none"
BY DEF Bot!NoOp, BotOpTypes, Settings

LEMMA FreshFits ==
  ASSUME Fresh, config \in Settings
  PROVE  BotInv
<1> DEFINE v == [Bot!NoInit EXCEPT !.at = "begin"]
<1>1. v \in InitTypes /\ v.at = "begin" /\ Bot!NoInit \in InitTypes /\ Bot!NoInit.at = "idle"
  BY DEF Bot!NoInit, InitTypes
<1> HIDE DEF v
<1>2. init = [a \in Actors |-> IF a = "boot" THEN v ELSE Bot!NoInit]
  BY DEF Fresh, Bot!Actors, Actors, v
<1>3. /\ init \in [Actors -> InitTypes] /\ init["boot"].at = "begin" /\ init["op"].at = "idle"
  BY <1>1, <1>2 DEF Actors
<1>4. DOMAIN bots = {} /\ IsFiniteSet(DOMAIN bots) /\ bots \in [DOMAIN bots -> BotClientTypes]
  <2>1. DOMAIN bots = {} /\ bots = [b \in DOMAIN bots |-> bots[b]]
    BY DEF Fresh
  <2> QED
    BY <2>1, FS_EmptySet
<1>5. odd \in OddTypes /\ ~odd.overlap /\ ~odd.migrated /\ odd.kept
  BY DEF Fresh, OddTypes
<1>6. botOp \in BotOpTypes /\ botOp.at = "idle" /\ timer \in LaterTypes /\ resume \in LaterTypes
  BY NoOpIs, NoInitIs DEF Fresh
<1>7. bot = 0 /\ status = "not_configured" /\ workers = 0 /\ restored = FALSE
  BY DEF Fresh
<1>8. BotTypes
  BY <1>3, <1>4, <1>5, <1>6, <1>7 DEF BotTypes, Actors
<1>9. StartsFit /\ HandlersAreFew /\ PlanFits
  BY <1>3, <1>4, <1>5, <1>6, <1>7 DEF StartsFit, HandlersAreFew, PlanFits
<1>10. AloneFits
  BY <1>3, <1>4, <1>6, <1>7
     DEF AloneFits, ClientFits, StepFits, InitFits, Emptied, BotRuns, StartingLabels
<1>11. ServedFits
  BY <1>3, <1>7 DEF ServedFits, BotRuns, StartingLabels
<1> QED
  BY <1>8, <1>9, <1>10, <1>11 DEF BotInv

LEMMA BotStarts ==
  Bot!BotAssumption /\ Bot!Init => BotInv
<1> SUFFICES ASSUME Bot!Init  PROVE BotInv
  OBVIOUS
<1>1. Fresh /\ config \in Settings
  BY DEF Bot!Init, Fresh, Settings, Bot!None
<1> QED
  BY <1>1, FreshFits

LEMMA FreshLater == (Fresh /\ config \in Settings)' => BotInv'
<1>1. Fresh /\ config \in Settings => BotInv
  BY FreshFits
<1> QED
  BY <1>1, PTL

LEMMA CrashKeeps ==
  ASSUME BotInv, Bot!Crash
  PROVE  BotInv'
<1>1. Fresh' /\ config' \in Settings
  BY DEF Bot!Crash, Fresh, BotInv, BotTypes, Bot!None
<1> QED
  BY <1>1, FreshLater

LEMMA BotStep ==
  Bot!BotAssumption /\ BotInv /\ [Bot!Next]_(Bot!vars) => BotInv'
<1> SUFFICES ASSUME Bot!BotAssumption, BotInv, [Bot!Next]_(Bot!vars)  PROVE BotInv'
  OBVIOUS
<1>1. CASE \E a \in Bot!Actors : Bot!InitStep(a)
  <2>1. PICK a \in Actors : Bot!InitStep(a)
    BY <1>1 DEF Bot!Actors, Actors
  <2> QED
    BY <2>1, CreateKeeps, StartedKeeps, StartFailedKeeps, SetUpKeeps, IdentifyKeeps DEF Bot!InitStep
<1>2. CASE Bot!Boot \/ Bot!BootEnds
  BY <1>2, BootKeeps, BootEndsKeeps
<1>3. CASE Bot!Put \/ Bot!Migrate \/ Bot!Disable \/ Bot!Delete
  BY <1>3, SettingsStep
<1>4. CASE Bot!OpStep
  BY <1>4, SaveConfigKeeps, StopBeginKeeps, StopEndKeeps, RestartBotKeeps, DeleteConfigKeeps,
     RestartedKeeps, AnswerKeeps DEF Bot!OpStep
<1>5. CASE Bot!LaterStep \/ Bot!Crash
  BY <1>5, FireKeeps, ResumeKeeps, CrashKeeps DEF Bot!LaterStep
<1>6. CASE UNCHANGED Bot!vars
  <2>1. /\ config' = config /\ bot' = bot /\ bots' = bots /\ status' = status /\ init' = init
        /\ botOp' = botOp /\ timer' = timer /\ resume' = resume /\ workers' = workers
        /\ restored' = restored /\ odd' = odd
    BY <1>6 DEF Bot!vars
  <2>2. BotTypes' /\ StartsFit' /\ PlanFits'
    <3>1. BotTypes'
      BY <2>1 DEF BotInv, BotTypes
    <3>2. StartsFit' /\ PlanFits'
      BY <2>1 DEF BotInv, StartsFit, PlanFits
    <3> QED
      BY <3>1, <3>2
  <2>3. HandlersAreFew'
    BY <2>1 DEF BotInv, HandlersAreFew, EarlyBoot, EarlyOp, Emptied
  <2>4. AloneFits'
    BY <2>1 DEF BotInv, AloneFits, ClientFits, StepFits, InitFits, Emptied, BotRuns
  <2>5. ServedFits'
    BY <2>1 DEF BotInv, ServedFits, NamedInit, NamedBot, BotRuns, Bot!Enabled, Bot!Creds
  <2> QED
    BY <2>2, <2>3, <2>4, <2>5 DEF BotInv
<1> QED
  BY <1>1, <1>2, <1>3, <1>4, <1>5, <1>6 DEF Bot!Next

\* The invariant of the bot: the starts that run, the plan of the operation, and the client
\* that serves.
THEOREM BotInvariant == Bot!BotAssumption => (Bot!Spec => []BotInv)
<1> SUFFICES ASSUME Bot!BotAssumption  PROVE Bot!Spec => []BotInv
  OBVIOUS
<1>1. Bot!Init => BotInv
  BY BotStarts
<1>2. BotInv /\ [Bot!Next]_(Bot!vars) => BotInv'
  BY BotStep
<1> QED
  BY <1>1, <1>2, PTL DEF Bot!Spec

\* The bot's state keeps its types, and no client gets its handlers a third time.
THEOREM BotTypeCorrect == Bot!BotAssumption => (Bot!Spec => []Bot!TypeOK)
<1> SUFFICES ASSUME Bot!BotAssumption  PROVE Bot!Spec => []Bot!TypeOK
  OBVIOUS
<1>1. BotInv => Bot!TypeOK
  <2> SUFFICES ASSUME BotInv  PROVE Bot!TypeOK
    OBVIOUS
  <2>1. BotTypes /\ HandlersAreFew
    BY DEF BotInv
  <2>2. config.web \in {0} \cup WebCreds \cup {1} /\ config.enabled \in BOOLEAN
    BY <2>1 DEF BotTypes, Settings
  <2>3. \A b \in DOMAIN bots : bots[b].up \in BOOLEAN /\ bots[b].handlers \in 0..2
    <3>1. \A b \in DOMAIN bots : bots[b] \in BotClientTypes /\ bots[b].handlers <= 2
      BY <2>1 DEF BotTypes, HandlersAreFew
    <3> QED
      BY <3>1 DEF BotClientTypes
  <2> QED
    BY <2>1, <2>2, <2>3 DEF Bot!TypeOK, Bot!Ids, BotTypes
<1>2. Bot!Spec => []BotInv
  BY BotInvariant
<1> QED
  BY <1>1, <1>2, PTL

\* Unless the start of the server overlapped an operation, at most one client is connected,
\* it handles a message once, and no worker outlives it (initTelegramBot,
\* stopTelegramBotInternal).
THEOREM OneBotServes == Bot!BotAssumption => (Bot!Spec => []Bot!OneBot)
<1> SUFFICES ASSUME Bot!BotAssumption  PROVE Bot!Spec => []Bot!OneBot
  OBVIOUS
<1>1. BotInv => Bot!OneBot
  <2> SUFFICES ASSUME BotInv, ~odd.overlap
               PROVE  /\ \A b \in DOMAIN bots : bots[b].up => b = bot /\ bots[b].handlers <= 1
                      /\ workers # 0 => workers = bot /\ bots[bot].up
    BY DEF Bot!OneBot, Bot!Ids, Bot!None
  <2>1. ClientFits /\ BotTypes
    BY DEF BotInv, AloneFits
  <2>2. 0 \notin DOMAIN bots
    BY <2>1 DEF BotTypes
  <2> QED
    BY <2>1, <2>2 DEF ClientFits
<1>2. Bot!Spec => []BotInv
  BY BotInvariant
<1> QED
  BY <1>1, <1>2, PTL

\* What serves between operations is the bot that the settings name, and what failed left
\* them as they were, unless starts overlapped or a migration was rolled back
\* (putTelegramBotConfig, migrateTelegramBotConfig).
THEOREM ServedAsSet == Bot!BotAssumption => (Bot!Spec => []Bot!ServedUnlessOverlapped)
<1> SUFFICES ASSUME Bot!BotAssumption  PROVE Bot!Spec => []Bot!ServedUnlessOverlapped
  OBVIOUS
<1>1. BotInv => Bot!ServedUnlessOverlapped
  <2> SUFFICES ASSUME BotInv  PROVE Bot!ServedUnlessOverlapped
    OBVIOUS
  <2>1. odd.kept /\ ServedFits
    BY DEF BotInv, PlanFits
  <2>2. ~odd.overlap /\ ~odd.migrated => Bot!ServedAsConfigured
    <3> SUFFICES ASSUME ~odd.overlap, ~odd.migrated, botOp.at = "idle", status = "ready"
                 PROVE  Bot!Enabled(config) /\ bots[bot].creds = Bot!Creds(config)
      BY DEF Bot!ServedAsConfigured, Bot!Quiet
    <3> QED
      BY <2>1 DEF ServedFits, NamedBot
  <2> QED
    BY <2>1, <2>2 DEF Bot!ServedUnlessOverlapped
<1>2. Bot!Spec => []BotInv
  BY BotInvariant
<1> QED
  BY <1>1, <1>2, PTL
-----------------------------------------------------------------------------
(* What the bot shows of the files of a chat (ChatStatus)                   *)

CONSTANTS Files, Few
VARIABLES fileStep, fileEntry, total, known, chatCard, chatCards, chatScope, chatOdd
Chat == INSTANCE ChatStatus WITH
    step <- fileStep, entry <- fileEntry, card <- chatCard, cards <- chatCards,
    scope <- chatScope, odd <- chatOdd

FileSteps ==
    {"new", "clearing", "register", "silencing", "under way", "last", "closing", "fading",
     "over", "stopping"}
FilePhases == {"none", "queued", "success", "failed"}

\* The cards come from the sessions so far.
CardsFit ==
    /\ chatCards \in Nat /\ chatCard \in 0..chatCards /\ chatScope \subseteq 1..chatCards
    /\ chatOdd \in [overtaken : SUBSET Nat, aborted : BOOLEAN]
    /\ Chat!ScopesHaveSession

\* The total counts what is known, and that is finite.
TotalFits ==
    /\ IsFiniteSet(Files) /\ known \subseteq Files /\ total = Cardinality(known)
    /\ Chat!Entered \subseteq known

ChatInv ==
    /\ fileStep \in [Files -> FileSteps] /\ fileEntry \in [Files -> FilePhases]
    /\ CardsFit /\ TotalFits

LEMMA SameChatSets ==
  ASSUME NEW S
  PROVE  /\ Chat!Cardinality(S) = Cardinality(S)
         /\ Chat!IsFiniteSet(S) <=> IsFiniteSet(S)
<1>1. Chat!Cardinality(S) = Cardinality(S)
  BY DEF Chat!Cardinality, Cardinality
<1>2. Chat!IsFiniteSet(S) <=> IsFiniteSet(S)
  BY DEF Chat!IsFiniteSet, IsFiniteSet
<1> QED
  BY <1>1, <1>2

\* A file is counted once.
LEMMA SyncCounts ==
  ASSUME TotalFits, NEW es \in SUBSET Files, Chat!Sync(es)
  PROVE  known' = known \cup es /\ known' \subseteq Files /\ total' = Cardinality(known')
<1>1. known' = known \cup es /\ total' = total + Cardinality(es \ known)
  BY SameChatSets DEF Chat!Sync
<1>2. IsFiniteSet(known) /\ IsFiniteSet(es \ known) /\ known \subseteq Files
  BY FS_Subset DEF TotalFits
<1> DEFINE new == es \ known
<1>3. Cardinality(known \cup new) = Cardinality(known) + Cardinality(new) - Cardinality(known \cap new)
  BY <1>2, FS_Union
<1>4. known \cap new = {} /\ known \cup new = known'
  BY <1>1
<1>5. Cardinality(known \cap new) = 0
  BY <1>4, FS_EmptySet
<1>6. Cardinality(known) \in Nat /\ Cardinality(new) \in Nat
  BY <1>2, FS_CardinalityType
<1>7. total = Cardinality(known) /\ total' = total + Cardinality(new)
  BY <1>1 DEF TotalFits
<1> HIDE DEF new
<1>8. total' = Cardinality(known \cup new)
  BY <1>3, <1>5, <1>6, <1>7
<1> QED
  BY <1>1, <1>2, <1>4, <1>8

LEMMA NothingKnown ==
  ASSUME IsFiniteSet(Files), fileEntry' = [g \in Files |-> "none"], total' = 0, known' = {}
  PROVE  TotalFits' /\ fileEntry' \in [Files -> FilePhases]
<1>1. Chat!Entered' = {}
  BY DEF Chat!Entered
<1>2. Cardinality(known') = 0
  BY FS_EmptySet
<1> QED
  BY <1>1, <1>2 DEF TotalFits, FilePhases

\* An entry changes, and what is entered is counted.
LEMMA EntryCounts ==
  ASSUME ChatInv, NEW f \in Files, NEW phase \in FilePhases,
         fileEntry' = [fileEntry EXCEPT ![f] = phase],
         NEW es \in SUBSET Files, Chat!Sync(es), Chat!Entered' \subseteq known \cup es
  PROVE  TotalFits' /\ fileEntry' \in [Files -> FilePhases]
<1>1. TotalFits /\ fileEntry \in [Files -> FilePhases]
  BY DEF ChatInv
<1>2. known' = known \cup es /\ known' \subseteq Files /\ total' = Cardinality(known')
  BY <1>1, SyncCounts
<1>3. fileEntry' \in [Files -> FilePhases]
  BY <1>1
<1> QED
  BY <1>1, <1>2, <1>3 DEF TotalFits

LEMMA UpdateCounts ==
  ASSUME ChatInv, NEW f \in Files, NEW phase \in FilePhases \ {"none"}, Chat!Update(f, phase)
  PROVE  TotalFits' /\ fileEntry' \in [Files -> FilePhases]
<1>1. TotalFits /\ fileEntry \in [Files -> FilePhases]
  BY DEF ChatInv
<1>2. CASE fileEntry[f] = "none"
  <2>1. fileEntry' = fileEntry /\ total' = total /\ known' = known
    BY <1>2 DEF Chat!Update
  <2> QED
    BY <1>1, <2>1 DEF TotalFits, Chat!Entered
<1>3. CASE fileEntry[f] # "none"
  <2>1. fileEntry' = [fileEntry EXCEPT ![f] = phase] /\ Chat!Sync(Chat!Entered)
    BY <1>3 DEF Chat!Update
  <2>2. Chat!Entered \in SUBSET Files /\ Chat!Entered' = Chat!Entered
    BY <1>1, <1>3, <2>1 DEF Chat!Entered
  <2> QED
    BY <2>1, <2>2, EntryCounts
<1> QED
  BY <1>2, <1>3

LEMMA StepIs ==
  ASSUME ChatInv, NEW f \in Files, NEW l \in FileSteps, Chat!Step(f, l)
  PROVE  fileStep' \in [Files -> FileSteps]
BY DEF ChatInv, Chat!Step

\* Sessions and cards do not change.
CardsStay ==
    chatCard' = chatCard /\ chatCards' = chatCards /\ chatScope' = chatScope /\ chatOdd' = chatOdd
LEMMA CardsKept ==
  ASSUME ChatInv, CardsStay
  PROVE  CardsFit'
BY DEF ChatInv, CardsFit, CardsStay, Chat!ScopesHaveSession

\* A session ends, and takes its card with it.
LEMMA SessionEnds ==
  ASSUME ChatInv, chatCard' = 0, NEW c, chatScope' = chatScope \ {chatCard, c},
         chatCards' = chatCards, chatOdd' = chatOdd
  PROVE  CardsFit'
<1>1. /\ chatCards \in Nat /\ chatScope \subseteq 1..chatCards
      /\ chatOdd \in [overtaken : SUBSET Nat, aborted : BOOLEAN]
      /\ chatScope \subseteq {chatCard} \cup chatOdd.overtaken
  BY DEF ChatInv, CardsFit, Chat!ScopesHaveSession
<1>2. chatCard' \in 0..chatCards'
  BY <1>1
<1>3. chatScope' \subseteq 1..chatCards' /\ chatScope' \subseteq chatOdd'.overtaken
  BY <1>1
<1> QED
  BY <1>1, <1>2, <1>3 DEF CardsFit, Chat!ScopesHaveSession

\* Totals and entries do not change.
TotalsStay == fileEntry' = fileEntry /\ total' = total /\ known' = known
LEMMA TotalsKept ==
  ASSUME ChatInv, TotalsStay
  PROVE  TotalFits' /\ fileEntry' \in [Files -> FilePhases]
BY DEF ChatInv, TotalFits, TotalsStay, Chat!Entered

LEMMA ResetKeeps ==
  ASSUME ChatInv, NEW f \in Files, Chat!Reset(f)
  PROVE  ChatInv'
<1>1. TotalsStay /\ chatCards' = chatCards /\ chatOdd' = chatOdd
  BY DEF Chat!Reset, TotalsStay
<1>2. \E l \in FileSteps : Chat!Step(f, l)
  BY DEF Chat!Reset, FileSteps
<1>3. CardsStay \/ (chatCard' = 0 /\ chatScope' = chatScope \ {chatCard, chatCard})
  BY <1>1 DEF Chat!Reset, CardsStay
<1> QED
  BY <1>1, <1>2, <1>3, StepIs, TotalsKept, CardsKept, SessionEnds DEF ChatInv

LEMMA ClearKeeps ==
  ASSUME ChatInv, NEW f \in Files, Chat!Clear(f)
  PROVE  ChatInv'
<1>1. /\ Chat!Step(f, "register") /\ CardsStay
      /\ fileEntry' = [g \in Files |-> "none"] /\ total' = 0 /\ known' = {}
  BY DEF Chat!Clear, CardsStay
<1>2. IsFiniteSet(Files) /\ "register" \in FileSteps
  BY DEF ChatInv, TotalFits, FileSteps
<1> QED
  BY <1>1, <1>2, StepIs, NothingKnown, CardsKept DEF ChatInv

LEMMA RegisterKeeps ==
  ASSUME ChatInv, NEW f \in Files, Chat!Register(f)
  PROVE  ChatInv'
<1> DEFINE es == {g \in Files : fileEntry'[g] # "none"}
<1>1. /\ fileEntry' = [fileEntry EXCEPT ![f] = "queued"] /\ Chat!Sync(es) /\ CardsStay
  BY DEF Chat!Register, CardsStay
<1>2. Chat!Entered' = es
  BY DEF Chat!Entered
<1>3. \E l \in FileSteps : Chat!Step(f, l)
  <2>1. "silencing" \in FileSteps /\ "under way" \in FileSteps
    BY DEF FileSteps
  <2>2. Chat!Step(f, "silencing") \/ Chat!Step(f, "under way")
    BY DEF Chat!Register
  <2> QED
    BY <2>1, <2>2
<1>4. "queued" \in FilePhases /\ es \in SUBSET Files
  BY DEF FilePhases
<1> HIDE DEF es
<1>5. Chat!Entered' \subseteq known \cup es
  BY <1>2
<1>6. TotalFits' /\ fileEntry' \in [Files -> FilePhases]
  BY <1>1, <1>4, <1>5, EntryCounts
<1> QED
  BY <1>1, <1>3, <1>6, StepIs, CardsKept DEF ChatInv

LEMMA SilenceKeeps ==
  ASSUME ChatInv, NEW f \in Files, Chat!Silence(f)
  PROVE  ChatInv'
<1> DEFINE n == chatCards + 1
           over == IF chatCard = 0 THEN chatOdd.overtaken ELSE chatOdd.overtaken \cup {chatCard}
<1>1. /\ Chat!Step(f, "under way") /\ Chat!Sync(Chat!Entered) /\ fileEntry' = fileEntry
      /\ chatCards' = n /\ chatCard' = n /\ chatScope' = chatScope \cup {n}
      /\ chatOdd' = [chatOdd EXCEPT !.overtaken = over]
  BY DEF Chat!Silence
<1>2. CardsFit /\ TotalFits /\ fileEntry \in [Files -> FilePhases]
  BY DEF ChatInv
<1>3. CardsFit'
  <2>1. /\ chatCards \in Nat /\ chatCard \in 0..chatCards /\ chatScope \subseteq 1..chatCards
        /\ chatOdd \in [overtaken : SUBSET Nat, aborted : BOOLEAN]
        /\ chatScope \subseteq {chatCard} \cup chatOdd.overtaken
    BY <1>2 DEF CardsFit, Chat!ScopesHaveSession
  <2>2. over \in SUBSET Nat /\ chatScope \subseteq over
    BY <2>1
  <2> HIDE DEF over
  <2>3. chatOdd' \in [overtaken : SUBSET Nat, aborted : BOOLEAN] /\ chatOdd'.overtaken = over
    BY <1>1, <2>1, <2>2
  <2>4. chatCards' \in Nat /\ chatCard' \in 0..chatCards'
    <3>1. n \in Nat /\ n \in 0..n
      BY <2>1
    <3> HIDE DEF n
    <3> QED
      BY <1>1, <3>1
  <2>6. chatScope' \subseteq 1..chatCards'
    <3>1. \A k \in chatScope : k \in 1..n
      BY <2>1
    <3>2. n \in 1..n
      BY <2>1
    <3> HIDE DEF n
    <3> QED
      BY <1>1, <3>1, <3>2
  <2>5. chatScope' \subseteq {chatCard'} \cup over
    BY <1>1, <2>2
  <2> QED
    BY <2>3, <2>4, <2>5, <2>6 DEF CardsFit, Chat!ScopesHaveSession
<1>4. TotalFits'
  <2>1. Chat!Entered \in SUBSET Files /\ Chat!Entered' = Chat!Entered
    BY <1>1 DEF Chat!Entered
  <2>2. known' = known \cup Chat!Entered /\ known' \subseteq Files /\ total' = Cardinality(known')
    BY <1>1, <1>2, <2>1, SyncCounts
  <2> QED
    BY <1>2, <2>1, <2>2 DEF TotalFits
<1>5. fileStep' \in [Files -> FileSteps]
  <2>1. "under way" \in FileSteps
    BY DEF FileSteps
  <2> QED
    BY <1>1, <2>1, StepIs
<1> QED
  BY <1>1, <1>2, <1>3, <1>4, <1>5 DEF ChatInv

LEMMA TaskKeeps ==
  ASSUME ChatInv, NEW f \in Files, Chat!Task(f) \/ Chat!FinishAborted(f)
  PROVE  ChatInv'
<1>1. \A l \in {"last", "fading", "closing", "over"} : l \in FileSteps
  BY DEF FileSteps
<1>2. CASE \E phase \in {"success", "failed"} : Chat!Finish(f, phase)
  <2>1. PICK phase \in {"success", "failed"} : Chat!Finish(f, phase)
    BY <1>2
  <2>2. Chat!Update(f, phase) /\ Chat!Step(f, "last") /\ CardsStay /\ phase \in FilePhases \ {"none"}
    BY <2>1 DEF Chat!Finish, CardsStay, FilePhases
  <2> QED
    BY <1>1, <2>2, UpdateCounts, StepIs, CardsKept DEF ChatInv
<1>3. CASE Chat!FinishAborted(f)
  <2>1. /\ Chat!Update(f, "failed") /\ Chat!Step(f, "fading") /\ "failed" \in FilePhases \ {"none"}
        /\ chatCard' = chatCard /\ chatCards' = chatCards /\ chatScope' = chatScope
        /\ chatOdd' = [chatOdd EXCEPT !.aborted = TRUE]
    BY <1>3 DEF Chat!FinishAborted, FilePhases
  <2>2. CardsFit'
    BY <2>1 DEF ChatInv, CardsFit, Chat!ScopesHaveSession
  <2> QED
    BY <1>1, <2>1, <2>2, UpdateCounts, StepIs DEF ChatInv
<1>4. CASE Chat!Last(f) \/ Chat!Stop(f)
  <2>1. TotalsStay /\ CardsStay
    BY <1>4 DEF Chat!Last, Chat!Stop, TotalsStay, CardsStay
  <2>2. Chat!Step(f, "closing") \/ Chat!Step(f, "fading") \/ Chat!Step(f, "last")
    BY <1>4 DEF Chat!Last, Chat!Stop
  <2> QED
    BY <1>1, <2>1, <2>2, StepIs, TotalsKept, CardsKept DEF ChatInv
<1>5. CASE Chat!Close(f)
  <2>1. /\ TotalsStay /\ Chat!Step(f, "fading") /\ chatCard' = 0 /\ chatCards' = chatCards
        /\ chatScope' = chatScope \ {chatCard, chatCard} /\ chatOdd' = chatOdd
    BY <1>5 DEF Chat!Close, TotalsStay
  <2> QED
    BY <1>1, <2>1, StepIs, TotalsKept, SessionEnds DEF ChatInv
<1>6. CASE Chat!Remove(f)
  <2>1. /\ Chat!Step(f, "over") /\ fileEntry' = [fileEntry EXCEPT ![f] = "none"]
        /\ total' = total /\ known' = known /\ CardsStay
    BY <1>6 DEF Chat!Remove, CardsStay
  <2>2. fileEntry' \in [Files -> FilePhases] /\ Chat!Entered' \subseteq Chat!Entered
    BY <2>1 DEF ChatInv, FilePhases, Chat!Entered
  <2>3. TotalFits'
    BY <2>1, <2>2 DEF ChatInv, TotalFits
  <2> QED
    BY <1>1, <2>1, <2>2, <2>3, StepIs, CardsKept DEF ChatInv
<1> QED
  BY <1>2, <1>3, <1>4, <1>5, <1>6 DEF Chat!Task

LEMMA CancelCardKeeps ==
  ASSUME ChatInv, NEW c \in chatScope, Chat!Cancel(c)
  PROVE  ChatInv'
<1>1. /\ fileStep' = [f \in Files |-> IF fileStep[f] = "under way" THEN "stopping" ELSE fileStep[f]]
      /\ chatCard' = 0 /\ chatScope' = chatScope \ {chatCard, c}
      /\ fileEntry' = [f \in Files |-> "none"] /\ total' = 0 /\ known' = {}
      /\ chatCards' = chatCards /\ chatOdd' = chatOdd
  BY DEF Chat!Cancel
<1>2. IsFiniteSet(Files)
  BY DEF ChatInv, TotalFits
<1>3. fileStep' \in [Files -> FileSteps]
  BY <1>1 DEF ChatInv, FileSteps
<1> QED
  BY <1>1, <1>2, <1>3, NothingKnown, SessionEnds DEF ChatInv

LEMMA ChatStarts ==
  Chat!ChatAssumption /\ Chat!Init => ChatInv
<1> SUFFICES ASSUME Chat!ChatAssumption, Chat!Init  PROVE ChatInv
  OBVIOUS
<1>1. /\ fileStep = [f \in Files |-> "new"] /\ fileEntry = [f \in Files |-> "none"]
      /\ total = 0 /\ known = {} /\ chatCard = 0 /\ chatCards = 0 /\ chatScope = {}
      /\ chatOdd = [overtaken |-> {}, aborted |-> FALSE]
  BY DEF Chat!Init
<1>2. IsFiniteSet(Files) /\ Cardinality(known) = 0
  BY <1>1, SameChatSets, FS_EmptySet DEF Chat!ChatAssumption
<1>3. Chat!Entered = {}
  BY <1>1 DEF Chat!Entered
<1>4. CardsFit
  BY <1>1 DEF CardsFit, Chat!ScopesHaveSession
<1> QED
  BY <1>1, <1>2, <1>3, <1>4 DEF ChatInv, TotalFits, FileSteps, FilePhases

LEMMA ChatStep ==
  ChatInv /\ [Chat!Next]_(Chat!vars) => ChatInv'
<1> SUFFICES ASSUME ChatInv, [Chat!Next]_(Chat!vars)  PROVE ChatInv'
  OBVIOUS
<1>1. ASSUME NEW f \in Files,
             Chat!Reset(f) \/ Chat!Handle(f) \/ Chat!Task(f) \/ Chat!FinishAborted(f)
      PROVE  ChatInv'
  BY <1>1, ResetKeeps, ClearKeeps, RegisterKeeps, SilenceKeeps, TaskKeeps DEF Chat!Handle
<1>2. CASE \E c \in chatScope : Chat!Cancel(c)
  BY <1>2, CancelCardKeeps
<1>3. CASE UNCHANGED Chat!vars
  <2>1. TotalsStay /\ CardsStay /\ fileStep' = fileStep
    BY <1>3 DEF Chat!vars, TotalsStay, CardsStay
  <2> QED
    BY <2>1, TotalsKept, CardsKept DEF ChatInv
<1> QED
  BY <1>1, <1>2, <1>3 DEF Chat!Next

\* The invariant of what is shown of a chat: every known file is counted once, and cards
\* are those of sessions.
THEOREM ChatInvariant == Chat!ChatAssumption => (Chat!Spec => []ChatInv)
<1> SUFFICES ASSUME Chat!ChatAssumption  PROVE Chat!Spec => []ChatInv
  OBVIOUS
<1>1. Chat!Init => ChatInv
  BY ChatStarts
<1>2. ChatInv /\ [Chat!Next]_(Chat!vars) => ChatInv'
  BY ChatStep
<1> QED
  BY <1>1, <1>2, PTL DEF Chat!Spec

\* What is shown of a chat keeps its types.
THEOREM ChatTypeCorrect == Chat!ChatAssumption => (Chat!Spec => []Chat!TypeOK)
<1> SUFFICES ASSUME Chat!ChatAssumption  PROVE Chat!Spec => []Chat!TypeOK
  OBVIOUS
<1>1. ChatInv => Chat!TypeOK
  <2> SUFFICES ASSUME ChatInv  PROVE Chat!TypeOK
    OBVIOUS
  <2>1. total \in 0..Chat!Cardinality(Files)
    <3>1. IsFiniteSet(Files) /\ known \subseteq Files /\ total = Cardinality(known)
      BY DEF ChatInv, TotalFits
    <3>2. Cardinality(known) <= Cardinality(Files) /\ IsFiniteSet(known)
      BY <3>1, FS_Subset
    <3>3. Cardinality(known) \in Nat /\ Cardinality(Files) \in Nat
      BY <3>1, <3>2, FS_CardinalityType
    <3>4. Chat!Cardinality(Files) = Cardinality(Files)
      BY SameChatSets
    <3> QED
      BY <3>1, <3>2, <3>3, <3>4
  <2> QED
    BY <2>1 DEF Chat!TypeOK, ChatInv, CardsFit, TotalFits, FileSteps, FilePhases
<1>2. Chat!Spec => []ChatInv
  BY ChatInvariant
<1> QED
  BY <1>1, <1>2, PTL

\* The total of the card is the number of the files it stands for, each counted once
\* (syncChatTransferSession, updateTaskCount).
THEOREM TotalCountsFiles == Chat!ChatAssumption => (Chat!Spec => []Chat!TotalIsFiles)
<1> SUFFICES ASSUME Chat!ChatAssumption  PROVE Chat!Spec => []Chat!TotalIsFiles
  OBVIOUS
<1>1. ChatInv => Chat!TotalIsFiles
  BY SameChatSets DEF ChatInv, TotalFits, Chat!TotalIsFiles
<1>2. Chat!Spec => []ChatInv
  BY ChatInvariant
<1> QED
  BY <1>1, <1>2, PTL

\* A card controls tasks only while its session lasts, unless another handler overtook it
\* (startSilentSession, finalizeSilentSessionIfDone, cancelSilentTask).
THEOREM CardsHaveSession == Chat!ChatAssumption => (Chat!Spec => []Chat!ScopesHaveSession)
<1> SUFFICES ASSUME Chat!ChatAssumption  PROVE Chat!Spec => []Chat!ScopesHaveSession
  OBVIOUS
<1>1. ChatInv => Chat!ScopesHaveSession
  BY DEF ChatInv, CardsFit
<1>2. Chat!Spec => []ChatInv
  BY ChatInvariant
<1> QED
  BY <1>1, <1>2, PTL

\* The silent status of a chat counts what is there and controls what is under way: the two
\* together.
THEOREM StatusIsTrue ==
    Chat!ChatAssumption => (Chat!Spec => [](Chat!TotalIsFiles /\ Chat!ScopesHaveSession))
<1> SUFFICES ASSUME Chat!ChatAssumption
             PROVE  Chat!Spec => [](Chat!TotalIsFiles /\ Chat!ScopesHaveSession)
  OBVIOUS
<1>1. Chat!Spec => []Chat!TotalIsFiles
  BY TotalCountsFiles
<1>2. Chat!Spec => []Chat!ScopesHaveSession
  BY CardsHaveSession
<1> QED
  BY <1>1, <1>2, PTL
-----------------------------------------------------------------------------
(* The sweep over accounts and sources (AccessSweep)                        *)

CONSTANTS SweptAccounts, Items, Workers, MaxSweeps
VARIABLES sweep, worker, tail, shown, stopped, sweepEvents
Sweep == INSTANCE AccessSweep WITH Accounts <- SweptAccounts, events <- sweepEvents

SweepStatus == {"none", "queued", "list", "probe", "completed", "failed"}
SweepType ==
    [at : SweepStatus, cursor : 0..SweptAccounts, probes : Nat, results : Nat, error : BOOLEAN]
WorkerType ==
    [at : {"idle", "acquire", "probe", "mark", "dead"}, acct : 0..SweptAccounts, item : 0..Items]
WorkerIds == 1..Workers
Active == {"acquire", "probe", "mark"}

SweepTypes ==
    /\ {SweptAccounts, Items, Workers, MaxSweeps} \subseteq Nat \ {0}
    /\ sweep \in [Sweep!Sweeps -> SweepType]
    /\ worker \in [Sweep!Sweeps -> [WorkerIds -> WorkerType]]
    /\ tail \in Seq(Sweep!Sweeps) /\ stopped \subseteq 1..SweptAccounts
    /\ shown \in [sweep : Nat, status : {"idle", "queued", "running", "completed", "failed"}]

\* Triggers wait once each, and one sweep runs at a time.
TailFits ==
    /\ \A i \in 1..Len(tail) : sweep[tail[i]].at = "queued"
    /\ \A i, j \in 1..Len(tail) : tail[i] = tail[j] => i = j
    /\ \A s, t \in Sweep!Running : s = t

\* The workers of a sweep have different accounts, all of them taken from its cursor; they
\* rest before it begins and when it is completed.
WorkersFit(s) ==
    /\ \A w \in WorkerIds : worker[s][w].acct <= sweep[s].cursor
    /\ \A w \in WorkerIds : worker[s][w].at \in Active => worker[s][w].acct # 0
    /\ \A w, v \in WorkerIds :
          /\ worker[s][w].at \in Active /\ worker[s][v].at \in Active
          /\ worker[s][w].acct = worker[s][v].acct
          => w = v
    /\ sweep[s].at \notin {"probe", "failed"} => \A w \in WorkerIds : worker[s][w].at \notin Active

\* What was begun and has no result is being probed.
Probing(s) == {w \in WorkerIds : worker[s][w].at = "probe"}
ResultsFit(s) == sweep[s].probes = sweep[s].results + Cardinality(Probing(s))

ShownFits == tail = << >> /\ Sweep!Running = {} => shown.status \notin {"queued", "running"}

SweepInv ==
    SweepTypes /\ TailFits /\ ShownFits /\ \A s \in Sweep!Sweeps : WorkersFit(s) /\ ResultsFit(s)

LEMMA SweptIs ==
  ASSUME SweepTypes
  PROVE  /\ SweptAccounts \in Nat \ {0} /\ Items \in Nat \ {0} /\ Workers \in Nat \ {0}
         /\ MaxSweeps \in Nat \ {0} /\ IsFiniteSet(WorkerIds)
BY FS_Interval DEF SweepTypes, WorkerIds

\* A worker changes.
LEMMA PutIs ==
  ASSUME SweepTypes, NEW s \in Sweep!Sweeps, NEW w \in WorkerIds, NEW r \in WorkerType,
         Sweep!Put(s, w, r)
  PROVE  /\ worker' \in [Sweep!Sweeps -> [WorkerIds -> WorkerType]]
         /\ worker'[s][w] = r /\ \A v \in WorkerIds \ {w} : worker'[s][v] = worker[s][v]
         /\ \A t \in Sweep!Sweeps \ {s} : worker'[t] = worker[t]
<1>1. worker \in [Sweep!Sweeps -> [WorkerIds -> WorkerType]]
  BY DEF SweepTypes
<1> DEFINE its == [worker[s] EXCEPT ![w] = r]
<1>2. worker' = [worker EXCEPT ![s] = its]
  BY DEF Sweep!Put
<1>3. its \in [WorkerIds -> WorkerType] /\ its[w] = r /\ \A v \in WorkerIds \ {w} : its[v] = worker[s][v]
  BY <1>1
<1> HIDE DEF its
<1> QED
  BY <1>1, <1>2, <1>3

\* One more is being probed, or one less.
LEMMA MoreProbing ==
  ASSUME SweepTypes, NEW s \in Sweep!Sweeps, NEW w \in WorkerIds,
         worker[s][w].at # "probe", worker'[s][w].at = "probe",
         \A v \in WorkerIds \ {w} : worker'[s][v] = worker[s][v]
  PROVE  /\ Cardinality(Probing(s))' = Cardinality(Probing(s)) + 1 /\ Cardinality(Probing(s)) \in Nat
<1>1. Probing(s)' = Probing(s) \cup {w} /\ w \notin Probing(s)
  BY DEF Probing
<1>2. IsFiniteSet(Probing(s))
  BY SweptIs, FS_Subset DEF Probing
<1> QED
  BY <1>1, <1>2, FS_AddElement, FS_CardinalityType

LEMMA LessProbing ==
  ASSUME SweepTypes, NEW s \in Sweep!Sweeps, NEW w \in WorkerIds,
         worker[s][w].at = "probe", worker'[s][w].at # "probe",
         \A v \in WorkerIds \ {w} : worker'[s][v] = worker[s][v]
  PROVE  /\ Cardinality(Probing(s))' = Cardinality(Probing(s)) - 1 /\ Cardinality(Probing(s)) \in Nat
         /\ Cardinality(Probing(s)) # 0
<1>1. Probing(s)' = Probing(s) \ {w} /\ w \in Probing(s)
  BY DEF Probing
<1>2. IsFiniteSet(Probing(s))
  BY SweptIs, FS_Subset DEF Probing
<1>3. Cardinality(Probing(s)) \in Nat
  BY <1>2, FS_CardinalityType
<1>4. Cardinality(Probing(s)) # 0
  BY <1>1, <1>2, FS_EmptySet
<1>5. Cardinality(Probing(s))' = Cardinality(Probing(s)) - 1
  BY <1>1, <1>2, FS_RemoveElement
<1> QED
  BY <1>3, <1>4, <1>5

LEMMA SameProbing ==
  ASSUME SweepTypes, NEW s \in Sweep!Sweeps,
         \A v \in WorkerIds : worker'[s][v].at = "probe" <=> worker[s][v].at = "probe"
  PROVE  Cardinality(Probing(s))' = Cardinality(Probing(s))
<1>1. Probing(s)' = Probing(s)
  BY DEF Probing
<1> QED
  BY <1>1

\* Another sweep does not move.
OthersStay(s) ==
    \A t \in Sweep!Sweeps \ {s} : worker'[t] = worker[t] /\ sweep'[t] = sweep[t]
LEMMA OthersKept ==
  ASSUME SweepInv, NEW s \in Sweep!Sweeps, OthersStay(s)
  PROVE  \A t \in Sweep!Sweeps \ {s} : WorkersFit(t)' /\ ResultsFit(t)'
<1> SUFFICES ASSUME NEW t \in Sweep!Sweeps \ {s}  PROVE WorkersFit(t)' /\ ResultsFit(t)'
  OBVIOUS
<1>1. worker'[t] = worker[t] /\ sweep'[t] = sweep[t]
  BY DEF OthersStay
<1>2. WorkersFit(t) /\ ResultsFit(t) /\ SweepTypes
  BY DEF SweepInv
<1>3. Cardinality(Probing(t))' = Cardinality(Probing(t))
  BY <1>1, <1>2, SameProbing
<1> QED
  BY <1>1, <1>2, <1>3 DEF WorkersFit, ResultsFit

\* One sweep changes that does not wait, and none is begun.
LEMMA TailKept ==
  ASSUME SweepInv, NEW s \in Sweep!Sweeps, sweep[s].at # "queued", tail' = tail,
         \A t \in Sweep!Sweeps \ {s} : sweep'[t] = sweep[t], Sweep!Running' \subseteq Sweep!Running
  PROVE  TailFits'
<1>1. TailFits /\ SweepTypes
  BY DEF SweepInv
<1>2. \A i \in 1..Len(tail) : tail[i] \in Sweep!Sweeps
  BY <1>1 DEF SweepTypes
<1> QED
  BY <1>1, <1>2 DEF TailFits

\* A worker of a sweep takes a step: its accounts, the cursor and the counters fit again.
LEMMA WorkerKeeps ==
  ASSUME SweepInv, NEW s \in Sweep!Sweeps, NEW w \in WorkerIds, NEW r \in WorkerType, NEW x \in SweepType,
         Sweep!Put(s, w, r), sweep' = [sweep EXCEPT ![s] = x],
         sweep[s].at \in {"probe", "failed"}, sweep[s].cursor <= x.cursor,
         \/ x.at = sweep[s].at /\ shown' = shown
         \/ x.at = "failed" /\ shown' = [sweep |-> s, status |-> "failed"],
         r.acct <= x.cursor,
         r.at \in Active => \/ r.acct = worker[s][w].acct /\ worker[s][w].at \in Active
                            \/ r.acct = sweep[s].cursor + 1,
         \/ /\ r.at # "probe" /\ worker[s][w].at # "probe"
            /\ x.probes = sweep[s].probes /\ x.results = sweep[s].results
         \/ /\ r.at = "probe" /\ worker[s][w].at # "probe"
            /\ x.probes = sweep[s].probes + 1 /\ x.results = sweep[s].results
         \/ /\ r.at # "probe" /\ worker[s][w].at = "probe"
            /\ x.probes = sweep[s].probes /\ x.results = sweep[s].results + 1,
         tail' = tail, stopped' \subseteq 1..SweptAccounts
  PROVE  SweepInv'
<1>1. SweepTypes /\ WorkersFit(s) /\ ResultsFit(s)
  BY DEF SweepInv
<1>2. /\ worker' \in [Sweep!Sweeps -> [WorkerIds -> WorkerType]]
      /\ worker'[s][w] = r /\ \A v \in WorkerIds \ {w} : worker'[s][v] = worker[s][v]
      /\ \A t \in Sweep!Sweeps \ {s} : worker'[t] = worker[t]
  BY <1>1, PutIs
<1>3. sweep' \in [Sweep!Sweeps -> SweepType] /\ sweep'[s] = x /\ \A t \in Sweep!Sweeps \ {s} : sweep'[t] = sweep[t]
  BY <1>1 DEF SweepTypes
<1>4. SweepTypes'
  <2>1. s \in Nat /\ shown \in [sweep : Nat, status : {"idle", "queued", "running", "completed", "failed"}]
    BY <1>1 DEF SweepTypes, Sweep!Sweeps
  <2>2. shown' \in [sweep : Nat, status : {"idle", "queued", "running", "completed", "failed"}]
    BY <2>1
  <2> QED
    BY <1>1, <1>2, <1>3, <2>2 DEF SweepTypes
<1>5. TailFits' /\ ShownFits'
  <2>1. Sweep!Running' \subseteq Sweep!Running /\ (x.at = sweep[s].at => Sweep!Running' = Sweep!Running)
    BY <1>3 DEF Sweep!Running
  <2>2. TailFits'
    BY <1>3, <2>1, TailKept
  <2>3. ShownFits'
    BY <2>1 DEF SweepInv, ShownFits
  <2> QED
    BY <2>2, <2>3
<1>6. \A t \in Sweep!Sweeps \ {s} : WorkersFit(t)' /\ ResultsFit(t)'
  BY <1>2, <1>3, OthersKept DEF OthersStay
<1>7. WorkersFit(s)'
  <2>1. \A v \in WorkerIds : worker[s][v].acct \in Nat /\ worker[s][v].acct <= sweep[s].cursor
    <3>1. \A v \in WorkerIds : worker[s][v] \in WorkerType
      BY <1>1 DEF SweepTypes
    <3>2. \A v \in WorkerIds : worker[s][v].acct \in 0..SweptAccounts
      BY <3>1 DEF WorkerType
    <3>3. SweptAccounts \in Nat
      BY <1>1, SweptIs
    <3>4. \A v \in WorkerIds : worker[s][v].acct \in Nat
      BY <3>2, <3>3
    <3>5. \A v \in WorkerIds : worker[s][v].acct <= sweep[s].cursor
      BY <1>1 DEF WorkersFit
    <3> QED
      BY <3>4, <3>5
  <2>2. sweep[s].cursor \in Nat /\ x.cursor \in Nat /\ r.acct \in Nat
    BY <1>1 DEF SweepTypes, SweepType, WorkerType
  <2>3. \A v \in WorkerIds : worker'[s][v].acct <= x.cursor /\ (worker'[s][v].at \in Active => worker'[s][v].acct # 0)
    <3>1. r.at \in Active => r.acct # 0
      <4>1. worker[s][w].at \in Active => worker[s][w].acct # 0
        BY <1>1 DEF WorkersFit
      <4>2. sweep[s].cursor + 1 # 0
        BY <2>2
      <4> QED
        BY <4>1, <4>2
    <3>2. \A v \in WorkerIds : worker[s][v].at \in Active => worker[s][v].acct # 0
      BY <1>1 DEF WorkersFit
    <3>3. \A v \in WorkerIds \ {w} : worker'[s][v].acct <= x.cursor
      BY <1>2, <2>1, <2>2
    <3> QED
      BY <1>2, <3>1, <3>2, <3>3
  <2>4. ASSUME NEW v \in WorkerIds \ {w}, worker[s][v].at \in Active, r.at \in Active
        PROVE  worker[s][v].acct # r.acct
    <3>1. CASE r.acct = worker[s][w].acct /\ worker[s][w].at \in Active
      BY <1>1, <2>4, <3>1 DEF WorkersFit
    <3>2. CASE r.acct = sweep[s].cursor + 1
      BY <2>1, <2>2, <3>2
    <3> QED
      BY <2>4, <3>1, <3>2
  <2>5. ASSUME NEW u \in WorkerIds, NEW v \in WorkerIds,
               worker'[s][u].at \in Active, worker'[s][v].at \in Active,
               worker'[s][u].acct = worker'[s][v].acct
        PROVE  u = v
    BY <1>1, <1>2, <2>4, <2>5 DEF WorkersFit
  <2> QED
    BY <1>3, <2>3, <2>5 DEF WorkersFit
<1>8. ResultsFit(s)'
  <2>1. sweep[s].probes \in Nat /\ sweep[s].results \in Nat
    BY <1>1 DEF SweepTypes, SweepType
  <2>2. sweep[s].probes = sweep[s].results + Cardinality(Probing(s))
    BY <1>1 DEF ResultsFit
  <2>3. CASE /\ r.at # "probe" /\ worker[s][w].at # "probe"
             /\ x.probes = sweep[s].probes /\ x.results = sweep[s].results
    <3>1. Cardinality(Probing(s))' = Cardinality(Probing(s))
      BY <1>1, <1>2, <2>3, SameProbing
    <3> QED
      BY <1>3, <2>2, <2>3, <3>1 DEF ResultsFit
  <2>4. CASE /\ r.at = "probe" /\ worker[s][w].at # "probe"
             /\ x.probes = sweep[s].probes + 1 /\ x.results = sweep[s].results
    <3>1. Cardinality(Probing(s))' = Cardinality(Probing(s)) + 1 /\ Cardinality(Probing(s)) \in Nat
      BY <1>1, <1>2, <2>4, MoreProbing
    <3>2. x.probes = x.results + Cardinality(Probing(s))'
      BY <2>1, <2>2, <2>4, <3>1
    <3> QED
      BY <1>3, <3>2 DEF ResultsFit
  <2>5. CASE /\ r.at # "probe" /\ worker[s][w].at = "probe"
             /\ x.probes = sweep[s].probes /\ x.results = sweep[s].results + 1
    <3>1. Cardinality(Probing(s))' = Cardinality(Probing(s)) - 1 /\ Cardinality(Probing(s)) \in Nat
      BY <1>1, <1>2, <2>5, LessProbing
    <3>2. x.probes = x.results + Cardinality(Probing(s))'
      BY <2>1, <2>2, <2>5, <3>1
    <3> QED
      BY <1>3, <3>2 DEF ResultsFit
  <2> QED
    BY <2>3, <2>4, <2>5
<1> QED
  BY <1>4, <1>5, <1>6, <1>7, <1>8 DEF SweepInv

\* The records that workers and sweeps get.
LEMMA RestIs ==
  ASSUME SweepTypes, NEW s \in Sweep!Sweeps, NEW w \in WorkerIds
  PROVE  /\ Sweep!Rest(s, w) \in WorkerType /\ Sweep!Rest(s, w).at = "idle"
         /\ Sweep!Rest(s, w).acct = worker[s][w].acct
<1> DEFINE p == [worker[s][w] EXCEPT !.at = "idle"]
           q == [p EXCEPT !.item = 0]
<1>1. worker[s][w] \in WorkerType /\ 0 \in 0..Items
  BY SweptIs DEF SweepTypes
<1>2. p \in WorkerType /\ p.at = "idle" /\ p.acct = worker[s][w].acct
  BY <1>1 DEF WorkerType
<1>3. Sweep!Rest(s, w) = q
  BY DEF Sweep!Rest
<1> HIDE DEF p
<1>4. q \in WorkerType /\ q.at = p.at /\ q.acct = p.acct
  BY <1>1, <1>2 DEF WorkerType
<1> QED
  BY <1>2, <1>3, <1>4

LEMMA GoIs ==
  ASSUME SweepTypes, NEW r \in WorkerType, NEW l \in {"idle", "acquire", "probe", "mark", "dead"}
  PROVE  LET q == [r EXCEPT !.at = l] IN q \in WorkerType /\ q.at = l /\ q.acct = r.acct /\ q.item = r.item
BY DEF WorkerType

LEMMA ItemIs ==
  ASSUME SweepTypes, NEW r \in WorkerType, NEW i \in 0..Items
  PROVE  LET q == [r EXCEPT !.item = i] IN q \in WorkerType /\ q.at = r.at /\ q.acct = r.acct
BY DEF WorkerType

LEMMA CountersAre ==
  ASSUME NEW x \in SweepType
  PROVE  /\ LET y == [x EXCEPT !.probes = @ + 1] IN
              /\ y \in SweepType /\ y.at = x.at /\ y.cursor = x.cursor
              /\ y.probes = x.probes + 1 /\ y.results = x.results
         /\ LET y == [x EXCEPT !.results = @ + 1] IN
              /\ y \in SweepType /\ y.at = x.at /\ y.cursor = x.cursor
              /\ y.probes = x.probes /\ y.results = x.results + 1
         /\ LET y == [x EXCEPT !.error = TRUE] IN
              /\ y \in SweepType /\ y.at = x.at /\ y.cursor = x.cursor
              /\ y.probes = x.probes /\ y.results = x.results
         /\ \A l \in SweepStatus :
              LET y == [x EXCEPT !.at = l] IN
              /\ y \in SweepType /\ y.at = l /\ y.cursor = x.cursor
              /\ y.probes = x.probes /\ y.results = x.results
<1>1. \A n \in Nat :
        /\ LET y == [x EXCEPT !.probes = n] IN
             /\ y \in SweepType /\ y.at = x.at /\ y.cursor = x.cursor
             /\ y.probes = n /\ y.results = x.results
        /\ LET y == [x EXCEPT !.results = n] IN
             /\ y \in SweepType /\ y.at = x.at /\ y.cursor = x.cursor
             /\ y.probes = x.probes /\ y.results = n
  BY DEF SweepType
<1>2. x.probes + 1 \in Nat /\ x.results + 1 \in Nat
  BY DEF SweepType
<1>3. LET y == [x EXCEPT !.error = TRUE] IN
        /\ y \in SweepType /\ y.at = x.at /\ y.cursor = x.cursor
        /\ y.probes = x.probes /\ y.results = x.results
  BY DEF SweepType
<1>4. \A l \in SweepStatus :
        LET y == [x EXCEPT !.at = l] IN
        /\ y \in SweepType /\ y.at = l /\ y.cursor = x.cursor
        /\ y.probes = x.probes /\ y.results = x.results
  BY DEF SweepType
<1> QED
  BY <1>1, <1>2, <1>3, <1>4

\* Who is at work works for a sweep that runs or has failed.
LEMMA ActiveIn ==
  ASSUME SweepInv, NEW s \in Sweep!Sweeps, NEW w \in WorkerIds, worker[s][w].at \in Active
  PROVE  /\ sweep[s].at \in {"probe", "failed"} /\ worker[s][w].acct <= sweep[s].cursor
         /\ worker[s][w] \in WorkerType /\ sweep[s] \in SweepType
         /\ sweep[s].cursor \in Nat /\ sweep[s].cursor <= sweep[s].cursor
<1>1. sweep[s] \in SweepType /\ worker[s][w] \in WorkerType
  BY DEF SweepInv, SweepTypes
<1>2. sweep[s].cursor \in Nat
  BY <1>1 DEF SweepType
<1> QED
  BY <1>1, <1>2 DEF SweepInv, WorkersFit

LEMMA Next1Keeps ==
  ASSUME SweepInv, NEW s \in Sweep!Sweeps, NEW w \in WorkerIds, Sweep!Next1(s, w)
  PROVE  SweepInv'
<1> DEFINE c == sweep[s].cursor + 1
           x == [sweep[s] EXCEPT !.cursor = c]
           r == [at |-> "acquire", acct |-> c, item |-> 1]
<1>1. /\ sweep[s].at \in {"probe", "failed"} /\ worker[s][w].at = "idle" /\ sweep[s].cursor < SweptAccounts
      /\ sweep' = [sweep EXCEPT ![s] = x] /\ Sweep!Put(s, w, r)
      /\ tail' = tail /\ shown' = shown /\ stopped' = stopped
  BY DEF Sweep!Next1
<1>2. SweepTypes /\ sweep[s] \in SweepType
  BY DEF SweepInv, SweepTypes
<1>3. SweptAccounts \in Nat /\ sweep[s].cursor \in Nat /\ Items \in Nat \ {0} /\ 1 \in 0..Items
  BY <1>2, SweptIs DEF SweepType
<1>4. c \in 0..SweptAccounts /\ sweep[s].cursor <= c /\ c <= c
  BY <1>1, <1>3
<1>5. x \in SweepType /\ x.at = sweep[s].at /\ x.cursor = c /\ x.probes = sweep[s].probes /\ x.results = sweep[s].results
  BY <1>2, <1>4 DEF SweepType
<1>6. r \in WorkerType /\ r.at = "acquire" /\ r.acct = c
  BY <1>3, <1>4 DEF WorkerType
<1>7. r.acct = sweep[s].cursor + 1
  BY <1>6
<1>8. stopped' \subseteq 1..SweptAccounts
  BY <1>1, <1>2 DEF SweepTypes
<1> HIDE DEF c, x, r
<1> QED
  BY <1>1, <1>4, <1>5, <1>6, <1>7, <1>8, WorkerKeeps

LEMMA AcquireKeeps ==
  ASSUME SweepInv, NEW s \in Sweep!Sweeps, NEW w \in WorkerIds, Sweep!Acquire(s, w)
  PROVE  SweepInv'
<1>1. SweepTypes /\ stopped' \subseteq 1..SweptAccounts /\ tail' = tail /\ shown' = shown
  BY DEF Sweep!Acquire, SweepInv, SweepTypes
<1>2. worker[s][w].at = "acquire" /\ worker[s][w].at \in Active
  BY DEF Sweep!Acquire, Active
<1> DEFINE x == [sweep[s] EXCEPT !.probes = @ + 1]
           r == [worker[s][w] EXCEPT !.at = "probe"]
<1>3. CASE sweep' = [sweep EXCEPT ![s].probes = @ + 1] /\ Sweep!Put(s, w, r)
  <2>1. sweep' = [sweep EXCEPT ![s] = x]
    BY <1>3
  <2>2. /\ x \in SweepType /\ x.at = sweep[s].at /\ x.cursor = sweep[s].cursor
        /\ x.probes = sweep[s].probes + 1 /\ x.results = sweep[s].results
    BY <1>2, ActiveIn, CountersAre
  <2>3. r \in WorkerType /\ r.at = "probe" /\ r.acct = worker[s][w].acct
    BY <1>1, <1>2, ActiveIn, GoIs
  <2> HIDE DEF x, r
  <2> QED
    BY <1>1, <1>2, <1>3, <2>1, <2>2, <2>3, ActiveIn, WorkerKeeps
<1>4. CASE sweep' = sweep /\ Sweep!Put(s, w, Sweep!Rest(s, w))
  <2> DEFINE q == Sweep!Rest(s, w)
  <2>1. sweep' = [sweep EXCEPT ![s] = sweep[s]]
    BY <1>1, <1>4 DEF SweepTypes
  <2>2. q \in WorkerType /\ q.at = "idle" /\ q.acct = worker[s][w].acct /\ q.at \notin Active
    BY <1>1, RestIs DEF Active
  <2>3. Sweep!Put(s, w, q)
    BY <1>4
  <2> HIDE DEF q
  <2> QED
    BY <1>1, <1>2, <2>1, <2>2, <2>3, ActiveIn, WorkerKeeps
<1> QED
  BY <1>3, <1>4 DEF Sweep!Acquire

LEMMA ProbedKeeps ==
  ASSUME SweepInv, NEW s \in Sweep!Sweeps, NEW w \in WorkerIds, Sweep!Probed(s, w)
  PROVE  SweepInv'
<1> DEFINE x == [sweep[s] EXCEPT !.results = @ + 1]
           r == [worker[s][w] EXCEPT !.at = "mark"]
<1>1. /\ worker[s][w].at = "probe" /\ worker[s][w].at \in Active
      /\ sweep' = [sweep EXCEPT ![s] = x] /\ Sweep!Put(s, w, r)
      /\ tail' = tail /\ shown' = shown /\ stopped' = stopped
  BY DEF Sweep!Probed, Active
<1>2. SweepTypes /\ stopped' \subseteq 1..SweptAccounts
  BY <1>1 DEF SweepInv, SweepTypes
<1>3. /\ x \in SweepType /\ x.at = sweep[s].at /\ x.cursor = sweep[s].cursor
      /\ x.probes = sweep[s].probes /\ x.results = sweep[s].results + 1
  BY <1>1, ActiveIn, CountersAre
<1>4. r \in WorkerType /\ r.at = "mark" /\ r.acct = worker[s][w].acct
  BY <1>1, <1>2, ActiveIn, GoIs
<1> HIDE DEF x, r
<1> QED
  BY <1>1, <1>2, <1>3, <1>4, ActiveIn, WorkerKeeps

LEMMA AccountErrorKeeps ==
  ASSUME SweepInv, NEW s \in Sweep!Sweeps, NEW w \in WorkerIds, Sweep!AccountError(s, w)
  PROVE  SweepInv'
<1> DEFINE y == [sweep[s] EXCEPT !.results = @ + 1]
           x == [y EXCEPT !.error = TRUE]
           p == [worker[s][w] EXCEPT !.at = "mark"]
           r == [p EXCEPT !.item = Items]
<1>1. SweepTypes /\ sweep[s] \in SweepType /\ worker[s][w] \in WorkerType
  BY DEF SweepInv, SweepTypes
<1>2. /\ worker[s][w].at = "probe" /\ worker[s][w].at \in Active
      /\ sweep' = [sweep EXCEPT ![s] = x] /\ Sweep!Put(s, w, r)
      /\ tail' = tail /\ shown' = shown /\ stopped' = stopped \cup {worker[s][w].acct}
  BY <1>1 DEF Sweep!AccountError, Active, SweepTypes
<1>3. /\ x \in SweepType /\ x.at = sweep[s].at /\ x.cursor = sweep[s].cursor
      /\ x.probes = sweep[s].probes /\ x.results = sweep[s].results + 1
  <2>1. /\ y \in SweepType /\ y.at = sweep[s].at /\ y.cursor = sweep[s].cursor
        /\ y.probes = sweep[s].probes /\ y.results = sweep[s].results + 1
    BY <1>1, CountersAre
  <2> HIDE DEF y
  <2> QED
    BY <2>1, CountersAre
<1>4. r \in WorkerType /\ r.at = "mark" /\ r.acct = worker[s][w].acct
  <2>1. p \in WorkerType /\ p.at = "mark" /\ p.acct = worker[s][w].acct
    BY <1>1, GoIs
  <2>2. Items \in 0..Items
    BY <1>1, SweptIs
  <2> HIDE DEF p
  <2> QED
    BY <1>1, <2>1, <2>2, ItemIs
<1>5. stopped' \subseteq 1..SweptAccounts
  <2>1. worker[s][w].acct \in 0..SweptAccounts /\ worker[s][w].acct # 0
    BY <1>1, <1>2 DEF SweepInv, WorkersFit, WorkerType
  <2>2. worker[s][w].acct \in 1..SweptAccounts
    BY <1>1, <2>1, SweptIs
  <2> QED
    BY <1>1, <1>2, <2>2 DEF SweepTypes
<1> HIDE DEF x, r
<1> QED
  BY <1>2, <1>3, <1>4, <1>5, ActiveIn, WorkerKeeps

LEMMA MarkKeeps ==
  ASSUME SweepInv, NEW s \in Sweep!Sweeps, NEW w \in WorkerIds, Sweep!Mark(s, w)
  PROVE  SweepInv'
<1> DEFINE k == worker[s][w].item + 1
           p == [worker[s][w] EXCEPT !.at = "acquire"]
           r == [p EXCEPT !.item = k]
           q == Sweep!Rest(s, w)
<1>1. SweepTypes /\ sweep[s] \in SweepType /\ worker[s][w] \in WorkerType
  BY DEF SweepInv, SweepTypes
<1>2. /\ worker[s][w].at = "mark" /\ worker[s][w].at \in Active /\ sweep' = sweep
      /\ tail' = tail /\ shown' = shown /\ stopped' = stopped
  BY DEF Sweep!Mark, Active
<1>3. sweep' = [sweep EXCEPT ![s] = sweep[s]] /\ stopped' \subseteq 1..SweptAccounts
  BY <1>1, <1>2 DEF SweepTypes
<1>4. CASE worker[s][w].item < Items /\ Sweep!Put(s, w, r)
  <2>1. p \in WorkerType /\ p.at = "acquire" /\ p.acct = worker[s][w].acct
    BY <1>1, GoIs
  <2>2. k \in 0..Items
    <3>1. worker[s][w].item \in 0..Items /\ Items \in Nat
      BY <1>1, SweptIs DEF WorkerType
    <3> QED
      BY <1>4, <3>1
  <2> HIDE DEF p, k
  <2>3. r \in WorkerType /\ r.at = "acquire" /\ r.acct = worker[s][w].acct
    BY <1>1, <2>1, <2>2, ItemIs
  <2> HIDE DEF r
  <2> QED
    BY <1>2, <1>3, <1>4, <2>3, ActiveIn, WorkerKeeps
<1>5. CASE Sweep!Put(s, w, q)
  <2>1. q \in WorkerType /\ q.at = "idle" /\ q.acct = worker[s][w].acct /\ q.at \notin Active
    BY <1>1, RestIs DEF Active
  <2> HIDE DEF q
  <2> QED
    BY <1>2, <1>3, <1>5, <2>1, ActiveIn, WorkerKeeps
<1>6. (worker[s][w].item < Items /\ Sweep!Put(s, w, r)) \/ Sweep!Put(s, w, q)
  <2>1. r = [worker[s][w] EXCEPT !.at = "acquire", !.item = @ + 1]
    BY <1>1 DEF WorkerType
  <2> QED
    BY <2>1 DEF Sweep!Mark
<1> QED
  BY <1>4, <1>5, <1>6

LEMMA MarkFailsKeeps ==
  ASSUME SweepInv, NEW s \in Sweep!Sweeps, NEW w \in WorkerIds, Sweep!MarkFails(s, w)
  PROVE  SweepInv'
<1> DEFINE q == Sweep!Rest(s, w)
           r == [q EXCEPT !.at = "dead"]
           y == [sweep[s] EXCEPT !.at = "failed"]
           x == [y EXCEPT !.error = TRUE]
<1>1. SweepTypes /\ sweep[s] \in SweepType /\ worker[s][w] \in WorkerType
  BY DEF SweepInv, SweepTypes
<1>2. /\ worker[s][w].at = "mark" /\ worker[s][w].at \in Active /\ Sweep!Put(s, w, r)
      /\ tail' = tail /\ stopped' = stopped
  BY DEF Sweep!MarkFails, Active
<1>3. stopped' \subseteq 1..SweptAccounts
  BY <1>1, <1>2 DEF SweepTypes
<1>4. r \in WorkerType /\ r.at = "dead" /\ r.acct = worker[s][w].acct /\ r.at \notin Active
  <2>1. q \in WorkerType /\ q.acct = worker[s][w].acct
    BY <1>1, RestIs
  <2> HIDE DEF q
  <2>2. r \in WorkerType /\ r.at = "dead" /\ r.acct = worker[s][w].acct
    BY <1>1, <2>1, GoIs
  <2> QED
    BY <2>2 DEF Active
<1>5. /\ x \in SweepType /\ x.at = "failed" /\ x.cursor = sweep[s].cursor
      /\ x.probes = sweep[s].probes /\ x.results = sweep[s].results
  <2>1. "failed" \in SweepStatus
    BY DEF SweepStatus
  <2>2. /\ y \in SweepType /\ y.at = "failed" /\ y.cursor = sweep[s].cursor
        /\ y.probes = sweep[s].probes /\ y.results = sweep[s].results
    BY <1>1, <2>1, CountersAre
  <2> HIDE DEF y
  <2> QED
    BY <2>2, CountersAre
<1>6. CASE sweep[s].at = "probe"
  <2>1. sweep' = [sweep EXCEPT ![s] = x] /\ shown' = [sweep |-> s, status |-> "failed"]
    BY <1>1, <1>6 DEF Sweep!MarkFails, Sweep!Failing, SweepTypes
  <2> HIDE DEF x, r
  <2> QED
    BY <1>2, <1>3, <1>4, <1>5, <2>1, ActiveIn, WorkerKeeps
<1>7. CASE sweep[s].at # "probe"
  <2>1. sweep' = [sweep EXCEPT ![s] = sweep[s]] /\ shown' = shown
    BY <1>1, <1>7 DEF Sweep!MarkFails, SweepTypes
  <2> HIDE DEF r
  <2> QED
    BY <1>1, <1>2, <1>3, <1>4, <2>1, ActiveIn, WorkerKeeps
<1> QED
  BY <1>6, <1>7

\* A sweep gets another status.
LEMMA StatusFits ==
  ASSUME SweepInv, NEW s \in Sweep!Sweeps, NEW l \in SweepStatus, worker' = worker,
         sweep' = [sweep EXCEPT ![s].at = l] \/ sweep' = [sweep EXCEPT ![s].at = l, ![s].error = TRUE],
         l \notin {"probe", "failed"} => \A w \in WorkerIds : worker[s][w].at \notin Active
  PROVE  /\ \A t \in Sweep!Sweeps : WorkersFit(t)' /\ ResultsFit(t)'
         /\ sweep' \in [Sweep!Sweeps -> SweepType] /\ sweep'[s].at = l
         /\ \A t \in Sweep!Sweeps \ {s} : sweep'[t] = sweep[t]
<1> DEFINE y == [sweep[s] EXCEPT !.at = l]
           z == [y EXCEPT !.error = TRUE]
<1>1. SweepTypes /\ sweep \in [Sweep!Sweeps -> SweepType] /\ sweep[s] \in SweepType
  BY DEF SweepInv, SweepTypes
<1>2. /\ y \in SweepType /\ y.at = l /\ y.cursor = sweep[s].cursor
      /\ y.probes = sweep[s].probes /\ y.results = sweep[s].results
  BY <1>1, CountersAre
<1>3. sweep' = [sweep EXCEPT ![s] = y] \/ sweep' = [sweep EXCEPT ![s] = z]
  BY <1>1
<1> HIDE DEF y
<1>4. /\ z \in SweepType /\ z.at = l /\ z.cursor = sweep[s].cursor
      /\ z.probes = sweep[s].probes /\ z.results = sweep[s].results
  BY <1>2, CountersAre
<1> HIDE DEF z
<1>5. /\ sweep' \in [Sweep!Sweeps -> SweepType] /\ sweep'[s].at = l /\ sweep'[s].cursor = sweep[s].cursor
      /\ sweep'[s].probes = sweep[s].probes /\ sweep'[s].results = sweep[s].results
      /\ \A t \in Sweep!Sweeps \ {s} : sweep'[t] = sweep[t]
  BY <1>1, <1>2, <1>3, <1>4
<1>6. \A t \in Sweep!Sweeps \ {s} : WorkersFit(t)' /\ ResultsFit(t)'
  BY <1>5, OthersKept DEF OthersStay
<1>7. WorkersFit(s) /\ ResultsFit(s)
  BY DEF SweepInv
<1>8. WorkersFit(s)'
  BY <1>5, <1>7 DEF WorkersFit
<1>9. ResultsFit(s)'
  <2>1. Cardinality(Probing(s))' = Cardinality(Probing(s))
    BY <1>1, SameProbing
  <2> QED
    BY <1>5, <1>7, <2>1 DEF ResultsFit
<1> QED
  BY <1>5, <1>6, <1>8, <1>9

LEMMA TriggerKeeps ==
  ASSUME SweepInv, NEW s \in Sweep!Sweeps, Sweep!Trigger(s)
  PROVE  SweepInv'
<1>1. SweepTypes /\ TailFits /\ WorkersFit(s)
  BY DEF SweepInv
<1>2. /\ sweep[s].at = "none" /\ sweep' = [sweep EXCEPT ![s].at = "queued"] /\ tail' = Append(tail, s)
      /\ shown' = [shown EXCEPT !.status = "queued"] /\ worker' = worker /\ stopped' = stopped
  BY DEF Sweep!Trigger
<1>3. /\ \A t \in Sweep!Sweeps : WorkersFit(t)' /\ ResultsFit(t)'
      /\ sweep' \in [Sweep!Sweeps -> SweepType] /\ sweep'[s].at = "queued"
      /\ \A t \in Sweep!Sweeps \ {s} : sweep'[t] = sweep[t]
  <2>1. "queued" \in SweepStatus /\ \A w \in WorkerIds : worker[s][w].at \notin Active
    BY <1>1, <1>2 DEF SweepStatus, WorkersFit
  <2> QED
    BY <1>2, <2>1, StatusFits
<1>4. /\ tail' \in Seq(Sweep!Sweeps) /\ Len(tail') = Len(tail) + 1 /\ Len(tail) \in Nat
      /\ tail'[Len(tail) + 1] = s /\ \A i \in 1..Len(tail) : tail'[i] = tail[i] /\ tail[i] \in Sweep!Sweeps
  BY <1>1, <1>2 DEF SweepTypes
<1>5. shown' \in [sweep : Nat, status : {"idle", "queued", "running", "completed", "failed"}]
  BY <1>1, <1>2 DEF SweepTypes
<1>6. SweepTypes'
  BY <1>1, <1>2, <1>3, <1>4, <1>5 DEF SweepTypes
<1>7. TailFits'
  <2>1. Sweep!Running' = Sweep!Running
    BY <1>2, <1>3 DEF Sweep!Running
  <2>2. \A i \in 1..Len(tail) : tail[i] # s /\ sweep'[tail[i]].at = "queued"
    BY <1>1, <1>2, <1>3, <1>4 DEF TailFits
  <2>3. \A i \in 1..Len(tail') : i \in 1..Len(tail) \/ i = Len(tail) + 1
    BY <1>4
  <2>4. \A i \in 1..Len(tail') : sweep'[tail'[i]].at = "queued"
    BY <1>3, <1>4, <2>2, <2>3
  <2>5. \A i, j \in 1..Len(tail') : tail'[i] = tail'[j] => i = j
    BY <1>1, <1>4, <2>2, <2>3 DEF TailFits
  <2> QED
    BY <1>1, <2>1, <2>4, <2>5 DEF TailFits
<1>8. ShownFits'
  <2>1. tail' # << >>
    BY <1>4
  <2> QED
    BY <2>1 DEF ShownFits
<1> QED
  BY <1>3, <1>6, <1>7, <1>8 DEF SweepInv

LEMMA BeganFits ==
  ASSUME SweepInv, NEW s \in Sweep!Sweeps, sweep[s].at = "queued", worker' = worker,
         sweep' = [sweep EXCEPT ![s].at = "list"]
  PROVE  /\ \A t \in Sweep!Sweeps : WorkersFit(t)' /\ ResultsFit(t)'
         /\ sweep' \in [Sweep!Sweeps -> SweepType] /\ sweep'[s].at = "list"
         /\ \A t \in Sweep!Sweeps \ {s} : sweep'[t] = sweep[t]
<1>1. WorkersFit(s)
  BY DEF SweepInv
<1>2. "list" \in SweepStatus /\ \A w \in WorkerIds : worker[s][w].at \notin Active
  BY <1>1 DEF SweepStatus, WorkersFit
<1> QED
  BY <1>2, StatusFits

LEMMA BeginSweepKeeps ==
  ASSUME SweepInv, Sweep!Begin
  PROVE  SweepInv'
<1> DEFINE s == Head(tail)
<1>1. SweepTypes /\ TailFits
  BY DEF SweepInv
<1>2. /\ tail # << >> /\ Sweep!Running = {} /\ tail' = Tail(tail)
      /\ sweep' = [sweep EXCEPT ![s].at = "list"] /\ shown' = [sweep |-> s, status |-> "running"]
      /\ worker' = worker /\ stopped' = stopped
  BY DEF Sweep!Begin
<1>3. /\ s = tail[1] /\ s \in Sweep!Sweeps /\ Len(tail) \in Nat \ {0} /\ tail' \in Seq(Sweep!Sweeps)
      /\ Len(tail') = Len(tail) - 1 /\ 1 \in 1..Len(tail)
      /\ \A i \in 1..Len(tail') : tail'[i] = tail[i + 1] /\ i + 1 \in 1..Len(tail) /\ i \in Nat \ {0}
  BY <1>1, <1>2 DEF SweepTypes
<1>4. sweep[s].at = "queued"
  BY <1>1, <1>3 DEF TailFits
<1> HIDE DEF s
<1>5. /\ \A t \in Sweep!Sweeps : WorkersFit(t)' /\ ResultsFit(t)'
      /\ sweep' \in [Sweep!Sweeps -> SweepType] /\ sweep'[s].at = "list"
      /\ \A t \in Sweep!Sweeps \ {s} : sweep'[t] = sweep[t]
  BY <1>2, <1>3, <1>4, BeganFits
<1>6. SweepTypes'
  <2>1. shown' \in [sweep : Nat, status : {"idle", "queued", "running", "completed", "failed"}]
    BY <1>2, <1>3 DEF Sweep!Sweeps
  <2> QED
    BY <1>1, <1>2, <1>3, <1>5, <2>1 DEF SweepTypes
<1>7. Sweep!Running' = {s}
  BY <1>2, <1>3, <1>5 DEF Sweep!Running
<1>8. TailFits'
  <2>1. \A i \in 1..Len(tail') : tail'[i] # s /\ sweep[tail'[i]].at = "queued" /\ tail'[i] \in Sweep!Sweeps
    <3> SUFFICES ASSUME NEW i \in 1..Len(tail')
                 PROVE  tail'[i] # s /\ sweep[tail'[i]].at = "queued" /\ tail'[i] \in Sweep!Sweeps
      OBVIOUS
    <3>1. tail'[i] = tail[i + 1] /\ i + 1 \in 1..Len(tail) /\ i + 1 # 1
      BY <1>3
    <3> QED
      BY <1>1, <1>3, <3>1 DEF TailFits, SweepTypes
  <2>2. \A i \in 1..Len(tail') : sweep'[tail'[i]].at = "queued"
    BY <1>5, <2>1
  <2>3. ASSUME NEW i \in 1..Len(tail'), NEW j \in 1..Len(tail'), tail'[i] = tail'[j]
        PROVE  i = j
    <3>1. i + 1 = j + 1
      BY <1>1, <1>3, <2>3 DEF TailFits
    <3> QED
      BY <3>1
  <2> QED
    BY <1>7, <2>2, <2>3 DEF TailFits
<1>9. ShownFits'
  BY <1>7 DEF ShownFits
<1> QED
  BY <1>5, <1>6, <1>8, <1>9 DEF SweepInv

\* A sweep that runs changes its status; when it ends, this is shown.
LEMMA RunningKeeps ==
  ASSUME SweepInv, NEW s \in Sweep!Sweeps, sweep[s].at \in {"list", "probe"},
         NEW l \in {"probe", "completed", "failed"}, worker' = worker, tail' = tail, stopped' = stopped,
         sweep' = [sweep EXCEPT ![s].at = l] \/ sweep' = [sweep EXCEPT ![s].at = l, ![s].error = TRUE],
         l = "completed" => \A w \in WorkerIds : worker[s][w].at \notin Active,
         NEW z \in {"completed", "failed"},
         (l = "probe" /\ shown' = shown) \/ shown' = [sweep |-> s, status |-> z]
  PROVE  SweepInv'
<1>1. SweepTypes /\ TailFits
  BY DEF SweepInv
<1>2. /\ \A t \in Sweep!Sweeps : WorkersFit(t)' /\ ResultsFit(t)'
      /\ sweep' \in [Sweep!Sweeps -> SweepType] /\ sweep'[s].at = l
      /\ \A t \in Sweep!Sweeps \ {s} : sweep'[t] = sweep[t]
  <2>1. l \in SweepStatus
    BY DEF SweepStatus
  <2> QED
    BY <2>1, StatusFits
<1>3. SweepTypes'
  <2>1. shown' \in [sweep : Nat, status : {"idle", "queued", "running", "completed", "failed"}]
    BY <1>1 DEF SweepTypes, Sweep!Sweeps
  <2> QED
    BY <1>1, <1>2, <2>1 DEF SweepTypes
<1>4. Sweep!Running' \subseteq Sweep!Running /\ (l = "probe" => s \in Sweep!Running')
  BY <1>2 DEF Sweep!Running
<1>5. TailFits'
  BY <1>2, <1>4, TailKept
<1>6. ShownFits'
  BY <1>4 DEF ShownFits
<1> QED
  BY <1>2, <1>3, <1>5, <1>6 DEF SweepInv

LEMMA ListKeeps ==
  ASSUME SweepInv, NEW s \in Sweep!Sweeps, Sweep!List(s) \/ Sweep!ListFails(s)
  PROVE  SweepInv'
<1>1. CASE Sweep!List(s)
  BY <1>1, RunningKeeps DEF Sweep!List
<1>2. CASE Sweep!ListFails(s)
  <2>1. /\ sweep[s].at = "list" /\ sweep' = [sweep EXCEPT ![s].at = "failed", ![s].error = TRUE]
        /\ shown' = [sweep |-> s, status |-> "failed"]
        /\ worker' = worker /\ tail' = tail /\ stopped' = stopped
    BY <1>2 DEF Sweep!ListFails, Sweep!Failing
  <2> QED
    BY <2>1, RunningKeeps
<1> QED
  BY <1>1, <1>2

LEMMA FinishSweepKeeps ==
  ASSUME SweepInv, NEW s \in Sweep!Sweeps, Sweep!Finish(s)
  PROVE  SweepInv'
<1>1. /\ sweep[s].at = "probe" /\ sweep' = [sweep EXCEPT ![s].at = "completed"]
      /\ \/ shown' = [sweep |-> s, status |-> "failed"]
         \/ shown' = [sweep |-> s, status |-> "completed"]
      /\ worker' = worker /\ tail' = tail /\ stopped' = stopped
      /\ \A w \in WorkerIds : worker[s][w].at = "idle"
  BY DEF Sweep!Finish, WorkerIds
<1>2. \A w \in WorkerIds : worker[s][w].at \notin Active
  BY <1>1 DEF Active
<1> QED
  BY <1>1, <1>2, RunningKeeps

LEMMA SweepStands ==
  ASSUME SweepInv, sweep' = sweep, worker' = worker, tail' = tail, shown' = shown,
         stopped' \subseteq 1..SweptAccounts
  PROVE  SweepInv'
<1>1. SweepTypes' /\ TailFits' /\ ShownFits'
  BY DEF SweepInv, SweepTypes, TailFits, ShownFits, Sweep!Running
<1>2. \A s \in Sweep!Sweeps : WorkersFit(s)' /\ ResultsFit(s)'
  BY DEF SweepInv, WorkersFit, ResultsFit, Probing
<1> QED
  BY <1>1, <1>2 DEF SweepInv

LEMMA SweepStarts ==
  Sweep!SweepAssumption /\ Sweep!Init => SweepInv
<1> SUFFICES ASSUME Sweep!SweepAssumption, Sweep!Init  PROVE SweepInv
  OBVIOUS
<1> DEFINE x == [at |-> "none", cursor |-> 0, probes |-> 0, results |-> 0, error |-> FALSE]
<1>1. {SweptAccounts, Items, Workers, MaxSweeps} \subseteq Nat \ {0}
  BY DEF Sweep!SweepAssumption
<1>2. /\ sweep = [s \in Sweep!Sweeps |-> x] /\ worker = [s \in Sweep!Sweeps |-> [w \in WorkerIds |-> Sweep!Idle]]
      /\ tail = << >> /\ shown = [sweep |-> 0, status |-> "idle"] /\ stopped = {}
  BY DEF Sweep!Init, WorkerIds
<1>3. x \in SweepType /\ x.at = "none" /\ x.cursor = 0 /\ x.probes = 0 /\ x.results = 0
  BY <1>1 DEF SweepType, SweepStatus
<1>4. Sweep!Idle \in WorkerType /\ Sweep!Idle.at = "idle" /\ Sweep!Idle.acct = 0
  BY <1>1 DEF Sweep!Idle, WorkerType
<1> HIDE DEF x
<1>5. SweepTypes
  BY <1>1, <1>2, <1>3, <1>4 DEF SweepTypes
<1>6. TailFits /\ ShownFits
  BY <1>2, <1>3 DEF TailFits, ShownFits, Sweep!Running
<1>7. ASSUME NEW s \in Sweep!Sweeps
      PROVE  WorkersFit(s) /\ ResultsFit(s)
  <2>1. sweep[s] = x /\ \A w \in WorkerIds : worker[s][w] = Sweep!Idle
    BY <1>2
  <2>2. WorkersFit(s)
    BY <1>3, <1>4, <2>1 DEF WorkersFit, Active
  <2>3. Cardinality(Probing(s)) = 0
    BY <1>4, <2>1, FS_EmptySet DEF Probing
  <2> QED
    BY <1>3, <2>1, <2>2, <2>3 DEF ResultsFit
<1> QED
  BY <1>5, <1>6, <1>7 DEF SweepInv

LEMMA SweepStepKeeps ==
  SweepInv /\ [Sweep!Next]_(Sweep!vars) => SweepInv'
<1> SUFFICES ASSUME SweepInv, [Sweep!Next]_(Sweep!vars)  PROVE SweepInv'
  OBVIOUS
<1>1. CASE Sweep!Begin
  BY <1>1, BeginSweepKeeps
<1>2. CASE Sweep!Runnable \/ UNCHANGED Sweep!vars
  <2>1. /\ sweep' = sweep /\ worker' = worker /\ tail' = tail /\ shown' = shown
        /\ stopped' = {} \/ stopped' = stopped
    BY <1>2 DEF Sweep!Runnable, Sweep!vars
  <2> QED
    BY <2>1, SweepStands DEF SweepInv, SweepTypes
<1>3. ASSUME NEW s \in Sweep!Sweeps, Sweep!Trigger(s) \/ Sweep!SweepStep(s) \/ Sweep!ListFails(s)
      PROVE  SweepInv'
  BY <1>3, TriggerKeeps, ListKeeps, FinishSweepKeeps, Next1Keeps, AcquireKeeps, ProbedKeeps, MarkKeeps
     DEF Sweep!SweepStep, WorkerIds
<1>4. ASSUME NEW s \in Sweep!Sweeps, NEW w \in WorkerIds,
             Sweep!AccountError(s, w) \/ Sweep!MarkFails(s, w)
      PROVE  SweepInv'
  BY <1>4, AccountErrorKeeps, MarkFailsKeeps
<1> QED
  BY <1>1, <1>2, <1>3, <1>4 DEF Sweep!Next, WorkerIds

\* The invariant of the sweeps: one runs at a time, its workers have different accounts, and
\* its probes are its results and what is being probed.
THEOREM SweepInvariant == Sweep!SweepAssumption => (Sweep!Spec => []SweepInv)
<1> SUFFICES ASSUME Sweep!SweepAssumption  PROVE Sweep!Spec => []SweepInv
  OBVIOUS
<1>1. Sweep!Init => SweepInv
  BY SweepStarts
<1>2. SweepInv /\ [Sweep!Next]_(Sweep!vars) => SweepInv'
  BY SweepStepKeeps
<1> QED
  BY <1>1, <1>2, PTL DEF Sweep!Spec

\* Sweeps and workers keep their types.
THEOREM SweepTypeCorrect == Sweep!SweepAssumption => (Sweep!Spec => []Sweep!TypeOK)
<1> SUFFICES ASSUME Sweep!SweepAssumption  PROVE Sweep!Spec => []Sweep!TypeOK
  OBVIOUS
<1>1. SweepInv => Sweep!TypeOK
  <2> SUFFICES ASSUME SweepInv  PROVE Sweep!TypeOK
    OBVIOUS
  <2>1. SweepTypes
    BY DEF SweepInv
  <2>2. \A s \in Sweep!Sweeps : sweep[s] \in SweepType /\ worker[s] \in [WorkerIds -> WorkerType]
    BY <2>1 DEF SweepTypes
  <2>3. \A s \in Sweep!Sweeps :
          /\ sweep[s].at \in SweepStatus /\ sweep[s].cursor \in 0..SweptAccounts
          /\ sweep[s].probes \in Nat /\ sweep[s].results \in Nat
    BY <2>2 DEF SweepType
  <2> QED
    BY <2>1, <2>2, <2>3 DEF Sweep!TypeOK, SweepTypes, SweepStatus, WorkerType, WorkerIds
<1>2. Sweep!Spec => []SweepInv
  BY SweepInvariant
<1> QED
  BY <1>1, <1>2, PTL

\* An account is probed by one worker at a time, but for the workers that a failed sweep left
\* behind (runTelegramAccountAccessSweep).
THEOREM OneProbe == Sweep!SweepAssumption => (Sweep!Spec => []Sweep!OneProbeUnlessLeft)
<1> SUFFICES ASSUME Sweep!SweepAssumption  PROVE Sweep!Spec => []Sweep!OneProbeUnlessLeft
  OBVIOUS
<1>1. SweepInv => Sweep!OneProbeUnlessLeft
  <2> SUFFICES ASSUME SweepInv, NEW s \in Sweep!Sweeps, NEW t \in Sweep!Sweeps,
                      NEW w \in WorkerIds, NEW v \in WorkerIds,
                      worker[s][w].at \in Active, worker[t][v].at \in Active,
                      worker[s][w].acct = worker[t][v].acct,
                      sweep[s].at # "failed", sweep[t].at # "failed"
               PROVE  s = t /\ w = v
    BY DEF Sweep!OneProbeUnlessLeft, Sweep!Probes, Active, WorkerIds
  <2>1. WorkersFit(s) /\ WorkersFit(t) /\ TailFits
    BY DEF SweepInv
  <2>2. sweep[s].at = "probe" /\ sweep[t].at = "probe"
    BY <2>1 DEF WorkersFit
  <2>3. s = t
    BY <2>1, <2>2 DEF TailFits, Sweep!Running
  <2> QED
    BY <2>1, <2>3 DEF WorkersFit
<1>2. Sweep!Spec => []SweepInv
  BY SweepInvariant
<1> QED
  BY <1>1, <1>2, PTL

\* A sweep that ran to its end has a result for each of its probes, and nothing is shown as
\* running when nothing is (the summary of telegramAccountAccessSweep.ts).
THEOREM SummaryHolds == Sweep!SweepAssumption => (Sweep!Spec => []Sweep!SummaryIsTrue)
<1> SUFFICES ASSUME Sweep!SweepAssumption  PROVE Sweep!Spec => []Sweep!SummaryIsTrue
  OBVIOUS
<1>1. SweepInv => Sweep!SummaryIsTrue
  <2> SUFFICES ASSUME SweepInv, NEW s \in Sweep!Sweeps, sweep[s].at = "completed"
               PROVE  sweep[s].probes = sweep[s].results
    BY DEF SweepInv, ShownFits, Sweep!SummaryIsTrue
  <2>1. WorkersFit(s) /\ ResultsFit(s) /\ sweep[s] \in SweepType
    BY DEF SweepInv, SweepTypes
  <2>2. Probing(s) = {}
    BY <2>1 DEF WorkersFit, Probing, Active
  <2>3. Cardinality(Probing(s)) = 0 /\ sweep[s].results \in Nat
    BY <2>1, <2>2, FS_EmptySet DEF SweepType
  <2> QED
    BY <2>1, <2>3 DEF ResultsFit
<1>2. Sweep!Spec => []SweepInv
  BY SweepInvariant
<1> QED
  BY <1>1, <1>2, PTL

\* A sweep probes an account once at a time and ends with all results: the two together.
THEOREM SweepsAreTrue ==
    Sweep!SweepAssumption => (Sweep!Spec => [](Sweep!OneProbeUnlessLeft /\ Sweep!SummaryIsTrue))
<1> SUFFICES ASSUME Sweep!SweepAssumption
             PROVE  Sweep!Spec => [](Sweep!OneProbeUnlessLeft /\ Sweep!SummaryIsTrue)
  OBVIOUS
<1>1. Sweep!Spec => []Sweep!OneProbeUnlessLeft
  BY OneProbe
<1>2. Sweep!Spec => []Sweep!SummaryIsTrue
  BY SummaryHolds
<1> QED
  BY <1>1, <1>2, PTL
=============================================================================
