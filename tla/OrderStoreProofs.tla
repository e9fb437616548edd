-------------------------- MODULE OrderStoreProofs --------------------------
(***************************************************************************)
(* For any ids, instruments and prices: the index of the order store is    *)
(* exact in every reachable state, and a poll of the store returns what a  *)
(* scan of every working order returns.                                    *)
(*                                                                         *)
(* The argument is about one value, the index, and one map, the orders.    *)
(* Holds(os, ix) says that ix indexes os.  Removing an order keeps it,     *)
(* adding one to a free id keeps it, and an update is the one followed by  *)
(* the other.                                                              *)
(***************************************************************************)
EXTENDS OrderStore, TLAPS

Home(os, k, id) == os[id] # NoOrder /\ Indexed(os[id]) /\ Key(os[id]) = k

Answers == {<<>>} \cup (Instruments \X Snapshots \X SUBSET Ids)

Stores == [Ids -> Orders \cup {NoOrder}]

Indexes ==
  [listed : SUBSET Instruments, present : SUBSET Keys, level : [Keys -> [Ids -> Nat]]]

Holds(os, ix) ==
  /\ ix \in Indexes
  /\ \A k \in Keys, id \in Ids : ix.level[k][id] = IF Home(os, k, id) THEN 1 ELSE 0
  /\ \A k \in Keys : k \in ix.present <=> \E id \in Ids : ix.level[k][id] > 0
  /\ \A k \in ix.present : k[1] \in ix.listed

-----------------------------------------------------------------------------
\* The inductive invariant is Holds for the current orders and index.
LEMMA IndexInvIsHolds ==
  IndexInv <=> /\ orders \in Stores
               /\ polled \in Answers
               /\ Holds(orders, Index)
BY DEF IndexInv, TypeOK, IndexExact, NoEmptyLevels, EveryBookListed, IsHome,
       Holds, Home, Indexes, Index, Stores, Answers

\* An indexed order has its key among the keys of the books.
LEMMA KeyOfIndexed ==
  ASSUME NEW o \in Orders, Indexed(o)
  PROVE  Key(o) \in Keys /\ Key(o)[1] = o.inst
BY OrdersAssumption DEF OpenOrder, Indexed, Key, Keys, BookName, BookNames, TriggerPrice, IsStop, MaybePrices

\* remove: the id leaves every level, no other id moves, and a level that
\* became empty leaves its price map.
LEMMA RemoveClears ==
  ASSUME NEW os \in Stores, NEW ix, NEW id \in Ids, os[id] # NoOrder, Holds(os, ix)
  PROVE  Holds([os EXCEPT ![id] = NoOrder], Remove(ix, id, os[id]))
<1> DEFINE o == os[id]
           os2 == [os EXCEPT ![id] = NoOrder]
           ix2 == Remove(ix, id, o)
<1>1. o \in Orders
  BY DEF Stores
<1>2. CASE ~(Indexed(o) /\ Key(o) \in ix.present)
  <2>1. ix2 = ix
    BY <1>2 DEF Remove
  <2>2. ASSUME Indexed(o) PROVE FALSE
    <3>1. Key(o) \in Keys
      BY <1>1, <2>2, KeyOfIndexed
    <3>2. Home(os, Key(o), id)
      BY <2>2 DEF Home
    <3>3. ix.level[Key(o)][id] = 1
      BY <3>1, <3>2 DEF Holds
    <3> QED
      BY <3>1, <3>3, <2>2, <1>2 DEF Holds
  <2>3. \A k \in Keys, x \in Ids : Home(os2, k, x) <=> Home(os, k, x)
    BY <2>2 DEF Home, Stores
  <2> QED
    BY <2>1, <2>3 DEF Holds
<1>3. CASE Indexed(o) /\ Key(o) \in ix.present
  <2> DEFINE key == Key(o)
             rest == [ix.level[key] EXCEPT ![id] = 0]
  <2>1. key \in Keys
    BY <1>1, <1>3, KeyOfIndexed
  <2>2. rest \in [Ids -> Nat]
    BY <2>1 DEF Holds, Indexes
  <2>3. ix2 = [listed  |-> ix.listed,
               present |-> IF rest = NoIds THEN ix.present \ {key} ELSE ix.present,
               level   |-> [ix.level EXCEPT ![key] = rest]]
    BY <1>3 DEF Remove
  <2>4. ix2 \in Indexes
    BY <2>1, <2>2, <2>3 DEF Holds, Indexes
  <2>5. ASSUME NEW k \in Keys, NEW x \in Ids
        PROVE  ix2.level[k][x] = IF Home(os2, k, x) THEN 1 ELSE 0
    <3>1. CASE x = id
      <4>1. ~Home(os2, k, x)
        BY <3>1 DEF Home, Stores
      <4>2. CASE k = key
        BY <4>1, <4>2, <3>1, <2>1, <2>3 DEF Holds, Indexes
      <4>3. CASE k # key
        <5>1. ~Home(os, k, id)
          BY <4>3 DEF Home
        <5> QED
          BY <5>1, <4>1, <4>3, <3>1, <2>1, <2>3 DEF Holds, Indexes
      <4> QED
        BY <4>2, <4>3
    <3>2. CASE x # id
      <4>1. Home(os2, k, x) <=> Home(os, k, x)
        BY <3>2 DEF Home, Stores
      <4>2. ix2.level[k][x] = ix.level[k][x]
        BY <3>2, <2>1, <2>3 DEF Holds, Indexes
      <4> QED
        BY <4>1, <4>2 DEF Holds
    <3> QED
      BY <3>1, <3>2
  <2>6. ASSUME NEW k \in Keys
        PROVE  k \in ix2.present <=> \E x \in Ids : ix2.level[k][x] > 0
    <3>1. CASE k = key
      <4>1. ix2.level[k] = rest
        BY <3>1, <2>1, <2>3 DEF Holds, Indexes
      <4>2. k \in ix2.present <=> rest # NoIds
        BY <3>1, <1>3, <2>3
      <4>3. rest # NoIds <=> \E x \in Ids : rest[x] > 0
        <5>1. NoIds \in [Ids -> Nat]
          BY DEF NoIds
        <5>2. rest # NoIds <=> \E x \in Ids : rest[x] # NoIds[x]
          BY <5>1, <2>2
        <5>3. \A x \in Ids : NoIds[x] = 0
          BY DEF NoIds
        <5>4. \A x \in Ids : rest[x] \in Nat
          BY <2>2
        <5>5. ASSUME NEW x \in Ids PROVE rest[x] # NoIds[x] <=> rest[x] > 0
          <6> HIDE DEF rest
          <6>1. rest[x] \in Nat /\ NoIds[x] = 0
            BY <5>3, <5>4
          <6> QED
            BY <6>1
        <5> QED
          BY <5>2, <5>5
      <4> QED
        BY <4>1, <4>2, <4>3
    <3>2. CASE k # key
      <4>1. ix2.level[k] = ix.level[k]
        BY <3>2, <2>1, <2>3 DEF Holds, Indexes
      <4>2. k \in ix2.present <=> k \in ix.present
        BY <3>2, <2>3
      <4> QED
        BY <4>1, <4>2 DEF Holds
    <3> QED
      BY <3>1, <3>2
  <2>7. \A k \in ix2.present : k[1] \in ix2.listed
    BY <2>3 DEF Holds
  <2> QED
    BY <2>4, <2>5, <2>6, <2>7 DEF Holds
<1> QED
  BY <1>2, <1>3

\* unindex_order: forgetting an instrument without levels loses no level.
LEMMA UnindexClears ==
  ASSUME NEW os \in Stores, NEW ix, NEW id \in Ids, os[id] # NoOrder, Holds(os, ix)
  PROVE  Holds([os EXCEPT ![id] = NoOrder], Unindex(ix, id, os[id]))
<1> DEFINE o == os[id]
           os2 == [os EXCEPT ![id] = NoOrder]
           rest == Remove(ix, id, o)
<1>1. o \in Orders
  BY DEF Stores
<1>2. Holds(os2, rest)
  BY RemoveClears
<1>3. CASE o.inst \notin ix.listed
  <2>1. Unindex(ix, id, o) = ix
    BY <1>3 DEF Unindex
  <2>2. ~(Indexed(o) /\ Key(o) \in ix.present)
    BY <1>1, <1>3, KeyOfIndexed DEF Holds
  <2>3. rest = ix
    BY <2>2 DEF Remove
  <2> QED
    BY <1>2, <2>1, <2>3
<1>4. CASE o.inst \in ix.listed /\ ~BooksEmpty(rest, o.inst)
  BY <1>2, <1>4 DEF Unindex
<1>5. CASE o.inst \in ix.listed /\ BooksEmpty(rest, o.inst)
  <2> DEFINE final == [rest EXCEPT !.listed = @ \ {o.inst}]
  <2>1. Unindex(ix, id, o) = final
    BY <1>5 DEF Unindex
  <2>2. rest \in Indexes
    BY <1>2 DEF Holds
  <2>3. /\ final.present = rest.present
        /\ final.level = rest.level
        /\ final.listed = rest.listed \ {o.inst}
        /\ final \in Indexes
    BY <2>2 DEF Indexes
  <2>4. \A k \in final.present : k[1] \in final.listed
    BY <1>2, <1>5, <2>3 DEF BooksEmpty, Holds
  <2> QED
    BY <1>2, <2>1, <2>3, <2>4 DEF Holds
<1> QED
  BY <1>3, <1>4, <1>5

\* insert: an id that is not working enters the level of its order, once.
LEMMA InsertAdds ==
  ASSUME NEW os \in Stores, NEW ix, NEW id \in Ids, NEW o \in Orders,
         os[id] = NoOrder, Holds(os, ix)
  PROVE  Holds([os EXCEPT ![id] = o], Insert(ix, id, o))
<1> DEFINE os2 == [os EXCEPT ![id] = o]
           ix2 == Insert(ix, id, o)
<1>0. o # NoOrder /\ o.inst \in Instruments
  BY NoOrderAssumption, OrdersAssumption DEF OpenOrder
<1>1. CASE ~Indexed(o)
  <2>1. ix2 = [listed |-> ix.listed \cup {o.inst}, present |-> ix.present,
               level |-> ix.level]
    BY <1>1 DEF Insert
  <2>2. ix2 \in Indexes
    BY <2>1, <1>0 DEF Holds, Indexes
  <2>3. \A k \in Keys, x \in Ids : Home(os2, k, x) <=> Home(os, k, x)
    BY <1>1 DEF Home, Stores
  <2>4. /\ ix2.level = ix.level
        /\ ix2.present = ix.present
        /\ ix.listed \subseteq ix2.listed
    BY <2>1
  <2> HIDE DEF os2, ix2
  <2>5. Holds(os2, ix2)
    BY <2>2, <2>3, <2>4 DEF Holds
  <2> QED
    BY <2>5 DEF os2, ix2
<1>2. CASE Indexed(o)
  <2> DEFINE key == Key(o)
  <2>1. key \in Keys /\ key[1] = o.inst
    BY <1>2, KeyOfIndexed
  <2>2. ix2 = [listed  |-> ix.listed \cup {o.inst},
               present |-> ix.present \cup {key},
               level   |-> [ix.level EXCEPT ![key][id] = @ + 1]]
    BY <1>2 DEF Insert
  <2>3. ix2 \in Indexes
    BY <2>1, <2>2, <1>0 DEF Holds, Indexes
  <2>4. ASSUME NEW k \in Keys, NEW x \in Ids
        PROVE  ix2.level[k][x] = IF Home(os2, k, x) THEN 1 ELSE 0
    <3>1. CASE x = id /\ k = key
      <4>1. Home(os2, k, x)
        BY <3>1, <1>2, <1>0 DEF Home, Stores
      <4>2. ix.level[key][id] = 0
        BY <2>1 DEF Holds, Home
      <4> QED
        BY <4>1, <4>2, <3>1, <2>1, <2>2 DEF Holds, Indexes
    <3>2. CASE ~(x = id /\ k = key)
      <4>1. Home(os2, k, x) <=> Home(os, k, x)
        BY <3>2, <1>0 DEF Home, Stores
      <4>2. ix2.level[k][x] = ix.level[k][x]
        BY <3>2, <2>1, <2>2 DEF Holds, Indexes
      <4> QED
        BY <4>1, <4>2 DEF Holds
    <3> QED
      BY <3>1, <3>2
  <2>5. ASSUME NEW k \in Keys
        PROVE  k \in ix2.present <=> \E x \in Ids : ix2.level[k][x] > 0
    <3>1. CASE k = key
      <4>1. ix2.level[k][id] = 1
        BY <3>1, <2>4, <1>2, <1>0 DEF Home, Stores
      <4> QED
        BY <4>1, <3>1, <2>2
    <3>2. CASE k # key
      <4>1. ix2.level[k] = ix.level[k]
        BY <3>2, <2>1, <2>2 DEF Holds, Indexes
      <4> QED
        BY <4>1, <3>2, <2>2 DEF Holds
    <3> QED
      BY <3>1, <3>2
  <2>6. \A k \in ix2.present : k[1] \in ix2.listed
    BY <2>1, <2>2 DEF Holds
  <2> QED
    BY <2>3, <2>4, <2>5, <2>6 DEF Holds
<1> QED
  BY <1>1, <1>2
-----------------------------------------------------------------------------
\* SetIndex installs the index it is given.
LEMMA SetIndexInstalls ==
  ASSUME NEW ix, ix \in Indexes, SetIndex(ix)
  PROVE  Index' = ix
BY DEF SetIndex, Index, Indexes

LEMMA InitEstablishes == Init => IndexInv
<1> SUFFICES ASSUME Init PROVE IndexInv
  OBVIOUS
<1>1. orders = [id \in Ids |-> NoOrder] /\ polled = <<>> /\ listed = {} /\ present = {}
  BY DEF Init, AbsInit
<1>2. level \in [Keys -> [Ids -> Nat]] /\ \A k \in Keys, id \in Ids : level[k][id] = 0
  BY DEF Init, NoIds
<1>3. TypeOK
  BY <1>1, <1>2 DEF TypeOK
<1>4. IndexExact
  BY <1>1, <1>2 DEF IndexExact, IsHome
<1>5. NoEmptyLevels
  BY <1>1, <1>2 DEF NoEmptyLevels
<1>6. EveryBookListed
  BY <1>1 DEF EveryBookListed
<1> QED
  BY <1>3, <1>4, <1>5, <1>6 DEF IndexInv

\* An update of a working order is a removal followed by an insertion.
LEMMA InsertOrderPreserves ==
  ASSUME IndexInv, NEW id \in Ids, NEW o \in Orders, InsertOrder(id, o)
  PROVE  IndexInv'
<1> DEFINE free == [orders EXCEPT ![id] = NoOrder]
           old  == IF orders[id] = NoOrder THEN Index ELSE Unindex(Index, id, orders[id])
           ix2  == Insert(old, id, o)
<1>1. orders \in Stores /\ polled \in Answers /\ Holds(orders, Index)
  BY IndexInvIsHolds
<1>2. free \in Stores /\ free[id] = NoOrder /\ [free EXCEPT ![id] = o] = [orders EXCEPT ![id] = o]
  BY <1>1 DEF Stores
<1>3. Holds(free, old)
  <2>1. CASE orders[id] = NoOrder
    BY <2>1, <1>1 DEF Stores
  <2>2. CASE orders[id] # NoOrder
    BY <2>2, <1>1, UnindexClears
  <2> QED
    BY <2>1, <2>2
<1>4. Holds([orders EXCEPT ![id] = o], ix2)
  <2> HIDE DEF free, old
  <2> QED
    BY <1>2, <1>3, InsertAdds
<1>5. orders' = [orders EXCEPT ![id] = o] /\ SetIndex(ix2) /\ polled' = polled
  BY DEF InsertOrder
<1>6. Index' = ix2
  BY <1>4, <1>5, SetIndexInstalls DEF Holds
<1>7. orders' \in Stores /\ polled' \in Answers /\ Holds(orders', Index')
  BY <1>1, <1>4, <1>5, <1>6 DEF Stores
<1> QED
  BY <1>7 DEF IndexInv, TypeOK, IndexExact, NoEmptyLevels, EveryBookListed, IsHome,
              Holds, Home, Indexes, Index, Stores, Answers

LEMMA RemoveOrderPreserves ==
  ASSUME IndexInv, NEW id \in Ids, RemoveOrder(id)
  PROVE  IndexInv'
<1> DEFINE free == [orders EXCEPT ![id] = NoOrder]
           ix2  == IF orders[id] = NoOrder THEN Index ELSE Unindex(Index, id, orders[id])
<1>1. orders \in Stores /\ polled \in Answers /\ Holds(orders, Index)
  BY IndexInvIsHolds
<1>2. Holds(free, ix2)
  <2>1. CASE orders[id] = NoOrder
    BY <2>1, <1>1 DEF Stores
  <2>2. CASE orders[id] # NoOrder
    BY <2>2, <1>1, UnindexClears
  <2> QED
    BY <2>1, <2>2
<1>3. orders' = free /\ SetIndex(ix2) /\ polled' = polled
  BY DEF RemoveOrder
<1>4. Index' = ix2
  BY <1>2, <1>3, SetIndexInstalls DEF Holds
<1>5. orders' \in Stores /\ polled' \in Answers /\ Holds(orders', Index')
  BY <1>1, <1>2, <1>3, <1>4 DEF Stores
<1> QED
  BY <1>5 DEF IndexInv, TypeOK, IndexExact, NoEmptyLevels, EveryBookListed, IsHome,
              Holds, Home, Indexes, Index, Stores, Answers

LEMMA StepPreserves == IndexInv /\ [Next]_vars => IndexInv'
<1> SUFFICES ASSUME IndexInv, [Next]_vars PROVE IndexInv'
  OBVIOUS
<1>1. ASSUME NEW id \in Ids, NEW o \in Orders, InsertOrder(id, o) PROVE IndexInv'
  BY <1>1, InsertOrderPreserves
<1>2. ASSUME NEW id \in Ids, RemoveOrder(id) PROVE IndexInv'
  BY <1>2, RemoveOrderPreserves
<1>3. ASSUME NEW i \in Instruments, NEW m \in Snapshots, Poll(i, m) PROVE IndexInv'
  BY <1>3 DEF Poll, PollableIds, IndexInv, TypeOK, IndexExact, NoEmptyLevels,
              EveryBookListed, IsHome
<1>4. CASE UNCHANGED vars
  BY <1>4 DEF vars, IndexInv, TypeOK, IndexExact, NoEmptyLevels, EveryBookListed, IsHome
<1> QED
  BY <1>1, <1>2, <1>3, <1>4 DEF Next

-----------------------------------------------------------------------------
\* The index of oms.rs is exact in every reachable state: whatever updates,
\* replacements and removals came before, an id stands once in the level of its
\* working order and nowhere else, and no empty level or unlisted book remains.
THEOREM IndexAlwaysExact == Spec => []IndexInv
<1>1. Init => IndexInv
  BY InitEstablishes
<1>2. IndexInv /\ [Next]_vars => IndexInv'
  BY StepPreserves
<1> QED
  BY <1>1, <1>2, PTL DEF Spec

\* The two maps and the books keep their types: counts never go negative and
\* every level stands under a registered instrument.
THEOREM TypeCorrect == Spec => []TypeOK
<1>1. IndexInv => TypeOK
  BY DEF IndexInv
<1> QED
  BY <1>1, IndexAlwaysExact, PTL

\* No working order is indexed twice, under a price it no longer has, or not at
\* all: the poll can neither fill one order twice nor miss it.
THEOREM EachOrderIndexedOnce == Spec => []IndexExact
<1>1. IndexInv => IndexExact
  BY DEF IndexInv
<1> QED
  BY <1>1, IndexAlwaysExact, PTL

\* The price maps keep no level of orders that came and went.
THEOREM LevelsAreFreed == Spec => []NoEmptyLevels
<1>1. IndexInv => NoEmptyLevels
  BY DEF IndexInv
<1> QED
  BY <1>1, IndexAlwaysExact, PTL

\* The instrument of every level is in the outer map.
THEOREM BooksStayListed == Spec => []EveryBookListed
<1>1. IndexInv => EveryBookListed
  BY DEF IndexInv
<1> QED
  BY <1>1, IndexAlwaysExact, PTL

\* The poll of oms.rs prunes only orders that cannot trigger and returns no
\* order that a scan of the whole map would not return.
LEMMA PollIsScan ==
  ASSUME IndexInv, NEW i \in Instruments, NEW m \in Snapshots
  PROVE  PollableIds(i, m) = Scan(i, m)
<1>1. ASSUME NEW id \in Scan(i, m) PROVE id \in PollableIds(i, m)
  <2> DEFINE o == orders[id]
             k == Key(o)
  <2>1. id \in Ids /\ o \in Orders /\ o.inst = i /\ Reached(o, m) /\ o # NoOrder
    BY <1>1 DEF Scan, IndexInv, TypeOK
  <2>2. Indexed(o) /\ InRange(BookName(o), TriggerPrice(o), m)
    BY <2>1 DEF Reached, Indexed, InRange, BookName, TriggerPrice, AtLeast, IsStop
  <2>3. k \in Keys /\ k = <<i, BookName(o), TriggerPrice(o)>>
    BY <2>1, <2>2, KeyOfIndexed DEF Key
  <2>4. level[k][id] = 1
    BY <2>1, <2>2, <2>3 DEF IndexInv, IndexExact, IsHome
  <2>5. k \in present /\ i \in listed
    <3>1. k \in present
      BY <2>1, <2>3, <2>4 DEF IndexInv, NoEmptyLevels
    <3> QED
      BY <3>1, <2>3 DEF IndexInv, EveryBookListed
  <2>6. k[1] = i /\ InRange(k[2], k[3], m) /\ level[k][id] > 0
    BY <2>2, <2>3, <2>4
  <2> QED
    BY <2>1, <2>5, <2>6 DEF PollableIds
<1>2. ASSUME NEW id \in PollableIds(i, m) PROVE id \in Scan(i, m)
  <2>1. PICK k \in present : k[1] = i /\ InRange(k[2], k[3], m) /\ level[k][id] > 0
    BY <1>2 DEF PollableIds
  <2>2. id \in Ids /\ k \in Keys
    BY <1>2, <2>1 DEF PollableIds, IndexInv, TypeOK
  <2>3. IsHome(k, id)
    BY <2>1, <2>2 DEF IndexInv, IndexExact
  <2>4. orders[id] \in Orders
    BY <2>2, <2>3 DEF IsHome, IndexInv, TypeOK
  <2>5. k = <<orders[id].inst, BookName(orders[id]), TriggerPrice(orders[id])>>
    BY <2>3 DEF IsHome, Key
  <2>6. orders[id].inst = i /\ InRange(BookName(orders[id]), TriggerPrice(orders[id]), m)
    BY <2>1, <2>5
  <2>7. Reached(orders[id], m)
    BY <2>3, <2>4, <2>6, OrdersAssumption
       DEF IsHome, OpenOrder, OrderTypes, Sides, Indexed, Reached, InRange, BookName,
           TriggerPrice, IsStop
  <2> QED
    BY <2>2, <2>3, <2>6, <2>7 DEF Scan, IsHome
<1> QED
  BY <1>1, <1>2

\* oms.rs implements the working-order map with a linear scan: the index is
\* invisible to the fill engine that polls it.
THEOREM IndexedStoreImplementsScan == Spec => Implements
<1>1. Init => AbsInit
  BY DEF Init
<1>2. IndexInv /\ [Next]_vars => [AbsNext]_absVars
  <2> SUFFICES ASSUME IndexInv, [Next]_vars PROVE [AbsNext]_absVars
    OBVIOUS
  <2>1. ASSUME NEW id \in Ids, NEW o \in Orders, InsertOrder(id, o) PROVE AbsNext
    BY <2>1 DEF InsertOrder, AbsUpsert, AbsNext
  <2>2. ASSUME NEW id \in Ids, RemoveOrder(id) PROVE AbsNext
    BY <2>2 DEF RemoveOrder, AbsRemove, AbsNext
  <2>3. ASSUME NEW i \in Instruments, NEW m \in Snapshots, Poll(i, m) PROVE AbsNext
    BY <2>3, PollIsScan DEF Poll, AbsPoll, AbsNext
  <2>4. CASE UNCHANGED vars
    BY <2>4 DEF vars, absVars
  <2> QED
    BY <2>1, <2>2, <2>3, <2>4 DEF Next
<1>3. Spec => []IndexInv
  BY IndexAlwaysExact
<1> QED
  BY <1>1, <1>2, <1>3, PTL DEF Spec, Implements, AbsSpec
=============================================================================
