----------------------------- MODULE OrderStore -----------------------------
(***************************************************************************)
(* oms.rs: the working orders by id, indexed per instrument by four price  *)
(* books (buy and sell limits, buy and sell stops).  A poll visits only    *)
(* the levels of the books that the snapshot reaches.                      *)
(*                                                                         *)
(* A level is the list of ids pushed at one price.  It is modelled by the  *)
(* number of times each id stands in it, so that an id listed twice is a   *)
(* state of the model; the order inside a level is that of the pushes, and *)
(* ReplayEngine.tla keeps it (its ids grow with time).                     *)
(***************************************************************************)
EXTENDS WorkingOrders

VARIABLES
  listed,   \* instruments that have an entry in the outer map
  present,  \* level keys that have an entry in their price map
  level     \* level key -> how often each id stands in that level

vars == <<orders, polled, listed, present, level>>

BookNames == {"buy_limits", "sell_limits", "buy_stops", "sell_stops"}

Keys == Instruments \X BookNames \X Prices

\* book_mut returns a book: market orders and orders without their trigger
\* price are kept but never indexed.
Indexed(o) == o.type # "Market" /\ TriggerPrice(o) # NoPrice

Key(o) == <<o.inst, BookName(o), TriggerPrice(o)>>

\* The two maps, as one value that the helpers below rewrite.
Index == [listed |-> listed, present |-> present, level |-> level]

NoIds == [id \in Ids |-> 0]

\* insert: the outer entry is created even when the order is not indexed.
Insert(ix, id, o) ==
  [listed  |-> ix.listed \cup {o.inst},
   present |-> IF Indexed(o) THEN ix.present \cup {Key(o)} ELSE ix.present,
   level   |-> IF Indexed(o)
                 THEN [ix.level EXCEPT ![Key(o)][id] = @ + 1]
                 ELSE ix.level]

\* Mutant of Remove: an empty level stays in its price map.
RemoveKeepsLevel(ix, id, o) ==
  IF Indexed(o) /\ Key(o) \in ix.present
    THEN [ix EXCEPT !.level[Key(o)][id] = 0]
    ELSE ix

\* remove: every copy of the id leaves the level; an empty level leaves its
\* price map.
Remove(ix, id, o) ==
  IF Indexed(o) /\ Key(o) \in ix.present
    THEN LET rest == [ix.level[Key(o)] EXCEPT ![id] = 0]
         IN  [listed  |-> ix.listed,
              present |-> IF rest = NoIds THEN ix.present \ {Key(o)} ELSE ix.present,
              level   |-> [ix.level EXCEPT ![Key(o)] = rest]]
    ELSE ix

\* Mutant of BooksEmpty: the stop books are not looked at.
LimitBooksEmpty(ix, i) ==
  \A k \in ix.present : k[1] # i \/ k[2] \in {"buy_stops", "sell_stops"}

\* is_empty over the four books of an instrument.
BooksEmpty(ix, i) == \A k \in ix.present : k[1] # i

\* unindex_order: an instrument whose books are all empty leaves the outer map.
Unindex(ix, id, o) ==
  IF o.inst \in ix.listed
    THEN LET rest == Remove(ix, id, o)
         IN  IF BooksEmpty(rest, o.inst)
               THEN [rest EXCEPT !.listed = @ \ {o.inst}]
               ELSE rest
    ELSE ix

SetIndex(ix) ==
  /\ listed' = ix.listed
  /\ present' = ix.present
  /\ level' = ix.level

Init ==
  /\ AbsInit
  /\ listed = {}
  /\ present = {}
  /\ level = [k \in Keys |-> NoIds]

\* Mutant of InsertOrder: the replaced order stays indexed.
InsertOrderKeepsOld(id, o) ==
  /\ orders' = [orders EXCEPT ![id] = o]
  /\ SetIndex(Insert(Index, id, o))
  /\ UNCHANGED polled

\* apply_order_update with status Open.  The new order is stored, the order it
\* replaces is unindexed, then the new one is indexed.
InsertOrder(id, o) ==
  /\ orders' = [orders EXCEPT ![id] = o]
  /\ LET old == IF orders[id] = NoOrder THEN Index ELSE Unindex(Index, id, orders[id])
     IN  SetIndex(Insert(old, id, o))
  /\ UNCHANGED polled

\* apply_order_update with status Filled, Canceled or Rejected.
RemoveOrder(id) ==
  /\ orders' = [orders EXCEPT ![id] = NoOrder]
  /\ SetIndex(IF orders[id] = NoOrder THEN Index ELSE Unindex(Index, id, orders[id]))
  /\ UNCHANGED polled

\* Mutant of InRange: the level at the bid itself is left out of the range.
InRangeExclusive(book, p, m) ==
  \/ book = "buy_limits"  /\ AtLeast(p, m.ask)
  \/ book = "sell_limits" /\ AtLeast(m.bid, p) /\ p # m.bid
  \/ book = "buy_stops"   /\ AtLeast(m.high, p)
  \/ book = "sell_stops"  /\ AtLeast(p, m.low)

\* The price range of each book that the snapshot reaches.
InRange(book, p, m) ==
  \/ book = "buy_limits"  /\ AtLeast(p, m.ask)
  \/ book = "sell_limits" /\ AtLeast(m.bid, p)
  \/ book = "buy_stops"   /\ AtLeast(m.high, p)
  \/ book = "sell_stops"  /\ AtLeast(p, m.low)

PollableIds(i, m) ==
  IF i \in listed
    THEN {id \in Ids : \E k \in present :
            k[1] = i /\ InRange(k[2], k[3], m) /\ level[k][id] > 0}
    ELSE {}

Poll(i, m) ==
  /\ polled' = <<i, m, PollableIds(i, m)>>
  /\ UNCHANGED <<orders, listed, present, level>>

Next ==
  \/ \E id \in Ids, o \in Orders : InsertOrder(id, o)
  \/ \E id \in Ids : RemoveOrder(id)
  \/ \E i \in Instruments, m \in Snapshots : Poll(i, m)

Spec == Init /\ [][Next]_vars

-----------------------------------------------------------------------------
\* The types of the store's two maps and of its index.
TypeOK ==
  /\ orders \in [Ids -> Orders \cup {NoOrder}]
  /\ polled \in {<<>>} \cup (Instruments \X Snapshots \X SUBSET Ids)
  /\ listed \in SUBSET Instruments
  /\ present \in SUBSET Keys
  /\ level \in [Keys -> [Ids -> Nat]]

\* The key under which id should be found, if any.
IsHome(k, id) ==
  /\ orders[id] # NoOrder
  /\ Indexed(orders[id])
  /\ Key(orders[id]) = k

\* An id stands exactly once in the level of its working order and in no other
\* level, whatever updates replaced its price, side or instrument: a stale or
\* double entry would make one poll fill the same order twice.
IndexExact ==
  \A k \in Keys, id \in Ids : level[k][id] = IF IsHome(k, id) THEN 1 ELSE 0

\* A level is in its price map exactly when it holds an id: the maps do not
\* keep empty levels of orders that came and went.
NoEmptyLevels ==
  \A k \in Keys : k \in present <=> \E id \in Ids : level[k][id] > 0

\* Every instrument with a level is in the outer map, so that neither the poll
\* of one instrument nor the full-book poll can miss a working order.
EveryBookListed == \A k \in present : k[1] \in listed

\* The three facts that are inductive together.
IndexInv == TypeOK /\ IndexExact /\ NoEmptyLevels /\ EveryBookListed

\* The price-indexed store implements the store that scans every order.
Implements == AbsSpec
=============================================================================
