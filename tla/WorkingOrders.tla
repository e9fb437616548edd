--------------------------- MODULE WorkingOrders ---------------------------
(***************************************************************************)
(* What the order manager promises its callers: a map from order ids to    *)
(* working orders, and a poll that returns the orders of one instrument    *)
(* which the given market snapshot could trigger.  Here the poll scans the *)
(* whole map.  OrderStore.tla answers the same poll from price-sorted      *)
(* books and is shown to implement this specification.                     *)
(***************************************************************************)
EXTENDS OrderRules

CONSTANTS
  Ids,          \* order ids
  Instruments,  \* registered instruments
  Prices,       \* prices an order or a market snapshot may carry
  Orders,       \* orders the engine may submit
  Snapshots,    \* market snapshots a poll may be given
  NoOrder       \* an id that is not working

MaybePrices == Prices \cup {NoPrice}

\* The fields of types::OpenOrder that the store reads.  The fill engine builds
\* limits without a stop, stop-markets without a price and markets without
\* either; an update that lacks its trigger price is a legal input too.
OpenOrder ==
  {o \in [inst  : Instruments,
          side  : Sides,
          type  : OrderTypes,
          price : MaybePrices,
          stop  : MaybePrices] :
     /\ o.type \in {"Limit", "Market"} => o.stop = NoPrice
     /\ o.type \in {"StopMarket", "Market"} => o.price = NoPrice}

ASSUME PricesAssumption == Prices \subseteq Int /\ NoPrice \notin Prices

ASSUME OrdersAssumption == Orders \subseteq OpenOrder

\* Each side of a snapshot may be unknown.
ASSUME SnapshotsAssumption ==
  Snapshots \subseteq
    [bid : MaybePrices, ask : MaybePrices, high : MaybePrices, low : MaybePrices]

ASSUME NoOrderAssumption == NoOrder \notin Orders

VARIABLES
  orders,   \* id -> its working order, or NoOrder
  polled    \* the last poll: its instrument, its snapshot and the ids it returned

absVars == <<orders, polled>>

Scan(i, m) ==
  {id \in Ids : /\ orders[id] # NoOrder
                /\ orders[id].inst = i
                /\ Reached(orders[id], m)}

AbsInit ==
  /\ orders = [id \in Ids |-> NoOrder]
  /\ polled = <<>>

AbsUpsert(id, o) ==
  /\ orders' = [orders EXCEPT ![id] = o]
  /\ UNCHANGED polled

AbsRemove(id) ==
  /\ orders' = [orders EXCEPT ![id] = NoOrder]
  /\ UNCHANGED polled

AbsPoll(i, m) ==
  /\ polled' = <<i, m, Scan(i, m)>>
  /\ UNCHANGED orders

AbsNext ==
  \/ \E id \in Ids, o \in Orders : AbsUpsert(id, o)
  \/ \E id \in Ids : AbsRemove(id)
  \/ \E i \in Instruments, m \in Snapshots : AbsPoll(i, m)

AbsSpec == AbsInit /\ [][AbsNext]_absVars
=============================================================================
