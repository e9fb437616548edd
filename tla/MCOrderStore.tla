--------------------------- MODULE MCOrderStore ---------------------------
(***************************************************************************)
(* OrderStore for TLC: two ids, two instruments, two prices.  Two prices   *)
(* put an order on either side of a snapshot, two ids share or split a     *)
(* level, and two instruments let an update move an order between books.   *)
(***************************************************************************)
EXTENDS OrderStore, TLC

\* One stop-limit stands for all: its limit price is not its trigger.
MCOrders ==
  {o \in OpenOrder :
     /\ o.type = "StopLimit" => o.price = 1 /\ o.stop = 2
     /\ o.type = "Market" => o.side = "Buy"}

MarketRow(b, a, h, l) == [bid |-> b, ask |-> a, high |-> h, low |-> l]

MCSnapshots ==
  {MarketRow(1, 2, NoPrice, NoPrice), MarketRow(2, 2, 2, 1), MarketRow(2, 1, 1, 1),
   MarketRow(NoPrice, NoPrice, 2, 2)}

Symmetry == Permutations(Ids) \cup Permutations(Instruments)
=============================================================================
