------------------------------ MODULE MCReport ------------------------------
(***************************************************************************)
(* A perpetual, a call on it and a share of multiplier 2, traded by a      *)
(* strategy and without a tag, and every short equity curve.  Prices are   *)
(* multiples of all that the averages and the fees divide by.              *)
(***************************************************************************)
EXTENDS RunReport

CONSTANTS P, O, E, MaxSamples

MCMeta ==
  P :> [class |-> "Perpetual", base |-> "PERP", quote |-> "USD",
        lot |-> 1, tick |-> 0, mult |-> 2, rate |-> 5000]
  @@ O :> [class |-> "Option", base |-> "CALL", quote |-> "USD",
           lot |-> 1, tick |-> 0, mult |-> 3, rate |-> NoRate,
           kind |-> "Call", strike |-> 15000, expiry |-> 3, underlying |-> P]
  @@ E :> [class |-> "Equity", base |-> "SHARE", quote |-> "USD",
           lot |-> 1, tick |-> 0, mult |-> 2, rate |-> NoRate]

MCOrders ==
  [inst : {P}, side : Sides, qty : {1, 2}] \cup [inst : {O, E}, side : Sides, qty : {1}]

MCCurves == UNION {[1..n -> -1..3] : n \in 0..MaxSamples}
=============================================================================
