------------------------------- MODULE MCBars -------------------------------
(***************************************************************************)
(* The csv holds bars that pallas-resample made from short tapes of        *)
(* trades.                                                                 *)
(***************************************************************************)
EXTENDS BarFiles

CONSTANTS MaxTrades

MCTrade(ts, price, qty) ==
  [kind |-> "trade", inst |-> "X", ts |-> ts, price |-> price, qty |-> qty]

MCTape == <<MCTrade(-1, 2, 1), MCTrade(0, 1, 1), MCTrade(1, 3, 1), MCTrade(2, 2, 1)>>

MCContents == {aggregate_rows(trade_rows(MCTape), secs) : secs \in {2, 4}}

\* Trades of every price in and about two buckets, and an event that is none.
MCEvents ==
  {MCTrade(ts, price, 1) : ts \in -3..2, price \in 1..3}
    \cup {[MCTrade(0, 1, 1) EXCEPT !.kind = "quote"], MCTrade(0, 1, 0),
          [MCTrade(0, 1, 1) EXCEPT !.inst = "Y"]}

MCRecordings == UNION {[1..n -> MCEvents] : n \in 0..MaxTrades}

MCIntervals == {1, 2, 4}
=============================================================================
