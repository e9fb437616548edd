---------------------------- MODULE TradeLedger ----------------------------
(***************************************************************************)
(* What a report says of the fills of a run (metrics/ledger.rs): the       *)
(* average-cost ledger that finds the profit of each closing fill, of all  *)
(* fills or of one strategy's.                                             *)
(*                                                                         *)
(* A fill is [inst, side, qty, price, fee, mult, strategy], as the account *)
(* logs it.  Strings of decimals are the numbers they stand for.           *)
(***************************************************************************)
EXTENDS FillRules, SequencesExt

Untouched == [qty |-> 0, average |-> 0, fees |-> 0]

Share(fee, part, whole) == (fee * part) \div whole

\* Mutant of Left: what stays of a reduced position keeps all of its fees.
LeftWithFees(p, f, opening, closing) ==
  LET delta == Signed(f.side, f.qty)
      left  == p.qty + delta
  IN  IF left = 0 THEN Untouched
      ELSE IF Signum(left) = Signum(delta)
        THEN [qty |-> left, average |-> f.price, fees |-> f.fee - closing]
        ELSE [p EXCEPT !.qty = left]

\* What a closing fill leaves: nothing, a position on its own side, or less of
\* the old one.
Left(p, f, opening, closing) ==
  LET delta == Signed(f.side, f.qty)
      left  == p.qty + delta
  IN  IF left = 0 THEN Untouched
      ELSE IF Signum(left) = Signum(delta)
        THEN [qty |-> left, average |-> f.price, fees |-> f.fee - closing]
        ELSE [p EXCEPT !.qty = left, !.fees = @ - opening]

\* OpenPosition::apply: an opening fill has no profit; a closing one bears its
\* share of the fees on both sides.
Applied(p, f) ==
  LET delta   == Signed(f.side, f.qty)
      close   == Least(f.qty, Abs(p.qty))
      left    == p.qty + delta
      opening == Share(p.fees, close, Abs(p.qty))
      closing == Share(f.fee, close, f.qty)
  IN  IF p.qty = 0 THEN
        [position |-> [qty |-> delta, average |-> f.price, fees |-> f.fee],
         closes   |-> FALSE]
      ELSE IF Signum(p.qty) = Signum(delta) THEN
        [position |-> [qty     |-> left,
                       average |-> (p.average * Abs(p.qty) + f.price * f.qty) \div Abs(left),
                       fees    |-> p.fees + f.fee],
         closes   |-> FALSE]
      ELSE
        [position |-> Left(p, f, opening, closing),
         closes   |-> TRUE,
         profit   |-> (f.price - p.average) * Signum(p.qty) * close * f.mult
                        - opening - closing]

NoTrades == [closed_trades |-> 0, wins |-> 0, losses |-> 0,
             gross_profit |-> 0, gross_loss |-> 0]

\* record_close.
RecordClose(ledger, profit) ==
  IF profit > 0 THEN
    [ledger EXCEPT !.closed_trades = @ + 1, !.wins = @ + 1, !.gross_profit = @ + profit]
  ELSE IF profit < 0 THEN
    [ledger EXCEPT !.closed_trades = @ + 1, !.losses = @ + 1, !.gross_loss = @ - profit]
  ELSE [ledger EXCEPT !.closed_trades = @ + 1]

\* trade_ledger_from_fill_iter, with the positions that it ends on.  A fill of
\* no quantity or multiplier is passed over.
LedgerOf(fills, instruments) ==
  LET Step(book, f) ==
        LET a == Applied(book.open[f.inst], f) IN
        IF f.qty <= 0 \/ f.mult <= 0 THEN book
        ELSE [open   |-> [book.open EXCEPT ![f.inst] = a.position],
              ledger |-> IF a.closes THEN RecordClose(book.ledger, a.profit)
                         ELSE book.ledger]
  IN  FoldLeft(Step, [open   |-> [i \in instruments |-> Untouched],
                      ledger |-> NoTrades], fills)

\* The fills of one strategy, in the order of the log.
FillsOf(fills, strategy) ==
  FoldLeft(LAMBDA own, f : IF f.strategy = strategy THEN Append(own, f) ELSE own, <<>>, fills)

RealizedPnl(ledger) == ledger.gross_profit - ledger.gross_loss

\* per_strategy_pnl: a row for each strategy that a fill is tagged with.
PerStrategy(fills, instruments, untagged) ==
  [s \in {f.strategy : f \in ToSet(fills)} \ {untagged} |->
     LedgerOf(FillsOf(fills, s), instruments)]
=============================================================================
