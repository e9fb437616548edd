----------------------------- MODULE RunReport -----------------------------
(***************************************************************************)
(* The account of a run and what its report tells of it: the fill log and  *)
(* the positions attributed to sub-strategies (state/account.rs), the      *)
(* ledgers and the summary made from them at the end (metrics/, and        *)
(* finalize_report of backtest/runner.rs).                                 *)
(*                                                                         *)
(* The fills and the settlements come from the engine: here any fill that  *)
(* is funded, any settlement that is due, at any price.  They are          *)
(* ReplayEngine's with the order flow left out.  The report may be made    *)
(* after any of them.                                                      *)
(***************************************************************************)
EXTENDS LifecycleRules, TradeLedger, Performance

CONSTANTS
  Instruments,
  Meta,           \* instrument -> its metadata, all of one quote asset
  Quote,          \* that asset
  Cash,           \* its initial balance
  Orders,         \* the orders that may fill: [inst, side, qty]
  Strategies,     \* strategies that tag their orders
  Untagged,       \* the tag of an order without one
  Prices,
  Curves,         \* equity curves to summarize
  MaxFills,       \* bound: fills of a run
  MaxSettlements  \* bound: settlements of a run

ASSUME QuoteAssumption ==
  \A i, j \in Instruments :
    Meta[i].quote = Quote /\ Meta[i].base # Quote /\ (Meta[i].base = Meta[j].base => i = j)

ASSUME InstrumentsAssumption == IsFiniteSet(Instruments)

ASSUME TagsAssumption == IsFiniteSet(Strategies) /\ Untagged \notin Strategies

VARIABLES
  acct,       \* positions, average entries and balances
  mark,       \* instrument -> its mid price
  fills,      \* fill_log
  books,      \* strategy_positions
  paid,       \* what fundings have added to the quote balance
  settled,    \* settlements so far
  closed      \* instruments closed by a liquidation or an exercise

vars == <<acct, mark, fills, books, paid, settled, closed>>

Assets == {Quote} \cup {Meta[i].base : i \in Instruments}

Init ==
  /\ acct = [pos   |-> [i \in Instruments |-> 0],
             entry |-> [i \in Instruments |-> NoPrice],
             bal   |-> [a \in Assets |-> IF a = Quote THEN Cash ELSE 0]]
  /\ mark \in [Instruments -> Prices]
  /\ fills = <<>>
  /\ books = [i \in Instruments |-> [s \in Strategies |-> 0]]
  /\ paid = 0
  /\ settled = 0
  /\ closed = {}

\* The market of an instrument moves.
Mark(i, p) ==
  /\ p # mark[i]
  /\ mark' = [mark EXCEPT ![i] = p]
  /\ UNCHANGED <<acct, fills, books, paid, settled, closed>>

\* Mutant of Attributed: sales are attributed as purchases.
AttributedUnsigned(f) ==
  IF f.strategy = Untagged THEN books ELSE [books EXCEPT ![f.inst][f.strategy] = @ + f.qty]

\* strategy_positions after a fill.
Attributed(f) ==
  IF f.strategy = Untagged THEN books
  ELSE [books EXCEPT ![f.inst][f.strategy] = @ + Signed(f.side, f.qty)]

\* apply_fill: the account, the fill log and the attributed position.
Fill(o, price, s) ==
  LET x == Meta[o.inst]
      f == [inst |-> o.inst, side |-> o.side, qty |-> o.qty, price |-> price,
            fee |-> Fee(x, price, o.qty), mult |-> x.mult, strategy |-> s]
  IN  /\ Len(fills) < MaxFills
      /\ HasFunds(acct, o.inst, x, o.side, price, o.qty)
      /\ acct' = AccountAfterFill(acct, acct, o.inst, x, o.side, price, o.qty)
      /\ fills' = Append(fills, f)
      /\ books' = Attributed(f)
      /\ UNCHANGED <<mark, paid, settled, closed>>

Settle ==
  /\ settled < MaxSettlements
  /\ settled' = settled + 1
  /\ UNCHANGED <<mark, fills, books>>

\* settle_funding.
Fund(i) ==
  LET due == FundingCash(Meta[i], mark[i], acct.pos[i])
  IN  /\ Meta[i].class = "Perpetual" /\ acct.pos[i] # 0
      /\ ~MustLiquidate(acct, i, Meta[i], mark[i])
      /\ acct' = [acct EXCEPT !.bal[Quote] = @ + due]
      /\ paid' = paid + due
      /\ Settle
      /\ UNCHANGED closed

\* liquidate_position and settle_option: the account alone knows of them.
Liquidate(i) ==
  /\ MustLiquidate(acct, i, Meta[i], mark[i])
  /\ acct' = [Closed(acct, i, Meta[i]) EXCEPT
       !.entry[i] = NoPrice, !.bal[Quote] = @ + LiquidationCash(acct, i, Meta[i], mark[i])]
  /\ closed' = closed \cup {i}
  /\ Settle
  /\ UNCHANGED paid

Exercise(i) ==
  LET x == Meta[i]
  IN  /\ x.class = "Option" /\ acct.pos[i] # 0
      /\ acct' = [Closed(acct, i, x) EXCEPT
           !.bal[Quote] = @ + ExerciseCash(x, mark[x.underlying], acct.pos[i])]
      /\ closed' = closed \cup {i}
      /\ Settle
      /\ UNCHANGED paid

Next ==
  \/ \E i \in Instruments, p \in Prices : Mark(i, p)
  \/ \E o \in Orders, s \in Strategies \cup {Untagged} : Fill(o, mark[o.inst], s)
  \/ \E i \in Instruments : Fund(i) \/ Liquidate(i) \/ Exercise(i)

Spec == Init /\ [][Next]_vars

-----------------------------------------------------------------------------
\* The report.

\* The values of v over all of S together.
Total(v, S) == MapThenSumSet(LAMBDA x : v[x], S)

Equity ==
  acct.bal[Quote] +
    Total([i \in Instruments |-> PositionValue(acct, i, Meta[i], mark[i])], Instruments)

\* What an open position of the ledger would make at the market, less the fees
\* that it has paid.
OpenProfit(p, i) == (mark[i] - p.average) * p.qty * Meta[i].mult - p.fees

\* What the fills of an instrument have cost, by the unit.
SpentOn(log, i) ==
  FoldLeft(LAMBDA sum, f : IF f.inst = i THEN sum + Signed(f.side, f.qty) * f.price ELSE sum, 0, log)

\* A fill record has the multiplier of any instrument (fills.rs), the account's cash
\* that of contracts alone: what the ledger makes of the difference.
Overstated(p, i) ==
  (Meta[i].mult - Multiplier(Meta[i])) * (p.qty * mark[i] - SpentOn(fills, i))

\* finalize_report, the figures of the equity: `keeps` is record_equity_curve.
finalize_report(curve, metrics, keeps) ==
  LET s == IF keeps THEN summarize(curve) ELSE streaming_summary(metrics)
  IN  [s EXCEPT !.max_drawdown = IF @[1] = 0 THEN metrics.max_drawdown ELSE @]

Pristine == fills = <<>> /\ settled = 0

(***************************************************************************)
(* The report adds up: the ledger's realized profit, the open profit of    *)
(* the positions it ends on and the fundings are exactly the change of the *)
(* equity, whatever was opened, added to, partly closed and reversed, with *)
(* margin and without (ledger.rs:106-165, account.rs:89-118).  Only the    *)
(* profit of an instrument that is no contract but has a multiplier is     *)
(* stated that many times over.  A liquidation or an exercise has no fill  *)
(* and ends this.                                                          *)
(***************************************************************************)
LedgerExplainsEquity ==
  closed = {} =>
    LET book       == LedgerOf(fills, Instruments)
        Explains(i) == OpenProfit(book.open[i], i) - Overstated(book.open[i], i)
    IN  Equity - Cash = RealizedPnl(book.ledger) + paid
                          + Total([i \in Instruments |-> Explains(i)], Instruments)

(***************************************************************************)
(* Three books that are kept apart agree: the position a strategy's own    *)
(* ledger ends on is the one attributed to it, the attributed and the      *)
(* untagged positions add up to the account's, and the ledger's average    *)
(* cost of a margined position is the account's (ledger.rs:46-69,          *)
(* account.rs:83-96, positions.rs).                                        *)
(***************************************************************************)
AttributionIsComplete ==
  LET rows   == PerStrategy(fills, Instruments, Untagged)
      others == LedgerOf(FillsOf(fills, Untagged), Instruments).open
      book   == LedgerOf(fills, Instruments).open
  IN  /\ \A s \in Strategies, i \in Instruments :
           books[i][s] = IF s \in DOMAIN rows THEN rows[s].open[i].qty ELSE 0
      /\ \A i \in Instruments \ closed :
           /\ acct.pos[i] = others[i].qty + Total(books[i], Strategies)
           /\ acct.entry[i] # NoPrice =>
                acct.pos[i] = book[i].qty /\ acct.entry[i] = book[i].average

(***************************************************************************)
(* A run that does not keep its equity curve reports the figures of one    *)
(* that does (performance.rs:119-122), for every curve: the returns too,   *)
(* and with them the ratios, if no sample but the last is zero.            *)
(***************************************************************************)
MetricsAgree ==
  Pristine =>
    \A curve \in Curves :
      LET metrics  == FoldLeft(RecordSample, NoMetrics, curve)
          kept     == finalize_report(curve, metrics, TRUE)
          streamed == finalize_report(curve, metrics, FALSE)
      IN  /\ [streamed EXCEPT !.returns = kept.returns] = kept
          /\ (\A n \in 1 .. Len(curve) - 1 : curve[n] # 0) => streamed = kept
=============================================================================
