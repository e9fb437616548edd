---------------------------- MODULE Performance ----------------------------
(***************************************************************************)
(* The performance of a run (metrics/performance.rs), from its equity      *)
(* curve or, if the curve is not kept, from the figures that each equity   *)
(* sample updates.                                                         *)
(*                                                                         *)
(* A return and a drawdown are fractions <<num, den>> of integers.  The    *)
(* Sharpe and Sortino ratios are functions of the returns and of the       *)
(* negative ones; Welford's mean and m2 stand for those they were fed.     *)
(***************************************************************************)
EXTENDS FillRules, SequencesExt

Exceeds(f, g) == f[1] * g[2] > g[1] * f[2]

Return(from, to) == IF from < 0 THEN <<from - to, -from>> ELSE <<to - from, from>>

Negative(f) == f[1] < 0

Drawdown(peak, e) == <<peak - e, peak>>

Worse(dd, peak, e) ==
  IF peak > 0 /\ Exceeds(Drawdown(peak, e), dd) THEN Drawdown(peak, e) ELSE dd

\* RollingMetrics::default.
NoMetrics ==
  [peak |-> 0, max_drawdown |-> <<0, 1>>, first |-> NoPrice, prev |-> NoPrice,
   last |-> 0, returns |-> <<>>, downside |-> <<>>]

\* Mutant of RecordSample: the drawdown is taken from the peak before the sample.
RecordSampleLate(m, e) ==
  LET r     == Return(m.prev, e)
      knows == m.prev # NoPrice /\ m.prev # 0
  IN  [m EXCEPT !.peak         = IF e > @ THEN e ELSE @,
                !.max_drawdown = Worse(@, m.peak, m.last),
                !.first        = IF @ = NoPrice THEN e ELSE @,
                !.prev         = e,
                !.last         = e,
                !.returns      = IF knows THEN Append(@, r) ELSE @,
                !.downside     = IF knows /\ Negative(r) THEN Append(@, r) ELSE @]

\* RollingMetrics::record.  A return on nothing is left out.
RecordSample(m, e) ==
  LET peak  == IF e > m.peak THEN e ELSE m.peak
      knows == m.prev # NoPrice /\ m.prev # 0
      r     == Return(m.prev, e)
  IN  [m EXCEPT !.peak         = peak,
                !.max_drawdown = Worse(@, peak, e),
                !.first        = IF @ = NoPrice THEN e ELSE @,
                !.prev         = e,
                !.last         = e,
                !.returns      = IF knows THEN Append(@, r) ELSE @,
                !.downside     = IF knows /\ Negative(r) THEN Append(@, r) ELSE @]

\* The scalars that both summaries report; the ratios are functions of the last
\* two.
Scalars(first, last, dd, returns, downside) ==
  [pnl |-> last - first, pnl_pct |-> IF first = 0 THEN <<0, 1>> ELSE <<last - first, first>>,
   max_drawdown |-> dd, returns |-> returns, downside |-> downside]

streaming_summary(m) ==
  Scalars(IF m.first = NoPrice THEN 0 ELSE m.first, m.last, m.max_drawdown,
          m.returns, m.downside)

\* max_drawdown: the highest sample so far is the peak, whatever its sign.
max_drawdown(curve) ==
  LET Step(run, e) ==
        LET peak == IF run.peak = NoPrice \/ e > run.peak THEN e ELSE run.peak
        IN  [peak |-> peak, dd |-> Worse(run.dd, peak, e)]
  IN  FoldLeft(Step, [peak |-> NoPrice, dd |-> <<0, 1>>], curve).dd

\* A return on nothing is zero.
CurveReturns(curve) ==
  [n \in 1 .. Len(curve) - 1 |->
     IF curve[n] = 0 THEN <<0, 1>> ELSE Return(curve[n], curve[n + 1])]

\* The negative returns.
Losses(returns) ==
  FoldLeft(LAMBDA out, r : IF Negative(r) THEN Append(out, r) ELSE out, <<>>, returns)

\* summarize_with_fills_and_rf.
summarize(curve) ==
  IF curve = <<>> THEN Scalars(0, 0, <<0, 1>>, <<>>, <<>>)
  ELSE Scalars(Head(curve), Last(curve), max_drawdown(curve), CurveReturns(curve),
               Losses(CurveReturns(curve)))
=============================================================================
