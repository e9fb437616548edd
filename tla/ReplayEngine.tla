---------------------------- MODULE ReplayEngine ----------------------------
(***************************************************************************)
(* One backtest run: backtest/runner.rs drives engine/sync.rs and          *)
(* engine/commands.rs over a stream of market events, execution/fills.rs   *)
(* simulates the venue, state/*.rs keeps the books and                     *)
(* backtest/lifecycle.rs settles cash flows after each bar.                *)
(*                                                                         *)
(* The program is one thread.  An action is one step of that thread that   *)
(* can be told apart from outside: one order placed, one resting order     *)
(* evaluated, one control applied, one instrument settled.  `phase` is the *)
(* place in the event loop:                                                *)
(*                                                                         *)
(*   idle -> place -> poll -> strategy -> control -> submit                *)
(*                                        -> [settle] -> idle              *)
(*   idle -> submit -> control -> done          (finalize_strategy_sync)   *)
(*                                                                         *)
(* Only a bar is settled.  An intent that answers a bar is deferred to the *)
(* next market update of its instrument; an intent that answers any other  *)
(* event is placed at once.                                                *)
(***************************************************************************)
EXTENDS LifecycleRules, FiniteSetsExt, Sequences

CONSTANTS
  Rows,           \* the registry: a sequence of the instruments
  Meta,           \* instrument -> its metadata
  Assets,         \* assets that have a balance
  InitialBal,     \* asset -> initial balance
  Bars,           \* completed bars the data may hold
  Ticks,          \* other market events the data may hold
  Responses,      \* what a strategy may answer to a callback
  Calendar,       \* the timestamps, in order: [day, funding, coupon]
  Gaps,           \* how far the time may move between two events
  Primary,        \* BacktestConfig.instrument
  MaxPosition,    \* max_position_abs of the primary instrument, or NoLimit
  MaxDailyLoss,   \* max_daily_loss_quote, or NoLimit
  NoLimit,
  NoGroup,        \* an order outside every OCO group
  NoClient,       \* an order without a client id
  MaxEvents,      \* bound: events of a run
  MaxResponses    \* bound: callbacks answered with something

Instruments == {Rows[n] : n \in DOMAIN Rows}

Times == DOMAIN Calendar

Day(t) == Calendar[t].day

ASSUME TimeAssumption == Gaps \subseteq Nat /\ 1 \in Times

ASSUME RowsAssumption == Rows \in Seq(Instruments) /\ Primary \in Instruments

ASSUME MetaAssumption ==
  \A i \in Instruments :
    /\ Meta[i].class \in Classes
    /\ {Meta[i].base, Meta[i].quote} \subseteq Assets
    /\ {Meta[i].lot, Meta[i].tick, Meta[i].mult} \subseteq Nat
    /\ Meta[i].class = "Bond" => Meta[i].coupon \in Nat
    /\ Meta[i].class = "Option" => Meta[i].strike \in Nat /\ Meta[i].underlying \in Instruments

\* Every instrument has an asset of its own, which is nobody's quote.
ASSUME BasesAssumption ==
  \A i, j \in Instruments :
    /\ Meta[i].base = Meta[j].base => i = j
    /\ Meta[i].base # Meta[j].quote

\* The run starts flat: all wealth is in quote assets.
ASSUME BalancesAssumption ==
  /\ InitialBal \in [Assets -> Int]
  /\ \A i \in Instruments : InitialBal[Meta[i].base] = 0

\* A completed bar spans its close and its prices are not negative.  No reader of
\* the program checks it: what follows of a bar that does not is not modelled.
ASSUME BarsAssumption ==
  \A b \in Bars :
    /\ b.inst \in Instruments
    /\ {b.open, b.high, b.low, b.close} \subseteq Nat
    /\ b.low <= b.close /\ b.close <= b.high

\* A status record stands for the records that carry no price.
TickKinds == {"trade", "quote", "status"}

ASSUME TicksAssumption ==
  \A e \in Ticks :
    /\ e.inst \in Instruments /\ e.kind \in TickKinds
    /\ e.kind = "trade" => e.price \in Int
    /\ e.kind = "quote" => {e.bid, e.ask} \subseteq Int

\* An intent as the strategy states it.
Wishes ==
  [inst : Instruments, side : Sides, type : OrderTypes, qty : Int,
   price : Int \cup {NoPrice}, stop : Int \cup {NoPrice}, oco : STRING \cup {NoGroup},
   client : STRING \cup {NoClient}]

ASSUME LimitsAssumption == MaxPosition = NoLimit \/ MaxPosition \in Int

ASSUME ResponsesAssumption == \A r \in Responses : r.intents \in Seq(Wishes)

VARIABLES
  phase,      \* where the event loop stands
  event,      \* the event in hand
  now,        \* its timestamp, an index into Calendar
  market,     \* instrument -> its market row
  acct,       \* positions, average entries and balances
  anchor,     \* risk_day_anchor: [day, equity], day 0 before the first
  open,       \* working orders by id
  nextId,     \* ids are drawn in the order of the steps that need one
  pending,    \* pending_bar_intents by id: deferred to the next market update
  work,       \* the strategy's intents still to submit
  poll,       \* the poll in progress
  controls,   \* controls still to apply
  rows,       \* instruments still to flatten or to settle
  used,       \* callbacks answered so far
  ghost       \* history the properties speak of

loopVars   == <<event, now, rows, used>>
marketVars == <<market, anchor>>
vars == <<phase, loopVars, marketVars, acct, open, nextId, pending, work, poll,
          controls, ghost>>

-----------------------------------------------------------------------------
NoBar == [inst |-> Primary, open |-> 0, high |-> 0, low |-> 0, close |-> 0]

\* `clears` is cancel_deferred of finalize_strategy_sync.
NoEvent == [kind |-> "none", inst |-> Primary, bar |-> NoBar, index |-> 0, clears |-> FALSE]

\* `range` is the index of the event whose bar left high and low, `at` the time
\* of the instrument's last bar.
NoMarket ==
  [bid |-> NoPrice, ask |-> NoPrice, high |-> NoPrice, low |-> NoPrice,
   last |-> NoPrice, range |-> 0, at |-> 0]

Flat == [pos   |-> [i \in Instruments |-> 0],
         entry |-> [i \in Instruments |-> NoPrice],
         bal   |-> InitialBal]

\* A poll evaluates its candidates against the state at its start: `seen` is
\* that account and `resting` those orders.
NoPoll == [seen |-> Flat, resting |-> <<>>, todo |-> {}, groups |-> {}, fills |-> 0]

\* The most recent Fill event: the index of the event at which its order was
\* submitted; if a bar's range made it fill, the index of that bar; and whether the
\* event in hand moved the market of the instrument.
NoFill == [n |-> 0, id |-> 0, oco |-> NoGroup, inst |-> Primary, moved |-> FALSE,
           born |-> 0, range |-> 0]

\* cash    what the Fill events and the settlements add to each asset;
\* lost    some poll has filled two orders;
\* funded  instrument -> fundings settled at the current timestamp.
NoHistory ==
  [last |-> NoFill, cash |-> [a \in Assets |-> 0], lost |-> FALSE,
   funded |-> [i \in Instruments |-> 0]]

Init ==
  /\ phase = "idle"
  /\ event = NoEvent
  /\ now = 1
  /\ market = [i \in Instruments |-> NoMarket]
  /\ acct = Flat
  /\ anchor = [day |-> 0, equity |-> 0]
  /\ open = <<>>
  /\ nextId = 1
  /\ pending = <<>>
  /\ work = <<>>
  /\ poll = NoPoll
  /\ controls = <<>>
  /\ rows = <<>>
  /\ used = 0
  /\ ghost = NoHistory

-----------------------------------------------------------------------------
\* The event in hand brings a price of the instrument.
Moved(i) == event.kind \in {"bar", "trade", "quote"} /\ event.inst = i

Without(f, S) == [id \in DOMAIN f \ S |-> f[id]]

With(f, id, o) == [k \in DOMAIN f \cup {id} |-> IF k = id THEN o ELSE f[k]]

\* An instrument without a market is worth nothing.
Value(a, mkt, i) ==
  PositionValue(a, i, Meta[i], IF MidOrLast(mkt[i]) = NoPrice THEN 0 ELSE MidOrLast(mkt[i]))

\* portfolio_equity_for_quote.
Equity(a, mkt, quote) ==
  a.bal[quote] + MapThenSumSet(LAMBDA i : Value(a, mkt, i),
                               {i \in Instruments : Meta[i].quote = quote})

\* refresh_daily_risk_anchor.
AnchorAt(t, mkt) ==
  IF MaxDailyLoss = NoLimit \/ anchor.day = Day(t) THEN anchor
  ELSE [day |-> Day(t), equity |-> Equity(acct, mkt, Meta[Primary].quote)]

\* RiskEngine::validate with the checks that configure_risk installs.  PauseCheck
\* is not among them here: no step of a replay sets `paused`.
Valid(o, flatten) ==
  LET projected == acct.pos[o.inst] + Signed(o.side, o.qty)
  IN  /\ ~(o.side = "Sell" /\ Meta[o.inst].class = "Equity" /\ projected < 0)
      /\ o.inst = Primary /\ MaxPosition # NoLimit => Abs(projected) <= MaxPosition
      /\ MaxDailyLoss # NoLimit /\ anchor.day # 0 /\ ~flatten =>
           anchor.equity - Equity(acct, market, Meta[Primary].quote) <= MaxDailyLoss

\* Mutant of Siblings: only the siblings submitted later.
SiblingsAfter(id, o, orders) ==
  {s \in DOMAIN orders : s > id /\ o.oco # NoGroup /\ orders[s].oco = o.oco}

\* The orders that a fill of `o` cancels: its OCO siblings among `orders`.
Siblings(id, o, orders) ==
  {s \in DOMAIN orders : s # id /\ o.oco # NoGroup /\ orders[s].oco = o.oco}

\* The events of one fill: the order is filled, its siblings are cancelled, the
\* account moves.  The fill engine saw the account `seen` and the orders `resting`.
FillOrder(id, o, price, seen, resting, range) ==
  LET i    == o.inst
      x    == Meta[i]
      gone == {id} \cup Siblings(id, o, resting)
  IN  /\ acct' = AccountAfterFill(acct, seen, i, x, o.side, price, o.qty)
      /\ open' = Without(open, gone)
      /\ ghost' = [ghost EXCEPT
           !.last = [n |-> @.n + 1, id |-> id, oco |-> o.oco, inst |-> i,
                     moved |-> Moved(i), born |-> o.born, range |-> range],
           !.cash[x.quote] = @ + QuoteGain(acct, i, x, o.side, price, o.qty),
           !.lost = @ \/ poll.fills > 0]

-----------------------------------------------------------------------------
\* The market moves.

\* Mutant of OpenMarket: the range of the previous bar stays.
OpenMarketKeepsRange(m, price) ==
  [m EXCEPT !.bid = SyntheticBid(price), !.ask = SyntheticAsk(price), !.last = price]

OpenMarket(m, price) ==
  [m EXCEPT !.bid = SyntheticBid(price), !.ask = SyntheticAsk(price),
            !.last = price, !.high = NoPrice, !.low = NoPrice]

CompletedBar(m, b) ==
  [m EXCEPT !.bid = SyntheticBid(b.close), !.ask = SyntheticAsk(b.close),
            !.last = b.close, !.high = b.high, !.low = b.low,
            !.range = event.index, !.at = now]

\* apply_market for events other than bars.  A status, imbalance or statistic
\* record changes nothing.
Ticked(m, e) ==
  CASE e.kind = "trade"  -> [m EXCEPT !.last = e.price, !.high = NoPrice, !.low = NoPrice]
    [] e.kind = "quote"  -> [m EXCEPT !.bid = e.bid, !.ask = e.ask,
                                      !.high = NoPrice, !.low = NoPrice]
    [] e.kind = "status" -> m

\* Timestamps do not decrease.
Moments == {t \in Times : t - now \in Gaps}

NextEvent(t, e) ==
  /\ phase = "idle"
  /\ event.index < MaxEvents
  /\ now' = t
  /\ event' = [e EXCEPT !.index = event.index + 1]
  /\ ghost' = IF t = now THEN ghost ELSE [ghost EXCEPT !.funded = NoHistory.funded]
  /\ UNCHANGED <<acct, open, nextId, pending, work, poll, controls, rows, used>>

\* A bar of one instrument: its open becomes the market.  The bars of one
\* source have increasing timestamps.
Bar(b, t) ==
  /\ t > market[b.inst].at
  /\ NextEvent(t, [NoEvent EXCEPT !.kind = "bar", !.inst = b.inst, !.bar = b])
  /\ market' = [market EXCEPT ![b.inst] = OpenMarket(@, b.open)]
  /\ phase' = "place"
  /\ UNCHANGED anchor

Tick(e, t) ==
  /\ NextEvent(t, [NoEvent EXCEPT !.kind = e.kind, !.inst = e.inst])
  /\ market' = [market EXCEPT ![e.inst] = Ticked(@, e)]
  /\ anchor' = AnchorAt(t, market')
  /\ phase' = "place"

Timer(t) ==
  /\ Ticks # {}
  /\ NextEvent(t, [NoEvent EXCEPT !.kind = "timer"])
  /\ anchor' = AnchorAt(t, market)
  /\ phase' = "strategy"
  /\ UNCHANGED market

-----------------------------------------------------------------------------
\* Intents: deferred ones at the next update of their instrument, the others
\* when the strategy answers.

\* Mutant of Deferred: only bars release what a bar deferred.
DeferredToBars(i) == {n \in DOMAIN pending : event.kind = "bar" /\ pending[n].inst = i}

Deferred(i) == {n \in DOMAIN pending : pending[n].inst = i}

FirstDeferred == CHOOSE n \in Deferred(event.inst) : \A k \in Deferred(event.inst) : n <= k

Placing ==
  \/ phase = "place" /\ Deferred(event.inst) # {}
  \/ phase = "submit" /\ event.kind # "bar" /\ work # <<>>

Intent == IF phase = "place" THEN pending[FirstDeferred] ELSE Head(work)

TakeIntent ==
  IF phase = "place"
    THEN pending' = Without(pending, {FirstDeferred}) /\ UNCHANGED work
    ELSE work' = Tail(work) /\ UNCHANGED pending

NewOrder == Normalized(Meta[Intent.inst], Intent)

NewPrice == PlacedPrice(NewOrder, market[Intent.inst])

\* Mutant of Funded: the fee need not be covered.
FundedBeforeFee(o, price, a) ==
  LET x == Meta[o.inst]
  IN  HasFunds([a EXCEPT !.bal[x.quote] = @ + Fee(x, price, o.qty)],
               o.inst, x, o.side, price, o.qty)

Funded(o, price, a) == HasFunds(a, o.inst, Meta[o.inst], o.side, price, o.qty)

\* Mutant of Admitted: a deferred intent is not validated again.
AdmittedOnce == (phase = "place" \/ Valid(Intent, FALSE)) /\ WellFormed(NewOrder)

Admitted == Valid(Intent, FALSE) /\ WellFormed(NewOrder)

\* process_intents_sync, one intent: it fills at once ...
PlaceFills ==
  /\ Placing
  /\ Admitted
  /\ NewPrice # NoPrice
  /\ Funded(NewOrder, NewPrice, acct)
  /\ FillOrder(nextId, NewOrder, NewPrice, acct, open,
               IF IsStop(NewOrder) THEN market[Intent.inst].range ELSE 0)
  /\ nextId' = nextId + 1
  /\ TakeIntent
  /\ UNCHANGED <<phase, loopVars, marketVars, poll, controls>>

\* ... or rests ...
PlaceRests ==
  /\ Placing
  /\ Admitted
  /\ NewPrice = NoPrice
  /\ NewOrder.type # "Market"
  /\ open' = With(open, nextId, NewOrder)
  /\ nextId' = nextId + 1
  /\ TakeIntent
  /\ UNCHANGED <<phase, loopVars, marketVars, acct, poll, controls, ghost>>

\* ... or is rejected by a risk rule, for its prices or quantity, for want of a
\* market, or for want of funds.
PlaceRejected ==
  /\ Placing
  /\ Admitted => IF NewPrice = NoPrice THEN NewOrder.type = "Market"
                                       ELSE ~Funded(NewOrder, NewPrice, acct)
  /\ TakeIntent
  /\ UNCHANGED <<phase, loopVars, marketVars, acct, open, nextId, poll, controls, ghost>>

\* The answer to a bar: an intent that passes the risk rules is deferred.
Defer ==
  /\ phase = "submit" /\ event.kind = "bar" /\ work # <<>>
  /\ IF Valid(Head(work), FALSE)
       THEN pending' = With(pending, nextId, Head(work)) /\ nextId' = nextId + 1
       ELSE UNCHANGED <<pending, nextId>>
  /\ work' = Tail(work)
  /\ UNCHANGED <<phase, loopVars, marketVars, acct, open, poll, controls, ghost>>

EndSubmit ==
  /\ phase = "submit" /\ work = <<>>
  /\ phase' = CASE event.kind = "bar"                 -> "settle"
                [] event.kind = "finish"              -> "control"
                [] event.kind \in TickKinds           -> "idle"
                [] event.kind = "timer"               -> "idle"
  /\ rows' = IF event.kind = "bar" THEN Rows ELSE <<>>
  /\ UNCHANGED <<event, now, used, marketVars, acct, open, nextId, pending, work,
                 poll, controls, ghost>>

-----------------------------------------------------------------------------
\* Resting orders: poll_instrument_into.

\* Mutant of Snapshot: the books are pruned by the quote alone.
SnapshotOfQuote(m) == [bid |-> m.bid, ask |-> m.ask, high |-> m.high, low |-> m.low]

\* The snapshot that prunes the books: a completed bar's range stands for its
\* quote, so that an intrabar touch is enough for a limit.
Snapshot(m) ==
  [bid  |-> IF m.high # NoPrice THEN m.high ELSE m.bid,
   ask  |-> IF m.low  # NoPrice THEN m.low  ELSE m.ask,
   high |-> m.high, low |-> m.low]

Candidates(i, m) == {id \in DOMAIN open : open[id].inst = i /\ Reached(open[id], Snapshot(m))}

StartPoll(m) ==
  /\ phase' = "poll"
  /\ poll' = [seen |-> acct, resting |-> open, todo |-> Candidates(event.inst, m),
              groups |-> {}, fills |-> 0]

\* The deferred intents of a bar's instrument are done: the bar completes.
CloseBar ==
  /\ phase = "place" /\ event.kind = "bar" /\ Deferred(event.inst) = {}
  /\ market' = [market EXCEPT ![event.inst] = CompletedBar(@, event.bar)]
  /\ anchor' = AnchorAt(now, market')
  /\ StartPoll(market'[event.inst])
  /\ UNCHANGED <<loopVars, acct, open, nextId, pending, work, controls, ghost>>

EndPlace ==
  /\ phase = "place" /\ event.kind # "bar" /\ Deferred(event.inst) = {}
  /\ StartPoll(market[event.inst])
  /\ UNCHANGED <<loopVars, marketVars, acct, open, nextId, pending, work, controls, ghost>>

\* The books are visited buy limits, sell limits, buy stops, sell stops, each by
\* price, and a level in the order of its pushes.
BookRank(o) ==
  CASE BookName(o) = "buy_limits"  -> 1
    [] BookName(o) = "sell_limits" -> 2
    [] BookName(o) = "buy_stops"   -> 3
    [] BookName(o) = "sell_stops"  -> 4

Before(c, d) ==
  LET o == poll.resting[c]
      p == poll.resting[d]
  IN  \/ BookRank(o) < BookRank(p)
      \/ /\ BookRank(o) = BookRank(p)
         /\ \/ TriggerPrice(o) < TriggerPrice(p)
            \/ TriggerPrice(o) = TriggerPrice(p) /\ c < d

IsNextCandidate(c) ==
  /\ phase = "poll"
  /\ c \in poll.todo
  /\ \A d \in poll.todo \ {c} : Before(c, d)

\* Mutant of PollPrice: what this poll has filled is forgotten.
PollPriceOfAll(o) == RestingPrice(o, market[o.inst])

\* The price at which the candidate fills in this poll: none for the sibling of
\* an order that this poll has filled.
PollPrice(o) ==
  IF o.oco \in poll.groups THEN NoPrice ELSE RestingPrice(o, market[o.inst])

PollFills(c) ==
  LET o == poll.resting[c]
      m == market[o.inst]
  IN  /\ IsNextCandidate(c)
      /\ PollPrice(o) # NoPrice
      /\ Funded(o, PollPrice(o), poll.seen)
      /\ FillOrder(c, o, PollPrice(o), poll.seen, poll.resting,
                   IF IsStop(o) \/ Touched(o, m) THEN m.range ELSE 0)
      /\ poll' = [poll EXCEPT !.todo = @ \ {c}, !.fills = @ + 1,
                              !.groups = @ \cup ({o.oco} \ {NoGroup})]
      /\ UNCHANGED <<phase, loopVars, marketVars, nextId, pending, work, controls>>

PollRejects(c) ==
  LET o == poll.resting[c]
  IN  /\ IsNextCandidate(c)
      /\ PollPrice(o) # NoPrice
      /\ ~Funded(o, PollPrice(o), poll.seen)
      /\ open' = Without(open, {c})
      /\ poll' = [poll EXCEPT !.todo = @ \ {c}]
      /\ UNCHANGED <<phase, loopVars, marketVars, acct, nextId, pending, work, controls,
                     ghost>>

PollSkips(c) ==
  /\ IsNextCandidate(c)
  /\ PollPrice(poll.resting[c]) = NoPrice
  /\ poll' = [poll EXCEPT !.todo = @ \ {c}]
  /\ UNCHANGED <<phase, loopVars, marketVars, acct, open, nextId, pending, work,
                 controls, ghost>>

EndPoll ==
  /\ phase = "poll" /\ poll.todo = {}
  /\ phase' = "strategy"
  /\ poll' = NoPoll
  /\ UNCHANGED <<loopVars, marketVars, acct, open, nextId, pending, work, controls, ghost>>

-----------------------------------------------------------------------------
\* The strategy and its controls.

Silence == [intents |-> <<>>, controls |-> <<>>]

Answer(r) ==
  /\ r # Silence => used < MaxResponses
  /\ used' = IF r = Silence THEN used ELSE used + 1
  /\ work' = [n \in DOMAIN r.intents |->
                [inst |-> r.intents[n].inst, side |-> r.intents[n].side,
                 type |-> r.intents[n].type, qty |-> r.intents[n].qty,
                 price |-> r.intents[n].price, stop |-> r.intents[n].stop,
                 oco |-> r.intents[n].oco, client |-> r.intents[n].client,
                 born |-> event.index]]
  /\ controls' = r.controls

\* The callback on an event: controls are applied before intents.
OnEvent(r) ==
  /\ phase = "strategy"
  /\ Answer(r)
  /\ phase' = "control"
  /\ UNCHANGED <<event, now, rows, marketVars, acct, open, nextId, pending, poll, ghost>>

\* finalize_strategy_sync: the last callback's intents are placed, then its
\* controls are applied.
Finish(r) ==
  /\ phase = "idle"
  /\ Answer(r)
  /\ event' = [event EXCEPT
       !.kind = "finish",
       !.clears = \E n \in DOMAIN r.controls : r.controls[n].kind \in {"CancelAll", "Flatten"}]
  /\ phase' = "submit"
  /\ UNCHANGED <<now, rows, marketVars, acct, open, nextId, pending, poll, ghost>>

\* The working orders a cancellation names.
Named(c) ==
  {id \in DOMAIN open :
     \/ c.kind = "CancelAll"
     \/ c.kind = "CancelOrder" /\ id = c.id
     \/ c.kind = "CancelClient" /\ open[id].client = c.client}

Cancel ==
  /\ phase = "control" /\ controls # <<>>
  /\ LET c == Head(controls)
     IN  /\ c.kind # "Flatten"
         /\ c.kind # "CancelAll" => Named(c) # {}
         /\ open' = Without(open, Named(c))
  /\ controls' = Tail(controls)
  /\ UNCHANGED <<phase, loopVars, marketVars, acct, nextId, pending, work, poll, ghost>>

\* A cancellation of an order that is not working is an error of the whole run.
CancelUnknown ==
  /\ phase = "control" /\ controls # <<>>
  /\ LET c == Head(controls)
     IN  c.kind \in {"CancelOrder", "CancelClient"} /\ Named(c) = {}
  /\ phase' = "aborted"
  /\ UNCHANGED <<loopVars, marketVars, acct, open, nextId, pending, work, poll,
                 controls, ghost>>

StartFlatten ==
  /\ phase = "control" /\ controls # <<>>
  /\ Head(controls).kind = "Flatten"
  /\ open' = <<>>
  /\ controls' = Tail(controls)
  /\ rows' = Rows
  /\ phase' = "flatten"
  /\ UNCHANGED <<event, now, used, marketVars, acct, nextId, pending, work, poll, ghost>>

\* Mutant of Closing: the position is doubled.
ClosingDoubles(i) ==
  [inst |-> i, side |-> IF acct.pos[i] > 0 THEN "Buy" ELSE "Sell", type |-> "Market",
   qty |-> Abs(acct.pos[i]), price |-> NoPrice, stop |-> NoPrice, oco |-> NoGroup,
   client |-> NoClient, born |-> event.index]

\* close_position_with_flatten_source_sync: a market order for the position.
Closing(i) ==
  [inst |-> i, side |-> IF acct.pos[i] > 0 THEN "Sell" ELSE "Buy", type |-> "Market",
   qty |-> Abs(acct.pos[i]), price |-> NoPrice, stop |-> NoPrice, oco |-> NoGroup,
   client |-> NoClient, born |-> event.index]

FlattenFills ==
  /\ phase = "flatten" /\ rows # <<>>
  /\ LET i == Head(rows)
         o == Normalized(Meta[i], Closing(i))
         p == MarketPrice(o.side, market[i])
     IN  /\ acct.pos[i] # 0
         /\ Valid(Closing(i), TRUE)
         /\ WellFormed(o)
         /\ p # NoPrice
         /\ Funded(o, p, acct)
         /\ FillOrder(nextId, o, p, acct, open, 0)
  /\ nextId' = nextId + 1
  /\ rows' = Tail(rows)
  /\ UNCHANGED <<phase, event, now, used, marketVars, pending, work, poll, controls>>

\* Nothing to close, or the closing order is rejected.
FlattenSkips ==
  /\ phase = "flatten" /\ rows # <<>>
  /\ LET i == Head(rows)
         o == Normalized(Meta[i], Closing(i))
         p == MarketPrice(o.side, market[i])
     IN  acct.pos[i] # 0 /\ Valid(Closing(i), TRUE) /\ WellFormed(o) =>
           p = NoPrice \/ ~Funded(o, p, acct)
  /\ rows' = Tail(rows)
  /\ UNCHANGED <<phase, event, now, used, marketVars, acct, open, nextId, pending,
                 work, poll, controls, ghost>>

EndFlatten ==
  /\ phase = "flatten" /\ rows = <<>>
  /\ phase' = "control"
  /\ UNCHANGED <<loopVars, marketVars, acct, open, nextId, pending, work, poll,
                 controls, ghost>>

EndControl ==
  /\ phase = "control" /\ controls = <<>>
  /\ phase' = IF event.kind = "finish" THEN "done" ELSE "submit"
  /\ pending' = IF event.kind = "finish" /\ event.clears THEN <<>> ELSE pending
  /\ UNCHANGED <<loopVars, marketVars, acct, open, nextId, work, poll, controls, ghost>>

-----------------------------------------------------------------------------
\* apply_bar_lifecycle: after every bar, every instrument of the registry.

\* Mutant of Credit: the cash replaces the balance.
CreditReplaces(a, quote, delta) ==
  /\ acct' = [a EXCEPT !.bal[quote] = delta]
  /\ ghost' = [ghost EXCEPT !.cash[quote] = @ + delta]

\* Some cash reaches a quote asset; `a` is the account otherwise.
Credit(a, quote, delta) ==
  /\ acct' = [a EXCEPT !.bal[quote] = @ + delta]
  /\ ghost' = [ghost EXCEPT !.cash[quote] = @ + delta]

\* The settlement an instrument is due at the current timestamp.
Due(i) ==
  LET x == Meta[i]
  IN  IF MidOrLast(market[i]) = NoPrice THEN "none"
      ELSE IF MustLiquidate(acct, i, x, MidOrLast(market[i])) THEN "liquidation"
      ELSE IF x.class = "Perpetual" /\ acct.pos[i] # 0 /\ Calendar[now].funding THEN "funding"
      ELSE IF x.class = "Bond" /\ Calendar[now].coupon /\ acct.bal[x.base] > 0 THEN "coupon"
      ELSE IF x.class = "Option" /\ acct.pos[i] # 0 /\ now >= x.expiry
                /\ MidOrLast(market[x.underlying]) # NoPrice THEN "exercise"
      ELSE "none"

Settling(i, what) ==
  /\ phase = "settle" /\ rows # <<>> /\ i = Head(rows) /\ Due(i) = what
  /\ rows' = Tail(rows)
  /\ UNCHANGED <<phase, event, now, used, marketVars, open, nextId, pending, work,
                 poll, controls>>

Liquidate(i) ==
  LET x   == Meta[i]
      mid == MidOrLast(market[i])
  IN  /\ Settling(i, "liquidation")
      /\ Credit([Closed(acct, i, x) EXCEPT !.entry[i] = NoPrice], x.quote,
                LiquidationCash(acct, i, x, mid))

SettleFunding(i) ==
  LET x   == Meta[i]
      due == FundingCash(x, MidOrLast(market[i]), acct.pos[i])
  IN  /\ Settling(i, "funding")
      /\ acct' = [acct EXCEPT !.bal[x.quote] = @ + due]
      /\ ghost' = [ghost EXCEPT !.cash[x.quote] = @ + due, !.funded[i] = @ + 1]

SettleCoupon(i) ==
  /\ Settling(i, "coupon")
  /\ Credit(acct, Meta[i].quote, CouponCash(acct, Meta[i]))

SettleOption(i) ==
  LET x == Meta[i]
  IN  /\ Settling(i, "exercise")
      /\ Credit(Closed(acct, i, x), x.quote,
                ExerciseCash(x, MidOrLast(market[x.underlying]), acct.pos[i]))

SettleNothing(i) ==
  /\ Settling(i, "none")
  /\ UNCHANGED <<acct, ghost>>

EndSettle ==
  /\ phase = "settle" /\ rows = <<>>
  /\ phase' = "idle"
  /\ UNCHANGED <<loopVars, marketVars, acct, open, nextId, pending, work, poll,
                 controls, ghost>>

-----------------------------------------------------------------------------
\* The run has returned its report or its error.
Ended == phase \in {"done", "aborted"} /\ UNCHANGED vars

Next ==
  \/ \E b \in Bars, t \in Moments : Bar(b, t)
  \/ \E e \in Ticks, t \in Moments : Tick(e, t)
  \/ \E t \in Moments : Timer(t)
  \/ PlaceFills \/ PlaceRests \/ PlaceRejected \/ Defer \/ EndSubmit
  \/ CloseBar \/ EndPlace
  \/ \E c \in poll.todo : PollFills(c)
  \/ \E c \in poll.todo : PollRejects(c)
  \/ \E c \in poll.todo : PollSkips(c)
  \/ EndPoll
  \/ \E r \in Responses \cup {Silence} : OnEvent(r) \/ Finish(r)
  \/ Cancel \/ CancelUnknown
  \/ StartFlatten \/ FlattenFills \/ FlattenSkips \/ EndFlatten \/ EndControl
  \/ \E i \in Instruments :
       \/ Liquidate(i) \/ SettleFunding(i) \/ SettleCoupon(i)
       \/ SettleOption(i) \/ SettleNothing(i)
  \/ EndSettle
  \/ Ended

Spec == Init /\ [][Next]_vars

-----------------------------------------------------------------------------
Intents ==
  [inst : Instruments, side : Sides, type : OrderTypes, qty : Int,
   price : Int \cup {NoPrice}, stop : Int \cup {NoPrice}, oco : STRING \cup {NoGroup},
   client : STRING \cup {NoClient}, born : Nat]

Phases ==
  {"idle", "place", "poll", "strategy", "control", "flatten", "submit", "settle",
   "done", "aborted"}

IsAccount(a) ==
  /\ a.pos \in [Instruments -> Int]
  /\ a.entry \in [Instruments -> Int \cup {NoPrice}]
  /\ a.bal \in [Assets -> Int]

\* The maps of orders hold orders under the ids drawn so far.
IsOrderMap(f) ==
  \A id \in DOMAIN f : id \in 1 .. nextId - 1 /\ f[id] \in Intents

TypeOK ==
  /\ phase \in Phases
  /\ event.inst \in Instruments /\ event.index \in Nat
  /\ now \in Times
  /\ nextId \in Nat \ {0}
  /\ IsAccount(acct) /\ IsAccount(poll.seen)
  /\ IsOrderMap(open) /\ IsOrderMap(pending) /\ IsOrderMap(poll.resting)
  /\ work \in Seq(Intents)
  /\ poll.todo \subseteq DOMAIN poll.resting
  /\ poll.fills \in Nat
  /\ ghost.cash \in [Assets -> Int]
  /\ ghost.lost \in BOOLEAN

\* The quote balances are the initial ones plus what the reported fills and the
\* settlements add up to: the absolute balances that the fill engine emits lose
\* no fill and count none twice.  (A poll that fills two orders does lose one:
\* EquityNeverShort shows what follows.)
CashFollowsFills ==
  ~ghost.lost =>
    \A i \in Instruments :
      acct.bal[Meta[i].quote] = InitialBal[Meta[i].quote] + ghost.cash[Meta[i].quote]

\* Where no instrument is margined, orders that were funded when they were
\* submitted cannot together overdraw an asset when they fill later.
NoOverdraft ==
  (~ghost.lost /\ \A i \in Instruments : ~UsesMargin(Meta[i])) =>
    \A a \in Assets : acct.bal[a] >= 0

\* risk.rs "Block short sales for equity instruments".
EquityNeverShort ==
  \A i \in Instruments : Meta[i].class = "Equity" => acct.pos[i] >= 0

\* protocol.md: the first fill of a group cancels its working siblings.
OcoCancelsSiblings ==
  [][ghost'.last # ghost.last /\ ghost'.last.oco # NoGroup =>
       \A id \in DOMAIN open' : open'[id].oco # ghost'.last.oco]_vars

\* A poll decides on the orders of its start and applies events as it goes: it
\* fills no order that an earlier candidate has cancelled.
OnlyWorkingOrdersFill ==
  [][phase = "poll" /\ ghost'.last # ghost.last => ghost'.last.id \in DOMAIN open]_vars

\* protocol.md: a deferred stop does not "fill against its submission bar".  An
\* event that brings a price of the instrument, be it a bar, a trade or a quote,
\* never leads to a fill on the range of a bar that had completed when the order was
\* submitted, neither of what it releases nor of what rests.  Only what brings none
\* leaves that range in place: a status record, which releases deferred intents and
\* polls too, a timer, an event of another instrument, the last callback.
NoPastRangeAfterMove ==
  ghost.last.moved => ghost.last.range \notin 1 .. ghost.last.born

\* protocol.md: an intent is held until the next market update of its instrument,
\* and not beyond it.
HeldToNextUpdate ==
  phase \in {"poll", "strategy"} /\ event.kind \in {"bar"} \cup TickKinds =>
    \A n \in DOMAIN pending : pending[n].inst # event.inst

\* oms.rs: the price books prune only orders that the fill rules would not fill.
PruningIsSound ==
  [][phase # "poll" /\ phase' = "poll" =>
       \A id \in DOMAIN open :
         open[id].inst = event.inst /\ RestingPrice(open[id], market'[event.inst]) # NoPrice
           => id \in poll'.todo]_vars

\* protocol.md: flatten cancels every working order and closes every position.
\* A margined close may lack the cash to realize its loss, which is a rejection.
FlattenCloses ==
  [][phase = "flatten" /\ phase' = "control" =>
       /\ DOMAIN open' = {}
       /\ ~ghost.lost => \A i \in Instruments : ~UsesMargin(Meta[i]) => acct'.pos[i] = 0]_vars

\* risk.rs, "Max absolute position size": intents are checked when they are deferred,
\* again when they are released, and each after those before it have filled.  What
\* rests is not checked again, so that a poll may take the position of the primary
\* instrument further beyond the limit, and no other step does.
OnlyPollsExceedLimit ==
  [][MaxPosition # NoLimit /\ phase # "poll" /\ Abs(acct'.pos[Primary]) > MaxPosition
       => Abs(acct'.pos[Primary]) <= Abs(acct.pos[Primary])]_vars

\* lifecycle.rs: equity is conserved at the instant of liquidation.
LiquidationConservesEquity ==
  [][\A i \in Instruments :
       Liquidate(i) => Equity(acct', market', Meta[i].quote) = Equity(acct, market, Meta[i].quote)]_vars

\* A margined position has an average entry exactly while it is open: the profit
\* of the next close, reversal or liquidation is measured from it.
EntryIffMarginedPosition ==
  \A i \in Instruments :
    (acct.entry[i] # NoPrice) <=> (UsesMargin(Meta[i]) /\ acct.pos[i] # 0)

\* lifecycle.rs: a funding boundary settles once.
FundingOncePerBoundary == \A i \in Instruments : ghost.funded[i] <= 1
=============================================================================
