------------------------- MODULE ReplayEngineProofs -------------------------
(***************************************************************************)
(* What holds of every replay, for any instruments, data, answers of the   *)
(* strategy and rates.                                                     *)
(***************************************************************************)
EXTENDS LiveSession, SequenceTheorems, FiniteSetTheorems, WellFoundedInduction, TLAPS

Prices == Int \cup {NoPrice}

MarketRows ==
  [bid : Prices, ask : Prices, high : Prices, low : Prices, last : Prices, range : Nat,
   at : Times \cup {0}]

\* The prices of a row that come in pairs do, and the quote that stands for a
\* completed bar lies within its range.
Coherent(m) ==
  /\ m.bid = NoPrice <=> m.ask = NoPrice
  /\ m.high = NoPrice <=> m.low = NoPrice
  /\ m.high # NoPrice => m.bid # NoPrice /\ m.low <= m.ask /\ m.bid <= m.high

Accounts ==
  [pos : [Instruments -> Int], entry : [Instruments -> Prices], bal : [Assets -> Int]]

-----------------------------------------------------------------------------
\* Arithmetic.

LEMMA BpsTyped ==
  ASSUME NEW v \in Int, NEW b \in Nat
  PROVE  Bps(v, b) \in Int /\ (v >= 0 => Bps(v, b) >= 0)
<1>1. v * b \in Int /\ (v >= 0 => v * b >= 0)
  OBVIOUS
<1> QED
  BY <1>1 DEF Bps

LEMMA SyntheticQuote ==
  ASSUME NEW p \in Nat
  PROVE  /\ SyntheticBid(p) \in Int /\ SyntheticBid(p) <= p
         /\ SyntheticAsk(p) \in Int /\ p <= SyntheticAsk(p)
<1>1. Bps(p, HalfSpreadBps) \in Int /\ Bps(p, HalfSpreadBps) >= 0
  BY BpsTyped, RatesAssumption
<1> QED
  BY <1>1 DEF SyntheticBid, SyntheticAsk

LEMMA SignumTyped ==
  ASSUME NEW v \in Int
  PROVE  Signum(v) \in Int /\ Abs(v) \in Nat /\ (v # 0 => Abs(v) > 0)
BY DEF Signum, Abs

LEMMA SignedTyped ==
  ASSUME NEW side, NEW v \in Int
  PROVE  Signed(side, v) \in Int
BY DEF Signed

LEMMA RoundTyped ==
  ASSUME NEW v \in Int, NEW p \in Prices, NEW s \in Nat
  PROVE  RoundQtyToLot(v, s) \in Int /\ RoundPriceToTick(p, s) \in Prices
<1>1. s # 0 => v \div s \in Int /\ (v \div s) * s \in Int
  OBVIOUS
<1>2. RoundQtyToLot(v, s) \in Int
  BY <1>1 DEF RoundQtyToLot
<1>3. CASE s = 0 \/ p = NoPrice
  BY <1>2, <1>3 DEF RoundPriceToTick
<1>4. CASE s # 0 /\ p # NoPrice
  <2>1. p \in Int /\ p \div s \in Int
    BY <1>4 DEF Prices
  <2>2. \A k \in Int : k * s \in Int
    OBVIOUS
  <2>3. (p \div s) * s \in Int /\ (p \div s + 1) * s \in Int
    BY <2>1, <2>2
  <2>4. RoundPriceToTick(p, s) \in {(p \div s) * s, (p \div s + 1) * s}
    BY <1>4 DEF RoundPriceToTick
  <2> QED
    BY <1>2, <2>3, <2>4 DEF Prices
<1> QED
  BY <1>3, <1>4

LEMMA MetaTyped ==
  ASSUME NEW i \in Instruments
  PROVE  /\ Meta[i].lot \in Nat /\ Meta[i].tick \in Nat /\ Meta[i].mult \in Nat
         /\ Meta[i].base \in Assets /\ Meta[i].quote \in Assets
         /\ Meta[i].base # Meta[i].quote
BY MetaAssumption, BasesAssumption

LEMMA NormalizedTyped ==
  ASSUME NEW i \in Instruments, NEW o \in Intents
  PROVE  /\ Normalized(Meta[i], o) \in Intents
         /\ Normalized(Meta[i], o).type = o.type /\ Normalized(Meta[i], o).inst = o.inst
         /\ Normalized(Meta[i], o).born = o.born /\ Normalized(Meta[i], o).oco = o.oco
<1> DEFINE stop == IF o.type = "StopMarket" /\ o.stop = NoPrice THEN o.price ELSE o.stop
           q == RoundQtyToLot(o.qty, Meta[i].lot)
           p == IF o.type \in {"Limit", "StopLimit"}
                  THEN RoundPriceToTick(o.price, Meta[i].tick) ELSE NoPrice
           s == IF IsStop(o) THEN RoundPriceToTick(stop, Meta[i].tick) ELSE NoPrice
<1>1. o.qty \in Int /\ o.price \in Prices /\ stop \in Prices
  BY DEF Intents, Prices
<1>2. q \in Int /\ p \in Prices /\ s \in Prices
  BY <1>1, MetaTyped, RoundTyped DEF Prices
<1>3. Normalized(Meta[i], o) = [o EXCEPT !.qty = q, !.price = p, !.stop = s]
  BY DEF Normalized
<1> HIDE DEF q, p, s
<1> QED
  BY <1>2, <1>3 DEF Intents, Prices

-----------------------------------------------------------------------------
\* The prices of the fill rules.

LEMMA PricesTyped ==
  ASSUME NEW o \in Intents, NEW m \in MarketRows
  PROVE  /\ MarketPrice(o.side, m) \in Prices
         /\ CrossingPrice(o.side, o.price, m) \in Prices
         /\ PlacedPrice(o, m) \in Prices
         /\ RestingPrice(o, m) \in Prices
         /\ MidOrLast(m) \in Prices \/ m.ask = NoPrice
<1> USE DEF Prices
<1>1. /\ m.bid \in Prices /\ m.ask \in Prices /\ m.last \in Prices /\ o.price \in Prices
      /\ o.type \in OrderTypes
  BY DEF MarketRows, Intents
<1>2. \A v \in Prices : v # NoPrice => v + Signed(o.side, Bps(v, SlippageBps)) \in Int
  BY BpsTyped, SignedTyped, RatesAssumption
<1>3. MarketPrice(o.side, m) \in Prices
  BY <1>1, <1>2 DEF MarketPrice
<1>4. CrossingPrice(o.side, o.price, m) \in Prices
  BY <1>1 DEF CrossingPrice
<1>5. StopPrice(o, m) \in Prices
  BY <1>3, <1>4 DEF StopPrice
<1>6. PlacedPrice(o, m) \in Prices
  BY <1>1, <1>3, <1>4, <1>5 DEF PlacedPrice, OrderTypes, IsStop
<1>7. RestingPrice(o, m) \in Prices
  BY <1>1, <1>4, <1>5 DEF RestingPrice
<1>8. MidOrLast(m) \in Prices \/ m.ask = NoPrice
  BY <1>1 DEF MidOrLast
<1> QED
  BY <1>3, <1>4, <1>6, <1>7, <1>8

LEMMA MidTyped ==
  ASSUME NEW m \in MarketRows, Coherent(m)
  PROVE  MidOrLast(m) \in Prices
BY PricesTyped DEF MidOrLast, Coherent, MarketRows, Prices

(***************************************************************************)
(* The ranges of the books and the conditions of the fill rules agree: an  *)
(* order that would fill stands in a level that the poll visits.  A limit  *)
(* that a bar touched is reached because the range of the bar stands for   *)
(* its quote; one that only crosses the quote is reached because the quote *)
(* of a bar lies within its range.                                         *)
(***************************************************************************)
LEMMA RulesAgree ==
  ASSUME NEW o \in Intents, WellFormed(o), o.type # "Market",
         NEW m \in MarketRows, Coherent(m), RestingPrice(o, m) # NoPrice
  PROVE  Reached(o, Snapshot(m))
<1> DEFINE s == Snapshot(m)
<1>1. /\ m.bid \in Prices /\ m.ask \in Prices /\ m.high \in Prices /\ m.low \in Prices
      /\ o.price \in Prices /\ o.stop \in Prices
      /\ o.side \in {"Buy", "Sell"} /\ o.type \in {"Limit", "StopMarket", "StopLimit"}
  BY DEF MarketRows, Intents, Prices, OrderTypes, Sides
<1>2. /\ s.bid = (IF m.high # NoPrice THEN m.high ELSE m.bid)
      /\ s.ask = (IF m.low # NoPrice THEN m.low ELSE m.ask)
      /\ s.high = m.high /\ s.low = m.low
  BY DEF Snapshot
<1> SUFFICES Reached(o, s)
  OBVIOUS
<1> HIDE DEF s
<1>3. CASE o.type = "Limit"
  <2>1. o.price # NoPrice /\ o.price \in Int
    BY <1>1, <1>3 DEF WellFormed, Prices
  <2>2. CASE o.side = "Buy"
    <3>1. CASE Touched(o, m)
      <4>1. m.low # NoPrice /\ m.low <= o.price
        BY <1>3, <2>2, <3>1 DEF Touched, Coherent
      <4> QED
        BY <1>2, <1>3, <2>1, <2>2, <4>1 DEF Reached, AtLeast
    <3>2. CASE ~Touched(o, m)
      <4>1. m.ask # NoPrice /\ o.price >= m.ask
        BY <1>3, <2>2, <3>2 DEF RestingPrice, CrossingPrice, Coherent
      <4>2. s.ask # NoPrice /\ s.ask <= m.ask /\ s.ask \in Int
        BY <1>1, <1>2, <4>1 DEF Coherent, Prices
      <4>3. m.ask \in Int
        BY <1>1, <4>1 DEF Prices
      <4>4. o.price >= s.ask
        BY <2>1, <4>1, <4>2, <4>3
      <4> QED
        BY <1>3, <2>1, <2>2, <4>2, <4>4 DEF Reached, AtLeast
    <3> QED
      BY <3>1, <3>2
  <2>3. CASE o.side = "Sell"
    <3>1. CASE Touched(o, m)
      <4>1. m.high # NoPrice /\ m.high >= o.price
        BY <1>3, <2>3, <3>1 DEF Touched
      <4> QED
        BY <1>2, <1>3, <2>1, <2>3, <4>1 DEF Reached, AtLeast
    <3>2. CASE ~Touched(o, m)
      <4>1. m.bid # NoPrice /\ o.price <= m.bid
        BY <1>3, <2>3, <3>2 DEF RestingPrice, CrossingPrice
      <4>2. s.bid # NoPrice /\ m.bid <= s.bid /\ s.bid \in Int
        BY <1>1, <1>2, <4>1 DEF Coherent, Prices
      <4>3. m.bid \in Int
        BY <1>1, <4>1 DEF Prices
      <4>4. s.bid >= o.price
        BY <2>1, <4>1, <4>2, <4>3
      <4> QED
        BY <1>3, <2>1, <2>3, <4>2, <4>4 DEF Reached, AtLeast
    <3> QED
      BY <3>1, <3>2
  <2> QED
    BY <1>1, <2>2, <2>3
<1>4. CASE IsStop(o)
  <2>1. o.stop # NoPrice
    BY <1>4 DEF WellFormed
  <2>2. StopTriggered(o, m)
    BY <1>4 DEF RestingPrice, Touched, StopPrice, IsStop
  <2>3. m.high # NoPrice /\ m.low # NoPrice
    BY <2>2 DEF StopTriggered, Coherent
  <2>4. CASE o.side = "Buy"
    <3>1. m.high >= o.stop
      BY <2>2, <2>4 DEF StopTriggered
    <3> QED
      BY <1>2, <1>4, <2>1, <2>3, <2>4, <3>1 DEF Reached, AtLeast
  <2>5. CASE o.side = "Sell"
    <3>1. m.low <= o.stop
      BY <2>2, <2>5 DEF StopTriggered
    <3>2. o.stop >= m.low
      BY <1>1, <2>1, <2>3, <3>1 DEF Prices
    <3> QED
      BY <1>2, <1>4, <2>1, <2>3, <2>5, <3>2 DEF Reached, AtLeast
  <2> QED
    BY <1>1, <2>4, <2>5
<1> QED
  BY <1>1, <1>3, <1>4 DEF IsStop

-----------------------------------------------------------------------------
\* What a fill and a settlement do to an account.

LEMMA NextEntryTyped ==
  ASSUME NEW cur \in Int, NEW entry \in Prices, NEW delta \in Int, NEW price \in Int,
         (entry # NoPrice) <=> (cur # 0)
  PROVE  /\ NextEntry(cur, entry, delta, price) \in Prices
         /\ (NextEntry(cur, entry, delta, price) # NoPrice) <=> (cur + delta # 0)
<1> DEFINE next == cur + delta
<1>1. next \in Int
  OBVIOUS
<1>2. CASE next = 0
  BY <1>2 DEF NextEntry, Prices
<1>3. CASE next # 0 /\ (cur = 0 \/ Signum(cur) # Signum(next))
  BY <1>3, NoPriceAssumption DEF NextEntry, Prices
<1>4. CASE next # 0 /\ cur # 0 /\ Signum(cur) = Signum(next)
  <2> DEFINE sum == entry * Abs(cur) + price * Abs(delta)
  <2>1. entry # NoPrice /\ entry \in Int
    BY <1>4 DEF Prices
  <2>2. Abs(cur) \in Int /\ Abs(delta) \in Int /\ Abs(next) \in Int /\ Abs(next) > 0
    BY <1>1, <1>4, SignumTyped
  <2>3. sum \in Int
    BY <2>1, <2>2
  <2>4. NextEntry(cur, entry, delta, price)
          = IF Signum(cur) # Signum(delta) THEN entry ELSE sum \div Abs(next)
    BY <1>4, <2>1 DEF NextEntry
  <2> HIDE DEF sum, next
  <2>5. sum \div Abs(next) \in Int
    BY <2>2, <2>3
  <2>6. NextEntry(cur, entry, delta, price) \in Int
    BY <2>1, <2>4, <2>5
  <2> QED
    BY <1>4, <2>6, NoPriceAssumption DEF Prices, next
<1> QED
  BY <1>2, <1>3, <1>4

LEMMA GainTyped ==
  ASSUME NEW a \in Accounts, NEW i \in Instruments, NEW side, NEW price \in Int, NEW qty \in Int
  PROVE  QuoteGain(a, i, Meta[i], side, price, qty) \in Int
<1> DEFINE x == Meta[i]
           entry == IF a.entry[i] = NoPrice THEN price ELSE a.entry[i]
<1>1. x.mult \in Int /\ a.pos[i] \in Int /\ entry \in Int
  BY MetaTyped DEF Accounts, Prices
<1>2. Multiplier(x) \in Int
  BY <1>1 DEF Multiplier
<1>3. Notional(x, price, qty) \in Int
  BY <1>2 DEF Notional
<1>4. Fee(x, price, qty) \in Int
  BY <1>3, BpsTyped, RatesAssumption DEF Fee
<1>5. Realized(a, i, x, side, price, qty) \in Int
  <2>1. Signum(a.pos[i]) \in Int /\ Abs(a.pos[i]) \in Int
    BY <1>1, SignumTyped
  <2>2. Least(Abs(a.pos[i]), qty) \in Int
    BY <2>1 DEF Least
  <2>3. (price - entry) * Signum(a.pos[i]) * Least(Abs(a.pos[i]), qty) * x.mult \in Int
    BY <1>1, <2>1, <2>2
  <2> QED
    BY <2>3 DEF Realized
<1>6. Signed(side, Notional(x, price, qty)) \in Int
  BY <1>3, SignedTyped
<1> QED
  BY <1>4, <1>5, <1>6 DEF QuoteGain

LEMMA FillTyped ==
  ASSUME NEW a \in Accounts, NEW seen \in Accounts, NEW i \in Instruments, NEW side,
         NEW price \in Int, NEW qty \in Int,
         UsesMargin(Meta[i]) => ((a.entry[i] # NoPrice) <=> (a.pos[i] # 0))
  PROVE  AccountAfterFill(a, seen, i, Meta[i], side, price, qty) \in Accounts
<1> DEFINE x == Meta[i]
<1>1. /\ a.pos \in [Instruments -> Int] /\ a.entry \in [Instruments -> Prices]
      /\ a.bal \in [Assets -> Int] /\ seen.bal \in [Assets -> Int]
      /\ x.base \in Assets /\ x.quote \in Assets /\ Signed(side, qty) \in Int
  BY MetaTyped, SignedTyped DEF Accounts
<1>2. QuoteGain(seen, i, x, side, price, qty) \in Int
  BY GainTyped
<1>3. BalancesAfterFill(a.bal, seen, i, x, side, price, qty) \in [Assets -> Int]
  BY <1>1, <1>2 DEF BalancesAfterFill
<1>4. [a.pos EXCEPT ![i] = @ + Signed(side, qty)] \in [Instruments -> Int]
  BY <1>1
<1>5. UsesMargin(x) => NextEntry(a.pos[i], a.entry[i], Signed(side, qty), price) \in Prices
  BY <1>1, NextEntryTyped
<1>6. [a.entry EXCEPT ![i] = IF UsesMargin(x) THEN NextEntry(a.pos[i], @, Signed(side, qty), price)
                             ELSE @] \in [Instruments -> Prices]
  BY <1>1, <1>5
<1> HIDE DEF x
<1> QED
  BY <1>3, <1>4, <1>6 DEF AccountAfterFill, Accounts, x

-----------------------------------------------------------------------------
(***************************************************************************)
(* The inductive invariant.                                                *)
(***************************************************************************)
Kinds == {"none", "bar", "timer", "finish", "command", "operator"} \cup TickKinds

Events ==
  [kind : Kinds, inst : Instruments, bar : Bars \cup {NoBar}, index : Nat, clears : BOOLEAN]

OrderMaps == UNION {[D -> Intents] : D \in SUBSET Nat}

Polls ==
  [seen : Accounts, resting : OrderMaps, todo : SUBSET Nat,
   groups : SUBSET (STRING \cup {NoGroup}), fills : Nat]

FillRecords ==
  [n : Nat, id : Nat, oco : STRING \cup {NoGroup}, inst : Instruments, moved : BOOLEAN,
   born : Nat, range : Nat]

Histories ==
  [last : FillRecords, cash : [Assets -> Int], lost : BOOLEAN, funded : [Instruments -> Nat]]

LoopTyped ==
  /\ phase \in Phases
  /\ event \in Events
  /\ now \in Times
  /\ rows \in Seq(Instruments)

MarketTyped == market \in [Instruments -> MarketRows]

OrdersTyped ==
  /\ open \in OrderMaps /\ pending \in OrderMaps
  /\ work \in Seq(Intents)
  /\ nextId \in Nat \ {0}

BooksTyped == acct \in Accounts /\ poll \in Polls /\ ghost \in Histories

Typed == LoopTyped /\ MarketTyped /\ OrdersTyped /\ BooksTyped

\* The event in hand while its market update is dispatched: a bar has cleared
\* the range of its instrument before the deferred intents are placed, and has
\* left its own when the resting orders are evaluated; a trade or a quote has
\* cleared it for as long as it is in hand.
InHand ==
  /\ phase \notin {"idle", "done"} => event.kind # "none"
  /\ phase \in {"place", "poll"} => event.kind \in {"bar"} \cup TickKinds
  /\ event.kind = "bar" => event.bar \in Bars /\ event.bar.inst = event.inst
  /\ phase = "place" /\ event.kind = "bar" => market[event.inst].high = NoPrice
  /\ phase = "poll" /\ event.kind = "bar" => market[event.inst].range = event.index
  /\ event.kind \in {"trade", "quote"} => market[event.inst].high = NoPrice

RowsCoherent == \A i \in Instruments : Coherent(market[i])

\* Ids are drawn once.
IdsDrawn == DOMAIN open \cup DOMAIN pending \cup DOMAIN poll.resting \subseteq 1 .. nextId - 1

\* What rests could be evaluated.
RestingSound == \A id \in DOMAIN open : WellFormed(open[id]) /\ open[id].type # "Market"

\* What a poll took at its start stays true of what is left of it: the working
\* orders are orders it took, and a candidate that no longer works is a sibling
\* of one that it has filled.
PollSound ==
  /\ poll.todo \subseteq DOMAIN poll.resting
  /\ phase = "poll" =>
       /\ \A id \in DOMAIN open : id \in DOMAIN poll.resting /\ open[id] = poll.resting[id]
       /\ \A c \in poll.todo :
            /\ poll.resting[c].inst = event.inst
            /\ c \in DOMAIN open \/ poll.resting[c].oco \in poll.groups
       /\ poll.fills = 0 => poll.seen = acct

\* An order belongs to an event before the one whose range it may fill on.
BornBefore(f, n) == \A id \in DOMAIN f : f[id].born < n

Born ==
  /\ BornBefore(open, event.index + 1) /\ BornBefore(pending, event.index + 1)
  /\ \A n \in DOMAIN work : work[n].born <= event.index
  /\ phase \in {"place", "poll"} =>
       BornBefore(open, event.index) /\ BornBefore(pending, event.index)
  /\ phase = "poll" => BornBefore(poll.resting, event.index)

Inv ==
  /\ Typed /\ InHand /\ RowsCoherent /\ IdsDrawn /\ RestingSound /\ PollSound /\ Born
  /\ HeldToNextUpdate /\ EntryIffMarginedPosition /\ CashFollowsFills /\ NoPastRangeAfterMove

-----------------------------------------------------------------------------
\* Maps of orders.

LEMMA OrderMapMember ==
  ASSUME NEW f \in OrderMaps
  PROVE  DOMAIN f \subseteq Nat /\ \A id \in DOMAIN f : f[id] \in Intents
BY DEF OrderMaps

LEMMA EmptyMap == <<>> \in OrderMaps
<1>1. {} \in SUBSET Nat
  OBVIOUS
<1>2. <<>> \in [{} -> Intents]
  OBVIOUS
<1> QED
  BY <1>1, <1>2 DEF OrderMaps

LEMMA WithoutMap ==
  ASSUME NEW f \in OrderMaps, NEW S
  PROVE  /\ Without(f, S) \in OrderMaps
         /\ DOMAIN Without(f, S) = DOMAIN f \ S
         /\ \A id \in DOMAIN f \ S : Without(f, S)[id] = f[id]
<1>1. DOMAIN f \ S \in SUBSET Nat /\ Without(f, S) \in [DOMAIN f \ S -> Intents]
  BY OrderMapMember DEF Without
<1> QED
  BY <1>1 DEF OrderMaps, Without

LEMMA WithMap ==
  ASSUME NEW f \in OrderMaps, NEW id \in Nat, NEW o \in Intents
  PROVE  /\ With(f, id, o) \in OrderMaps
         /\ DOMAIN With(f, id, o) = DOMAIN f \cup {id}
         /\ \A k \in DOMAIN f \cup {id} : With(f, id, o)[k] = IF k = id THEN o ELSE f[k]
<1>1. DOMAIN f \cup {id} \in SUBSET Nat /\ With(f, id, o) \in [DOMAIN f \cup {id} -> Intents]
  BY OrderMapMember DEF With
<1> QED
  BY <1>1 DEF OrderMaps, With

\* The first of the deferred intents.
LEMMA FirstDeferredMember ==
  ASSUME pending \in OrderMaps, Deferred(event.inst) # {}
  PROVE  FirstDeferred \in DOMAIN pending /\ pending[FirstDeferred].inst = event.inst
<1> DEFINE T == Deferred(event.inst)
<1>1. T \subseteq DOMAIN pending /\ T \subseteq Nat /\ T # {}
  BY OrderMapMember DEF Deferred
<1>2. PICK m \in T : \A k \in T : ~(<<k, m>> \in OpToRel(<, Nat))
  BY <1>1, NatLessThanWellFounded, WFMin
<1>3. \A k \in T : m <= k
  <2>1. SUFFICES ASSUME NEW k \in T, k < m PROVE FALSE
    BY <1>1
  <2> QED
    BY <1>1, <1>2, <2>1 DEF OpToRel
<1>4. FirstDeferred \in T
  BY <1>2, <1>3 DEF FirstDeferred
<1> QED
  BY <1>4 DEF Deferred

-----------------------------------------------------------------------------
(***************************************************************************)
(* A step of the engine, in a replay or in a live session.  An event of an *)
(* operator is neither submitted nor controlled as an event of the data.   *)
(***************************************************************************)
Commanding == \E c \in Commands : Switch(c) \/ Intervene(c)

LiveOnly ==
  Commanding \/ EndIntervention \/ RejectBlocked \/ SkipStrategy \/ EndLiveSubmit \/ EndStream

Commanded == event.kind \in {"command", "operator"}

Step ==
  \/ Next /\ (EndSubmit => ~Commanded) /\ (EndControl => event.kind # "operator")
  \/ LiveOnly

LEMMA LiveOnlyFacts ==
  ASSUME LiveOnly
  PROVE  /\ UNCHANGED <<market, anchor, now, rows, acct, open, nextId, poll, ghost>>
         /\ UNCHANGED event \/ Commanding \/ EndIntervention
         /\ UNCHANGED <<pending, work>> \/ RejectBlocked
         /\ phase' \in {"idle", "done"} \/ UNCHANGED phase \/ Commanding \/ EndIntervention
         /\ phase' = "place" => phase = "place" /\ UNCHANGED event
         /\ phase' # "poll"
         /\ phase' = "strategy" =>
              (phase = "strategy" /\ UNCHANGED event) \/ event'.kind = "command"
         /\ phase' # "submit" \/ (phase = "submit" /\ UNCHANGED event)
<1>1. CASE Commanding
  BY <1>1 DEF Commanding, Switch, Intervene, Operator, marketVars, NoEvent
<1>2. CASE EndIntervention
  BY <1>2 DEF EndIntervention, marketVars
<1>3. CASE RejectBlocked
  BY <1>3 DEF RejectBlocked, Placing, loopVars, marketVars
<1>4. CASE SkipStrategy \/ EndLiveSubmit \/ EndStream
  BY <1>4 DEF SkipStrategy, EndLiveSubmit, EndStream, loopVars, marketVars
<1> QED
  BY <1>1, <1>2, <1>3, <1>4 DEF LiveOnly

-----------------------------------------------------------------------------
\* Who changes what.

LEMMA MarketFrame ==
  ASSUME [Step]_vars
  PROVE  \/ UNCHANGED market
         \/ \E b \in Bars, t \in Moments : Bar(b, t)
         \/ \E e \in Ticks, t \in Moments : Tick(e, t)
         \/ CloseBar
BY LiveOnlyFacts DEF Step, Next, vars, marketVars, Timer, PlaceFills, PlaceRests, PlaceRejected,
    Defer, EndSubmit, EndPlace, PollFills, PollRejects, PollSkips, EndPoll, OnEvent, Finish,
    Cancel, CancelUnknown, StartFlatten, FlattenFills, FlattenSkips, EndFlatten, EndControl,
    Liquidate, SettleFunding, SettleCoupon, SettleOption, SettleNothing, Settling, EndSettle,
    Ended

LEMMA EventFrame ==
  ASSUME [Step]_vars
  PROVE  \/ UNCHANGED <<event, now>>
         \/ \E b \in Bars, t \in Moments : Bar(b, t)
         \/ \E e \in Ticks, t \in Moments : Tick(e, t)
         \/ \E t \in Moments : Timer(t)
         \/ \E r \in Responses \cup {Silence} : Finish(r)
         \/ Commanding \/ EndIntervention
BY LiveOnlyFacts DEF Step, Next, vars, loopVars, PlaceFills, PlaceRests, PlaceRejected, Defer,
    EndSubmit, CloseBar, EndPlace, PollFills, PollRejects, PollSkips, EndPoll, OnEvent, Cancel,
    CancelUnknown, StartFlatten, FlattenFills, FlattenSkips, EndFlatten, EndControl, Liquidate,
    SettleFunding, SettleCoupon, SettleOption, SettleNothing, Settling, EndSettle, Ended

LEMMA OpenFrame ==
  ASSUME [Step]_vars
  PROVE  \/ UNCHANGED open
         \/ PlaceFills \/ PlaceRests \/ FlattenFills \/ Cancel \/ StartFlatten
         \/ \E c \in poll.todo : PollFills(c) \/ PollRejects(c)
BY LiveOnlyFacts DEF Step, Next, vars, Bar, Tick, Timer, NextEvent, PlaceRejected, Defer,
    EndSubmit, CloseBar, EndPlace, PollSkips, EndPoll, OnEvent, Finish, CancelUnknown,
    FlattenSkips, EndFlatten, EndControl, Liquidate, SettleFunding, SettleCoupon, SettleOption,
    SettleNothing, Settling, EndSettle, Ended

LEMMA PendingFrame ==
  ASSUME [Step]_vars
  PROVE  \/ UNCHANGED <<pending, work>>
         \/ PlaceFills \/ PlaceRests \/ PlaceRejected \/ RejectBlocked \/ Defer \/ EndControl
         \/ \E r \in Responses \cup {Silence} : OnEvent(r) \/ Finish(r)
BY LiveOnlyFacts DEF Step, Next, vars, Bar, Tick, Timer, NextEvent, EndSubmit, CloseBar,
    EndPlace, PollFills, PollRejects, PollSkips, EndPoll, Cancel, CancelUnknown, StartFlatten,
    FlattenFills, FlattenSkips, EndFlatten, Liquidate, SettleFunding, SettleCoupon,
    SettleOption, SettleNothing, Settling, EndSettle, Ended

LEMMA IdFrame ==
  ASSUME [Step]_vars
  PROVE  UNCHANGED nextId \/ nextId' = nextId + 1
BY LiveOnlyFacts DEF Step, Next, vars, Bar, Tick, Timer, NextEvent, PlaceFills, PlaceRests,
    PlaceRejected, Defer, EndSubmit, CloseBar, EndPlace, PollFills, PollRejects, PollSkips,
    EndPoll, OnEvent, Finish, Cancel, CancelUnknown, StartFlatten, FlattenFills, FlattenSkips,
    EndFlatten, EndControl, Liquidate, SettleFunding, SettleCoupon, SettleOption, SettleNothing,
    Settling, EndSettle, Ended

LEMMA PollFrame ==
  ASSUME [Step]_vars
  PROVE  \/ UNCHANGED poll
         \/ CloseBar \/ EndPlace \/ EndPoll
         \/ \E c \in poll.todo : PollFills(c) \/ PollRejects(c) \/ PollSkips(c)
BY LiveOnlyFacts DEF Step, Next, vars, Bar, Tick, Timer, NextEvent, PlaceFills, PlaceRests,
    PlaceRejected, Defer, EndSubmit, OnEvent, Finish, Cancel, CancelUnknown, StartFlatten,
    FlattenFills, FlattenSkips, EndFlatten, EndControl, Liquidate, SettleFunding, SettleCoupon,
    SettleOption, SettleNothing, Settling, EndSettle, Ended

LEMMA BooksFrame ==
  ASSUME [Step]_vars
  PROVE  \/ UNCHANGED <<acct, ghost>>
         \/ \E b \in Bars, t \in Moments : Bar(b, t)
         \/ \E e \in Ticks, t \in Moments : Tick(e, t)
         \/ \E t \in Moments : Timer(t)
         \/ PlaceFills \/ FlattenFills
         \/ \E c \in poll.todo : PollFills(c)
         \/ \E i \in Instruments :
              Liquidate(i) \/ SettleFunding(i) \/ SettleCoupon(i) \/ SettleOption(i)
BY LiveOnlyFacts DEF Step, Next, vars, PlaceRests, PlaceRejected, Defer, EndSubmit, CloseBar,
    EndPlace, PollRejects, PollSkips, EndPoll, OnEvent, Finish, Cancel, CancelUnknown,
    StartFlatten, FlattenSkips, EndFlatten, EndControl, SettleNothing, Settling, EndSettle,
    Ended

\* The ways into the phases in which the market update is dispatched.
LEMMA PhaseFrame ==
  ASSUME [Step]_vars, event \in Events, InHand
  PROVE  /\ phase' = "place" =>
              \/ phase = "place" /\ UNCHANGED <<event, market>>
              \/ \E b \in Bars, t \in Moments : Bar(b, t)
              \/ \E e \in Ticks, t \in Moments : Tick(e, t)
         /\ phase' = "poll" =>
              (phase = "poll" /\ UNCHANGED <<event, market>>) \/ CloseBar \/ EndPlace
         /\ phase' = "strategy" =>
              \/ phase = "strategy" /\ UNCHANGED <<event, market>>
              \/ EndPoll
              \/ \E t \in Moments : Timer(t)
              \/ event'.kind = "command"
<1>1. phase = "submit" => event.kind \in {"bar", "timer", "finish", "command", "operator"} \cup TickKinds
  BY DEF Events, Kinds, InHand
<1> QED
  BY <1>1, LiveOnlyFacts
  DEF Step, Commanded, Next, vars, loopVars, marketVars, Bar, Tick, Timer, PlaceFills, PlaceRests,
       PlaceRejected, Defer, EndSubmit, CloseBar, EndPlace, StartPoll, PollFills, PollRejects,
       PollSkips, EndPoll, OnEvent, Finish, Cancel, CancelUnknown, StartFlatten, FlattenFills,
       FlattenSkips, EndFlatten, EndControl, Liquidate, SettleFunding, SettleCoupon,
       SettleOption, SettleNothing, Settling, EndSettle, Ended

LEMMA PollEntry ==
  ASSUME [Step]_vars, phase' = "poll", event \in Events, InHand
  PROVE  phase = "poll" \/ CloseBar \/ EndPlace
BY PhaseFrame

-----------------------------------------------------------------------------
\* The market.

LEMMA RowSteps ==
  ASSUME NEW m \in MarketRows, Coherent(m), LoopTyped
  PROVE  /\ \A p \in Nat : OpenMarket(m, p) \in MarketRows /\ Coherent(OpenMarket(m, p))
                           /\ OpenMarket(m, p).high = NoPrice
         /\ \A b \in Bars : CompletedBar(m, b) \in MarketRows /\ Coherent(CompletedBar(m, b))
                            /\ CompletedBar(m, b).range = event.index
         /\ \A e \in Ticks : Ticked(m, e) \in MarketRows /\ Coherent(Ticked(m, e))
<1>1. ASSUME NEW p \in Nat
      PROVE  /\ OpenMarket(m, p) \in MarketRows /\ Coherent(OpenMarket(m, p))
             /\ OpenMarket(m, p).high = NoPrice
  <2>1. /\ SyntheticBid(p) \in Prices /\ SyntheticAsk(p) \in Prices /\ p \in Prices
        /\ NoPrice \in Prices /\ SyntheticBid(p) # NoPrice /\ SyntheticAsk(p) # NoPrice
    BY SyntheticQuote, NoPriceAssumption DEF Prices
  <2>2. \A bid, ask, last \in Prices :
          [m EXCEPT !.bid = bid, !.ask = ask, !.last = last, !.high = NoPrice, !.low = NoPrice]
            \in MarketRows
    BY <2>1 DEF MarketRows
  <2>3. OpenMarket(m, p) \in MarketRows
    BY <2>1, <2>2 DEF OpenMarket
  <2>4. Coherent(OpenMarket(m, p)) /\ OpenMarket(m, p).high = NoPrice
    BY <2>1 DEF OpenMarket, Coherent, MarketRows
  <2> QED
    BY <2>3, <2>4
<1>2. ASSUME NEW b \in Bars
      PROVE  /\ CompletedBar(m, b) \in MarketRows /\ Coherent(CompletedBar(m, b))
             /\ CompletedBar(m, b).range = event.index
  <2>1. /\ b.high \in Nat /\ b.low \in Nat /\ b.close \in Nat
        /\ b.low <= b.close /\ b.close <= b.high
    BY BarsAssumption
  <2>2. /\ SyntheticBid(b.close) \in Int /\ SyntheticBid(b.close) <= b.close
        /\ SyntheticAsk(b.close) \in Int /\ b.close <= SyntheticAsk(b.close)
    BY <2>1, SyntheticQuote
  <2>3. event.index \in Nat /\ now \in Times
    BY DEF LoopTyped, Events
  <2>4. CompletedBar(m, b) \in MarketRows
    <3>1. \A bid, ask, last, high, low \in Prices, range \in Nat, at \in Times \cup {0} :
            [m EXCEPT !.bid = bid, !.ask = ask, !.last = last, !.high = high, !.low = low,
                      !.range = range, !.at = at] \in MarketRows
      BY DEF MarketRows
    <3>2. /\ SyntheticBid(b.close) \in Prices /\ SyntheticAsk(b.close) \in Prices
          /\ b.close \in Prices /\ b.high \in Prices /\ b.low \in Prices
      BY <2>1, <2>2 DEF Prices
    <3> QED
      BY <2>3, <3>1, <3>2 DEF CompletedBar
  <2>5. Coherent(CompletedBar(m, b)) /\ CompletedBar(m, b).range = event.index
    BY <2>1, <2>2, NoPriceAssumption DEF CompletedBar, MarketRows, Coherent
  <2> QED
    BY <2>4, <2>5
<1>3. ASSUME NEW e \in Ticks PROVE Ticked(m, e) \in MarketRows /\ Coherent(Ticked(m, e))
  BY TicksAssumption, NoPriceAssumption DEF TickKinds, Ticked, MarketRows, Coherent, Prices
<1> QED
  BY <1>1, <1>2, <1>3

LEMMA MarketStep ==
  ASSUME Typed, InHand, RowsCoherent, [Step]_vars
  PROVE  MarketTyped' /\ RowsCoherent'
<1>1. market \in [Instruments -> MarketRows] /\ LoopTyped
  BY DEF Typed, MarketTyped
<1>2. \A i \in Instruments : market[i] \in MarketRows /\ Coherent(market[i])
  BY <1>1 DEF RowsCoherent
<1>3. ASSUME NEW i \in Instruments, NEW row \in MarketRows, Coherent(row),
             market' = [market EXCEPT ![i] = row]
      PROVE  MarketTyped' /\ RowsCoherent'
  BY <1>1, <1>2, <1>3 DEF MarketTyped, RowsCoherent
<1>4. CASE UNCHANGED market
  BY <1>1, <1>4 DEF MarketTyped, RowsCoherent
<1>5. ASSUME NEW b \in Bars, NEW t \in Moments, Bar(b, t) PROVE MarketTyped' /\ RowsCoherent'
  <2>1. b.inst \in Instruments /\ b.open \in Nat
    BY BarsAssumption
  <2>2. /\ OpenMarket(market[b.inst], b.open) \in MarketRows
        /\ Coherent(OpenMarket(market[b.inst], b.open))
    BY <1>1, <1>2, <2>1, RowSteps
  <2>3. market' = [market EXCEPT ![b.inst] = OpenMarket(market[b.inst], b.open)]
    BY <1>5 DEF Bar
  <2> QED
    BY <1>3, <2>1, <2>2, <2>3
<1>6. ASSUME NEW e \in Ticks, NEW t \in Moments, Tick(e, t) PROVE MarketTyped' /\ RowsCoherent'
  <2>1. e.inst \in Instruments
    BY TicksAssumption
  <2>2. Ticked(market[e.inst], e) \in MarketRows /\ Coherent(Ticked(market[e.inst], e))
    BY <1>1, <1>2, <2>1, RowSteps
  <2>3. market' = [market EXCEPT ![e.inst] = Ticked(market[e.inst], e)]
    BY <1>6 DEF Tick
  <2> QED
    BY <1>3, <2>1, <2>2, <2>3
<1>7. CASE CloseBar
  <2>1. event.inst \in Instruments /\ event.bar \in Bars
    BY <1>1, <1>7 DEF CloseBar, InHand, LoopTyped, Events
  <2>2. /\ CompletedBar(market[event.inst], event.bar) \in MarketRows
        /\ Coherent(CompletedBar(market[event.inst], event.bar))
    BY <1>1, <1>2, <2>1, RowSteps
  <2>3. market' = [market EXCEPT ![event.inst] = CompletedBar(market[event.inst], event.bar)]
    BY <1>7 DEF CloseBar
  <2> QED
    BY <1>3, <2>1, <2>2, <2>3
<1> QED
  BY <1>4, <1>5, <1>6, <1>7, MarketFrame

LEMMA NextEventFacts ==
  ASSUME NEW t, NEW e, NextEvent(t, e), e \in Events, event \in Events
  PROVE  /\ event' \in Events /\ event'.kind = e.kind /\ event'.inst = e.inst
         /\ event'.bar = e.bar /\ event'.index = event.index + 1
BY DEF NextEvent, Events

LEMMA EventMade ==
  /\ NoEvent \in Events
  /\ \A b \in Bars :
       LET e == [NoEvent EXCEPT !.kind = "bar", !.inst = b.inst, !.bar = b]
       IN  e \in Events /\ e.kind = "bar" /\ e.inst = b.inst /\ e.bar = b
  /\ \A i \in Instruments, k \in TickKinds :
       LET e == [NoEvent EXCEPT !.kind = k, !.inst = i]
       IN  e \in Events /\ e.kind = k /\ e.inst = i
  /\ LET e == [NoEvent EXCEPT !.kind = "timer"]
     IN  e \in Events /\ e.kind = "timer"
BY RowsAssumption, BarsAssumption DEF NoEvent, Events, Kinds

LEMMA CommandFacts ==
  ASSUME event \in Events, Commanding \/ EndIntervention
  PROVE  /\ event' \in Events /\ event'.kind \in {"command", "operator"}
         /\ event'.index \in {event.index, event.index + 1}
         /\ EndIntervention => event'.kind = "command"
         /\ phase' \in {"strategy", "control"}
<1>1. CASE EndIntervention
  <2>1. event' = [event EXCEPT !.kind = "command"] /\ phase' = "strategy"
    BY <1>1 DEF EndIntervention
  <2> QED
    BY <2>1 DEF Events, Kinds
<1>2. ASSUME NEW c \in Commands, Switch(c) \/ Intervene(c), ~EndIntervention
      PROVE  /\ event' \in Events /\ event'.kind \in {"command", "operator"}
             /\ event'.index = event.index + 1
             /\ phase' \in {"strategy", "control"}
  <2>1. PICK k \in {"command", "operator"} :
          event' = [NoEvent EXCEPT !.kind = k, !.index = event.index + 1]
    BY <1>2 DEF Switch, Intervene
  <2>2. phase' \in {"strategy", "control"}
    BY <1>2 DEF Switch, Intervene
  <2>3. event.index + 1 \in Nat
    BY DEF Events
  <2>4. \A n \in Nat :
          LET e == [NoEvent EXCEPT !.kind = k, !.index = n]
          IN  e \in Events /\ e.kind = k /\ e.index = n
    BY EventMade DEF Events, Kinds
  <2> QED
    BY <2>1, <2>2, <2>3, <2>4
<1>3. event.index \in Nat
  BY DEF Events
<1> QED
  BY <1>1, <1>2, <1>3 DEF Commanding

LEMMA EventStep ==
  ASSUME Typed, InHand, [Step]_vars
  PROVE  /\ event' \in Events /\ now' \in Times
         /\ event'.index >= event.index
         /\ event.kind # "none" => event'.kind # "none"
         /\ event'.kind = "bar" => event'.bar \in Bars /\ event'.bar.inst = event'.inst
<1>1. event \in Events /\ now \in Times /\ event.index \in Nat
  BY DEF Typed, LoopTyped, Events
<1>2. CASE UNCHANGED <<event, now>>
  BY <1>1, <1>2 DEF InHand
<1>3. ASSUME NEW b \in Bars, NEW t \in Moments, Bar(b, t)
      PROVE  /\ event' \in Events /\ now' \in Times
             /\ event'.index = event.index + 1 /\ event'.kind = "bar"
             /\ event'.bar = b /\ event'.inst = b.inst
  <2> DEFINE f == [NoEvent EXCEPT !.kind = "bar", !.inst = b.inst, !.bar = b]
  <2>1. NextEvent(t, f)
    BY <1>3 DEF Bar
  <2>2. now' = t /\ t \in Times
    BY <2>1 DEF NextEvent, Moments
  <2>3. f \in Events /\ f.kind = "bar" /\ f.inst = b.inst /\ f.bar = b
    BY <2>1, EventMade
  <2> HIDE DEF f
  <2> QED
    BY <1>1, <2>1, <2>2, <2>3, NextEventFacts
<1>4. ASSUME NEW e \in Ticks, NEW t \in Moments, Tick(e, t)
      PROVE  /\ event' \in Events /\ now' \in Times
             /\ event'.index = event.index + 1 /\ event'.kind \in TickKinds
  <2> DEFINE f == [NoEvent EXCEPT !.kind = e.kind, !.inst = e.inst]
  <2>1. NextEvent(t, f) /\ e.inst \in Instruments /\ e.kind \in TickKinds
    BY <1>4, TicksAssumption DEF Tick
  <2>2. now' = t /\ t \in Times
    BY <2>1 DEF NextEvent, Moments
  <2>3. f \in Events /\ f.kind \in TickKinds
    BY <2>1, EventMade
  <2> HIDE DEF f
  <2> QED
    BY <1>1, <2>1, <2>2, <2>3, NextEventFacts
<1>5. ASSUME NEW t \in Moments, Timer(t)
      PROVE  /\ event' \in Events /\ now' \in Times
             /\ event'.index = event.index + 1 /\ event'.kind = "timer"
  <2> DEFINE f == [NoEvent EXCEPT !.kind = "timer"]
  <2>1. NextEvent(t, f)
    BY <1>5 DEF Timer
  <2>2. now' = t /\ t \in Times
    BY <2>1 DEF NextEvent, Moments
  <2>3. f \in Events /\ f.kind = "timer"
    BY <2>1, EventMade
  <2> HIDE DEF f
  <2> QED
    BY <1>1, <2>1, <2>2, <2>3, NextEventFacts
<1>6. ASSUME NEW r \in Responses \cup {Silence}, Finish(r)
      PROVE  /\ event' \in Events /\ now' \in Times
             /\ event'.index = event.index /\ event'.kind = "finish"
  <2> DEFINE c == \E n \in DOMAIN r.controls : r.controls[n].kind \in {"CancelAll", "Flatten"}
  <2>1. event' = [event EXCEPT !.kind = "finish", !.clears = c] /\ now' = now
    BY <1>6 DEF Finish
  <2>2. c \in BOOLEAN
    BY Zenon
  <2> HIDE DEF c
  <2> QED
    BY <1>1, <2>1, <2>2 DEF Events, Kinds
<1>7. CASE Commanding \/ EndIntervention
  <2>1. LiveOnly
    BY <1>7 DEF LiveOnly
  <2>2. /\ event' \in Events /\ event'.kind \in {"command", "operator"}
        /\ event'.index >= event.index
    BY <1>1, <1>7, CommandFacts
  <2> QED
    BY <1>1, <2>1, <2>2, LiveOnlyFacts
<1> QED
  BY <1>1, <1>2, <1>3, <1>4, <1>5, <1>6, <1>7, EventFrame, BarsAssumption DEF TickKinds

\* Nothing but an event, a command or the end of the data follows an idle engine.
LEMMA IdleFrame ==
  ASSUME [Step]_vars, phase = "idle"
  PROVE  \/ phase' \in {"idle", "done"}
         \/ \E b \in Bars, t \in Moments : Bar(b, t)
         \/ \E e \in Ticks, t \in Moments : Tick(e, t)
         \/ \E t \in Moments : Timer(t)
         \/ \E r \in Responses \cup {Silence} : Finish(r)
         \/ Commanding \/ EndIntervention
BY LiveOnlyFacts
   DEF Step, Next, vars, Placing, PlaceFills, PlaceRests, PlaceRejected, Defer, EndSubmit, CloseBar,
       EndPlace, IsNextCandidate, PollFills, PollRejects, PollSkips, EndPoll, OnEvent, Cancel,
       CancelUnknown, StartFlatten, FlattenFills, FlattenSkips, EndFlatten, EndControl,
       Liquidate, SettleFunding, SettleCoupon, SettleOption, SettleNothing, Settling,
       EndSettle, Ended

LEMMA DoneFrame ==
  ASSUME [Step]_vars, phase = "done"
  PROVE  phase' = "done"
BY DEF Step, Next, vars, LiveOnly, Commanding, Switch, Intervene, Operator, EndIntervention,
       RejectBlocked, SkipStrategy, EndLiveSubmit, EndStream, Bar, Tick, Timer, NextEvent, Placing,
       PlaceFills, PlaceRests, PlaceRejected, Defer, EndSubmit, CloseBar, EndPlace,
       IsNextCandidate, PollFills, PollRejects, PollSkips, EndPoll, OnEvent, Finish, Cancel,
       CancelUnknown, StartFlatten, FlattenFills, FlattenSkips, EndFlatten, EndControl,
       Liquidate, SettleFunding, SettleCoupon, SettleOption, SettleNothing, Settling,
       EndSettle, Ended

LEMMA ArrivalKinds ==
  ASSUME event \in Events
  PROVE  /\ \A b \in Bars, t \in Moments : Bar(b, t) => event'.kind = "bar"
         /\ \A e \in Ticks, t \in Moments :
              Tick(e, t) => /\ event'.kind = e.kind /\ event'.inst = e.inst
                            /\ e.kind \in TickKinds /\ e.kind # "none"
         /\ \A t \in Moments : Timer(t) => event'.kind = "timer"
         /\ \A r \in Responses \cup {Silence} : Finish(r) => event'.kind = "finish"
BY TicksAssumption DEF TickKinds, Bar, Tick, Timer, Finish, NextEvent, NoEvent, Events

LEMMA InHandStep ==
  ASSUME Typed, InHand, RowsCoherent, [Step]_vars
  PROVE  InHand'
<1>1. /\ event \in Events /\ event' \in Events /\ phase \in Phases
      /\ market \in [Instruments -> MarketRows] /\ market' \in [Instruments -> MarketRows]
      /\ event.kind # "none" => event'.kind # "none"
      /\ event'.kind = "bar" => event'.bar \in Bars /\ event'.bar.inst = event'.inst
  BY EventStep, MarketStep DEF Typed, LoopTyped, MarketTyped
<1>2. phase' \notin {"idle", "done"} => event'.kind # "none"
  <2>1. CASE event.kind # "none"
    BY <1>1, <2>1
  <2>2. CASE event.kind = "none"
    <3>1. CASE phase = "idle"
      BY <1>1, <3>1, IdleFrame, ArrivalKinds, CommandFacts
    <3>2. CASE phase = "done"
      BY <3>2, DoneFrame
    <3> QED
      BY <2>2, <3>1, <3>2 DEF InHand
  <2> QED
    BY <2>1, <2>2
<1>3. phase' = "place" =>
        /\ event'.kind \in {"bar"} \cup TickKinds
        /\ event'.kind = "bar" => market'[event'.inst].high = NoPrice
  <2>1. CASE phase = "place" /\ UNCHANGED <<event, market>>
    BY <2>1 DEF InHand
  <2>2. ASSUME NEW b \in Bars, NEW t \in Moments, Bar(b, t)
        PROVE  event'.kind = "bar" /\ market'[event'.inst].high = NoPrice
    <3>1. event'.kind = "bar" /\ event'.inst = b.inst
      BY <1>1, <2>2 DEF Bar, NextEvent, NoEvent, Events
    <3>2. b.inst \in Instruments /\ b.open \in Nat
      BY BarsAssumption
    <3>3. OpenMarket(market[b.inst], b.open).high = NoPrice
      BY <1>1, <3>2, RowSteps DEF RowsCoherent, Typed
    <3> QED
      BY <1>1, <2>2, <3>1, <3>2, <3>3 DEF Bar
  <2>3. ASSUME NEW e \in Ticks, NEW t \in Moments, Tick(e, t)
        PROVE  event'.kind \in TickKinds
    BY <1>1, <2>3, ArrivalKinds
  <2> QED
    BY <1>1, <2>1, <2>2, <2>3, PhaseFrame DEF TickKinds
<1>4. phase' = "poll" =>
        /\ event'.kind \in {"bar"} \cup TickKinds
        /\ event'.kind = "bar" => market'[event'.inst].range = event'.index
  <2>1. CASE phase = "poll" /\ UNCHANGED <<event, market>>
    BY <2>1 DEF InHand
  <2>2. CASE CloseBar
    <3>1. /\ event' = event /\ event.kind = "bar" /\ event.bar \in Bars
          /\ event.inst \in Instruments
      BY <1>1, <2>2 DEF CloseBar, loopVars, InHand, Events
    <3>2. CompletedBar(market[event.inst], event.bar).range = event.index
      BY <1>1, <3>1, RowSteps DEF RowsCoherent, Typed
    <3> QED
      BY <1>1, <2>2, <3>1, <3>2 DEF CloseBar
  <2>3. CASE EndPlace
    BY <1>1, <2>3 DEF EndPlace, loopVars, InHand
  <2> QED
    BY <1>1, <2>1, <2>2, <2>3, PhaseFrame
<1>5. event'.kind \in {"trade", "quote"} => market'[event'.inst].high = NoPrice
  <2>1. CASE UNCHANGED <<event, now>> /\ UNCHANGED market
    BY <2>1 DEF InHand
  <2>2. ASSUME NEW b \in Bars, NEW t \in Moments, Bar(b, t)
        PROVE  event'.kind \notin {"trade", "quote"}
    BY <1>1, <2>2, ArrivalKinds
  <2>3. ASSUME NEW e \in Ticks, NEW t \in Moments, Tick(e, t), event'.kind \in {"trade", "quote"}
        PROVE  market'[event'.inst].high = NoPrice
    <3>1. event'.inst = e.inst /\ e.kind \in {"trade", "quote"} /\ e.inst \in Instruments
      BY <1>1, <2>3, ArrivalKinds, TicksAssumption
    <3>2. Ticked(market[e.inst], e).high = NoPrice
      BY <1>1, <3>1 DEF Ticked, MarketRows
    <3> QED
      BY <1>1, <2>3, <3>1, <3>2 DEF Tick
  <2>4. CASE CloseBar
    BY <2>4 DEF CloseBar, loopVars
  <2>5. ASSUME NEW t \in Moments, Timer(t)
        PROVE  event'.kind \notin {"trade", "quote"}
    BY <1>1, <2>5, ArrivalKinds
  <2>6. ASSUME NEW r \in Responses \cup {Silence}, Finish(r)
        PROVE  event'.kind \notin {"trade", "quote"}
    BY <1>1, <2>6, ArrivalKinds
  <2>7. CASE Commanding \/ EndIntervention
    BY <1>1, <2>7, CommandFacts
  <2> QED
    BY <2>1, <2>2, <2>3, <2>4, <2>5, <2>6, <2>7, EventFrame, MarketFrame
<1> QED
  BY <1>1, <1>2, <1>3, <1>4, <1>5 DEF InHand

-----------------------------------------------------------------------------
\* The orders a step takes in hand.

LEMMA TakenFacts ==
  ASSUME Typed, Born, Placing
  PROVE  /\ Intent \in Intents /\ Intent.born <= event.index
         /\ phase = "place" => /\ Intent.inst = event.inst /\ Intent.born < event.index
                               /\ FirstDeferred \in DOMAIN pending
         /\ NewOrder \in Intents /\ NewOrder.inst = Intent.inst
         /\ NewOrder.born = Intent.born /\ NewOrder.oco = Intent.oco
         /\ NewPrice \in Prices
<1>1. /\ pending \in OrderMaps /\ work \in Seq(Intents) /\ event.index \in Nat
      /\ market \in [Instruments -> MarketRows]
  BY DEF Typed, LoopTyped, MarketTyped, OrdersTyped, Events
<1>2. /\ Intent \in Intents /\ Intent.born <= event.index
      /\ phase = "place" => /\ Intent.inst = event.inst /\ Intent.born < event.index
                            /\ FirstDeferred \in DOMAIN pending
  <2>1. CASE phase = "place"
    <3>1. FirstDeferred \in DOMAIN pending /\ pending[FirstDeferred].inst = event.inst
      BY <1>1, <2>1, FirstDeferredMember DEF Placing
    <3>2. pending[FirstDeferred] \in Intents /\ pending[FirstDeferred].born < event.index
      BY <1>1, <2>1, <3>1, OrderMapMember DEF Born, BornBefore
    <3>3. pending[FirstDeferred].born \in Nat
      BY <3>2 DEF Intents
    <3> QED
      BY <1>1, <2>1, <3>1, <3>2, <3>3 DEF Intent
  <2>2. CASE phase # "place"
    <3>1. work # <<>>
      BY <2>2 DEF Placing
    <3>2. Head(work) \in Intents /\ 1 \in DOMAIN work /\ Head(work) = work[1]
      BY <1>1, <3>1
    <3>3. work[1].born <= event.index
      BY <3>2 DEF Born
    <3> QED
      BY <2>2, <3>2, <3>3 DEF Intent
  <2> QED
    BY <2>1, <2>2
<1>3. Intent.inst \in Instruments
  BY <1>2 DEF Intents
<1>4. /\ NewOrder \in Intents /\ NewOrder.inst = Intent.inst
      /\ NewOrder.born = Intent.born /\ NewOrder.oco = Intent.oco
  BY <1>2, <1>3, NormalizedTyped DEF NewOrder
<1>5. NewPrice \in Prices
  BY <1>1, <1>3, <1>4, PricesTyped DEF NewPrice
<1> QED
  BY <1>2, <1>4, <1>5

LEMMA CandidateFacts ==
  ASSUME Typed, PollSound, NEW c \in poll.todo
  PROVE  /\ c \in Nat /\ c \in DOMAIN poll.resting /\ poll.resting[c] \in Intents
         /\ poll.resting[c].inst \in Instruments
         /\ RestingPrice(poll.resting[c], market[poll.resting[c].inst]) \in Prices
         /\ PollPrice(poll.resting[c]) \in Prices
<1>1. poll.resting \in OrderMaps /\ poll.todo \subseteq Nat
  BY DEF Typed, BooksTyped, Polls
<1>2. c \in DOMAIN poll.resting /\ poll.resting[c] \in Intents
  BY <1>1, OrderMapMember DEF PollSound
<1>3. poll.resting[c].inst \in Instruments
  BY <1>2 DEF Intents
<1>4. market[poll.resting[c].inst] \in MarketRows
  BY <1>3 DEF Typed, MarketTyped
<1>5. RestingPrice(poll.resting[c], market[poll.resting[c].inst]) \in Prices
  BY <1>2, <1>4, PricesTyped
<1>6. PollPrice(poll.resting[c]) \in Prices
  BY <1>5 DEF PollPrice, Prices
<1> QED
  BY <1>1, <1>2, <1>3, <1>5, <1>6

LEMMA ClosingFacts ==
  ASSUME Typed, NEW i \in Instruments
  PROVE  LET o == Normalized(Meta[i], Closing(i))
         IN  /\ o \in Intents /\ o.inst = i /\ o.oco = NoGroup /\ o.born = event.index
             /\ MarketPrice(o.side, market[i]) \in Prices
<1>1. event.index \in Nat /\ acct.pos[i] \in Int /\ market[i] \in MarketRows
  BY DEF Typed, LoopTyped, MarketTyped, BooksTyped, Events, Accounts
<1>2. Abs(acct.pos[i]) \in Int
  BY <1>1, SignumTyped
<1>3. /\ Closing(i) \in Intents /\ Closing(i).inst = i /\ Closing(i).oco = NoGroup
      /\ Closing(i).born = event.index
  BY <1>1, <1>2 DEF Closing, Intents, Sides, OrderTypes
<1>4. /\ Normalized(Meta[i], Closing(i)) \in Intents
      /\ Normalized(Meta[i], Closing(i)).inst = i
      /\ Normalized(Meta[i], Closing(i)).oco = NoGroup
      /\ Normalized(Meta[i], Closing(i)).born = event.index
  BY <1>3, NormalizedTyped
<1>5. MarketPrice(Normalized(Meta[i], Closing(i)).side, market[i]) \in Prices
  BY <1>1, <1>4, PricesTyped
<1> QED
  BY <1>4, <1>5

-----------------------------------------------------------------------------
\* Where orders come from.

LEMMA OpenStep ==
  ASSUME Typed, Born, [Step]_vars
  PROVE  /\ open' \in OrderMaps
         /\ \A id \in DOMAIN open' :
              \/ id \in DOMAIN open /\ open'[id] = open[id]
              \/ PlaceRests /\ id = nextId /\ open'[id] = NewOrder
<1>1. open \in OrderMaps /\ nextId \in Nat
  BY DEF Typed, OrdersTyped
<1>2. ASSUME NEW S, open' = Without(open, S)
      PROVE  /\ open' \in OrderMaps
             /\ \A id \in DOMAIN open' : id \in DOMAIN open /\ open'[id] = open[id]
  <2>1. /\ Without(open, S) \in OrderMaps /\ DOMAIN Without(open, S) = DOMAIN open \ S
        /\ \A id \in DOMAIN open \ S : Without(open, S)[id] = open[id]
    BY <1>1, WithoutMap
  <2> QED
    BY <1>2, <2>1
<1>3. CASE UNCHANGED open
  BY <1>1, <1>3
<1>4. CASE PlaceFills \/ FlattenFills
  <2>1. \E S : open' = Without(open, S)
    BY <1>4 DEF PlaceFills, FlattenFills, FillOrder
  <2> QED
    BY <1>2, <2>1
<1>5. CASE \E c \in poll.todo : PollFills(c) \/ PollRejects(c)
  <2>1. \E S : open' = Without(open, S)
    BY <1>5 DEF PollFills, PollRejects, FillOrder
  <2> QED
    BY <1>2, <2>1
<1>6. CASE Cancel
  <2>1. \E S : open' = Without(open, S)
    BY <1>6 DEF Cancel
  <2> QED
    BY <1>2, <2>1
<1>7. CASE StartFlatten
  BY <1>7, EmptyMap DEF StartFlatten
<1>8. CASE PlaceRests
  <2>1. NewOrder \in Intents
    BY <1>8, TakenFacts DEF PlaceRests
  <2>2. open' = With(open, nextId, NewOrder)
    BY <1>8 DEF PlaceRests
  <2>3. With(open, nextId, NewOrder) \in OrderMaps
    BY <1>1, <2>1, WithMap
  <2>4. /\ DOMAIN open' = DOMAIN open \cup {nextId}
        /\ \A k \in DOMAIN open' : open'[k] = IF k = nextId THEN NewOrder ELSE open[k]
    BY <2>2 DEF With
  <2> QED
    BY <1>8, <2>2, <2>3, <2>4
<1> QED
  BY <1>3, <1>4, <1>5, <1>6, <1>7, <1>8, OpenFrame

LEMMA AnswerTyped ==
  ASSUME NEW r \in Responses \cup {Silence}, Answer(r), event.index \in Nat
  PROVE  work' \in Seq(Intents) /\ \A n \in DOMAIN work' : work'[n].born = event.index
<1> DEFINE s == r.intents
<1>1. s \in Seq(Wishes)
  <2>1. CASE r \in Responses
    BY <2>1, ResponsesAssumption
  <2>2. CASE r = Silence
    <3>1. s = <<>>
      BY <2>2 DEF Silence
    <3> QED
      BY <3>1, EmptySeq
  <2> QED
    BY <2>1, <2>2
<1>2. DOMAIN s = 1 .. Len(s) /\ Len(s) \in Nat /\ \A n \in DOMAIN s : s[n] \in Wishes
  BY <1>1
<1>3. /\ DOMAIN work' = DOMAIN s
      /\ \A n \in DOMAIN s :
           work'[n] = [inst |-> s[n].inst, side |-> s[n].side, type |-> s[n].type,
                       qty |-> s[n].qty, price |-> s[n].price, stop |-> s[n].stop,
                       oco |-> s[n].oco, client |-> s[n].client, born |-> event.index]
      /\ work' = [n \in DOMAIN s |-> work'[n]]
  BY DEF Answer
<1> HIDE DEF s
<1>4. \A n \in DOMAIN s : work'[n] \in Intents /\ work'[n].born = event.index
  BY <1>2, <1>3 DEF Intents, Wishes
<1>5. work' \in [1 .. Len(s) -> Intents]
  BY <1>2, <1>3, <1>4
<1> QED
  BY <1>2, <1>3, <1>4, <1>5, SeqDef

\* Where deferred intents and intents in hand come from.
LEMMA PendingStep ==
  ASSUME Typed, Born, [Step]_vars
  PROVE  /\ pending' \in OrderMaps /\ work' \in Seq(Intents)
         /\ \A id \in DOMAIN pending' :
              \/ id \in DOMAIN pending /\ pending'[id] = pending[id]
              \/ /\ Defer /\ id = nextId /\ nextId' = nextId + 1
                 /\ pending'[id].born <= event.index
         /\ \A n \in DOMAIN work' : work'[n].born <= event.index
<1>1. /\ pending \in OrderMaps /\ nextId \in Nat /\ work \in Seq(Intents)
      /\ event.index \in Nat
      /\ \A n \in DOMAIN work : work[n].born <= event.index
  BY DEF Typed, OrdersTyped, LoopTyped, Events, Born
<1>2. work # <<>> =>
        /\ Tail(work) \in Seq(Intents) /\ Head(work) \in Intents
        /\ Head(work).born <= event.index
        /\ \A n \in DOMAIN Tail(work) : Tail(work)[n].born <= event.index
  <2> SUFFICES ASSUME work # <<>>
               PROVE  /\ Tail(work) \in Seq(Intents) /\ Head(work) \in Intents
                      /\ Head(work).born <= event.index
                      /\ \A n \in DOMAIN Tail(work) : Tail(work)[n].born <= event.index
    OBVIOUS
  <2>1. /\ Tail(work) \in Seq(Intents) /\ Head(work) \in Intents /\ Head(work) = work[1]
        /\ 1 \in DOMAIN work
    BY <1>1
  <2>2. \A n \in DOMAIN Tail(work) : n + 1 \in DOMAIN work /\ Tail(work)[n] = work[n + 1]
    BY <1>1
  <2> QED
    BY <1>1, <2>1, <2>2
<1>3. CASE UNCHANGED <<pending, work>>
  BY <1>1, <1>3
<1>4. CASE PlaceFills \/ PlaceRests \/ PlaceRejected \/ RejectBlocked
  <2>1. Placing /\ TakeIntent
    BY <1>4 DEF PlaceFills, PlaceRests, PlaceRejected, RejectBlocked
  <2>2. CASE phase = "place"
    <3>1. pending' = Without(pending, {FirstDeferred}) /\ work' = work
      BY <2>1, <2>2 DEF TakeIntent
    <3> DEFINE f == Without(pending, {FirstDeferred})
    <3>2. f \in OrderMaps /\ \A id \in DOMAIN f : id \in DOMAIN pending /\ f[id] = pending[id]
      BY <1>1, WithoutMap
    <3>3. pending' = f /\ work' = work
      BY <3>1
    <3> HIDE DEF f
    <3> QED
      BY <1>1, <3>2, <3>3
  <2>3. CASE phase # "place"
    <3>1. pending' = pending /\ work' = Tail(work) /\ work # <<>>
      BY <2>1, <2>3 DEF TakeIntent, Placing
    <3> QED
      BY <1>1, <1>2, <3>1
  <2> QED
    BY <2>2, <2>3
<1>5. CASE Defer
  <2>1. work # <<>> /\ work' = Tail(work)
    BY <1>5 DEF Defer
  <2>2. CASE Valid(Head(work), FALSE)
    <3>1. pending' = With(pending, nextId, Head(work)) /\ nextId' = nextId + 1
      BY <1>5, <2>2 DEF Defer
    <3> DEFINE h == Head(work)
    <3>2. /\ pending \in OrderMaps /\ nextId \in Nat /\ h \in Intents
          /\ pending' = With(pending, nextId, h)
      BY <1>1, <1>2, <2>1, <3>1
    <3> HIDE DEF h
    <3>3. /\ pending' \in OrderMaps /\ DOMAIN pending' = DOMAIN pending \cup {nextId}
          /\ \A k \in DOMAIN pending \cup {nextId} :
               pending'[k] = IF k = nextId THEN h ELSE pending[k]
      <4>1. With(pending, nextId, h) \in OrderMaps
        BY <3>2, WithMap
      <4>2. DOMAIN With(pending, nextId, h) = DOMAIN pending \cup {nextId}
        BY <3>2, WithMap
      <4>3. \A k \in DOMAIN pending \cup {nextId} :
              With(pending, nextId, h)[k] = IF k = nextId THEN h ELSE pending[k]
        BY DEF With
      <4> QED
        BY <3>2, <4>1, <4>2, <4>3
    <3> QED
      BY <1>2, <1>5, <2>1, <3>1, <3>3 DEF h
  <2>3. CASE ~Valid(Head(work), FALSE)
    <3>1. pending' = pending
      BY <1>5, <2>3 DEF Defer
    <3> QED
      BY <1>1, <1>2, <2>1, <3>1
  <2> QED
    BY <2>2, <2>3
<1>6. CASE EndControl
  <2>1. pending' \in {<<>>, pending} /\ work' = work
    BY <1>6 DEF EndControl
  <2> QED
    BY <1>1, <2>1, EmptyMap
<1>7. ASSUME NEW r \in Responses \cup {Silence}, OnEvent(r) \/ Finish(r)
      PROVE  pending' = pending /\ work' \in Seq(Intents)
             /\ \A n \in DOMAIN work' : work'[n].born = event.index
  BY <1>1, <1>7, AnswerTyped DEF OnEvent, Finish
<1>8. CASE \E r \in Responses \cup {Silence} : OnEvent(r) \/ Finish(r)
  BY <1>1, <1>7, <1>8
<1> QED
  BY <1>3, <1>4, <1>5, <1>6, <1>8, PendingFrame

LEMMA OrdersStep ==
  ASSUME Typed, Born, [Step]_vars
  PROVE  OrdersTyped'
BY OpenStep, PendingStep, IdFrame DEF Typed, OrdersTyped

LEMMA RestingSoundStep ==
  ASSUME Typed, Born, RestingSound, [Step]_vars
  PROVE  RestingSound'
<1>1. PlaceRests => WellFormed(NewOrder) /\ NewOrder.type # "Market"
  BY DEF PlaceRests, Admitted
<1>2. \A id \in DOMAIN open' : WellFormed(open'[id]) /\ open'[id].type # "Market"
  BY <1>1, OpenStep DEF RestingSound
<1> QED
  BY <1>2 DEF RestingSound

-----------------------------------------------------------------------------
\* The poll.

LEMMA FlatTyped == Flat \in Accounts
BY BalancesAssumption DEF Flat, Accounts, Prices

LEMMA NoPollTyped ==
  /\ NoPoll \in Polls
  /\ NoPoll.seen = Flat /\ NoPoll.resting = <<>> /\ NoPoll.todo = {} /\ NoPoll.fills = 0
BY FlatTyped, EmptyMap DEF NoPoll, Polls

\* A candidate evaluated leaves the list; what the poll saw stays.
LEMMA CandidateTaken ==
  ASSUME Typed, PollSound, NEW c \in poll.todo,
         PollFills(c) \/ PollRejects(c) \/ PollSkips(c)
  PROVE  /\ poll' \in Polls
         /\ poll'.seen = poll.seen /\ poll'.resting = poll.resting
         /\ poll'.todo = poll.todo \ {c}
         /\ poll.groups \subseteq poll'.groups
         /\ PollFills(c) => /\ poll'.fills > 0
                            /\ poll.resting[c].oco # NoGroup => poll.resting[c].oco \in poll'.groups
         /\ ~PollFills(c) => poll'.fills = poll.fills
<1>1. poll \in Polls /\ poll.resting[c].oco \in STRING \cup {NoGroup}
  BY CandidateFacts DEF Typed, BooksTyped, Intents
<1>2. CASE PollFills(c)
  <2>1. poll' = [poll EXCEPT !.todo = @ \ {c}, !.fills = @ + 1,
                             !.groups = @ \cup ({poll.resting[c].oco} \ {NoGroup})]
    BY <1>2 DEF PollFills
  <2> DEFINE g == poll.groups \cup ({poll.resting[c].oco} \ {NoGroup})
             d == poll.todo \ {c}
             n == poll.fills + 1
  <2>2. /\ g \in SUBSET (STRING \cup {NoGroup}) /\ d \in SUBSET Nat /\ n \in Nat /\ n > 0
        /\ poll.groups \subseteq g
        /\ poll.resting[c].oco # NoGroup => poll.resting[c].oco \in g
    BY <1>1 DEF Polls
  <2>3. poll' = [poll EXCEPT !.todo = d, !.fills = n, !.groups = g]
    BY <1>1, <2>1 DEF Polls
  <2> HIDE DEF g, n
  <2>4. poll' \in Polls
    BY <1>1, <2>2, <2>3 DEF Polls
  <2>5. /\ poll'.seen = poll.seen /\ poll'.resting = poll.resting /\ poll'.todo = d
        /\ poll'.groups = g /\ poll'.fills = n
    BY <1>1, <2>3 DEF Polls
  <2> QED
    BY <1>2, <2>2, <2>4, <2>5
<1>3. CASE ~PollFills(c)
  <2>1. poll' = [poll EXCEPT !.todo = @ \ {c}]
    BY <1>3 DEF PollRejects, PollSkips
  <2> QED
    BY <1>1, <1>3, <2>1 DEF Polls
<1> QED
  BY <1>2, <1>3

LEMMA PollStarted ==
  ASSUME Typed, CloseBar \/ EndPlace
  PROVE  /\ phase = "place" /\ phase' = "poll"
         /\ UNCHANGED <<open, acct, event, pending, nextId>>
         /\ poll' \in Polls
         /\ poll'.seen = acct /\ poll'.resting = open
         /\ poll'.todo = Candidates(event.inst, market'[event.inst])
         /\ poll'.todo \subseteq DOMAIN open
<1>1. /\ open \in OrderMaps /\ acct \in Accounts /\ DOMAIN open \subseteq Nat
      /\ event.inst \in Instruments
  BY OrderMapMember DEF Typed, OrdersTyped, BooksTyped, LoopTyped, Events
<1>2. \A i, m : Candidates(i, m) \subseteq DOMAIN open
  BY DEF Candidates
<1>3. /\ phase = "place" /\ phase' = "poll"
      /\ UNCHANGED <<open, acct, event, pending, nextId>>
      /\ StartPoll(market'[event.inst])
  <2>1. CASE CloseBar
    BY <2>1 DEF CloseBar, loopVars, StartPoll
  <2>2. CASE EndPlace
    BY <2>2 DEF EndPlace, loopVars, marketVars, StartPoll
  <2> QED
    BY <2>1, <2>2
<1>4. poll' = [seen |-> acct, resting |-> open,
               todo |-> Candidates(event.inst, market'[event.inst]),
               groups |-> {}, fills |-> 0]
  BY <1>3 DEF StartPoll
<1>5. poll' \in Polls
  BY <1>1, <1>2, <1>4 DEF Polls
<1> QED
  BY <1>2, <1>3, <1>4, <1>5

LEMMA PollTyped ==
  ASSUME Typed, PollSound, [Step]_vars
  PROVE  poll' \in Polls
<1>1. EndPoll => poll' = NoPoll
  BY DEF EndPoll
<1> QED
  BY <1>1, NoPollTyped, CandidateTaken, PollStarted, PollFrame DEF Typed, BooksTyped

\* In a poll, only its candidates change the orders and the account.
LEMMA DuringPoll ==
  ASSUME phase = "poll", phase' = "poll", [Step]_vars
  PROVE  \/ UNCHANGED <<open, acct, poll, event, pending, ghost>>
         \/ /\ \E c \in poll.todo : PollFills(c) \/ PollRejects(c) \/ PollSkips(c)
            /\ UNCHANGED <<event, pending>>
BY LiveOnlyFacts DEF Step, Next, vars, loopVars, Bar, Tick, Timer, NextEvent, Placing,
    PlaceFills, PlaceRests, PlaceRejected, Defer, EndSubmit, CloseBar, EndPlace, PollFills,
    PollRejects, PollSkips, EndPoll, OnEvent, Finish, Cancel, CancelUnknown, StartFlatten,
    FlattenFills, FlattenSkips, EndFlatten, EndControl, Liquidate, SettleFunding, SettleCoupon,
    SettleOption, SettleNothing, Settling, EndSettle, Ended

LEMMA PollSoundStep ==
  ASSUME Typed, InHand, Born, PollSound, [Step]_vars
  PROVE  PollSound'
<1>1. poll'.todo \subseteq DOMAIN poll'.resting
  <2>1. EndPoll => poll' = NoPoll
    BY DEF EndPoll
  <2>2. CASE UNCHANGED poll
    BY <2>2 DEF PollSound
  <2>3. CASE CloseBar \/ EndPlace
    BY <2>3, PollStarted
  <2>4. CASE EndPoll
    BY <2>1, <2>4, NoPollTyped
  <2>5. ASSUME NEW c \in poll.todo, PollFills(c) \/ PollRejects(c) \/ PollSkips(c)
        PROVE  poll'.todo \subseteq DOMAIN poll'.resting
    BY <2>5, CandidateTaken DEF PollSound
  <2> QED
    BY <2>2, <2>3, <2>4, <2>5, PollFrame
<1>2. ASSUME phase' = "poll"
      PROVE  /\ \A id \in DOMAIN open' : id \in DOMAIN poll'.resting /\ open'[id] = poll'.resting[id]
             /\ \A c \in poll'.todo :
                  /\ poll'.resting[c].inst = event'.inst
                  /\ c \in DOMAIN open' \/ poll'.resting[c].oco \in poll'.groups
             /\ poll'.fills = 0 => poll'.seen = acct'
  <2>1. CASE CloseBar \/ EndPlace
    BY <2>1, PollStarted DEF Candidates
  <2>2. CASE phase = "poll" /\ UNCHANGED <<open, acct, poll, event, pending, ghost>>
    BY <2>2 DEF PollSound
  <2>3. ASSUME phase = "poll", UNCHANGED event, NEW c \in poll.todo,
               PollFills(c) \/ PollRejects(c) \/ PollSkips(c)
        PROVE  /\ \A id \in DOMAIN open' : id \in DOMAIN poll'.resting /\ open'[id] = poll'.resting[id]
               /\ \A d \in poll'.todo :
                    /\ poll'.resting[d].inst = event'.inst
                    /\ d \in DOMAIN open' \/ poll'.resting[d].oco \in poll'.groups
               /\ poll'.fills = 0 => poll'.seen = acct'
    <3>1. /\ poll'.seen = poll.seen /\ poll'.resting = poll.resting
          /\ poll'.todo = poll.todo \ {c} /\ poll.groups \subseteq poll'.groups
          /\ PollFills(c) => /\ poll'.fills > 0
                             /\ poll.resting[c].oco # NoGroup => poll.resting[c].oco \in poll'.groups
          /\ ~PollFills(c) => poll'.fills = poll.fills
      BY <2>3, CandidateTaken
    <3>2. /\ \A id \in DOMAIN open : id \in DOMAIN poll.resting /\ open[id] = poll.resting[id]
          /\ \A d \in poll.todo : /\ poll.resting[d].inst = event.inst
                                  /\ d \in DOMAIN open \/ poll.resting[d].oco \in poll.groups
          /\ poll.fills = 0 => poll.seen = acct
      BY <2>3 DEF PollSound
    <3>3. ~PlaceRests
      BY <2>3 DEF PlaceRests, Placing
    <3>4. \A id \in DOMAIN open' : id \in DOMAIN open /\ open'[id] = open[id]
      BY <3>3, OpenStep
    <3>5. poll'.fills = 0 => poll'.seen = acct'
      <4>1. CASE PollFills(c)
        BY <3>1, <4>1
      <4>2. CASE ~PollFills(c)
        BY <2>3, <3>1, <3>2, <4>2 DEF PollRejects, PollSkips
      <4> QED
        BY <4>1, <4>2
    <3>6. \A d \in poll.todo \ {c} : d \in DOMAIN open' \/ poll'.resting[d].oco \in poll'.groups
      <4>1. CASE PollFills(c)
        <5>1. open' = Without(open, {c} \cup Siblings(c, poll.resting[c], poll.resting))
          BY <4>1 DEF PollFills, FillOrder
        <5>2. DOMAIN open' = DOMAIN open \ ({c} \cup Siblings(c, poll.resting[c], poll.resting))
          BY <5>1 DEF Without
        <5> QED
          BY <3>1, <3>2, <4>1, <5>2 DEF Siblings, PollSound
      <4>2. CASE PollRejects(c)
        <5>1. DOMAIN open' = DOMAIN open \ {c}
          BY <4>2 DEF PollRejects, Without
        <5> QED
          BY <3>1, <3>2, <5>1
      <4>3. CASE PollSkips(c)
        BY <3>1, <3>2, <4>3 DEF PollSkips
      <4> QED
        BY <2>3, <4>1, <4>2, <4>3
    <3> QED
      BY <2>3, <3>1, <3>2, <3>4, <3>5, <3>6
  <2>4. phase = "poll" \/ CloseBar \/ EndPlace
    BY <1>2, PollEntry DEF Typed, LoopTyped
  <2> QED
    BY <1>2, <2>1, <2>2, <2>3, <2>4, DuringPoll
<1> QED
  BY <1>1, <1>2 DEF PollSound

-----------------------------------------------------------------------------
\* Ids and times.

LEMMA IdsStep ==
  ASSUME Typed, Born, PollSound, IdsDrawn, [Step]_vars
  PROVE  IdsDrawn'
<1>1. nextId \in Nat /\ nextId' \in Nat /\ nextId <= nextId'
  BY IdFrame DEF Typed, OrdersTyped
<1>2. DOMAIN open' \subseteq 1 .. nextId' - 1
  <2>1. PlaceRests => nextId' = nextId + 1
    BY DEF PlaceRests
  <2>2. \A id \in DOMAIN open' : id \in DOMAIN open \/ (nextId' = nextId + 1 /\ id = nextId)
    BY <2>1, OpenStep
  <2>3. DOMAIN open \subseteq 1 .. nextId - 1 /\ nextId # 0
    BY DEF IdsDrawn, Typed, OrdersTyped
  <2> QED
    BY <1>1, <2>2, <2>3
<1>3. DOMAIN pending' \subseteq 1 .. nextId' - 1
  <2>1. \A id \in DOMAIN pending' : id \in DOMAIN pending \/ (nextId' = nextId + 1 /\ id = nextId)
    BY PendingStep
  <2>2. DOMAIN pending \subseteq 1 .. nextId - 1 /\ nextId # 0
    BY DEF IdsDrawn, Typed, OrdersTyped
  <2> QED
    BY <1>1, <2>1, <2>2
<1>4. DOMAIN poll'.resting \subseteq 1 .. nextId' - 1
  <2>1. DOMAIN poll.resting \subseteq 1 .. nextId' - 1 /\ DOMAIN open \subseteq 1 .. nextId' - 1
    BY <1>1 DEF IdsDrawn
  <2>2. EndPoll => DOMAIN poll'.resting = {}
    BY NoPollTyped DEF EndPoll
  <2>3. ASSUME NEW c \in poll.todo, PollFills(c) \/ PollRejects(c) \/ PollSkips(c)
        PROVE  poll'.resting = poll.resting
    BY <2>3, CandidateTaken
  <2> QED
    BY <2>1, <2>2, <2>3, PollStarted, PollFrame
<1> QED
  BY <1>2, <1>3, <1>4 DEF IdsDrawn

LEMMA BornStep ==
  ASSUME Typed, InHand, PollSound, Born, [Step]_vars
  PROVE  Born'
<1>1. /\ event.index \in Nat /\ event'.index \in Nat /\ event.index <= event'.index
      /\ open \in OrderMaps /\ pending \in OrderMaps
      /\ open' \in OrderMaps /\ pending' \in OrderMaps /\ work' \in Seq(Intents)
  BY EventStep, OpenStep, PendingStep DEF Typed, LoopTyped, OrdersTyped, Events
<1>2. /\ \A id \in DOMAIN open : open[id].born \in Nat
      /\ \A id \in DOMAIN pending : pending[id].born \in Nat
      /\ \A id \in DOMAIN open' : open'[id].born \in Nat
      /\ \A id \in DOMAIN pending' : pending'[id].born \in Nat
      /\ \A n \in DOMAIN work' : work'[n].born \in Nat
  <2>1. \A n \in DOMAIN work' : work'[n] \in Intents
    BY <1>1
  <2> QED
    BY <1>1, <2>1, OrderMapMember DEF Intents
<1>3. PlaceRests => NewOrder.born <= event.index /\ (phase = "place" => NewOrder.born < event.index)
  BY TakenFacts DEF PlaceRests
<1>4. BornBefore(open', event'.index + 1)
  <2>1. \A id \in DOMAIN open' : open'[id].born <= event.index
    BY <1>1, <1>2, <1>3, OpenStep DEF Born, BornBefore
  <2> QED
    BY <1>1, <1>2, <2>1 DEF BornBefore
<1>5. BornBefore(pending', event'.index + 1)
  <2>1. \A id \in DOMAIN pending' : pending'[id].born <= event.index
    BY <1>1, <1>2, PendingStep DEF Born, BornBefore
  <2> QED
    BY <1>1, <1>2, <2>1 DEF BornBefore
<1>6. \A n \in DOMAIN work' : work'[n].born <= event'.index
  <2>1. \A n \in DOMAIN work' : work'[n].born <= event.index
    BY PendingStep
  <2> QED
    BY <1>1, <1>2, <2>1
<1>7. ASSUME phase' = "place"
      PROVE  BornBefore(open', event'.index) /\ BornBefore(pending', event'.index)
  <2>1. CASE phase = "place" /\ UNCHANGED <<event, market>>
    <3>1. ~Defer
      BY <2>1 DEF Defer
    <3> QED
      BY <1>3, <2>1, <3>1, OpenStep, PendingStep DEF Born, BornBefore
  <2>2. CASE event'.index = event.index + 1 /\ UNCHANGED <<open, pending>>
    BY <2>2 DEF Born
  <2>3. ASSUME NEW b \in Bars, NEW t \in Moments, Bar(b, t)
        PROVE  event'.index = event.index + 1 /\ UNCHANGED <<open, pending>>
    BY <1>1, <2>3 DEF Bar, NextEvent, NoEvent, Typed, LoopTyped, Events
  <2>4. ASSUME NEW e \in Ticks, NEW t \in Moments, Tick(e, t)
        PROVE  event'.index = event.index + 1 /\ UNCHANGED <<open, pending>>
    BY <1>1, <2>4 DEF Tick, NextEvent, NoEvent, Typed, LoopTyped, Events
  <2> QED
    BY <1>7, <2>1, <2>2, <2>3, <2>4, PhaseFrame DEF Typed, LoopTyped
<1>8. ASSUME phase' = "poll"
      PROVE  /\ BornBefore(open', event'.index) /\ BornBefore(pending', event'.index)
             /\ BornBefore(poll'.resting, event'.index)
  <2>1. CASE CloseBar \/ EndPlace
    BY <2>1, PollStarted DEF Born
  <2>2. CASE phase = "poll"
    <3>1. ~PlaceRests /\ ~Defer
      BY <2>2 DEF PlaceRests, Placing, Defer
    <3>2. event' = event
      BY <1>8, <2>2, DuringPoll
    <3>3. poll'.resting = poll.resting
      BY <1>8, <2>2, DuringPoll, CandidateTaken
    <3> QED
      BY <2>2, <3>1, <3>2, <3>3, OpenStep, PendingStep DEF Born, BornBefore
  <2> QED
    BY <1>8, <2>1, <2>2, PollEntry DEF Typed, LoopTyped
<1> QED
  BY <1>4, <1>5, <1>6, <1>7, <1>8 DEF Born

LEMMA HeldStep ==
  ASSUME Typed, InHand, Born, PollSound, HeldToNextUpdate, [Step]_vars
  PROVE  HeldToNextUpdate'
<1>1. event \in Events
  BY DEF Typed, LoopTyped
<1>2. \A id \in DOMAIN pending' :
        phase \in {"place", "poll", "strategy"} => id \in DOMAIN pending /\ pending'[id] = pending[id]
  BY PendingStep DEF Defer
<1>3. ASSUME phase' = "poll", NEW id \in DOMAIN pending'
      PROVE  pending'[id].inst # event'.inst
  <2>1. CASE CloseBar \/ EndPlace
    <3>1. Deferred(event.inst) = {} /\ UNCHANGED <<event, pending>>
      BY <2>1, PollStarted DEF CloseBar, EndPlace
    <3> QED
      BY <3>1 DEF Deferred
  <2>2. CASE phase = "poll"
    <3>1. event' = event
      BY <1>3, <2>2, DuringPoll
    <3> QED
      BY <1>2, <1>3, <2>2, <3>1 DEF HeldToNextUpdate, InHand
  <2> QED
    BY <1>1, <1>3, <2>1, <2>2, PollEntry
<1>4. ASSUME phase' = "strategy", event'.kind \in {"bar"} \cup TickKinds, NEW id \in DOMAIN pending'
      PROVE  pending'[id].inst # event'.inst
  <2>1. CASE phase = "strategy" /\ UNCHANGED <<event, market>>
    BY <1>2, <1>4, <2>1 DEF HeldToNextUpdate
  <2>2. CASE EndPoll
    BY <1>4, <2>2 DEF EndPoll, loopVars, HeldToNextUpdate
  <2>3. ASSUME NEW t \in Moments, Timer(t) PROVE FALSE
    BY <1>1, <1>4, <2>3, ArrivalKinds DEF TickKinds
  <2> QED
    BY <1>1, <1>4, <2>1, <2>2, <2>3, PhaseFrame DEF TickKinds
<1> QED
  BY <1>3, <1>4 DEF HeldToNextUpdate

-----------------------------------------------------------------------------
(***************************************************************************)
(* The books: the account, and the history that tells what moved it.       *)
(***************************************************************************)

\* What a fill does.  The fill engine saw the account as it is, unless the poll
\* has filled before.
LEMMA Filled ==
  ASSUME Typed, EntryIffMarginedPosition, CashFollowsFills,
         NEW id \in Nat, NEW o \in Intents, NEW price \in Int, NEW seen \in Accounts,
         NEW resting, NEW range \in Nat,
         poll.fills = 0 => seen = acct,
         FillOrder(id, o, price, seen, resting, range)
  PROVE  /\ acct' \in Accounts /\ ghost' \in Histories
         /\ EntryIffMarginedPosition' /\ CashFollowsFills'
         /\ ghost'.last.id = id /\ ghost'.last.oco = o.oco /\ ghost'.last.moved = Moved(o.inst)
         /\ ghost'.last.born = o.born /\ ghost'.last.range = range
<1> DEFINE i == o.inst
           x == Meta[i]
           gain == QuoteGain(acct, i, x, o.side, price, o.qty)
           delta == Signed(o.side, o.qty)
           last == [n |-> ghost.last.n + 1, id |-> id, oco |-> o.oco, inst |-> i,
                    moved |-> Moved(i), born |-> o.born, range |-> range]
<1>1. /\ i \in Instruments /\ o.qty \in Int /\ o.born \in Nat
      /\ o.oco \in STRING \cup {NoGroup} /\ delta \in Int
  BY SignedTyped DEF Intents
<1>2. /\ acct \in Accounts /\ ghost \in Histories /\ poll.fills \in Nat
  BY DEF Typed, BooksTyped, Polls
<1>3. x.base \in Assets /\ x.quote \in Assets /\ x.base # x.quote
  BY <1>1, MetaTyped
<1>4. gain \in Int
  BY <1>1, <1>2, GainTyped
<1>5. acct' = AccountAfterFill(acct, seen, i, x, o.side, price, o.qty)
  BY DEF FillOrder
<1>6. acct' \in Accounts
  BY <1>1, <1>2, <1>5, FillTyped DEF EntryIffMarginedPosition
<1>7. ghost' = [ghost EXCEPT !.last = last, !.cash[x.quote] = @ + gain,
                             !.lost = @ \/ poll.fills > 0]
  BY <1>2 DEF FillOrder, Histories
<1>8. last \in FillRecords
  BY <1>1, <1>2 DEF Histories, FillRecords, Moved
<1>9. /\ ghost.cash \in [Assets -> Int] /\ ghost.lost \in BOOLEAN
      /\ [ghost.cash EXCEPT ![x.quote] = @ + gain] \in [Assets -> Int]
  BY <1>2, <1>3, <1>4 DEF Histories
<1> HIDE DEF gain, last, x
<1>10. /\ ghost'.last = last
       /\ ghost'.cash = [ghost.cash EXCEPT ![x.quote] = @ + gain]
       /\ ghost'.lost = (ghost.lost \/ poll.fills > 0)
       /\ ghost'.funded = ghost.funded
       /\ ghost' = [last |-> ghost'.last, cash |-> ghost'.cash, lost |-> ghost'.lost,
                    funded |-> ghost'.funded]
  BY <1>2, <1>7 DEF Histories
<1>11. ghost' \in Histories
  <2>1. (ghost.lost \/ poll.fills > 0) \in BOOLEAN
    BY <1>9, Zenon
  <2>2. ghost.funded \in [Instruments -> Nat]
    BY <1>2 DEF Histories
  <2>3. \A l \in FillRecords, c \in [Assets -> Int], b \in BOOLEAN, f \in [Instruments -> Nat] :
          [last |-> l, cash |-> c, lost |-> b, funded |-> f] \in Histories
    BY DEF Histories
  <2>4. /\ ghost'.last \in FillRecords /\ ghost'.cash \in [Assets -> Int]
        /\ ghost'.funded \in [Instruments -> Nat]
    BY <1>8, <1>9, <1>10, <2>2
  <2>5. ghost'.lost \in BOOLEAN
    BY <1>10, <2>1, Zenon
  <2>6. [last |-> ghost'.last, cash |-> ghost'.cash, lost |-> ghost'.lost,
         funded |-> ghost'.funded] \in Histories
    BY <2>3, <2>4, <2>5, Zenon
  <2>7. ghost' = [last |-> ghost'.last, cash |-> ghost'.cash, lost |-> ghost'.lost,
                  funded |-> ghost'.funded]
    BY <1>10
  <2> QED
    BY <2>6, <2>7, Zenon
<1>12. EntryIffMarginedPosition'
  <2>1. /\ acct'.pos = [acct.pos EXCEPT ![i] = @ + delta]
        /\ acct'.entry = [acct.entry EXCEPT ![i] =
             IF UsesMargin(x) THEN NextEntry(acct.pos[i], acct.entry[i], delta, price)
             ELSE acct.entry[i]]
    BY <1>1, <1>2, <1>5 DEF AccountAfterFill, Accounts
  <2>2. /\ acct.pos \in [Instruments -> Int] /\ acct.entry \in [Instruments -> Prices]
    BY <1>2 DEF Accounts
  <2>3. (acct.entry[i] # NoPrice) <=> (UsesMargin(x) /\ acct.pos[i] # 0)
    BY <1>1 DEF EntryIffMarginedPosition, x
  <2>4. UsesMargin(x) =>
          ((NextEntry(acct.pos[i], acct.entry[i], delta, price) # NoPrice)
             <=> (acct.pos[i] + delta # 0))
    BY <1>1, <2>2, <2>3, NextEntryTyped
  <2>5. (acct'.entry[i] # NoPrice) <=> (UsesMargin(x) /\ acct'.pos[i] # 0)
    BY <1>1, <2>1, <2>2, <2>3, <2>4
  <2>6. \A j \in Instruments \ {i} : acct'.entry[j] = acct.entry[j] /\ acct'.pos[j] = acct.pos[j]
    BY <2>1, <2>2
  <2> QED
    BY <2>5, <2>6 DEF EntryIffMarginedPosition, x
<1>13. CashFollowsFills'
  <2> SUFFICES ASSUME ~ghost'.lost, NEW j \in Instruments
               PROVE  acct'.bal[Meta[j].quote] = InitialBal[Meta[j].quote] + ghost'.cash[Meta[j].quote]
    BY DEF CashFollowsFills
  <2>1. ~ghost.lost /\ poll.fills = 0 /\ seen = acct
    <3>1. ~ghost.lost /\ ~(poll.fills > 0)
      BY <1>10, Zenon
    <3> QED
      BY <1>2, <3>1
  <2>2. acct'.bal = [acct.bal EXCEPT ![x.base] = acct.bal[x.base] + delta,
                                     ![x.quote] = acct.bal[x.quote] + gain]
    BY <1>5, <2>1 DEF AccountAfterFill, BalancesAfterFill, gain, x
  <2>3. Meta[j].quote # x.base /\ Meta[j].quote \in Assets
    BY <1>1, BasesAssumption, MetaTyped DEF x
  <2>4. acct.bal[Meta[j].quote] = InitialBal[Meta[j].quote] + ghost.cash[Meta[j].quote]
    BY <2>1 DEF CashFollowsFills
  <2>5. /\ acct.bal \in [Assets -> Int] /\ InitialBal \in [Assets -> Int]
        /\ ghost.cash \in [Assets -> Int]
    BY <1>2, BalancesAssumption DEF Accounts, Histories
  <2>6. CASE Meta[j].quote = x.quote
    BY <1>3, <1>4, <1>10, <2>2, <2>3, <2>4, <2>5, <2>6
  <2>7. CASE Meta[j].quote # x.quote
    BY <1>3, <1>10, <2>2, <2>3, <2>4, <2>5, <2>7
  <2> QED
    BY <2>6, <2>7
<1> QED
  BY <1>6, <1>10, <1>11, <1>12, <1>13 DEF last

\* The prices and balances of the settlements.
LEMMA CashTyped ==
  ASSUME Typed, RowsCoherent, NEW i \in Instruments
  PROVE  LET x   == Meta[i]
             mid == MidOrLast(market[i])
         IN  mid # NoPrice =>
               /\ LiquidationCash(acct, i, x, mid) \in Int
               /\ FundingCash(x, mid, acct.pos[i]) \in Int
               /\ x.class = "Bond" => CouponCash(acct, x) \in Int
               /\ x.class = "Option" /\ MidOrLast(market[x.underlying]) # NoPrice =>
                    ExerciseCash(x, MidOrLast(market[x.underlying]), acct.pos[i]) \in Int
<1> DEFINE x   == Meta[i]
           mid == MidOrLast(market[i])
           pos == acct.pos[i]
<1>1. /\ pos \in Int /\ acct.entry[i] \in Prices /\ x.mult \in Nat
      /\ x.base \in Assets /\ acct.bal[x.base] \in Int
  BY MetaTyped DEF Typed, BooksTyped, Accounts
<1>2. \A j \in Instruments : MidOrLast(market[j]) \in Prices
  BY MidTyped DEF RowsCoherent, Typed, MarketTyped
<1> SUFFICES ASSUME mid # NoPrice
             PROVE  /\ LiquidationCash(acct, i, x, mid) \in Int
                    /\ FundingCash(x, mid, pos) \in Int
                    /\ x.class = "Bond" => CouponCash(acct, x) \in Int
                    /\ x.class = "Option" /\ MidOrLast(market[x.underlying]) # NoPrice =>
                         ExerciseCash(x, MidOrLast(market[x.underlying]), pos) \in Int
  OBVIOUS
<1>3. mid \in Int
  BY <1>2 DEF Prices
<1>4. LiquidationCash(acct, i, x, mid) \in Int
  <2> DEFINE entry == IF acct.entry[i] = NoPrice THEN mid ELSE acct.entry[i]
  <2>1. entry \in Int
    BY <1>1, <1>3 DEF Prices
  <2>2. LiquidationCash(acct, i, x, mid) = (mid - entry) * pos * x.mult
    BY DEF LiquidationCash
  <2> HIDE DEF entry, mid, pos, x
  <2>3. (mid - entry) * pos \in Int
    BY <1>1, <1>3, <2>1
  <2>4. (mid - entry) * pos * x.mult \in Int
    BY <1>1, <2>3
  <2> QED
    BY <2>2, <2>4
<1>5. FundingCash(x, mid, pos) \in Int
  <2>1. Abs(pos) \in Int /\ Signum(pos) \in Int
    BY <1>1, SignumTyped
  <2>2. Multiplier(x) \in Int
    BY <1>1 DEF Multiplier
  <2>3. mid * Abs(pos) \in Int
    BY <1>3, <2>1
  <2>4. Notional(x, mid, Abs(pos)) \in Int
    BY <2>2, <2>3 DEF Notional
  <2>5. Bps(Notional(x, mid, Abs(pos)), 1) \in Int
    BY <2>4, BpsTyped
  <2>6. \A p, q \in Int : -(p * q) \in Int
    OBVIOUS
  <2>7. -(Signum(pos) * Bps(Notional(x, mid, Abs(pos)), 1)) \in Int
    BY <2>1, <2>5, <2>6
  <2> QED
    BY <2>7 DEF FundingCash
<1>6. x.class = "Bond" => CouponCash(acct, x) \in Int
  <2>1. x.class = "Bond" => x.coupon \in Nat
    BY MetaAssumption
  <2> QED
    BY <1>1, <2>1 DEF CouponCash
<1>7. x.class = "Option" /\ MidOrLast(market[x.underlying]) # NoPrice =>
        ExerciseCash(x, MidOrLast(market[x.underlying]), pos) \in Int
  <2> SUFFICES ASSUME x.class = "Option", MidOrLast(market[x.underlying]) # NoPrice
               PROVE  ExerciseCash(x, MidOrLast(market[x.underlying]), pos) \in Int
    OBVIOUS
  <2> DEFINE spot == MidOrLast(market[x.underlying])
  <2>1. x.strike \in Nat /\ x.underlying \in Instruments
    BY MetaAssumption
  <2>2. spot \in Int
    BY <1>2, <2>1 DEF Prices
  <2> HIDE DEF spot
  <2>3. Intrinsic(x, spot) \in Int
    BY <2>1, <2>2 DEF Intrinsic
  <2>4. Intrinsic(x, spot) * pos \in Int
    BY <1>1, <2>3
  <2>5. Intrinsic(x, spot) * pos * x.mult \in Int
    BY <1>1, <2>4
  <2>6. ExerciseCash(x, spot, pos) \in Int
    BY <2>5 DEF ExerciseCash
  <2> QED
    BY <2>6 DEF spot
<1> QED
  BY <1>4, <1>5, <1>6, <1>7

LEMMA Credited ==
  ASSUME Typed, CashFollowsFills, NEW i \in Instruments, NEW a \in Accounts, NEW due \in Int,
         \A j \in Instruments : a.bal[Meta[j].quote] = acct.bal[Meta[j].quote],
         acct' = [a EXCEPT !.bal[Meta[i].quote] = @ + due],
         ghost'.cash = [ghost.cash EXCEPT ![Meta[i].quote] = @ + due],
         ghost'.lost = ghost.lost
  PROVE  /\ acct' \in Accounts /\ acct'.pos = a.pos /\ acct'.entry = a.entry
         /\ CashFollowsFills'
<1> DEFINE q == Meta[i].quote
<1>1. /\ q \in Assets /\ a.bal \in [Assets -> Int] /\ acct.bal \in [Assets -> Int]
      /\ ghost.cash \in [Assets -> Int] /\ InitialBal \in [Assets -> Int]
  BY MetaTyped, BalancesAssumption DEF Typed, BooksTyped, Accounts, Histories
<1>2. /\ acct'.bal = [a.bal EXCEPT ![q] = @ + due]
      /\ acct'.pos = a.pos /\ acct'.entry = a.entry
      /\ acct' = [pos |-> a.pos, entry |-> a.entry, bal |-> acct'.bal]
  BY DEF Accounts
<1>3. acct'.bal \in [Assets -> Int]
  BY <1>1, <1>2
<1>4. acct' \in Accounts
  BY <1>2, <1>3 DEF Accounts
<1>5. CashFollowsFills'
  <2> SUFFICES ASSUME ~ghost'.lost, NEW j \in Instruments
               PROVE  acct'.bal[Meta[j].quote] = InitialBal[Meta[j].quote] + ghost'.cash[Meta[j].quote]
    BY DEF CashFollowsFills
  <2>1. ~ghost.lost
    BY Zenon
  <2>2. /\ Meta[j].quote \in Assets
        /\ acct.bal[Meta[j].quote] = InitialBal[Meta[j].quote] + ghost.cash[Meta[j].quote]
    BY <2>1, MetaTyped DEF CashFollowsFills
  <2> QED
    BY <1>1, <1>2, <2>2
<1> QED
  BY <1>2, <1>4, <1>5

LEMMA HistoryCredited ==
  ASSUME Typed, NEW q \in Assets, NEW due \in Int, NEW funded \in [Instruments -> Nat],
         ghost' = [ghost EXCEPT !.cash[q] = @ + due, !.funded = funded]
  PROVE  /\ ghost' \in Histories /\ ghost'.last = ghost.last /\ ghost'.lost = ghost.lost
         /\ ghost'.cash = [ghost.cash EXCEPT ![q] = @ + due]
<1>1. /\ ghost \in Histories /\ ghost.cash \in [Assets -> Int]
      /\ [ghost.cash EXCEPT ![q] = @ + due] \in [Assets -> Int]
  BY DEF Typed, BooksTyped, Histories
<1>2. \A c \in [Assets -> Int], f \in [Instruments -> Nat] :
        [ghost EXCEPT !.cash = c, !.funded = f] \in Histories
  BY <1>1 DEF Histories
<1>3. ghost' = [ghost EXCEPT !.cash = [ghost.cash EXCEPT ![q] = @ + due], !.funded = funded]
  BY <1>1 DEF Histories
<1>4. ghost' \in Histories
  BY <1>1, <1>2, <1>3
<1>5. /\ ghost'.last = ghost.last /\ ghost'.lost = ghost.lost
      /\ ghost'.cash = [ghost.cash EXCEPT ![q] = @ + due]
  BY <1>1, <1>3 DEF Histories
<1> QED
  BY <1>4, <1>5

\* Without a position there is no average entry.
LEMMA ClosedFacts ==
  ASSUME Typed, NEW i \in Instruments
  PROVE  LET a == Closed(acct, i, Meta[i])
         IN  /\ a \in Accounts /\ a.pos = [acct.pos EXCEPT ![i] = 0] /\ a.entry = acct.entry
             /\ \A j \in Instruments : a.bal[Meta[j].quote] = acct.bal[Meta[j].quote]
<1> DEFINE a == Closed(acct, i, Meta[i])
<1>1. /\ acct \in Accounts /\ Meta[i].base \in Assets
      /\ acct.pos \in [Instruments -> Int] /\ acct.bal \in [Assets -> Int]
  BY MetaTyped DEF Typed, BooksTyped, Accounts
<1>2. a = [pos |-> [acct.pos EXCEPT ![i] = 0], entry |-> acct.entry,
           bal |-> [acct.bal EXCEPT ![Meta[i].base] = 0]]
  <2> DEFINE g == [acct EXCEPT !.pos[i] = 0]
  <2>1. /\ g = [acct EXCEPT !.pos = [acct.pos EXCEPT ![i] = 0]]
        /\ a = [g EXCEPT !.bal[Meta[i].base] = 0]
    BY <1>1 DEF Closed, Accounts
  <2>2. [acct.pos EXCEPT ![i] = 0] \in [Instruments -> Int]
    BY <1>1
  <2> HIDE DEF g, a
  <2>3. g \in Accounts /\ g.pos = [acct.pos EXCEPT ![i] = 0] /\ g.bal = acct.bal /\ g.entry = acct.entry
    BY <1>1, <2>1, <2>2 DEF Accounts
  <2>4. a = [g EXCEPT !.bal = [g.bal EXCEPT ![Meta[i].base] = 0]]
    BY <2>1, <2>3 DEF Accounts
  <2> QED
    BY <2>3, <2>4 DEF Accounts
<1>3. a \in Accounts
  BY <1>1, <1>2 DEF Accounts
<1>4. /\ a.pos = [acct.pos EXCEPT ![i] = 0] /\ a.entry = acct.entry
      /\ a.bal = [acct.bal EXCEPT ![Meta[i].base] = 0]
  BY <1>1, <1>2 DEF Accounts
<1>5. \A j \in Instruments : a.bal[Meta[j].quote] = acct.bal[Meta[j].quote]
  BY <1>1, <1>4, BasesAssumption, MetaTyped
<1> HIDE DEF a
<1>6. /\ a \in Accounts /\ a.pos = [acct.pos EXCEPT ![i] = 0] /\ a.entry = acct.entry
      /\ \A j \in Instruments : a.bal[Meta[j].quote] = acct.bal[Meta[j].quote]
  BY <1>3, <1>4, <1>5
<1> QED
  BY <1>6 DEF a

LEMMA SettleStep ==
  ASSUME Typed, RowsCoherent, EntryIffMarginedPosition, CashFollowsFills,
         NEW i \in Instruments,
         Liquidate(i) \/ SettleFunding(i) \/ SettleCoupon(i) \/ SettleOption(i)
  PROVE  /\ acct' \in Accounts /\ ghost' \in Histories /\ ghost'.last = ghost.last
         /\ EntryIffMarginedPosition' /\ CashFollowsFills'
<1> DEFINE x == Meta[i]
           mid == MidOrLast(market[i])
<1>1. /\ acct \in Accounts /\ ghost \in Histories /\ x.quote \in Assets
      /\ ghost.funded \in [Instruments -> Nat]
      /\ acct.pos \in [Instruments -> Int] /\ acct.entry \in [Instruments -> Prices]
  BY MetaTyped DEF Typed, BooksTyped, Histories, Accounts
<1>2. \A due : [ghost EXCEPT !.cash[x.quote] = @ + due]
                 = [ghost EXCEPT !.cash[x.quote] = @ + due, !.funded = ghost.funded]
  BY <1>1 DEF Histories
<1>3. ASSUME acct'.pos = acct.pos, acct'.entry = acct.entry
      PROVE  EntryIffMarginedPosition'
  BY <1>3 DEF EntryIffMarginedPosition
<1>4. CASE Liquidate(i)
  <2> DEFINE a == [Closed(acct, i, x) EXCEPT !.entry[i] = NoPrice]
             due == LiquidationCash(acct, i, x, mid)
  <2>1. mid # NoPrice /\ due \in Int
    <3>1. mid # NoPrice
      BY <1>4 DEF Liquidate, Settling, Due
    <3> QED
      BY <3>1, CashTyped
  <2>2. /\ a \in Accounts /\ a.pos = [acct.pos EXCEPT ![i] = 0]
        /\ a.entry = [acct.entry EXCEPT ![i] = NoPrice]
        /\ \A j \in Instruments : a.bal[Meta[j].quote] = acct.bal[Meta[j].quote]
    <3> DEFINE c == Closed(acct, i, x)
    <3>1. /\ c \in Accounts /\ c.pos = [acct.pos EXCEPT ![i] = 0] /\ c.entry = acct.entry
          /\ \A j \in Instruments : c.bal[Meta[j].quote] = acct.bal[Meta[j].quote]
      BY ClosedFacts
    <3> HIDE DEF c
    <3>2. [c EXCEPT !.entry[i] = NoPrice] = [c EXCEPT !.entry = [acct.entry EXCEPT ![i] = NoPrice]]
      BY <3>1 DEF Accounts
    <3>3. [acct.entry EXCEPT ![i] = NoPrice] \in [Instruments -> Prices]
      BY <1>1 DEF Prices
    <3>4. \A e \in [Instruments -> Prices] :
            LET d == [c EXCEPT !.entry = e]
            IN  d \in Accounts /\ d.pos = c.pos /\ d.entry = e /\ d.bal = c.bal
      BY <3>1 DEF Accounts
    <3>5. LET d == [c EXCEPT !.entry[i] = NoPrice]
          IN  /\ d \in Accounts /\ d.pos = [acct.pos EXCEPT ![i] = 0]
              /\ d.entry = [acct.entry EXCEPT ![i] = NoPrice]
              /\ \A j \in Instruments : d.bal[Meta[j].quote] = acct.bal[Meta[j].quote]
      <4> DEFINE d == [c EXCEPT !.entry[i] = NoPrice]
      <4>1. /\ d \in Accounts /\ d.pos = c.pos /\ d.bal = c.bal
            /\ d.entry = [acct.entry EXCEPT ![i] = NoPrice]
        <5>1. LET f == [c EXCEPT !.entry = [acct.entry EXCEPT ![i] = NoPrice]]
              IN  /\ f \in Accounts /\ f.pos = c.pos /\ f.bal = c.bal
                  /\ f.entry = [acct.entry EXCEPT ![i] = NoPrice]
          BY <3>3, <3>4
        <5> QED
          BY <3>2, <5>1
      <4> HIDE DEF d
      <4>2. \A j \in Instruments : d.bal[Meta[j].quote] = acct.bal[Meta[j].quote]
        BY <3>1, <4>1
      <4> QED
        BY <3>1, <4>1, <4>2 DEF d
    <3> QED
      BY <3>5 DEF c
  <2>3. /\ acct' = [a EXCEPT !.bal[x.quote] = @ + due]
        /\ ghost' = [ghost EXCEPT !.cash[x.quote] = @ + due]
    BY <1>4 DEF Liquidate, Credit
  <2> HIDE DEF a, due
  <2>4. /\ ghost' \in Histories /\ ghost'.last = ghost.last /\ ghost'.lost = ghost.lost
        /\ ghost'.cash = [ghost.cash EXCEPT ![x.quote] = @ + due]
    BY <1>1, <1>2, <2>1, <2>3, HistoryCredited
  <2>5. /\ acct' \in Accounts /\ acct'.pos = a.pos /\ acct'.entry = a.entry /\ CashFollowsFills'
    BY <2>1, <2>2, <2>3, <2>4, Credited
  <2>6. EntryIffMarginedPosition'
    BY <1>1, <2>2, <2>5 DEF EntryIffMarginedPosition
  <2> QED
    BY <2>4, <2>5, <2>6
<1>5. CASE SettleFunding(i)
  <2> DEFINE due == FundingCash(x, mid, acct.pos[i])
  <2>1. mid # NoPrice /\ due \in Int
    <3>1. mid # NoPrice
      BY <1>5 DEF SettleFunding, Settling, Due
    <3> QED
      BY <3>1, CashTyped
  <2>2. /\ acct' = [acct EXCEPT !.bal[x.quote] = @ + due]
        /\ ghost' = [ghost EXCEPT !.cash[x.quote] = @ + due, !.funded[i] = @ + 1]
    BY <1>5 DEF SettleFunding
  <2> HIDE DEF due
  <2>3. [ghost.funded EXCEPT ![i] = @ + 1] \in [Instruments -> Nat]
    BY <1>1
  <2>4. ghost' = [ghost EXCEPT !.cash[x.quote] = @ + due,
                               !.funded = [ghost.funded EXCEPT ![i] = @ + 1]]
    BY <1>1, <2>2 DEF Histories
  <2>5. /\ ghost' \in Histories /\ ghost'.last = ghost.last /\ ghost'.lost = ghost.lost
        /\ ghost'.cash = [ghost.cash EXCEPT ![x.quote] = @ + due]
    BY <1>1, <2>1, <2>3, <2>4, HistoryCredited
  <2>6. acct' \in Accounts /\ acct'.pos = acct.pos /\ acct'.entry = acct.entry /\ CashFollowsFills'
    BY <1>1, <2>1, <2>2, <2>5, Credited
  <2> QED
    BY <1>3, <2>5, <2>6
<1>6. CASE SettleCoupon(i)
  <2> DEFINE due == CouponCash(acct, x)
  <2>1. due \in Int
    <3>1. mid # NoPrice /\ x.class = "Bond"
      BY <1>6 DEF SettleCoupon, Settling, Due
    <3> QED
      BY <3>1, CashTyped
  <2>2. /\ acct' = [acct EXCEPT !.bal[x.quote] = @ + due]
        /\ ghost' = [ghost EXCEPT !.cash[x.quote] = @ + due]
    BY <1>6 DEF SettleCoupon, Credit
  <2> HIDE DEF due
  <2>3. /\ ghost' \in Histories /\ ghost'.last = ghost.last /\ ghost'.lost = ghost.lost
        /\ ghost'.cash = [ghost.cash EXCEPT ![x.quote] = @ + due]
    BY <1>1, <1>2, <2>1, <2>2, HistoryCredited
  <2>4. acct' \in Accounts /\ acct'.pos = acct.pos /\ acct'.entry = acct.entry /\ CashFollowsFills'
    BY <1>1, <2>1, <2>2, <2>3, Credited
  <2> QED
    BY <1>3, <2>3, <2>4
<1>7. CASE SettleOption(i)
  <2> DEFINE due == ExerciseCash(x, MidOrLast(market[x.underlying]), acct.pos[i])
             a == Closed(acct, i, x)
  <2>1. due \in Int /\ x.class = "Option"
    <3>1. mid # NoPrice /\ x.class = "Option" /\ MidOrLast(market[x.underlying]) # NoPrice
      BY <1>7 DEF SettleOption, Settling, Due
    <3> QED
      BY <3>1, CashTyped
  <2>2. /\ a \in Accounts /\ a.pos = [acct.pos EXCEPT ![i] = 0] /\ a.entry = acct.entry
        /\ \A j \in Instruments : a.bal[Meta[j].quote] = acct.bal[Meta[j].quote]
    BY ClosedFacts
  <2>3. /\ acct' = [a EXCEPT !.bal[x.quote] = @ + due]
        /\ ghost' = [ghost EXCEPT !.cash[x.quote] = @ + due]
    BY <1>7 DEF SettleOption, Credit
  <2> HIDE DEF a, due
  <2>4. /\ ghost' \in Histories /\ ghost'.last = ghost.last /\ ghost'.lost = ghost.lost
        /\ ghost'.cash = [ghost.cash EXCEPT ![x.quote] = @ + due]
    BY <1>1, <1>2, <2>1, <2>3, HistoryCredited
  <2>5. /\ acct' \in Accounts /\ acct'.pos = a.pos /\ acct'.entry = a.entry /\ CashFollowsFills'
    BY <2>1, <2>2, <2>3, <2>4, Credited
  <2>6. ~UsesMargin(x)
    BY <2>1 DEF UsesMargin
  <2>7. EntryIffMarginedPosition'
    BY <1>1, <2>2, <2>5, <2>6 DEF EntryIffMarginedPosition
  <2> QED
    BY <2>4, <2>5, <2>7
<1> QED
  BY <1>4, <1>5, <1>6, <1>7

LEMMA BooksStep ==
  ASSUME Inv, [Step]_vars
  PROVE  /\ acct' \in Accounts /\ ghost' \in Histories
         /\ EntryIffMarginedPosition' /\ CashFollowsFills' /\ NoPastRangeAfterMove'
<1>1. /\ Typed /\ InHand /\ RowsCoherent /\ PollSound /\ Born
      /\ EntryIffMarginedPosition /\ CashFollowsFills /\ NoPastRangeAfterMove
      /\ acct \in Accounts /\ ghost \in Histories /\ poll \in Polls /\ poll.seen \in Accounts
      /\ nextId \in Nat /\ event.index \in Nat
      /\ market \in [Instruments -> MarketRows]
  BY DEF Inv, Typed, BooksTyped, OrdersTyped, MarketTyped, LoopTyped, Events, Polls
<1>2. \A i \in Instruments : market[i].range \in Nat
  BY <1>1 DEF MarketRows
<1>3. CASE UNCHANGED <<acct, ghost>>
  BY <1>1, <1>3 DEF EntryIffMarginedPosition, CashFollowsFills, NoPastRangeAfterMove
<1>4. ASSUME UNCHANGED acct, ghost' = ghost \/ ghost' = [ghost EXCEPT !.funded = NoHistory.funded]
      PROVE  /\ acct' \in Accounts /\ ghost' \in Histories
             /\ EntryIffMarginedPosition' /\ CashFollowsFills' /\ NoPastRangeAfterMove'
  <2>1. NoHistory.funded \in [Instruments -> Nat]
    BY DEF NoHistory
  <2>2. \A f \in [Instruments -> Nat] :
          LET g == [ghost EXCEPT !.funded = f]
          IN  g \in Histories /\ g.last = ghost.last /\ g.cash = ghost.cash /\ g.lost = ghost.lost
    BY <1>1 DEF Histories
  <2>3. /\ ghost' \in Histories /\ ghost'.last = ghost.last /\ ghost'.cash = ghost.cash
        /\ ghost'.lost = ghost.lost
    <3>1. LET g == [ghost EXCEPT !.funded = NoHistory.funded]
          IN  g \in Histories /\ g.last = ghost.last /\ g.cash = ghost.cash /\ g.lost = ghost.lost
      BY <2>1, <2>2
    <3>2. CASE ghost' = ghost
      BY <1>1, <3>2
    <3>3. CASE ghost' = [ghost EXCEPT !.funded = NoHistory.funded]
      BY <3>1, <3>3, Zenon
    <3> QED
      BY <1>4, <3>2, <3>3
  <2>4. CashFollowsFills'
    BY <1>1, <1>4, <2>3 DEF CashFollowsFills
  <2> QED
    BY <1>1, <1>4, <2>3, <2>4 DEF EntryIffMarginedPosition, NoPastRangeAfterMove
<1>5. CASE \E b \in Bars, t \in Moments : Bar(b, t)
  <2>1. UNCHANGED acct /\ (ghost' = ghost \/ ghost' = [ghost EXCEPT !.funded = NoHistory.funded])
    BY <1>5 DEF Bar, NextEvent
  <2> QED
    BY <1>4, <2>1
<1>6. CASE \E e \in Ticks, t \in Moments : Tick(e, t)
  <2>1. UNCHANGED acct /\ (ghost' = ghost \/ ghost' = [ghost EXCEPT !.funded = NoHistory.funded])
    BY <1>6 DEF Tick, NextEvent
  <2> QED
    BY <1>4, <2>1
<1>7. CASE \E t \in Moments : Timer(t)
  <2>1. UNCHANGED acct /\ (ghost' = ghost \/ ghost' = [ghost EXCEPT !.funded = NoHistory.funded])
    BY <1>7 DEF Timer, NextEvent
  <2> QED
    BY <1>4, <2>1
<1>8. CASE PlaceFills
  <2> DEFINE range == IF IsStop(NewOrder) THEN market[Intent.inst].range ELSE 0
  <2>1. /\ Placing /\ NewPrice # NoPrice
        /\ FillOrder(nextId, NewOrder, NewPrice, acct, open, range)
    BY <1>8 DEF PlaceFills
  <2>2. /\ NewOrder \in Intents /\ NewOrder.inst = Intent.inst /\ NewPrice \in Int
        /\ Intent.inst \in Instruments
        /\ phase = "place" => Intent.inst = event.inst
    BY <1>1, <2>1, TakenFacts DEF Prices, Intents
  <2>3. range \in Nat
    BY <1>2, <2>2
  <2>4. Moved(NewOrder.inst) => range = 0
    <3> SUFFICES ASSUME Moved(Intent.inst), IsStop(NewOrder) PROVE FALSE
      BY <2>2
    <3>1. market[Intent.inst].high = NoPrice
      BY <1>1, <2>1, <2>2 DEF Placing, InHand, Moved
    <3>2. StopPrice(NewOrder, market[Intent.inst]) = NoPrice
      BY <3>1 DEF StopPrice, StopTriggered
    <3>3. NewPrice = StopPrice(NewOrder, market[Intent.inst])
      BY DEF NewPrice, PlacedPrice, IsStop
    <3> QED
      BY <2>1, <3>2, <3>3
  <2> HIDE DEF range
  <2>5. /\ acct' \in Accounts /\ ghost' \in Histories
        /\ EntryIffMarginedPosition' /\ CashFollowsFills'
        /\ ghost'.last.moved = Moved(NewOrder.inst) /\ ghost'.last.range = range
        /\ ghost'.last.born \in Nat
    BY <1>1, <2>1, <2>2, <2>3, Filled DEF Intents
  <2> QED
    BY <2>4, <2>5 DEF NoPastRangeAfterMove
<1>9. CASE FlattenFills
  <2> DEFINE i == Head(rows)
             o == Normalized(Meta[i], Closing(i))
             p == MarketPrice(o.side, market[i])
  <2>1. phase = "flatten" /\ rows # <<>> /\ p # NoPrice /\ FillOrder(nextId, o, p, acct, open, 0)
    BY <1>9 DEF FlattenFills
  <2>2. i \in Instruments
    BY <1>1, <2>1 DEF Typed, LoopTyped
  <2>3. o \in Intents /\ p \in Int
    BY <1>1, <2>1, <2>2, ClosingFacts DEF Prices
  <2> HIDE DEF o, p
  <2>4. /\ acct' \in Accounts /\ ghost' \in Histories
        /\ EntryIffMarginedPosition' /\ CashFollowsFills' /\ ghost'.last.range = 0
    BY <1>1, <2>1, <2>3, Filled
  <2> QED
    BY <2>4 DEF NoPastRangeAfterMove
<1>10. ASSUME NEW c \in poll.todo, PollFills(c)
       PROVE  /\ acct' \in Accounts /\ ghost' \in Histories
              /\ EntryIffMarginedPosition' /\ CashFollowsFills' /\ NoPastRangeAfterMove'
  <2> DEFINE o == poll.resting[c]
             m == market[o.inst]
             range == IF IsStop(o) \/ Touched(o, m) THEN m.range ELSE 0
  <2>1. /\ phase = "poll" /\ PollPrice(o) # NoPrice
        /\ FillOrder(c, o, PollPrice(o), poll.seen, poll.resting, range)
    BY <1>10 DEF PollFills, IsNextCandidate
  <2>2. /\ c \in Nat /\ o \in Intents /\ PollPrice(o) \in Int /\ o.inst = event.inst
        /\ o.inst \in Instruments /\ o.born < event.index
        /\ poll.fills = 0 => poll.seen = acct
    BY <1>1, <2>1, CandidateFacts DEF Prices, PollSound, Born, BornBefore
  <2>3. range \in Nat /\ (Moved(o.inst) => range \in {0, event.index})
    <3>1. range \in Nat
      BY <1>2, <2>2
    <3>2. CASE event.kind = "bar"
      BY <1>1, <2>1, <2>2, <3>2 DEF InHand
    <3>3. CASE event.kind \in {"trade", "quote"}
      <4>1. m.high = NoPrice
        BY <1>1, <2>2, <3>3 DEF InHand
      <4>2. ~Touched(o, m) /\ StopPrice(o, m) = NoPrice
        BY <4>1 DEF Touched, StopPrice, StopTriggered
      <4>3. IsStop(o) => RestingPrice(o, m) = NoPrice
        BY <4>2 DEF RestingPrice, IsStop
      <4> QED
        BY <2>1, <4>2, <4>3 DEF PollPrice
    <3> QED
      BY <3>1, <3>2, <3>3 DEF Moved
  <2> HIDE DEF range, o
  <2>4. /\ acct' \in Accounts /\ ghost' \in Histories
        /\ EntryIffMarginedPosition' /\ CashFollowsFills'
        /\ ghost'.last.moved = Moved(o.inst) /\ ghost'.last.range = range
        /\ ghost'.last.born = o.born
    BY <1>1, <2>1, <2>2, <2>3, Filled
  <2>5. o.born \in Nat
    BY <2>2 DEF Intents
  <2> QED
    BY <1>1, <2>2, <2>3, <2>4, <2>5 DEF NoPastRangeAfterMove
<1>11. CASE \E i \in Instruments :
              Liquidate(i) \/ SettleFunding(i) \/ SettleCoupon(i) \/ SettleOption(i)
  BY <1>1, <1>11, SettleStep DEF NoPastRangeAfterMove
<1> QED
  BY <1>3, <1>5, <1>6, <1>7, <1>8, <1>9, <1>10, <1>11, BooksFrame

LEMMA LoopStep ==
  ASSUME Typed, InHand, [Step]_vars
  PROVE  LoopTyped'
<1>1. event' \in Events /\ now' \in Times
  BY EventStep
<1>2. phase \in Phases /\ rows \in Seq(Instruments) /\ Rows \in Seq(Instruments)
  BY RowsAssumption DEF Typed, LoopTyped
<1>3. rows' \in Seq(Instruments)
  <2>1. rows # <<>> => Tail(rows) \in Seq(Instruments)
    BY <1>2
  <2>2. <<>> \in Seq(Instruments)
    OBVIOUS
  <2>3. UNCHANGED rows \/ (rows # <<>> /\ rows' = Tail(rows)) \/ rows' = Rows \/ rows' = <<>>
    BY LiveOnlyFacts DEF Step, Next, vars, loopVars, Bar, Tick, Timer, NextEvent, PlaceFills,
        PlaceRests, PlaceRejected, Defer, EndSubmit, CloseBar, EndPlace, PollFills, PollRejects,
        PollSkips, EndPoll, OnEvent, Finish, Cancel, CancelUnknown, StartFlatten, FlattenFills,
        FlattenSkips, EndFlatten, EndControl, Liquidate, SettleFunding, SettleCoupon,
        SettleOption, SettleNothing, Settling, EndSettle, Ended
  <2> QED
    BY <1>2, <2>1, <2>2, <2>3
<1>4. phase' \in Phases
  <2>1. phase = "submit" =>
          event.kind \in {"bar", "timer", "finish", "command", "operator"} \cup TickKinds
    BY DEF Typed, LoopTyped, Events, Kinds, InHand
  <2>2. LiveOnly => phase' \in {phase, "idle", "done", "strategy", "control"}
    BY CommandFacts, LiveOnlyFacts DEF Typed, LoopTyped
  <2> QED
    BY <1>2, <2>1, <2>2
    DEF Phases, Step, Commanded, Next, vars, Bar, Tick, Timer, PlaceFills, PlaceRests,
        PlaceRejected, Defer, EndSubmit, CloseBar, EndPlace, StartPoll, PollFills, PollRejects,
        PollSkips, EndPoll, OnEvent, Finish, Cancel, CancelUnknown, StartFlatten, FlattenFills,
        FlattenSkips, EndFlatten, EndControl, Liquidate, SettleFunding, SettleCoupon,
        SettleOption, SettleNothing, Settling, EndSettle, Ended
<1> QED
  BY <1>1, <1>3, <1>4 DEF LoopTyped

LEMMA InvInit ==
  ASSUME Init
  PROVE  Inv
<1>1. LoopTyped
  <2>1. event \in Events /\ now \in Times
    BY EventMade, TimeAssumption DEF Init
  <2>2. phase \in Phases /\ rows \in Seq(Instruments)
    BY DEF Init, Phases
  <2> QED
    BY <2>1, <2>2 DEF LoopTyped
<1>2. MarketTyped /\ RowsCoherent
  BY DEF Init, MarketTyped, MarketRows, NoMarket, Prices, RowsCoherent, Coherent
<1>3. OrdersTyped
  BY EmptyMap DEF Init, OrdersTyped
<1>4. acct \in Accounts /\ poll \in Polls
  BY FlatTyped, NoPollTyped DEF Init
<1>5. ghost \in Histories
  <2>1. NoFill \in FillRecords
    BY RowsAssumption DEF NoFill, FillRecords, Kinds
  <2>2. /\ [a \in Assets |-> 0] \in [Assets -> Int]
        /\ [i \in Instruments |-> 0] \in [Instruments -> Nat]
    OBVIOUS
  <2>3. \A f \in FillRecords, c \in [Assets -> Int], g \in [Instruments -> Nat] :
          [last |-> f, cash |-> c, lost |-> FALSE, funded |-> g] \in Histories
    BY DEF Histories
  <2> QED
    BY <2>1, <2>2, <2>3 DEF Init, NoHistory
<1>6. /\ DOMAIN open = {} /\ DOMAIN pending = {} /\ DOMAIN poll.resting = {} /\ poll.todo = {}
      /\ DOMAIN work = {} /\ phase = "idle" /\ event.kind = "none"
  BY NoPollTyped DEF Init, NoEvent
<1>7. InHand /\ IdsDrawn /\ RestingSound /\ PollSound /\ Born /\ HeldToNextUpdate
  BY <1>6 DEF InHand, IdsDrawn, RestingSound, PollSound, Born, BornBefore, HeldToNextUpdate
<1>8. EntryIffMarginedPosition
  BY DEF Init, Flat, EntryIffMarginedPosition
<1>9. CashFollowsFills
  <2> SUFFICES ASSUME NEW i \in Instruments
               PROVE  acct.bal[Meta[i].quote] = InitialBal[Meta[i].quote] + ghost.cash[Meta[i].quote]
    BY DEF CashFollowsFills
  <2>1. Meta[i].quote \in Assets /\ InitialBal[Meta[i].quote] \in Int
    BY MetaTyped, BalancesAssumption
  <2>2. acct.bal = InitialBal /\ ghost.cash = [a \in Assets |-> 0]
    BY DEF Init, Flat, NoHistory
  <2> QED
    BY <2>1, <2>2
<1>10. NoPastRangeAfterMove
  BY DEF Init, NoHistory, NoFill, NoPastRangeAfterMove
<1> QED
  BY <1>1, <1>2, <1>3, <1>4, <1>5, <1>7, <1>8, <1>9, <1>10 DEF Inv, Typed, BooksTyped

LEMMA InvStep ==
  ASSUME Inv, [Step]_vars
  PROVE  Inv'
<1> USE DEF Inv
<1>1. LoopTyped' /\ MarketTyped' /\ RowsCoherent' /\ OrdersTyped' /\ InHand'
  BY LoopStep, MarketStep, OrdersStep, InHandStep
<1>2. acct' \in Accounts /\ ghost' \in Histories /\ poll' \in Polls
  BY BooksStep, PollTyped
<1>3. Typed'
  BY <1>1, <1>2 DEF Typed, BooksTyped
<1>4. IdsDrawn' /\ RestingSound' /\ PollSound' /\ Born' /\ HeldToNextUpdate'
  BY IdsStep, RestingSoundStep, PollSoundStep, BornStep, HeldStep
<1>5. EntryIffMarginedPosition' /\ CashFollowsFills' /\ NoPastRangeAfterMove'
  BY BooksStep
<1> QED
  BY <1>1, <1>3, <1>4, <1>5

-----------------------------------------------------------------------------
(***************************************************************************)
(* What holds of every replay and of every live session.                   *)
(***************************************************************************)

\* The steps of a replay bring events of the data and of no operator.
LEMMA DataEvents ==
  ASSUME [Next]_vars, event \in Events
  PROVE  UNCHANGED event \/ event'.kind \in {"bar", "timer", "finish"} \cup TickKinds
<1>1. \/ UNCHANGED event
      \/ \E b \in Bars, t \in Moments : Bar(b, t)
      \/ \E e \in Ticks, t \in Moments : Tick(e, t)
      \/ \E t \in Moments : Timer(t)
      \/ \E r \in Responses \cup {Silence} : Finish(r)
  BY DEF Next, vars, loopVars, PlaceFills, PlaceRests, PlaceRejected, Defer, EndSubmit, CloseBar,
         EndPlace, PollFills, PollRejects, PollSkips, EndPoll, OnEvent, Cancel, CancelUnknown,
         StartFlatten, FlattenFills, FlattenSkips, EndFlatten, EndControl, Liquidate,
         SettleFunding, SettleCoupon, SettleOption, SettleNothing, Settling, EndSettle, Ended
<1> QED
  BY <1>1, ArrivalKinds

LEMMA ReplayStep ==
  ASSUME Inv, ~Commanded, [Next]_vars
  PROVE  [Step]_vars /\ ~Commanded'
<1>1. event \in Events
  BY DEF Inv, Typed, LoopTyped
<1> QED
  BY <1>1, DataEvents DEF TickKinds, Step, Commanded

\* An operator's event is in hand in a live session only.
CommandsAreLive == Commanded => mode = "live"

LEMMA LiveStep ==
  ASSUME Inv, CommandsAreLive, [LiveNext]_liveVars
  PROVE  [Step]_vars /\ CommandsAreLive'
<1>1. event \in Events
  BY DEF Inv, Typed, LoopTyped
<1>2. CASE UNCHANGED liveVars
  BY <1>2 DEF liveVars, session, vars, loopVars, CommandsAreLive, Commanded
<1>3. CASE Shared /\ UNCHANGED session
  <2>1. Next
    BY <1>3 DEF Shared, Next
  <2>2. ~(phase = "submit" /\ work = <<>>)
    BY <1>3 DEF Shared, Bar, Tick, Timer, NextEvent, Placing, PlaceFills, PlaceRests,
         PlaceRejected, Defer, CloseBar, EndPlace, IsNextCandidate, PollFills, PollRejects,
         PollSkips, EndPoll, OnEvent, Cancel, CancelUnknown, StartFlatten, FlattenFills,
         FlattenSkips, EndFlatten, EndControl, Ended
  <2>3. phase = "control" /\ controls = <<>> => event.kind # "operator"
    BY <1>3 DEF Shared, Bar, Tick, Timer, NextEvent, Placing, PlaceFills, PlaceRests,
         PlaceRejected, Defer, CloseBar, EndPlace, IsNextCandidate, PollFills, PollRejects,
         PollSkips, EndPoll, OnEvent, Cancel, CancelUnknown, StartFlatten, FlattenFills,
         FlattenSkips, EndFlatten, EndControl, Ended
  <2>4. Step
    BY <2>1, <2>2, <2>3 DEF Step, EndSubmit, EndControl
  <2>5. UNCHANGED event \/ event'.kind \in {"bar", "timer", "finish"} \cup TickKinds
    BY <1>1, <2>1, DataEvents
  <2> QED
    BY <1>3, <2>4, <2>5 DEF TickKinds, CommandsAreLive, Commanded, session
<1>4. CASE mode = "replay" /\ ReplayOnly /\ UNCHANGED session
  <2>1. Next /\ ~Commanded
    BY <1>4 DEF ReplayOnly, Next, CommandsAreLive
  <2> QED
    BY <1>4, <2>1, ReplayStep DEF CommandsAreLive
<1>5. CASE LiveOnly
  <2>1. UNCHANGED mode
    BY <1>5 DEF LiveOnly, Commanding, Switch, Intervene, Operator, EndIntervention, RejectBlocked,
         SkipStrategy, EndLiveSubmit, EndStream, session
  <2>2. Commanding \/ EndIntervention => mode = "live"
    BY DEF Commanding, Switch, Intervene, Operator, EndIntervention, CommandsAreLive, Commanded
  <2> QED
    BY <1>5, <2>1, <2>2, LiveOnlyFacts DEF Step, CommandsAreLive, Commanded
<1> QED
  BY <1>2, <1>3, <1>4, <1>5 DEF LiveNext, LiveOnly, Commanding

\* The invariant above holds: the engine's maps, books and poll agree with each
\* other at every step of every replay and of every live session, whose steps are
\* the steps the lemmas speak of.
THEOREM InvHolds ==
  (Spec => []Inv /\ [][Step]_vars) /\ (LiveSpec => []Inv /\ [][Step]_vars)
<1>1. Init => Inv /\ ~Commanded
  BY InvInit DEF Init, NoEvent, Commanded
<1>2. LiveInit => Inv /\ CommandsAreLive
  BY <1>1 DEF LiveInit, CommandsAreLive
<1>3. Inv /\ ~Commanded /\ [Next]_vars => [Step]_vars /\ Inv' /\ ~Commanded'
  BY ReplayStep, InvStep
<1>4. Inv /\ CommandsAreLive /\ [LiveNext]_liveVars
        => [Step]_vars /\ Inv' /\ CommandsAreLive'
  BY LiveStep, InvStep
<1>5. Spec => []Inv /\ [][Step]_vars
  BY <1>1, <1>3, PTL DEF Spec
<1>6. LiveSpec => []Inv /\ [][Step]_vars
  BY <1>2, <1>4, PTL DEF LiveSpec
<1> QED
  BY <1>5, <1>6

LEMMA TypeOKFollows == Inv => TypeOK
<1> SUFFICES ASSUME Inv PROVE TypeOK
  OBVIOUS
<1>1. /\ phase \in Phases /\ event \in Events /\ now \in Times /\ nextId \in Nat \ {0}
      /\ acct \in Accounts /\ poll \in Polls /\ ghost \in Histories /\ work \in Seq(Intents)
      /\ open \in OrderMaps /\ pending \in OrderMaps /\ poll.resting \in OrderMaps
      /\ poll.seen \in Accounts
  BY DEF Inv, Typed, LoopTyped, OrdersTyped, BooksTyped, Polls
<1>2. IsOrderMap(open) /\ IsOrderMap(pending) /\ IsOrderMap(poll.resting)
  BY <1>1, OrderMapMember DEF Inv, IdsDrawn, IsOrderMap
<1>3. IsAccount(acct) /\ IsAccount(poll.seen)
  BY <1>1 DEF IsAccount, Accounts, Prices
<1>4. /\ event.inst \in Instruments /\ event.index \in Nat
      /\ poll.fills \in Nat /\ ghost.cash \in [Assets -> Int]
      /\ poll.todo \subseteq DOMAIN poll.resting
  BY <1>1 DEF Events, Polls, Histories, Inv, PollSound
<1>5. ghost.lost \in BOOLEAN
  BY <1>1 DEF Histories
<1> QED
  BY <1>1, <1>2, <1>3, <1>4, <1>5 DEF TypeOK

\* state/*.rs and oms.rs: balances, positions, order maps and the poll keep their
\* shape.
THEOREM ReplayTypes == (Spec => []TypeOK) /\ (LiveSpec => []TypeOK)
BY InvHolds, TypeOKFollows, PTL

\* sync.rs process_pending_intents_for_instrument_sync: a deferred intent is held
\* until the next market update of its instrument and not beyond, whatever the
\* other instruments do.
THEOREM IntentsAreHeld == (Spec => []HeldToNextUpdate) /\ (LiveSpec => []HeldToNextUpdate)
<1>1. Inv => HeldToNextUpdate
  BY DEF Inv
<1> QED
  BY <1>1, InvHolds, PTL

\* fills.rs push_balance_updates_after_fill, account.rs, lifecycle.rs: while no poll
\* has filled two orders, each quote balance is the initial one plus what fills and
\* settlements add.
THEOREM CashIsExplained ==
  (Spec => []CashFollowsFills) /\ (LiveSpec => []CashFollowsFills)
<1>1. Inv => CashFollowsFills
  BY DEF Inv
<1> QED
  BY <1>1, InvHolds, PTL

\* account.rs next_average_entry, lifecycle.rs: fills, reversals, liquidations and
\* exercises leave an average entry exactly where a margined position is open.
THEOREM EntriesFollowPositions ==
  (Spec => []EntryIffMarginedPosition) /\ (LiveSpec => []EntryIffMarginedPosition)
<1>1. Inv => EntryIffMarginedPosition
  BY DEF Inv
<1> QED
  BY <1>1, InvHolds, PTL

\* runner.rs, market.rs, fills.rs: neither a bar nor a trade nor a quote leads to a
\* fill of its instrument on the range of a bar that had completed when the order was
\* submitted, whatever was deferred and whatever rests, in replays of any data and in
\* live streams.
THEOREM FillsLookForward ==
  (Spec => []NoPastRangeAfterMove) /\ (LiveSpec => []NoPastRangeAfterMove)
<1>1. Inv => NoPastRangeAfterMove
  BY DEF Inv
<1> QED
  BY <1>1, InvHolds, PTL

-----------------------------------------------------------------------------
\* Only three steps fill.
LEMMA FillFrame ==
  ASSUME Inv, [Step]_vars, ghost'.last # ghost.last
  PROVE  PlaceFills \/ FlattenFills \/ \E c \in poll.todo : PollFills(c)
<1>1. /\ ghost \in Histories /\ Typed /\ RowsCoherent
      /\ EntryIffMarginedPosition /\ CashFollowsFills
  BY DEF Inv, Typed, BooksTyped
<1>2. ghost' = [ghost EXCEPT !.funded = NoHistory.funded] => ghost'.last = ghost.last
  BY <1>1 DEF Histories
<1>3. ~(\E b \in Bars, t \in Moments : Bar(b, t))
  BY <1>2 DEF Bar, NextEvent
<1>4. ~(\E e \in Ticks, t \in Moments : Tick(e, t))
  BY <1>2 DEF Tick, NextEvent
<1>5. ~(\E t \in Moments : Timer(t))
  BY <1>2 DEF Timer, NextEvent
<1>6. ~(\E i \in Instruments :
          Liquidate(i) \/ SettleFunding(i) \/ SettleCoupon(i) \/ SettleOption(i))
  BY <1>1, SettleStep
<1> QED
  BY <1>3, <1>4, <1>5, <1>6, BooksFrame

\* What a fill tells of its order, and what it leaves working.
LEMMA FillReports ==
  ASSUME Inv, NEW id, NEW o, NEW price, NEW seen, NEW resting, NEW range,
         FillOrder(id, o, price, seen, resting, range)
  PROVE  /\ ghost'.last.id = id /\ ghost'.last.oco = o.oco
         /\ DOMAIN open' = DOMAIN open \ ({id} \cup Siblings(id, o, resting))
         /\ \A k \in DOMAIN open' : open'[k] = open[k]
<1>1. ghost \in Histories
  BY DEF Inv, Typed, BooksTyped
<1>2. ghost'.last.id = id /\ ghost'.last.oco = o.oco
  BY <1>1 DEF FillOrder, Histories
<1>3. open' = Without(open, {id} \cup Siblings(id, o, resting))
  BY DEF FillOrder
<1> QED
  BY <1>2, <1>3 DEF Without

\* fills.rs push_oco_cancellations: whether an order fills when it is placed, in a
\* poll or in a flatten, no order of its group works after the fill.
THEOREM SiblingsAreCancelled ==
  (Spec => OcoCancelsSiblings) /\ (LiveSpec => OcoCancelsSiblings)
<1> DEFINE Act == ghost'.last # ghost.last /\ ghost'.last.oco # NoGroup =>
                    \A id \in DOMAIN open' : open'[id].oco # ghost'.last.oco
<1>1. Inv /\ [Step]_vars => Act
  <2> SUFFICES ASSUME Inv, [Step]_vars, ghost'.last # ghost.last, ghost'.last.oco # NoGroup,
                      NEW id \in DOMAIN open'
               PROVE  open'[id].oco # ghost'.last.oco
    OBVIOUS
  <2>1. CASE PlaceFills
    <3>1. PICK price, range : FillOrder(nextId, NewOrder, price, acct, open, range)
      BY <2>1 DEF PlaceFills
    <3>2. /\ ghost'.last.oco = NewOrder.oco /\ open'[id] = open[id]
          /\ id \in DOMAIN open /\ id # nextId /\ id \notin Siblings(nextId, NewOrder, open)
      <4>1. ghost'.last.oco = NewOrder.oco
        BY <3>1, FillReports
      <4>2. DOMAIN open' = DOMAIN open \ ({nextId} \cup Siblings(nextId, NewOrder, open))
        BY <3>1, FillReports
      <4>3. open'[id] = open[id]
        BY <3>1, FillReports
      <4> QED
        BY <4>1, <4>2, <4>3
    <3> QED
      BY <3>2 DEF Siblings
  <2>2. CASE FlattenFills
    <3>1. PICK o, price : FillOrder(nextId, o, price, acct, open, 0)
      BY <2>2 DEF FlattenFills
    <3>2. /\ ghost'.last.oco = o.oco /\ open'[id] = open[id]
          /\ id \in DOMAIN open /\ id # nextId /\ id \notin Siblings(nextId, o, open)
      <4>1. ghost'.last.oco = o.oco
        BY <3>1, FillReports
      <4>2. DOMAIN open' = DOMAIN open \ ({nextId} \cup Siblings(nextId, o, open))
        BY <3>1, FillReports
      <4>3. open'[id] = open[id]
        BY <3>1, FillReports
      <4> QED
        BY <4>1, <4>2, <4>3
    <3> QED
      BY <3>2 DEF Siblings
  <2>3. ASSUME NEW c \in poll.todo, PollFills(c)
        PROVE  open'[id].oco # ghost'.last.oco
    <3>1. PICK price, range :
            FillOrder(c, poll.resting[c], price, poll.seen, poll.resting, range)
      BY <2>3 DEF PollFills
    <3>2. phase = "poll"
      BY <2>3 DEF PollFills, IsNextCandidate
    <3>3. \A k \in DOMAIN open : k \in DOMAIN poll.resting /\ open[k] = poll.resting[k]
      BY <3>2 DEF Inv, PollSound
    <3>4. /\ ghost'.last.oco = poll.resting[c].oco /\ open'[id] = open[id]
          /\ id \in DOMAIN open /\ id # c /\ id \notin Siblings(c, poll.resting[c], poll.resting)
      <4>1. ghost'.last.oco = poll.resting[c].oco
        BY <3>1, FillReports
      <4>2. DOMAIN open' = DOMAIN open \ ({c} \cup Siblings(c, poll.resting[c], poll.resting))
        BY <3>1, FillReports
      <4>3. open'[id] = open[id]
        BY <3>1, FillReports
      <4> QED
        BY <4>1, <4>2, <4>3
    <3> QED
      BY <3>4, <3>3 DEF Siblings
  <2> QED
    BY <2>1, <2>2, <2>3, FillFrame
<1>2. (Spec => [][Act]_vars) /\ (LiveSpec => [][Act]_vars)
  BY InvHolds, <1>1, PTL
<1> QED
  BY <1>2 DEF OcoCancelsSiblings

LEMMA FilledWasWorking ==
  ASSUME Inv, [Step]_vars, phase = "poll", ghost'.last # ghost.last
  PROVE  ghost'.last.id \in DOMAIN open
<1>1. ~PlaceFills /\ ~FlattenFills
  BY DEF PlaceFills, Placing, FlattenFills
<1>2. PICK c \in poll.todo : PollFills(c)
  BY <1>1, FillFrame
<1>3. PICK price, range :
        FillOrder(c, poll.resting[c], price, poll.seen, poll.resting, range)
  BY <1>2 DEF PollFills
<1>4. ghost'.last.id = c
  BY <1>3, FillReports
<1>5. poll.resting[c].oco \notin poll.groups
  BY <1>2 DEF PollFills, PollPrice
<1> QED
  BY <1>4, <1>5 DEF Inv, PollSound

\* fills.rs poll_instrument_into: a poll evaluates the orders of its start, and yet
\* it fills none that an earlier candidate of the same poll has cancelled.
THEOREM PollFillsWorkingOrders ==
  (Spec => OnlyWorkingOrdersFill) /\ (LiveSpec => OnlyWorkingOrdersFill)
<1> DEFINE Act == phase = "poll" /\ ghost'.last # ghost.last => ghost'.last.id \in DOMAIN open
<1>1. Inv /\ [Step]_vars => Act
  BY FilledWasWorking
<1>2. (Spec => [][Act]_vars) /\ (LiveSpec => [][Act]_vars)
  BY InvHolds, <1>1, PTL
<1> QED
  BY <1>2 DEF OnlyWorkingOrdersFill

\* oms.rs, fills.rs poll_instrument_into: the price books visit only the levels
\* that the market reaches, and no working order that the fill rules would fill
\* stands in another level.
THEOREM PruningLosesNoFill == (Spec => PruningIsSound) /\ (LiveSpec => PruningIsSound)
<1> DEFINE Act == phase # "poll" /\ phase' = "poll" =>
                    \A id \in DOMAIN open :
                      open[id].inst = event.inst
                        /\ RestingPrice(open[id], market'[event.inst]) # NoPrice
                        => id \in poll'.todo
<1>1. Inv /\ [Step]_vars => Act
  <2> SUFFICES ASSUME Inv, [Step]_vars, phase # "poll", phase' = "poll",
                      NEW id \in DOMAIN open, open[id].inst = event.inst,
                      RestingPrice(open[id], market'[event.inst]) # NoPrice
               PROVE  id \in poll'.todo
    OBVIOUS
  <2>1. CloseBar \/ EndPlace
    BY PollEntry DEF Inv, Typed, LoopTyped
  <2>2. poll'.todo = Candidates(event.inst, market'[event.inst])
    BY <2>1, PollStarted DEF Inv
  <2>3. /\ open[id] \in Intents /\ WellFormed(open[id]) /\ open[id].type # "Market"
        /\ event.inst \in Instruments
    BY OrderMapMember DEF Inv, RestingSound, Typed, OrdersTyped, LoopTyped, Events
  <2>4. market'[event.inst] \in MarketRows /\ Coherent(market'[event.inst])
    <3>1. MarketTyped' /\ RowsCoherent'
      BY MarketStep DEF Inv
    <3> QED
      BY <2>3, <3>1 DEF MarketTyped, RowsCoherent
  <2>5. Reached(open[id], Snapshot(market'[event.inst]))
    BY <2>3, <2>4, RulesAgree
  <2> QED
    BY <2>2, <2>5 DEF Candidates
<1>2. (Spec => [][Act]_vars) /\ (LiveSpec => [][Act]_vars)
  BY InvHolds, <1>1, PTL
<1> QED
  BY <1>2 DEF PruningIsSound

-----------------------------------------------------------------------------
\* In a live session a blocked engine draws no id for an order it places.
LEMMA BlockedDrawsNoId ==
  ASSUME [LiveNext]_liveVars, Placing, nextId' # nextId
  PROVE  ~Blocked
<1>1. phase \in {"place", "submit"} /\ (phase = "submit" => event.kind # "bar" /\ work # <<>>)
  BY DEF Placing
<1>2. nextId' # nextId => ~UNCHANGED liveVars /\ ~LiveOnly
  BY LiveOnlyFacts DEF liveVars, vars
<1>3. ~ReplayOnly
  BY <1>1 DEF ReplayOnly, EndSubmit, Finish, Liquidate, SettleFunding, SettleCoupon, SettleOption,
       SettleNothing, Settling, EndSettle
<1>4. Shared => ~Blocked
  BY <1>1 DEF Shared, Bar, Tick, Timer, NextEvent, Defer, CloseBar, EndPlace, IsNextCandidate,
       PollFills, PollRejects, PollSkips, EndPoll, OnEvent, Cancel, CancelUnknown, StartFlatten,
       FlattenFills, FlattenSkips, EndFlatten, EndControl, Ended
<1> QED
  BY <1>2, <1>3, <1>4 DEF LiveNext, LiveOnly, Commanding

FullyChecked == Checks = {"PauseCheck", "TradingDisabledCheck"}

\* What works in a halted engine was working when it was halted.
HaltedBeforeNew ==
  /\ halted \in Nat
  /\ FullyChecked /\ Silenced => \A id \in DOMAIN open : id < halted

LEMMA HaltStep ==
  ASSUME Inv, HaltedBeforeNew, [LiveNext]_liveVars, [Step]_vars
  PROVE  HaltedBeforeNew'
<1>1. nextId \in Nat /\ \A id \in DOMAIN open : id < nextId
  BY DEF Inv, Typed, OrdersTyped, IdsDrawn
<1>2. \A id \in DOMAIN open' :
        id \in DOMAIN open \/ (Placing /\ nextId' # nextId)
  BY <1>1, OpenStep DEF Inv, PlaceRests
<1>3. UNCHANGED session \/ Commanding
  BY DEF liveVars, LiveNext, Commanding, EndIntervention, RejectBlocked, SkipStrategy,
      EndLiveSubmit, EndStream
<1>4. CASE UNCHANGED session
  <2>1. FullyChecked /\ Silenced => Blocked
    BY DEF FullyChecked, Silenced, Blocked
  <2>2. HaltedBeforeNew' = (halted \in Nat /\ (FullyChecked /\ Silenced => \A id \in DOMAIN open' : id < halted))
    BY <1>4 DEF HaltedBeforeNew, session, Silenced, FullyChecked
  <2> QED
    BY <1>2, <2>1, <2>2, BlockedDrawsNoId DEF HaltedBeforeNew
<1>5. ASSUME NEW c \in Commands, Switch(c) PROVE HaltedBeforeNew'
  <2>1. /\ halted' = IF ~Silenced /\ Silenced' THEN nextId ELSE halted
        /\ open' = open
    BY <1>5 DEF Switch, Operator
  <2> QED
    BY <1>1, <2>1 DEF HaltedBeforeNew, FullyChecked
<1>6. ASSUME NEW c \in Commands, Intervene(c) PROVE HaltedBeforeNew'
  BY <1>6 DEF Intervene, Operator, HaltedBeforeNew, Silenced, FullyChecked
<1> QED
  BY <1>3, <1>4, <1>5, <1>6 DEF Commanding

\* risk.rs PauseCheck and TradingDisabledCheck, sync.rs: a halted engine with both
\* rules fills nothing that was not working when it was halted, but what the
\* operator's flatten closes.
THEOREM HaltedFillsNothingNew == LiveSpec => HaltPlacesNothingNew
<1> DEFINE Act == Checks = {"PauseCheck", "TradingDisabledCheck"} /\ Silenced
                    /\ ghost'.last # ghost.last /\ phase # "flatten"
                    => ghost'.last.id < halted
<1>1. LiveInit => HaltedBeforeNew
  BY DEF LiveInit, Init, HaltedBeforeNew
<1>2. Inv /\ HaltedBeforeNew /\ [LiveNext]_liveVars /\ [Step]_vars => HaltedBeforeNew'
  BY HaltStep
<1>3. Inv /\ HaltedBeforeNew /\ [LiveNext]_liveVars /\ [Step]_vars => Act
  <2> SUFFICES ASSUME Inv, HaltedBeforeNew, [LiveNext]_liveVars, [Step]_vars, FullyChecked,
                      Silenced, ghost'.last # ghost.last, phase # "flatten"
               PROVE  ghost'.last.id < halted
    BY DEF FullyChecked
  <2>1. nextId \in Nat
    BY DEF Inv, Typed, OrdersTyped
  <2>2. ~PlaceFills
    BY <2>1, BlockedDrawsNoId DEF FullyChecked, Silenced, Blocked, PlaceFills
  <2>3. ~FlattenFills
    BY DEF FlattenFills
  <2>4. PICK c \in poll.todo : PollFills(c)
    BY <2>2, <2>3, FillFrame
  <2>5. ghost'.last.id \in DOMAIN open
    BY <2>4, FilledWasWorking DEF PollFills, IsNextCandidate
  <2> QED
    BY <2>5 DEF HaltedBeforeNew
<1>4. LiveSpec => [][Act]_liveVars
  BY <1>1, <1>2, <1>3, InvHolds, PTL DEF LiveSpec
<1> QED
  BY <1>4 DEF HaltPlacesNothingNew
-----------------------------------------------------------------------------
(***************************************************************************)
(* Where orders, prices and balances come from.                            *)
(***************************************************************************)

\* The intents a strategy waits for, and the orders that rest.
Asked == {pending[id] : id \in DOMAIN pending} \cup {work[n] : n \in DOMAIN work}

Resting == {open[id] : id \in DOMAIN open} \cup {poll.resting[id] : id \in DOMAIN poll.resting}

\* `o` is the intent `w` of an answer.
Asks(o, w) ==
  o.inst = w.inst /\ o.side = w.side /\ o.type = w.type /\ o.qty = w.qty /\ o.price = w.price

AnsweredWith(o) == \E r \in Responses : \E n \in DOMAIN r.intents : Asks(o, r.intents[n])

LEMMA TailMember ==
  ASSUME NEW S, NEW s \in Seq(S), s # <<>>
  PROVE  /\ Head(s) = s[1] /\ 1 \in DOMAIN s
         /\ \A n \in DOMAIN Tail(s) : n + 1 \in DOMAIN s /\ Tail(s)[n] = s[n + 1]
OBVIOUS

LEMMA AskedStep ==
  ASSUME Inv, [Step]_vars, NEW o \in Asked'
  PROVE  o \in Asked \/ AnsweredWith(o)
<1>1. work \in Seq(Intents) /\ pending \in OrderMaps
  BY DEF Inv, Typed, OrdersTyped
<1>2. work # <<>> => /\ Head(work) \in Asked
                     /\ \A n \in DOMAIN Tail(work) : Tail(work)[n] \in Asked
  BY <1>1, TailMember DEF Asked
<1>3. CASE UNCHANGED <<pending, work>>
  BY <1>3 DEF Asked
<1>4. CASE PlaceFills \/ PlaceRests \/ PlaceRejected \/ RejectBlocked
  <2>1. Placing /\ TakeIntent
    BY <1>4 DEF PlaceFills, PlaceRests, PlaceRejected, RejectBlocked
  <2>2. CASE phase = "place"
    BY <2>1, <2>2 DEF TakeIntent, Without, Asked
  <2>3. CASE phase # "place"
    BY <1>2, <2>1, <2>3 DEF TakeIntent, Placing, Asked
  <2> QED
    BY <2>2, <2>3
<1>5. CASE Defer
  <2>1. work # <<>> /\ work' = Tail(work) /\ pending' \in {pending, With(pending, nextId, Head(work))}
    BY <1>5 DEF Defer
  <2>2. \A id \in DOMAIN pending' : pending'[id] \in {Head(work)} \cup Asked
    BY <2>1 DEF With, Asked
  <2> QED
    BY <1>2, <2>1, <2>2 DEF Asked
<1>6. CASE EndControl
  <2>1. pending' \in {<<>>, pending} /\ work' = work
    BY <1>6 DEF EndControl
  <2> QED
    BY <2>1 DEF Asked
<1>7. ASSUME NEW r \in Responses \cup {Silence}, OnEvent(r) \/ Finish(r)
      PROVE  o \in Asked \/ AnsweredWith(o)
  <2>1. pending' = pending /\ Answer(r)
    BY <1>7 DEF OnEvent, Finish
  <2>2. /\ DOMAIN work' = DOMAIN r.intents
        /\ \A n \in DOMAIN work' : Asks(work'[n], r.intents[n])
    BY <2>1 DEF Answer, Asks
  <2>3. r = Silence => DOMAIN r.intents = {}
    BY DEF Silence
  <2> QED
    BY <2>1, <2>2, <2>3 DEF Asked, AnsweredWith
<1> QED
  BY <1>3, <1>4, <1>5, <1>6, <1>7, PendingFrame

LEMMA IntentAsked ==
  ASSUME Inv, Placing
  PROVE  Intent \in Asked
<1>1. work \in Seq(Intents) /\ Typed /\ Born
  BY DEF Inv, Typed, OrdersTyped
<1>2. CASE phase = "place"
  BY <1>1, <1>2, TakenFacts DEF Asked, Intent
<1>3. CASE phase # "place"
  BY <1>1, <1>3, TailMember DEF Asked, Intent, Placing
<1> QED
  BY <1>2, <1>3

LEMMA RestingStep ==
  ASSUME Inv, [Step]_vars, NEW o \in Resting'
  PROVE  o \in Resting \/ (PlaceRests /\ o = NewOrder)
<1>1. \A id \in DOMAIN open' : open'[id] \in Resting \/ (PlaceRests /\ open'[id] = NewOrder)
  BY OpenStep DEF Inv, Resting
<1>2. poll'.resting \in {poll.resting, open, <<>>}
  <2>1. EndPoll => poll'.resting = <<>>
    BY NoPollTyped DEF EndPoll
  <2> QED
    BY <2>1, PollFrame, PollStarted, CandidateTaken DEF Inv
<1> QED
  BY <1>1, <1>2 DEF Resting

LEMMA MapsAreIntents ==
  ASSUME Inv
  PROVE  Asked \subseteq Intents /\ Resting \subseteq Intents
<1>1. /\ work \in Seq(Intents) /\ pending \in OrderMaps /\ open \in OrderMaps
      /\ poll.resting \in OrderMaps
  BY DEF Inv, Typed, OrdersTyped, BooksTyped, Polls
<1>2. \A n \in DOMAIN work : work[n] \in Intents
  BY <1>1
<1> QED
  BY <1>1, <1>2, OrderMapMember DEF Asked, Resting

\* A market row after a step.
LEMMA RowFrame ==
  ASSUME Inv, [Step]_vars, NEW i \in Instruments
  PROVE  \/ market'[i] = market[i]
         \/ \E b \in Bars : market'[i] \in {OpenMarket(market[i], b.open), CompletedBar(market[i], b)}
         \/ \E e \in Ticks : market'[i] = Ticked(market[i], e)
<1>1. market \in [Instruments -> MarketRows]
  BY DEF Inv, Typed, MarketTyped
<1>2. ASSUME NEW b \in Bars, NEW t \in Moments, Bar(b, t)
      PROVE  market'[i] = market[i] \/ market'[i] = OpenMarket(market[i], b.open)
  BY <1>1, <1>2 DEF Bar
<1>3. ASSUME NEW e \in Ticks, NEW t \in Moments, Tick(e, t)
      PROVE  market'[i] = market[i] \/ market'[i] = Ticked(market[i], e)
  BY <1>1, <1>3 DEF Tick
<1>4. CASE CloseBar
  <2>1. event.bar \in Bars
    BY <1>4 DEF CloseBar, Inv, InHand
  <2>2. market'[i] = market[i] \/ market'[i] = CompletedBar(market[i], event.bar)
    BY <1>1, <1>4 DEF CloseBar
  <2> QED
    BY <2>1, <2>2
<1> QED
  BY <1>2, <1>3, <1>4, MarketFrame

\* The order that a step fills, its price, and what that does to the account: while
\* no poll has filled two orders, a fill is computed from the account in hand.
Fills(o, price) ==
  \/ PlaceFills /\ o = NewOrder /\ price = NewPrice
  \/ /\ FlattenFills
     /\ o = Normalized(Meta[Head(rows)], Closing(Head(rows)))
     /\ price = MarketPrice(o.side, market[Head(rows)])
  \/ \E c \in poll.todo : PollFills(c) /\ o = poll.resting[c] /\ price = PollPrice(o)

FillMoves(o, price) ==
  LET x == Meta[o.inst]
  IN  /\ acct'.pos = [acct.pos EXCEPT ![o.inst] = @ + Signed(o.side, o.qty)]
      /\ ~ghost'.lost =>
           /\ ~ghost.lost
           /\ Funded(o, price, acct)
           /\ acct'.bal =
                [acct.bal EXCEPT
                   ![x.base]  = @ + Signed(o.side, o.qty),
                   ![x.quote] = @ + QuoteGain(acct, o.inst, x, o.side, price, o.qty)]

LEMMA FillOrderMoves ==
  ASSUME Inv, NEW id, NEW o \in Intents, NEW price \in Int, NEW seen \in Accounts, NEW resting,
         NEW range, Funded(o, price, seen), poll.fills = 0 => seen = acct,
         FillOrder(id, o, price, seen, resting, range)
  PROVE  FillMoves(o, price)
<1> DEFINE i == o.inst
           x == Meta[i]
<1>1. /\ acct \in Accounts /\ ghost \in Histories /\ poll.fills \in Nat /\ i \in Instruments
      /\ x.base \in Assets /\ x.quote \in Assets /\ x.base # x.quote
  BY MetaTyped DEF Inv, Typed, BooksTyped, Polls, Intents
<1>2. acct' = AccountAfterFill(acct, seen, i, x, o.side, price, o.qty)
  BY DEF FillOrder
<1>3. acct'.pos = [acct.pos EXCEPT ![i] = @ + Signed(o.side, o.qty)]
  BY <1>2 DEF AccountAfterFill
<1>4. ghost'.lost = (ghost.lost \/ poll.fills > 0)
  BY <1>1 DEF FillOrder, Histories
<1>5. ASSUME ~ghost'.lost
      PROVE  /\ ~ghost.lost /\ Funded(o, price, acct)
             /\ acct'.bal = [acct.bal EXCEPT
                  ![x.base]  = @ + Signed(o.side, o.qty),
                  ![x.quote] = @ + QuoteGain(acct, i, x, o.side, price, o.qty)]
  <2>1. ~ghost.lost /\ ~(poll.fills > 0)
    BY <1>4, <1>5, Zenon
  <2>2. seen = acct
    BY <1>1, <2>1
  <2>3. acct'.bal = BalancesAfterFill(acct.bal, acct, i, x, o.side, price, o.qty)
    BY <1>2, <2>2 DEF AccountAfterFill
  <2> QED
    BY <1>1, <2>1, <2>2, <2>3 DEF BalancesAfterFill, Accounts
<1> QED
  BY <1>3, <1>5 DEF FillMoves

LEMMA FillsMove ==
  ASSUME Inv, PlaceFills \/ FlattenFills \/ \E c \in poll.todo : PollFills(c)
  PROVE  \E o \in Intents, price \in Int :
           /\ Fills(o, price) /\ FillMoves(o, price)
           /\ UNCHANGED <<market, rows, phase>> \/ FlattenFills
<1>1. /\ Typed /\ Born /\ PollSound /\ acct \in Accounts /\ poll.seen \in Accounts
      /\ rows \in Seq(Instruments)
  BY DEF Inv, Typed, BooksTyped, LoopTyped, Polls
<1>2. CASE PlaceFills
  <2>1. /\ Placing /\ NewPrice # NoPrice /\ Funded(NewOrder, NewPrice, acct)
        /\ \E range : FillOrder(nextId, NewOrder, NewPrice, acct, open, range)
        /\ UNCHANGED <<market, rows, phase>>
    BY <1>2 DEF PlaceFills, loopVars, marketVars
  <2>2. NewOrder \in Intents /\ NewPrice \in Int
    BY <1>1, <2>1, TakenFacts DEF Prices
  <2>3. FillMoves(NewOrder, NewPrice)
    BY <1>1, <2>1, <2>2, FillOrderMoves
  <2> QED
    BY <1>2, <2>1, <2>2, <2>3 DEF Fills
<1>3. CASE FlattenFills
  <2> DEFINE i == Head(rows)
             o == Normalized(Meta[i], Closing(i))
             p == MarketPrice(o.side, market[i])
  <2>1. /\ rows # <<>> /\ p # NoPrice /\ Funded(o, p, acct) /\ FillOrder(nextId, o, p, acct, open, 0)
    BY <1>3 DEF FlattenFills
  <2>2. i \in Instruments
    BY <1>1, <2>1
  <2>3. o \in Intents /\ p \in Int
    BY <1>1, <2>1, <2>2, ClosingFacts DEF Prices
  <2>4. Fills(o, p)
    BY <1>3 DEF Fills
  <2> HIDE DEF o, p
  <2>5. FillMoves(o, p)
    BY <1>1, <2>1, <2>3, FillOrderMoves
  <2> QED
    BY <1>3, <2>3, <2>4, <2>5
<1>4. ASSUME NEW c \in poll.todo, PollFills(c)
      PROVE  \E o \in Intents, price \in Int :
               Fills(o, price) /\ FillMoves(o, price) /\ UNCHANGED <<market, rows, phase>>
  <2> DEFINE o == poll.resting[c]
             p == PollPrice(o)
  <2>1. /\ phase = "poll" /\ p # NoPrice /\ Funded(o, p, poll.seen)
        /\ \E range : FillOrder(c, o, p, poll.seen, poll.resting, range)
        /\ UNCHANGED <<market, rows, phase>>
    BY <1>4 DEF PollFills, IsNextCandidate, loopVars, marketVars
  <2>2. o \in Intents /\ p \in Int
    BY <1>1, <2>1, CandidateFacts DEF Prices
  <2>3. Fills(o, p)
    BY <1>4 DEF Fills
  <2>4. poll.fills = 0 => poll.seen = acct
    BY <1>1, <2>1 DEF PollSound
  <2> HIDE DEF o, p
  <2>5. FillMoves(o, p)
    BY <1>1, <2>1, <2>2, <2>4, FillOrderMoves
  <2> QED
    BY <2>1, <2>2, <2>3, <2>5
<1> QED
  BY <1>2, <1>3, <1>4

\* The other steps settle an instrument or leave positions and balances alone.
Settled(i) == Liquidate(i) \/ SettleFunding(i) \/ SettleCoupon(i) \/ SettleOption(i)

LEMMA AccountSteps ==
  ASSUME Inv, [Step]_vars
  PROVE  \/ UNCHANGED acct /\ ghost'.lost = ghost.lost
         \/ PlaceFills \/ FlattenFills \/ \E c \in poll.todo : PollFills(c)
         \/ \E i \in Instruments : Settled(i)
<1>1. ghost \in Histories
  BY DEF Inv, Typed, BooksTyped
<1>2. ASSUME NEW t, NEW e, NextEvent(t, e) PROVE UNCHANGED acct /\ ghost'.lost = ghost.lost
  BY <1>1, <1>2 DEF NextEvent, Histories
<1> QED
  BY <1>2, BooksFrame DEF Bar, Tick, Timer, Settled

LEMMA SettledMoves ==
  ASSUME Inv, NEW i \in Instruments, Settled(i), NEW j \in Instruments
  PROVE  /\ ghost'.lost = ghost.lost
         /\ \/ acct'.pos[j] = acct.pos[j] /\ acct'.bal[Meta[j].base] = acct.bal[Meta[j].base]
            \/ j = i /\ acct'.pos[j] = 0 /\ acct'.bal[Meta[j].base] = 0
<1>1. /\ acct \in Accounts /\ ghost \in Histories
      /\ acct.pos \in [Instruments -> Int] /\ acct.bal \in [Assets -> Int]
      /\ Meta[i].quote \in Assets /\ Meta[i].base \in Assets /\ Meta[j].base \in Assets
      /\ Meta[j].base # Meta[i].quote /\ (Meta[i].base = Meta[j].base => i = j)
  BY MetaTyped, BasesAssumption DEF Inv, Typed, BooksTyped, Accounts
<1>2. ghost'.lost = ghost.lost
  BY <1>1 DEF Settled, Liquidate, SettleFunding, SettleCoupon, SettleOption, Credit, Histories
<1>3. CASE SettleFunding(i) \/ SettleCoupon(i)
  <2>1. \E due : acct' = [acct EXCEPT !.bal[Meta[i].quote] = @ + due]
    BY <1>3 DEF SettleFunding, SettleCoupon, Credit
  <2> QED
    BY <1>1, <1>2, <2>1 DEF Accounts
<1>4. CASE Liquidate(i) \/ SettleOption(i)
  <2>1. \E due, a : /\ a.pos = [acct.pos EXCEPT ![i] = 0]
                    /\ a.bal = [acct.bal EXCEPT ![Meta[i].base] = 0]
                    /\ acct'.pos = a.pos
                    /\ acct'.bal = [a.bal EXCEPT ![Meta[i].quote] = @ + due]
    <3> DEFINE c == Closed(acct, i, Meta[i])
               d == [c EXCEPT !.entry[i] = NoPrice]
    <3>1. /\ c.pos = [acct.pos EXCEPT ![i] = 0] /\ c.bal = [acct.bal EXCEPT ![Meta[i].base] = 0]
          /\ DOMAIN c = {"pos", "entry", "bal"}
      BY <1>1 DEF Closed, Accounts
    <3>2. d.pos = c.pos /\ d.bal = c.bal /\ DOMAIN d = {"pos", "entry", "bal"}
      BY <3>1
    <3>3. \E due : acct' = [d EXCEPT !.bal[Meta[i].quote] = @ + due]
                   \/ acct' = [c EXCEPT !.bal[Meta[i].quote] = @ + due]
      BY <1>4 DEF Liquidate, SettleOption, Credit
    <3> HIDE DEF c, d
    <3> QED
      BY <3>1, <3>2, <3>3
  <2> QED
    BY <1>1, <1>2, <2>1
<1> QED
  BY <1>3, <1>4 DEF Settled
-----------------------------------------------------------------------------
(***************************************************************************)
(* Holdings.                                                               *)
(***************************************************************************)
InLots(qty, lot) == lot = 0 \/ \E k \in Int : qty = k * lot

LEMMA LotsAdd ==
  ASSUME NEW lot \in Nat, NEW v \in Int, NEW w \in Int, InLots(v, lot), InLots(w, lot)
  PROVE  InLots(v + w, lot) /\ InLots(-v, lot)
<1>1. CASE lot = 0
  BY <1>1 DEF InLots
<1>2. CASE lot # 0
  <2>1. PICK k \in Int : v = k * lot
    BY <1>2 DEF InLots
  <2>2. PICK l \in Int : w = l * lot
    BY <1>2 DEF InLots
  <2>3. v + w = (k + l) * lot /\ -v = (-k) * lot
    BY <2>1, <2>2
  <2>4. k + l \in Int /\ -k \in Int
    OBVIOUS
  <2> QED
    BY <2>3, <2>4 DEF InLots
<1> QED
  BY <1>1, <1>2

LEMMA ZeroInLots ==
  ASSUME NEW lot \in Nat
  PROVE  InLots(0, lot)
<1>1. 0 = 0 * lot /\ 0 \in Int
  OBVIOUS
<1> QED
  BY <1>1 DEF InLots

LEMMA LotsRounded ==
  ASSUME NEW lot \in Nat, NEW qty \in Int
  PROVE  InLots(RoundQtyToLot(qty, lot), lot)
<1>1. lot # 0 => qty \div lot \in Int
  OBVIOUS
<1> QED
  BY <1>1 DEF InLots, RoundQtyToLot

\* Rounding changes nothing that is in lots.
LEMMA RoundedLots ==
  ASSUME NEW lot \in Nat, NEW qty \in Int, InLots(qty, lot)
  PROVE  RoundQtyToLot(qty, lot) = qty
<1>1. CASE lot = 0
  BY <1>1 DEF RoundQtyToLot
<1>2. CASE lot # 0
  <2>1. PICK k \in Int : qty = k * lot
    BY <1>2 DEF InLots
  <2> DEFINE q == qty \div lot
  <2>2. q \in Int /\ lot * q <= qty /\ qty < lot * (q + 1)
    BY <1>2
  <2> HIDE DEF q
  <2>3. lot * q <= lot * k /\ lot * k < lot * (q + 1)
    BY <2>1, <2>2
  <2>4. \A a, b \in Int : a + 1 <= b => lot * a + lot <= lot * b
    <3> SUFFICES ASSUME NEW a \in Int, NEW b \in Int, a + 1 <= b PROVE lot * a + lot <= lot * b
      OBVIOUS
    <3>1. lot * (b - (a + 1)) >= 0
      OBVIOUS
    <3> QED
      BY <3>1
  <2>5. ~(k + 1 <= q)
    BY <1>2, <2>2, <2>3, <2>4
  <2>6. ~(q + 1 <= k)
    BY <1>2, <2>2, <2>3, <2>4
  <2>7. q = k
    BY <2>2, <2>5, <2>6
  <2> QED
    BY <1>2, <2>1, <2>7 DEF RoundQtyToLot, q
<1> QED
  BY <1>1, <1>2

Priced(m) == m.bid # NoPrice \/ m.last # NoPrice

\* No price comes of a market without one.
LEMMA PricesNeedMarket ==
  ASSUME NEW o, NEW m, Coherent(m),
         \/ MarketPrice(o.side, m) # NoPrice
         \/ PlacedPrice(o, m) # NoPrice /\ o.type \in OrderTypes
         \/ RestingPrice(o, m) # NoPrice
  PROVE  Priced(m)
BY DEF MarketPrice, PlacedPrice, RestingPrice, CrossingPrice, StopPrice, StopTriggered, Touched,
       Coherent, Priced, OrderTypes, IsStop

\* Quantities rest and are held in lots, and what is held has a market.
HeldInLots ==
  /\ \A o \in Resting : InLots(o.qty, Meta[o.inst].lot)
  /\ \A i \in Instruments : InLots(acct.pos[i], Meta[i].lot)

HeldIsPriced == \A i \in Instruments : acct.pos[i] # 0 => Priced(market[i])

\* What is held without margin is the base balance.
HoldingsArePositions ==
  ~ghost.lost =>
    \A i \in Instruments : ~UsesMargin(Meta[i]) => acct.bal[Meta[i].base] = acct.pos[i]

Holdings == HeldInLots /\ HeldIsPriced /\ HoldingsArePositions

LEMMA FilledInLots ==
  ASSUME Inv, HeldInLots, NEW o \in Intents, NEW price, Fills(o, price)
  PROVE  InLots(o.qty, Meta[o.inst].lot) /\ (price # NoPrice => Priced(market[o.inst]))
<1>1. /\ Typed /\ Born /\ PollSound /\ acct \in Accounts /\ rows \in Seq(Instruments)
      /\ \A i \in Instruments : Coherent(market[i])
      /\ o.inst \in Instruments
  BY DEF Inv, Typed, BooksTyped, LoopTyped, RowsCoherent, Intents
<1>2. CASE PlaceFills /\ o = NewOrder /\ price = NewPrice
  <2>1. Placing
    BY <1>2 DEF PlaceFills
  <2>2. Intent \in Intents /\ NewOrder.inst = Intent.inst
    BY <1>1, <2>1, TakenFacts
  <2>3. NewOrder.qty = RoundQtyToLot(Intent.qty, Meta[Intent.inst].lot)
    BY <2>2 DEF NewOrder, Normalized, Intents
  <2>4. Intent.qty \in Int /\ Meta[Intent.inst].lot \in Nat
    BY <2>2, MetaTyped DEF Intents
  <2>5. o.type \in OrderTypes
    BY DEF Intents
  <2> HIDE DEF NewOrder
  <2> QED
    BY <1>1, <1>2, <2>2, <2>3, <2>4, <2>5, LotsRounded, PricesNeedMarket DEF NewPrice
<1>3. CASE /\ FlattenFills
           /\ o = Normalized(Meta[Head(rows)], Closing(Head(rows)))
           /\ price = MarketPrice(o.side, market[Head(rows)])
  <2> DEFINE i == Head(rows)
  <2>1. rows # <<>>
    BY <1>3 DEF FlattenFills
  <2>2. i \in Instruments
    BY <1>1, <2>1
  <2>3. o.inst = i /\ o.qty = RoundQtyToLot(Abs(acct.pos[i]), Meta[i].lot)
    BY <1>3 DEF Normalized, Closing
  <2>4. Abs(acct.pos[i]) \in Int /\ Meta[i].lot \in Nat
    BY <1>1, <2>2, MetaTyped, SignumTyped DEF Accounts
  <2> HIDE DEF i
  <2> QED
    BY <1>1, <1>3, <2>3, <2>4, LotsRounded, PricesNeedMarket DEF i
<1>4. ASSUME NEW c \in poll.todo, PollFills(c), o = poll.resting[c], price = PollPrice(o)
      PROVE  InLots(o.qty, Meta[o.inst].lot) /\ (price # NoPrice => Priced(market[o.inst]))
  <2>1. o \in Resting
    BY <1>1, <1>4, CandidateFacts DEF Resting
  <2>2. price # NoPrice => RestingPrice(o, market[o.inst]) # NoPrice
    BY <1>4 DEF PollPrice
  <2> QED
    BY <1>1, <2>1, <2>2, PricesNeedMarket DEF HeldInLots
<1> QED
  BY <1>2, <1>3, <1>4 DEF Fills

LEMMA HoldingsStep ==
  ASSUME Inv, Holdings, [Step]_vars
  PROVE  Holdings'
<1>1. /\ Typed /\ Born /\ acct \in Accounts /\ acct.pos \in [Instruments -> Int]
      /\ acct.bal \in [Assets -> Int] /\ market \in [Instruments -> MarketRows]
      /\ HeldInLots /\ HeldIsPriced /\ HoldingsArePositions
  BY DEF Inv, Typed, BooksTyped, MarketTyped, Accounts, Holdings
<1>2. \A o \in Resting' : InLots(o.qty, Meta[o.inst].lot)
  <2>1. ASSUME PlaceRests PROVE InLots(NewOrder.qty, Meta[NewOrder.inst].lot)
    <3>1. Intent \in Intents /\ NewOrder.inst = Intent.inst
      BY <1>1, <2>1, TakenFacts DEF PlaceRests
    <3>2. NewOrder.qty = RoundQtyToLot(Intent.qty, Meta[Intent.inst].lot)
      BY <3>1 DEF NewOrder, Normalized, Intents
    <3>3. Intent.qty \in Int /\ Meta[Intent.inst].lot \in Nat
      BY <3>1, MetaTyped DEF Intents
    <3> HIDE DEF NewOrder
    <3> QED
      BY <3>1, <3>2, <3>3, LotsRounded
  <2> QED
    BY <1>1, <2>1, RestingStep DEF HeldInLots
<1>3. \A i \in Instruments : Priced(market[i]) => Priced(market'[i])
  <2> SUFFICES ASSUME NEW i \in Instruments, Priced(market[i]) PROVE Priced(market'[i])
    OBVIOUS
  <2>1. market[i] \in MarketRows
    BY <1>1
  <2>2. CASE market'[i] = market[i]
    BY <2>2
  <2>3. ASSUME NEW b \in Bars,
               market'[i] \in {OpenMarket(market[i], b.open), CompletedBar(market[i], b)}
        PROVE  Priced(market'[i])
    <3>1. b.open # NoPrice /\ b.close # NoPrice
      BY BarsAssumption, NoPriceAssumption
    <3> QED
      BY <2>1, <2>3, <3>1 DEF OpenMarket, CompletedBar, Priced, MarketRows
  <2>4. ASSUME NEW e \in Ticks, market'[i] = Ticked(market[i], e)
        PROVE  Priced(market'[i])
    <3>1. /\ e.kind = "trade" => e.price # NoPrice
          /\ e.kind = "quote" => e.bid # NoPrice
          /\ e.kind \in {"trade", "quote", "status"}
      BY TicksAssumption, NoPriceAssumption DEF TickKinds
    <3> QED
      BY <2>1, <2>4, <3>1 DEF Ticked, Priced, MarketRows
  <2> QED
    BY <2>2, <2>3, <2>4, RowFrame
<1>4. CASE UNCHANGED acct /\ ghost'.lost = ghost.lost
  BY <1>1, <1>2, <1>3, <1>4 DEF Holdings, HeldInLots, HeldIsPriced, HoldingsArePositions
<1>5. CASE PlaceFills \/ FlattenFills \/ \E c \in poll.todo : PollFills(c)
  <2>1. PICK o \in Intents, price \in Int :
          Fills(o, price) /\ FillMoves(o, price)
    BY <1>5, FillsMove
  <2> DEFINE i == o.inst
             d == Signed(o.side, o.qty)
             x == Meta[i]
             gain == QuoteGain(acct, i, x, o.side, price, o.qty)
  <2>2. /\ i \in Instruments /\ o.qty \in Int /\ d \in Int /\ x.lot \in Nat
        /\ x.base \in Assets /\ x.quote \in Assets /\ x.base # x.quote
    BY MetaTyped, SignedTyped DEF Intents
  <2>3. /\ acct'.pos = [acct.pos EXCEPT ![i] = @ + d]
        /\ ~ghost'.lost =>
             /\ ~ghost.lost
             /\ acct'.bal = [acct.bal EXCEPT ![x.base] = @ + d, ![x.quote] = @ + gain]
    BY <2>1 DEF FillMoves
  <2>4. InLots(o.qty, x.lot) /\ Priced(market[i])
    BY <1>1, <2>1, FilledInLots, NoPriceAssumption
  <2>5. InLots(d, x.lot)
    BY <2>2, <2>4, LotsAdd DEF Signed
  <2> HIDE DEF d, x, gain
  <2>6. HeldInLots'
    <3>1. ASSUME NEW j \in Instruments PROVE InLots(acct'.pos[j], Meta[j].lot)
      <4>1. InLots(acct.pos[j], Meta[j].lot) /\ acct.pos[j] \in Int
        BY <1>1 DEF HeldInLots
      <4>2. CASE j = i
        BY <1>1, <2>2, <2>3, <2>5, <4>1, <4>2, LotsAdd DEF x
      <4>3. CASE j # i
        BY <1>1, <2>3, <4>1, <4>3
      <4> QED
        BY <4>2, <4>3
    <3> QED
      BY <1>2, <3>1 DEF HeldInLots
  <2>7. HeldIsPriced'
    <3>1. \A j \in Instruments \ {i} : acct'.pos[j] = acct.pos[j]
      BY <1>1, <2>3
    <3> QED
      BY <1>1, <1>3, <2>4, <3>1 DEF HeldIsPriced
  <2>8. HoldingsArePositions'
    <3> SUFFICES ASSUME ~ghost'.lost, NEW j \in Instruments, ~UsesMargin(Meta[j])
                 PROVE  acct'.bal[Meta[j].base] = acct'.pos[j]
      BY DEF HoldingsArePositions
    <3>1. /\ acct'.bal = [acct.bal EXCEPT ![x.base] = @ + d, ![x.quote] = @ + gain]
          /\ acct.bal[Meta[j].base] = acct.pos[j]
      BY <1>1, <2>3 DEF HoldingsArePositions
    <3>2. /\ Meta[j].base \in Assets /\ Meta[j].base # x.quote /\ (Meta[j].base = x.base <=> j = i)
      BY <2>2, MetaTyped, BasesAssumption DEF x
    <3> QED
      BY <1>1, <2>2, <2>3, <3>1, <3>2
  <2> QED
    BY <2>6, <2>7, <2>8 DEF Holdings
<1>6. ASSUME NEW i \in Instruments, Settled(i) PROVE Holdings'
  <2>1. \A j \in Instruments :
          /\ ghost'.lost = ghost.lost
          /\ \/ acct'.pos[j] = acct.pos[j] /\ acct'.bal[Meta[j].base] = acct.bal[Meta[j].base]
             \/ acct'.pos[j] = 0 /\ acct'.bal[Meta[j].base] = 0
    BY <1>6, SettledMoves
  <2>2. \A j \in Instruments : InLots(0, Meta[j].lot)
    BY MetaTyped, ZeroInLots
  <2>3. HeldInLots'
    BY <1>1, <1>2, <2>1, <2>2 DEF HeldInLots
  <2>4. HeldIsPriced' /\ HoldingsArePositions'
    BY <1>1, <1>3, <2>1 DEF HeldIsPriced, HoldingsArePositions
  <2> QED
    BY <2>3, <2>4 DEF Holdings
<1> QED
  BY <1>4, <1>5, <1>6, AccountSteps

LEMMA HoldingsInit ==
  ASSUME Init
  PROVE  Holdings
<1>1. /\ \A i \in Instruments : acct.pos[i] = 0
      /\ \A i \in Instruments : acct.bal[Meta[i].base] = 0
      /\ Resting = {}
  BY BalancesAssumption, NoPollTyped DEF Init, Flat, Resting
<1>2. \A j \in Instruments : InLots(0, Meta[j].lot)
  BY MetaTyped, ZeroInLots
<1> QED
  BY <1>1, <1>2 DEF Holdings, HeldInLots, HeldIsPriced, HoldingsArePositions
-----------------------------------------------------------------------------
(***************************************************************************)
(* Funds.                                                                  *)
(***************************************************************************)
NonNegative(p) == p # NoPrice => p >= 0

\* Rates of at most the whole, balances as config_file.rs lets them through, markets
\* not below zero, and answers with no negative quantity, which protocol.rs rejects,
\* and no negative price, which nothing does.
SoundRates == FeeBps <= 10000 /\ SlippageBps <= 10000 /\ HalfSpreadBps <= 10000

SoundBalances == \A a \in Assets : InitialBal[a] >= 0

SoundTicks ==
  \A e \in Ticks :
    /\ e.kind = "trade" => e.price >= 0
    /\ e.kind = "quote" => e.bid >= 0 /\ e.ask >= 0

SoundAnswers ==
  \A r \in Responses : \A n \in DOMAIN r.intents :
    r.intents[n].qty >= 0 /\ NonNegative(r.intents[n].price)

SoundInputs == SoundRates /\ SoundBalances /\ SoundTicks /\ SoundAnswers

LEMMA BpsBelow ==
  ASSUME NEW v \in Nat, NEW b \in Nat, b <= 10000
  PROVE  Bps(v, b) \in Int /\ 0 <= Bps(v, b) /\ Bps(v, b) <= v
<1>1. v * b \in Int /\ 0 <= v * b /\ v * b <= v * 10000
  <2>1. v * (10000 - b) >= 0
    OBVIOUS
  <2> QED
    BY <2>1
<1> DEFINE w == v * b
<1>2. w \in Int /\ 0 <= w /\ w <= v * 10000
  BY <1>1
<1> HIDE DEF w
<1>3. 0 <= w \div 10000 /\ w \div 10000 <= v /\ w \div 10000 \in Int
  BY <1>2
<1> QED
  BY <1>3 DEF Bps, w

LEMMA RoundedNonNegative ==
  ASSUME NEW v \in Nat, NEW s \in Nat
  PROVE  /\ 0 <= RoundQtyToLot(v, s) /\ RoundQtyToLot(v, s) <= v
         /\ RoundPriceToTick(v, s) \in Int /\ RoundPriceToTick(v, s) >= 0
<1>1. CASE s = 0
  BY <1>1 DEF RoundQtyToLot, RoundPriceToTick
<1>2. CASE s # 0
  <2> DEFINE q == v \div s
  <2>1. q \in Nat /\ s * q <= v
    BY <1>2
  <2> HIDE DEF q
  <2>2. q * s \in Nat /\ (q + 1) * s \in Nat /\ q * s <= v
    BY <2>1
  <2>3. RoundQtyToLot(v, s) = q * s
    BY <1>2 DEF RoundQtyToLot, q
  <2>4. RoundPriceToTick(v, s) \in {q * s, (q + 1) * s}
    BY <1>2, NoPriceAssumption DEF RoundPriceToTick, q
  <2> QED
    BY <2>2, <2>3, <2>4
<1> QED
  BY <1>1, <1>2

\* No order has a negative quantity or price, and no market.
OrdersNonNegative == \A o \in Asked \cup Resting : o.qty >= 0 /\ NonNegative(o.price)

MarketNonNegative ==
  \A i \in Instruments :
    NonNegative(market[i].bid) /\ NonNegative(market[i].ask) /\ NonNegative(market[i].last)

\* What is held without margin is held long.
HeldLong ==
  ~ghost.lost => \A i \in Instruments : ~UsesMargin(Meta[i]) => acct.pos[i] >= 0

Funds == OrdersNonNegative /\ MarketNonNegative /\ HeldLong /\ NoOverdraft

LEMMA NormalizedNonNegative ==
  ASSUME NEW i \in Instruments, NEW o \in Intents, o.qty >= 0, NonNegative(o.price)
  PROVE  /\ Normalized(Meta[i], o).qty >= 0 /\ NonNegative(Normalized(Meta[i], o).price)
         /\ Normalized(Meta[i], o).qty <= o.qty
<1>1. o.qty \in Nat /\ Meta[i].lot \in Nat /\ Meta[i].tick \in Nat /\ o.price \in Int \cup {NoPrice}
  BY MetaTyped DEF Intents
<1>2. o.price # NoPrice => o.price \in Nat
  BY <1>1 DEF NonNegative
<1> DEFINE p == RoundPriceToTick(o.price, Meta[i].tick)
<1>3. p = NoPrice \/ p >= 0
  BY <1>1, <1>2, RoundedNonNegative DEF RoundPriceToTick
<1>4. /\ Normalized(Meta[i], o).qty = RoundQtyToLot(o.qty, Meta[i].lot)
      /\ Normalized(Meta[i], o).price \in {p, NoPrice}
  BY DEF Normalized, Intents
<1> HIDE DEF p
<1> QED
  BY <1>1, <1>3, <1>4, RoundedNonNegative DEF NonNegative

LEMMA OrdersNonNegativeStep ==
  ASSUME SoundInputs, Inv, OrdersNonNegative, [Step]_vars
  PROVE  OrdersNonNegative'
<1>1. \A o \in Asked' : o.qty >= 0 /\ NonNegative(o.price)
  BY AskedStep DEF OrdersNonNegative, AnsweredWith, Asks, SoundInputs, SoundAnswers
<1>2. ASSUME PlaceRests PROVE NewOrder.qty >= 0 /\ NonNegative(NewOrder.price)
  <2>1. Placing
    BY <1>2 DEF PlaceRests
  <2>2. Intent \in Intents /\ Intent.qty >= 0 /\ NonNegative(Intent.price)
    BY <2>1, IntentAsked, TakenFacts DEF OrdersNonNegative, Inv
  <2>3. Intent.inst \in Instruments
    BY <2>2 DEF Intents
  <2> QED
    BY <2>2, <2>3, NormalizedNonNegative DEF NewOrder
<1>3. \A o \in Resting' : o.qty >= 0 /\ NonNegative(o.price)
  BY <1>2, RestingStep DEF OrdersNonNegative
<1> QED
  BY <1>1, <1>3 DEF OrdersNonNegative, NonNegative

LEMMA MarketNonNegativeStep ==
  ASSUME SoundInputs, Inv, MarketNonNegative, [Step]_vars
  PROVE  MarketNonNegative'
<1> SUFFICES ASSUME NEW i \in Instruments
             PROVE  /\ NonNegative(market'[i].bid) /\ NonNegative(market'[i].ask)
                    /\ NonNegative(market'[i].last)
  BY DEF MarketNonNegative, NonNegative
<1>1. /\ market[i] \in MarketRows
      /\ NonNegative(market[i].bid) /\ NonNegative(market[i].ask) /\ NonNegative(market[i].last)
  BY DEF Inv, Typed, MarketTyped, MarketNonNegative
<1>2. \A p \in Nat : SyntheticBid(p) >= 0 /\ SyntheticAsk(p) >= 0
  BY BpsBelow, RatesAssumption DEF SoundInputs, SoundRates, SyntheticBid, SyntheticAsk
<1>3. ASSUME NEW b \in Bars, market'[i] \in {OpenMarket(market[i], b.open), CompletedBar(market[i], b)}
      PROVE  /\ NonNegative(market'[i].bid) /\ NonNegative(market'[i].ask)
             /\ NonNegative(market'[i].last)
  <2>1. b.open \in Nat /\ b.close \in Nat
    BY BarsAssumption
  <2>2. \E p \in {b.open, b.close} :
          /\ market'[i].bid = SyntheticBid(p) /\ market'[i].ask = SyntheticAsk(p)
          /\ market'[i].last = p
    BY <1>1, <1>3 DEF OpenMarket, CompletedBar, MarketRows
  <2> QED
    BY <1>2, <2>1, <2>2 DEF NonNegative
<1>4. ASSUME NEW e \in Ticks, market'[i] = Ticked(market[i], e)
      PROVE  /\ NonNegative(market'[i].bid) /\ NonNegative(market'[i].ask)
             /\ NonNegative(market'[i].last)
  <2>1. /\ e.kind = "trade" => e.price >= 0
        /\ e.kind = "quote" => e.bid >= 0 /\ e.ask >= 0
        /\ e.kind \in {"trade", "quote", "status"}
    BY TicksAssumption DEF TickKinds, SoundInputs, SoundTicks
  <2> QED
    BY <1>1, <1>4, <2>1 DEF Ticked, MarketRows, NonNegative
<1> QED
  BY <1>1, <1>3, <1>4, RowFrame

\* The price of a fill is not negative: the slippage takes at most all of it.
LEMMA PricesNonNegative ==
  ASSUME SoundInputs, NEW o \in Intents, NEW m \in MarketRows, Coherent(m), NonNegative(o.price),
         NonNegative(m.bid), NonNegative(m.ask), NonNegative(m.last)
  PROVE  /\ NonNegative(MarketPrice(o.side, m))
         /\ NonNegative(PlacedPrice(o, m))
         /\ NonNegative(RestingPrice(o, m))
<1>1. /\ m.bid \in Prices /\ m.ask \in Prices /\ m.last \in Prices /\ o.price \in Prices
      /\ o.type \in OrderTypes
  BY DEF MarketRows, Intents, Prices
<1>2. \A v \in Prices : v # NoPrice /\ NonNegative(v) => v + Signed(o.side, Bps(v, SlippageBps)) >= 0
  <2> SUFFICES ASSUME NEW v \in Prices, v # NoPrice, NonNegative(v)
               PROVE  v + Signed(o.side, Bps(v, SlippageBps)) >= 0
    OBVIOUS
  <2>1. v \in Nat
    BY DEF NonNegative, Prices
  <2>2. Bps(v, SlippageBps) \in Int /\ 0 <= Bps(v, SlippageBps) /\ Bps(v, SlippageBps) <= v
    BY <2>1, BpsBelow, RatesAssumption DEF SoundInputs, SoundRates
  <2> QED
    BY <2>1, <2>2 DEF Signed
<1>3. NonNegative(MarketPrice(o.side, m))
  BY <1>1, <1>2 DEF MarketPrice, NonNegative, Coherent
<1>4. NonNegative(CrossingPrice(o.side, o.price, m))
  BY DEF CrossingPrice, NonNegative
<1>5. NonNegative(StopPrice(o, m))
  BY <1>3, <1>4 DEF StopPrice, NonNegative
<1>6. NonNegative(PlacedPrice(o, m))
  BY <1>1, <1>3, <1>4, <1>5 DEF PlacedPrice, OrderTypes, IsStop
<1>7. NonNegative(RestingPrice(o, m))
  BY <1>4, <1>5 DEF RestingPrice
<1> QED
  BY <1>3, <1>6, <1>7

LEMMA FilledNonNegative ==
  ASSUME SoundInputs, Inv, OrdersNonNegative, MarketNonNegative, NEW o \in Intents,
         NEW price \in Int, Fills(o, price)
  PROVE  o.qty \in Nat /\ price \in Nat
<1>1. /\ Typed /\ Born /\ PollSound /\ acct \in Accounts /\ rows \in Seq(Instruments)
      /\ o.inst \in Instruments /\ o.qty \in Int
      /\ \A i \in Instruments :
           /\ market[i] \in MarketRows /\ Coherent(market[i])
           /\ NonNegative(market[i].bid) /\ NonNegative(market[i].ask) /\ NonNegative(market[i].last)
  BY DEF Inv, Typed, BooksTyped, LoopTyped, MarketTyped, RowsCoherent, MarketNonNegative, Intents
<1>2. price # NoPrice
  BY NoPriceAssumption
<1>3. CASE PlaceFills /\ o = NewOrder /\ price = NewPrice
  <2>1. Placing
    BY <1>3 DEF PlaceFills
  <2>2. /\ Intent \in Intents /\ Intent.qty >= 0 /\ NonNegative(Intent.price)
        /\ NewOrder.inst = Intent.inst
    BY <1>1, <2>1, IntentAsked, TakenFacts DEF OrdersNonNegative
  <2>3. Intent.inst \in Instruments
    BY <2>2 DEF Intents
  <2>4. o.qty >= 0 /\ NonNegative(o.price)
    BY <1>3, <2>2, <2>3, NormalizedNonNegative DEF NewOrder
  <2>5. NonNegative(PlacedPrice(o, market[Intent.inst]))
    BY <1>1, <2>3, <2>4, PricesNonNegative
  <2> QED
    BY <1>1, <1>2, <1>3, <2>4, <2>5 DEF NewPrice, NonNegative
<1>4. CASE /\ FlattenFills
           /\ o = Normalized(Meta[Head(rows)], Closing(Head(rows)))
           /\ price = MarketPrice(o.side, market[Head(rows)])
  <2> DEFINE i == Head(rows)
             w == Closing(i)
  <2>1. rows # <<>>
    BY <1>4 DEF FlattenFills
  <2>2. i \in Instruments
    BY <1>1, <2>1
  <2>3. acct.pos[i] \in Int /\ event.index \in Nat
    BY <1>1, <2>2 DEF Accounts, Typed, LoopTyped, Events
  <2>4. w \in Intents /\ w.qty >= 0 /\ NonNegative(w.price)
    <3>1. Abs(acct.pos[i]) \in Nat
      BY <2>3, SignumTyped
    <3> QED
      BY <2>2, <2>3, <3>1 DEF Closing, Intents, Sides, OrderTypes, NonNegative
  <2>5. o = Normalized(Meta[i], w) /\ price = MarketPrice(o.side, market[i])
    BY <1>4
  <2> HIDE DEF w, i
  <2>6. o.qty >= 0 /\ NonNegative(o.price)
    BY <2>2, <2>4, <2>5, NormalizedNonNegative
  <2>7. NonNegative(MarketPrice(o.side, market[i]))
    BY <1>1, <2>2, <2>6, PricesNonNegative
  <2> QED
    BY <1>1, <1>2, <2>5, <2>6, <2>7 DEF NonNegative
<1>5. ASSUME NEW c \in poll.todo, PollFills(c), o = poll.resting[c], price = PollPrice(o)
      PROVE  o.qty \in Nat /\ price \in Nat
  <2>1. o.qty >= 0 /\ NonNegative(o.price)
    BY <1>1, <1>5, CandidateFacts DEF Resting, OrdersNonNegative
  <2>2. price = RestingPrice(o, market[o.inst])
    BY <1>2, <1>5 DEF PollPrice
  <2>3. NonNegative(RestingPrice(o, market[o.inst]))
    BY <1>1, <2>1, PricesNonNegative
  <2> QED
    BY <1>1, <1>2, <2>1, <2>2, <2>3 DEF NonNegative
<1> QED
  BY <1>3, <1>4, <1>5 DEF Fills

\* A fill that is funded leaves both balances covered.
LEMMA FundedFill ==
  ASSUME SoundInputs, Inv, NEW o \in Intents, NEW price \in Nat, o.qty \in Nat,
         ~UsesMargin(Meta[o.inst]), Funded(o, price, acct)
  PROVE  LET x == Meta[o.inst]
         IN  /\ o.side = "Buy"  => /\ acct.bal[x.quote]
                                        + QuoteGain(acct, o.inst, x, o.side, price, o.qty) >= 0
             /\ o.side = "Sell" => /\ acct.bal[x.base] >= o.qty
                                   /\ QuoteGain(acct, o.inst, x, o.side, price, o.qty) >= 0
<1> DEFINE x == Meta[o.inst]
           n == Notional(x, price, o.qty)
           f == Fee(x, price, o.qty)
<1>1. /\ acct \in Accounts /\ o.inst \in Instruments /\ x.mult \in Nat
      /\ x.base \in Assets /\ x.quote \in Assets
  BY MetaTyped DEF Inv, Typed, BooksTyped, Intents
<1>2. acct.bal[x.quote] \in Int /\ acct.bal[x.base] \in Int
  BY <1>1 DEF Accounts
<1>3. n \in Nat
  <2>1. Multiplier(x) \in Nat
    BY <1>1 DEF Multiplier
  <2>2. price * o.qty \in Nat
    OBVIOUS
  <2>3. price * o.qty * Multiplier(x) \in Nat
    BY <2>1, <2>2
  <2> QED
    BY <2>3 DEF Notional
<1>4. f \in Int /\ 0 <= f /\ f <= n
  BY <1>3, BpsBelow, RatesAssumption DEF Fee, SoundInputs, SoundRates
<1>5. QuoteGain(acct, o.inst, x, o.side, price, o.qty) = -Signed(o.side, n) - f
  BY DEF QuoteGain
<1>6. IF o.side = "Buy" THEN acct.bal[x.quote] >= n + f ELSE acct.bal[x.base] >= o.qty
  BY DEF Funded, HasFunds
<1> HIDE DEF n, f, x
<1>7. /\ o.side = "Buy"  => acct.bal[x.quote] + QuoteGain(acct, o.inst, x, o.side, price, o.qty) >= 0
      /\ o.side = "Sell" => /\ acct.bal[x.base] >= o.qty
                            /\ QuoteGain(acct, o.inst, x, o.side, price, o.qty) >= 0
  BY <1>2, <1>3, <1>4, <1>5, <1>6 DEF Signed
<1> QED
  BY <1>7 DEF x
-----------------------------------------------------------------------------
\* Coupons and exercises of what is held long only pay.
LEMMA SettledPays ==
  ASSUME Inv, NEW i \in Instruments, Settled(i), ~UsesMargin(Meta[i]), acct.pos[i] >= 0,
         NEW a \in Assets, acct.bal[a] >= 0
  PROVE  acct'.bal[a] >= 0
<1> DEFINE x == Meta[i]
<1>1. /\ acct \in Accounts /\ acct.pos \in [Instruments -> Int] /\ acct.bal \in [Assets -> Int]
      /\ x.quote \in Assets /\ x.base \in Assets /\ x.mult \in Nat
      /\ \A j \in Instruments : market[j] \in MarketRows /\ Coherent(market[j])
      /\ Typed /\ RowsCoherent
  BY MetaTyped DEF Inv, Typed, BooksTyped, MarketTyped, RowsCoherent, Accounts
<1>2. ~Liquidate(i)
  BY DEF Liquidate, Settling, Due, MustLiquidate
<1>3. ~SettleFunding(i)
  BY DEF SettleFunding, Settling, Due, UsesMargin
<1>4. CASE SettleCoupon(i)
  <2>1. acct' = [acct EXCEPT !.bal[x.quote] = @ + CouponCash(acct, x)]
    BY <1>4 DEF SettleCoupon, Credit
  <2>2. x.class = "Bond" /\ acct.bal[x.base] > 0
    BY <1>4 DEF SettleCoupon, Settling, Due
  <2>3. x.coupon \in Nat /\ acct.bal[x.base] \in Nat
    BY <1>1, <2>2, MetaAssumption
  <2>4. CouponCash(acct, x) \in Nat
    BY <2>3 DEF CouponCash
  <2>5. acct'.bal = [acct.bal EXCEPT ![x.quote] = @ + CouponCash(acct, x)]
    BY <1>1, <2>1 DEF Accounts
  <2> HIDE DEF x
  <2> QED
    BY <1>1, <2>4, <2>5
<1>5. CASE SettleOption(i)
  <2> DEFINE spot == MidOrLast(market[x.underlying])
             due == ExerciseCash(x, spot, acct.pos[i])
             c == Closed(acct, i, x)
  <2>1. x.class = "Option" /\ spot # NoPrice
    BY <1>5 DEF SettleOption, Settling, Due
  <2>2. x.strike \in Nat /\ x.underlying \in Instruments
    BY <2>1, MetaAssumption
  <2>3. spot \in Int
    BY <1>1, <2>1, <2>2, MidTyped DEF Prices
  <2>4. due \in Nat
    <3>1. Intrinsic(x, spot) \in Nat
      BY <2>2, <2>3 DEF Intrinsic
    <3>2. acct.pos[i] \in Nat
      BY <1>1
    <3>3. Intrinsic(x, spot) * acct.pos[i] \in Nat
      BY <3>1, <3>2
    <3> HIDE DEF spot, x
    <3>4. Intrinsic(x, spot) * acct.pos[i] * x.mult \in Nat
      BY <1>1, <3>3
    <3> QED
      BY <3>4 DEF ExerciseCash
  <2>5. acct' = [c EXCEPT !.bal[x.quote] = @ + due]
    BY <1>5 DEF SettleOption, Credit
  <2>6. c.bal = [acct.bal EXCEPT ![x.base] = 0] /\ DOMAIN c = {"pos", "entry", "bal"}
    BY <1>1 DEF Closed, Accounts
  <2> HIDE DEF c, due, x
  <2>7. acct'.bal = [c.bal EXCEPT ![x.quote] = @ + due]
    BY <2>5, <2>6
  <2> QED
    BY <1>1, <2>4, <2>6, <2>7
<1> QED
  BY <1>2, <1>3, <1>4, <1>5 DEF Settled

LEMMA FundsStep ==
  ASSUME SoundInputs, Inv, Holdings, Funds, [Step]_vars
  PROVE  Funds'
<1>1. OrdersNonNegative' /\ MarketNonNegative'
  BY OrdersNonNegativeStep, MarketNonNegativeStep DEF Funds
<1>2. /\ acct \in Accounts /\ acct.pos \in [Instruments -> Int] /\ acct.bal \in [Assets -> Int]
      /\ HeldLong /\ NoOverdraft /\ HoldingsArePositions
      /\ OrdersNonNegative /\ MarketNonNegative
  BY DEF Inv, Typed, BooksTyped, Accounts, Funds, Holdings
<1>3. CASE UNCHANGED acct /\ ghost'.lost = ghost.lost
  BY <1>1, <1>2, <1>3 DEF Funds, HeldLong, NoOverdraft
<1>4. CASE PlaceFills \/ FlattenFills \/ \E c \in poll.todo : PollFills(c)
  <2>1. PICK o \in Intents, price \in Int : Fills(o, price) /\ FillMoves(o, price)
    BY <1>4, FillsMove
  <2>2. o.qty \in Nat /\ price \in Nat
    BY <1>2, <2>1, FilledNonNegative
  <2> DEFINE i == o.inst
             x == Meta[i]
             d == Signed(o.side, o.qty)
             gain == QuoteGain(acct, i, x, o.side, price, o.qty)
  <2>3. /\ i \in Instruments /\ x.base \in Assets /\ x.quote \in Assets /\ x.base # x.quote
        /\ d \in Int /\ gain \in Int /\ o.side \in {"Buy", "Sell"}
        /\ o.side = "Buy" => d = o.qty
        /\ o.side = "Sell" => d = -o.qty
    BY <1>2, <2>2, MetaTyped, SignedTyped, GainTyped DEF Intents, Sides, Signed
  <2>4. ASSUME ~ghost'.lost
        PROVE  /\ ~ghost.lost
               /\ acct'.pos = [acct.pos EXCEPT ![i] = @ + d]
               /\ acct'.bal = [acct.bal EXCEPT ![x.base] = @ + d, ![x.quote] = @ + gain]
               /\ ~UsesMargin(x) =>
                    /\ o.side = "Buy"  => acct.bal[x.quote] + gain >= 0
                    /\ o.side = "Sell" => acct.bal[x.base] >= o.qty /\ gain >= 0
    <3>1. /\ ~ghost.lost /\ Funded(o, price, acct)
          /\ acct'.pos = [acct.pos EXCEPT ![i] = @ + d]
          /\ acct'.bal = [acct.bal EXCEPT ![x.base] = @ + d, ![x.quote] = @ + gain]
      BY <2>1, <2>4 DEF FillMoves
    <3>2. ~UsesMargin(x) =>
            /\ o.side = "Buy"  => acct.bal[x.quote] + gain >= 0
            /\ o.side = "Sell" => acct.bal[x.base] >= o.qty /\ gain >= 0
      BY <2>2, <3>1, FundedFill
    <3> QED
      BY <3>1, <3>2
  <2> HIDE DEF d, gain, x
  <2>5. HeldLong'
    <3> SUFFICES ASSUME ~ghost'.lost, NEW j \in Instruments, ~UsesMargin(Meta[j])
                 PROVE  acct'.pos[j] >= 0
      BY DEF HeldLong
    <3>1. acct.pos[j] >= 0 /\ acct.bal[Meta[j].base] = acct.pos[j]
      BY <1>2, <2>4 DEF HeldLong, HoldingsArePositions
    <3>2. j = i => acct.pos[j] + d >= 0
      BY <1>2, <2>2, <2>3, <2>4, <3>1 DEF x
    <3> QED
      BY <1>2, <2>3, <2>4, <3>1, <3>2
  <2>6. NoOverdraft'
    <3> SUFFICES ASSUME ~ghost'.lost, \A j \in Instruments : ~UsesMargin(Meta[j]), NEW a \in Assets
                 PROVE  acct'.bal[a] >= 0
      BY DEF NoOverdraft
    <3>1. acct.bal[a] \in Int /\ \A b \in Assets : acct.bal[b] >= 0
      BY <1>2, <2>4 DEF NoOverdraft
    <3>2. /\ o.side = "Buy"  => acct.bal[x.quote] + gain >= 0
          /\ o.side = "Sell" => acct.bal[x.base] >= o.qty /\ gain >= 0
      BY <2>3, <2>4 DEF x
    <3>3. acct.bal[x.base] + d >= 0 /\ acct.bal[x.quote] + gain >= 0
      BY <1>2, <2>2, <2>3, <3>1, <3>2
    <3> QED
      BY <1>2, <2>3, <2>4, <3>1, <3>3
  <2> QED
    BY <1>1, <2>5, <2>6 DEF Funds
<1>5. ASSUME NEW i \in Instruments, Settled(i) PROVE Funds'
  <2>1. \A j \in Instruments :
          /\ ghost'.lost = ghost.lost
          /\ acct'.pos[j] = acct.pos[j] \/ acct'.pos[j] = 0
    BY <1>5, SettledMoves
  <2>2. HeldLong'
    BY <1>2, <2>1 DEF HeldLong
  <2>3. NoOverdraft'
    <3> SUFFICES ASSUME ~ghost'.lost, \A j \in Instruments : ~UsesMargin(Meta[j]), NEW a \in Assets
                 PROVE  acct'.bal[a] >= 0
      BY DEF NoOverdraft
    <3>1. acct.bal[a] >= 0 /\ acct.pos[i] >= 0
      BY <1>2, <2>1 DEF NoOverdraft, HeldLong
    <3> QED
      BY <1>5, <3>1, SettledPays
  <2> QED
    BY <1>1, <2>2, <2>3 DEF Funds
<1> QED
  BY <1>3, <1>4, <1>5, AccountSteps

LEMMA FundsInit ==
  ASSUME SoundInputs, Init
  PROVE  Funds
<1>1. Asked = {} /\ Resting = {}
  BY NoPollTyped DEF Init, Asked, Resting
<1>2. OrdersNonNegative
  BY <1>1 DEF OrdersNonNegative
<1>3. MarketNonNegative
  BY DEF Init, NoMarket, MarketNonNegative, NonNegative
<1>4. acct.bal = InitialBal /\ \A i \in Instruments : acct.pos[i] = 0
  BY DEF Init, Flat
<1> QED
  BY <1>2, <1>3, <1>4 DEF Funds, HeldLong, NoOverdraft, SoundInputs, SoundBalances

\* state/account.rs, fills.rs: whatever fills, settles or is lost of margined
\* positions, what is held without margin stays the base balance, and positions
\* stay in lots of instruments that have a market.
THEOREM PositionsAreHoldings ==
  (Spec => []HoldingsArePositions) /\ (LiveSpec => []HoldingsArePositions)
<1>1. Init => Holdings
  BY HoldingsInit
<1>2. LiveInit => Holdings
  BY <1>1 DEF LiveInit
<1>3. Inv /\ Holdings /\ [Step]_vars => Holdings'
  BY HoldingsStep
<1>4. Holdings => HoldingsArePositions
  BY DEF Holdings
<1> QED
  BY <1>1, <1>2, <1>3, <1>4, InvHolds, PTL DEF Spec, LiveSpec

\* fills.rs check_balance_for_fill: orders that rest while others fill cannot together
\* overdraw an asset, whatever the orders, the market and the settlements.
THEOREM NothingIsOverdrawn ==
  ASSUME SoundInputs
  PROVE  (Spec => []NoOverdraft) /\ (LiveSpec => []NoOverdraft)
<1>1. Init => Holdings /\ Funds
  BY HoldingsInit, FundsInit
<1>2. LiveInit => Holdings /\ Funds
  BY <1>1 DEF LiveInit
<1>3. Inv /\ Holdings /\ Funds /\ [Step]_vars => Holdings' /\ Funds'
  BY HoldingsStep, FundsStep
<1>4. Funds => NoOverdraft
  BY DEF Funds
<1> QED
  BY <1>1, <1>2, <1>3, <1>4, InvHolds, PTL DEF Spec, LiveSpec
-----------------------------------------------------------------------------
(***************************************************************************)
(* Flatten.                                                                *)
(***************************************************************************)
\* config_file.rs lets no negative limit through.
SoundLimit == MaxPosition # NoLimit => MaxPosition \in Nat

\* What a flatten has still to close is in the rows that it has still to visit.
FlattenPending ==
  phase = "flatten" =>
    /\ DOMAIN open = {}
    /\ ~ghost.lost =>
         \A i \in Instruments :
           ~UsesMargin(Meta[i]) /\ acct.pos[i] # 0 => \E n \in DOMAIN rows : rows[n] = i

LEMMA TailKeeps ==
  ASSUME NEW S, NEW s \in Seq(S), s # <<>>, NEW n \in DOMAIN s, s[n] # Head(s)
  PROVE  \E k \in DOMAIN Tail(s) : Tail(s)[k] = s[n]
<1>1. n \in Nat /\ n # 1 /\ n - 1 \in DOMAIN Tail(s) /\ Tail(s)[n - 1] = s[n]
  OBVIOUS
<1> QED
  BY <1>1

LEMMA FlattenFrame ==
  ASSUME [Step]_vars, event \in Events, InHand
  PROVE  /\ phase = "flatten" =>
              UNCHANGED vars \/ FlattenFills \/ FlattenSkips \/ EndFlatten
         /\ phase' = "flatten" =>
              UNCHANGED vars \/ StartFlatten \/ FlattenFills \/ FlattenSkips
<1>1. CASE LiveOnly
  <2>1. phase' # "flatten" \/ UNCHANGED phase
    BY <1>1 DEF LiveOnly, Commanding, Switch, Intervene, EndIntervention, RejectBlocked,
                SkipStrategy, EndLiveSubmit, EndStream
  <2>2. phase # "flatten"
    BY <1>1 DEF LiveOnly, Commanding, Switch, Intervene, Operator, EndIntervention, RejectBlocked,
                Placing, SkipStrategy, EndLiveSubmit, EndStream
  <2> QED
    BY <2>1, <2>2
<1>2. CASE Next /\ (EndSubmit => ~Commanded)
  <2>1. phase = "submit" => event.kind \in {"bar", "timer", "finish", "command", "operator"} \cup TickKinds
    BY DEF Events, Kinds, InHand
  <2> QED
    BY <1>2, <2>1
    DEF Commanded, Next, Bar, Tick, Timer, NextEvent, Placing, PlaceFills, PlaceRests,
        PlaceRejected, Defer, EndSubmit, CloseBar, EndPlace, StartPoll, IsNextCandidate,
        PollFills, PollRejects, PollSkips, EndPoll, OnEvent, Finish, Cancel, CancelUnknown,
        StartFlatten, FlattenFills, FlattenSkips, EndFlatten, EndControl, Liquidate,
        SettleFunding, SettleCoupon, SettleOption, SettleNothing, Settling, EndSettle, Ended
<1> QED
  BY <1>1, <1>2 DEF Step

\* The order that closes what is held without margin is for all of it, has a price
\* and is funded.
LEMMA ClosesWhatIsHeld ==
  ASSUME SoundLimit, Inv, Holdings, Funds, ~ghost.lost, NEW i \in Instruments,
         ~UsesMargin(Meta[i]), acct.pos[i] # 0
  PROVE  LET o == Normalized(Meta[i], Closing(i))
         IN  /\ o.inst = i /\ o.side = "Sell" /\ o.qty = acct.pos[i]
             /\ Valid(Closing(i), TRUE) /\ WellFormed(o)
             /\ MarketPrice(o.side, market[i]) # NoPrice
             /\ \A p : Funded(o, p, acct)
<1> DEFINE w == Closing(i)
           o == Normalized(Meta[i], w)
<1>1. /\ acct.pos[i] \in Int /\ acct.pos[i] >= 0 /\ Meta[i].lot \in Nat
      /\ InLots(acct.pos[i], Meta[i].lot) /\ Priced(market[i]) /\ Coherent(market[i])
      /\ acct.bal[Meta[i].base] = acct.pos[i] /\ market[i] \in MarketRows
  BY MetaTyped DEF Inv, Typed, BooksTyped, MarketTyped, RowsCoherent, Accounts, Holdings,
                   HeldInLots, HeldIsPriced, HoldingsArePositions, Funds, HeldLong
<1>2. acct.pos[i] > 0 /\ Abs(acct.pos[i]) = acct.pos[i]
  BY <1>1 DEF Abs
<1>3. /\ w.inst = i /\ w.side = "Sell" /\ w.type = "Market" /\ w.qty = acct.pos[i]
  BY <1>2 DEF Closing
<1>4. /\ o.inst = i /\ o.side = "Sell" /\ o.type = "Market"
      /\ o.qty = RoundQtyToLot(acct.pos[i], Meta[i].lot)
  BY <1>2 DEF Closing, Normalized
<1> HIDE DEF w
<1>5. o.qty = acct.pos[i]
  BY <1>1, <1>4, RoundedLots
<1> HIDE DEF o
<1>6. Valid(w, TRUE)
  <2>1. acct.pos[w.inst] + Signed(w.side, w.qty) = 0
    BY <1>1, <1>3 DEF Signed
  <2> QED
    BY <2>1 DEF Valid, Abs, SoundLimit
<1>7. WellFormed(o)
  BY <1>1, <1>4, <1>5 DEF WellFormed, IsStop
<1>8. MarketPrice(o.side, market[i]) # NoPrice
  <2>1. \A v \in Int : v + Signed("Sell", Bps(v, SlippageBps)) \in Int
    BY BpsTyped, SignedTyped, RatesAssumption
  <2>2. market[i].bid \in Prices /\ market[i].last \in Prices
    BY <1>1 DEF MarketRows, Prices
  <2> QED
    BY <1>1, <1>4, <2>1, <2>2, NoPriceAssumption DEF MarketPrice, Priced, Prices
<1>9. \A p : Funded(o, p, acct)
  BY <1>1, <1>4, <1>5 DEF Funded, HasFunds
<1> QED
  BY <1>4, <1>5, <1>6, <1>7, <1>8, <1>9 DEF o, w

LEMMA FlattenPendingStep ==
  ASSUME SoundLimit, Inv, Holdings, Funds, FlattenPending, [Step]_vars
  PROVE  FlattenPending'
<1> SUFFICES ASSUME phase' = "flatten" PROVE FlattenPending'
  BY DEF FlattenPending
<1>1. /\ event \in Events /\ InHand /\ rows \in Seq(Instruments)
      /\ acct \in Accounts /\ acct.pos \in [Instruments -> Int]
  BY DEF Inv, Typed, LoopTyped, BooksTyped, Accounts
<1>2. CASE UNCHANGED vars
  BY <1>2 DEF FlattenPending, vars, loopVars
<1>3. CASE StartFlatten
  <2>1. open' = <<>> /\ rows' = Rows
    BY <1>3 DEF StartFlatten
  <2>2. \A i \in Instruments : \E n \in DOMAIN Rows : Rows[n] = i
    BY DEF Instruments
  <2> QED
    BY <2>1, <2>2 DEF FlattenPending
<1>4. CASE FlattenFills \/ FlattenSkips
  <2> DEFINE h == Head(rows)
             o == Normalized(Meta[h], Closing(h))
  <2>1. /\ phase = "flatten" /\ rows # <<>> /\ rows' = Tail(rows) /\ h \in Instruments
        /\ DOMAIN open = {}
        /\ ~ghost.lost =>
             \A i \in Instruments :
               ~UsesMargin(Meta[i]) /\ acct.pos[i] # 0 => \E n \in DOMAIN rows : rows[n] = i
    <3>1. phase = "flatten" /\ rows # <<>> /\ rows' = Tail(rows)
      BY <1>4 DEF FlattenFills, FlattenSkips
    <3>2. h \in Instruments
      BY <1>1, <3>1
    <3> QED
      BY <3>1, <3>2 DEF FlattenPending
  <2>2. DOMAIN open' = {}
    <3>1. CASE FlattenFills
      BY <2>1, <3>1 DEF FlattenFills, FillOrder, Without
    <3>2. CASE FlattenSkips
      BY <2>1, <3>2 DEF FlattenSkips
    <3> QED
      BY <1>4, <3>1, <3>2
  <2>3. ASSUME ~ghost'.lost
        PROVE  /\ ~ghost.lost
               /\ \A i \in Instruments \ {h} : acct'.pos[i] = acct.pos[i]
               /\ ~UsesMargin(Meta[h]) => acct'.pos[h] = 0
    <3>1. CASE FlattenFills
      <4>1. PICK q \in Intents, p \in Int : Fills(q, p) /\ FillMoves(q, p)
        BY <3>1, FillsMove
      <4>2. ~PlaceFills /\ ~(\E c \in poll.todo : PollFills(c))
        BY <2>1 DEF PlaceFills, Placing, PollFills, IsNextCandidate
      <4>3. q = o /\ acct.pos[h] # 0
        BY <3>1, <4>1, <4>2 DEF Fills, FlattenFills
      <4>4. q.inst = h
        BY <2>1, <4>3, ClosingFacts DEF Inv
      <4>5. ~ghost.lost /\ acct'.pos = [acct.pos EXCEPT ![h] = @ + Signed(q.side, q.qty)]
        BY <2>3, <4>1, <4>4 DEF FillMoves
      <4>6. ASSUME ~UsesMargin(Meta[h]) PROVE q.side = "Sell" /\ q.qty = acct.pos[h]
        BY <2>1, <4>3, <4>5, <4>6, ClosesWhatIsHeld
      <4> HIDE DEF h, o
      <4>7. ASSUME ~UsesMargin(Meta[h]) PROVE acct'.pos[h] = 0
        BY <1>1, <2>1, <4>5, <4>6, <4>7 DEF Signed
      <4> QED
        BY <1>1, <4>5, <4>7
    <3>2. CASE FlattenSkips
      <4>1. UNCHANGED <<acct, ghost>>
        BY <3>2 DEF FlattenSkips
      <4>2. ASSUME ~UsesMargin(Meta[h]), acct.pos[h] # 0 PROVE FALSE
        <5>1. /\ Valid(Closing(h), TRUE) /\ WellFormed(o)
              /\ MarketPrice(o.side, market[h]) # NoPrice
              /\ \A p : Funded(o, p, acct)
          BY <2>1, <2>3, <4>1, <4>2, ClosesWhatIsHeld
        <5> QED
          BY <3>2, <4>2, <5>1 DEF FlattenSkips
      <4> QED
        BY <2>3, <4>1, <4>2
    <3> QED
      BY <1>4, <3>1, <3>2
  <2> HIDE DEF h, o
  <2>4. ASSUME ~ghost'.lost, NEW i \in Instruments, ~UsesMargin(Meta[i]), acct'.pos[i] # 0
        PROVE  \E n \in DOMAIN rows' : rows'[n] = i
    <3>1. i # h /\ acct'.pos[i] = acct.pos[i] /\ ~ghost.lost
      BY <2>3, <2>4
    <3>2. PICK n \in DOMAIN rows : rows[n] = i
      BY <2>1, <2>4, <3>1
    <3> QED
      BY <1>1, <2>1, <3>1, <3>2, TailKeeps DEF h
  <2> QED
    BY <2>2, <2>4 DEF FlattenPending
<1> QED
  BY <1>1, <1>2, <1>3, <1>4, FlattenFrame

\* protocol.md "flatten": when a flatten ends no order is working, and nothing is held
\* of an instrument without margin, whatever was held before and in what lots.
THEOREM FlattenClosesEverything ==
  ASSUME SoundInputs, SoundLimit
  PROVE  (Spec => FlattenCloses) /\ (LiveSpec => FlattenCloses)
<1> DEFINE Act == phase = "flatten" /\ phase' = "control" =>
                    /\ DOMAIN open' = {}
                    /\ ~ghost.lost => \A i \in Instruments : ~UsesMargin(Meta[i]) => acct'.pos[i] = 0
           All == Holdings /\ Funds /\ FlattenPending
<1>1. Init => All
  BY HoldingsInit, FundsInit DEF Init, FlattenPending
<1>2. LiveInit => All
  BY <1>1 DEF LiveInit
<1>3. Inv /\ All /\ [Step]_vars => All'
  BY HoldingsStep, FundsStep, FlattenPendingStep
<1>4. Inv /\ All /\ [Step]_vars => Act
  <2> SUFFICES ASSUME FlattenPending, event \in Events, InHand, [Step]_vars,
                      phase = "flatten", phase' = "control"
               PROVE  Act
    BY DEF Inv, Typed, LoopTyped
  <2>1. EndFlatten
    BY FlattenFrame DEF FlattenFills, FlattenSkips, vars
  <2>2. rows = <<>> /\ UNCHANGED <<acct, open>>
    BY <2>1 DEF EndFlatten
  <2> QED
    BY <2>2 DEF FlattenPending
<1>5. (Spec => [][Act]_vars) /\ (LiveSpec => [][Act]_vars)
  <2> HIDE DEF Act, All
  <2> QED
    BY <1>1, <1>2, <1>3, <1>4, InvHolds, PTL DEF Spec, LiveSpec
<1> QED
  BY <1>5 DEF FlattenCloses
-----------------------------------------------------------------------------
(***************************************************************************)
(* The position limit.                                                     *)
(***************************************************************************)
\* protocol.rs takes no negative quantity from an external strategy.  What is rounded
\* to the lot is rounded down: a quantity below zero would grow.
SoundQuantities ==
  \A r \in Responses : \A n \in DOMAIN r.intents : r.intents[n].qty >= 0

QuantitiesSound == \A o \in Asked : o.qty >= 0

LEMMA QuantitiesSoundStep ==
  ASSUME SoundQuantities, Inv, QuantitiesSound, [Step]_vars
  PROVE  QuantitiesSound'
BY AskedStep DEF QuantitiesSound, AnsweredWith, Asks, SoundQuantities

\* A part of an order that would end within the limit ends within it or brings the
\* position nearer to it.
LEMMA PartIsWithin ==
  ASSUME NEW p \in Int, NEW side, NEW qty \in Int, NEW part \in Int, NEW max \in Int,
         0 <= part, part <= qty, Abs(p + Signed(side, qty)) <= max,
         Abs(p + Signed(side, part)) > max
  PROVE  Abs(p + Signed(side, part)) <= Abs(p)
BY DEF Abs, Signed

\* Whatever is placed on its own, or closed by a flatten, takes the position beyond
\* the limit only from further beyond it.
LEMMA FilledWithin ==
  ASSUME Inv, QuantitiesSound, MaxPosition # NoLimit, phase # "poll", NEW o \in Intents,
         NEW price, Fills(o, price), o.inst = Primary,
         Abs(acct.pos[Primary] + Signed(o.side, o.qty)) > MaxPosition
  PROVE  Abs(acct.pos[Primary] + Signed(o.side, o.qty)) <= Abs(acct.pos[Primary])
<1>1. /\ Typed /\ Born /\ acct.pos \in [Instruments -> Int]
      /\ rows \in Seq(Instruments) /\ Primary \in Instruments /\ MaxPosition \in Int
      /\ acct.pos[Primary] \in Int
  BY RowsAssumption, LimitsAssumption DEF Inv, Typed, BooksTyped, LoopTyped, Accounts
<1>2. CASE PlaceFills /\ o = NewOrder
  <2>1. Placing /\ Valid(Intent, FALSE)
    BY <1>2 DEF PlaceFills, Admitted
  <2>2. /\ Intent \in Intents /\ Intent \in Asked /\ NewOrder.inst = Intent.inst
    BY <1>1, <2>1, IntentAsked, TakenFacts
  <2>3. /\ Intent.inst = Primary /\ Intent.qty \in Nat /\ Meta[Primary].lot \in Nat
    BY <1>1, <1>2, <2>2, MetaTyped DEF QuantitiesSound, Intents
  <2>4. /\ o.side = Intent.side /\ o.qty = RoundQtyToLot(Intent.qty, Meta[Primary].lot)
        /\ o.qty \in Int
    BY <1>2, <2>2, <2>3 DEF NewOrder, Normalized, Intents
  <2>5. 0 <= o.qty /\ o.qty <= Intent.qty
    BY <2>3, <2>4, RoundedNonNegative
  <2>6. Abs(acct.pos[Primary] + Signed(Intent.side, Intent.qty)) <= MaxPosition
    BY <2>1, <2>3 DEF Valid
  <2> QED
    BY <1>1, <2>3, <2>4, <2>5, <2>6, PartIsWithin
<1>3. CASE FlattenFills /\ o = Normalized(Meta[Head(rows)], Closing(Head(rows)))
  <2>1. Head(rows) \in Instruments
    BY <1>1, <1>3 DEF FlattenFills
  <2>2. Head(rows) = Primary
    BY <1>1, <1>3, <2>1, ClosingFacts
  <2>3. /\ o.side = IF acct.pos[Primary] > 0 THEN "Sell" ELSE "Buy"
        /\ o.qty = RoundQtyToLot(Abs(acct.pos[Primary]), Meta[Primary].lot)
        /\ o.qty \in Int
    BY <1>3, <2>2 DEF Normalized, Closing, Intents
  <2>4. Abs(acct.pos[Primary]) \in Nat /\ Meta[Primary].lot \in Nat
    BY <1>1, MetaTyped DEF Abs
  <2>5. 0 <= o.qty /\ o.qty <= Abs(acct.pos[Primary])
    BY <2>3, <2>4, RoundedNonNegative
  <2> QED
    BY <1>1, <2>3, <2>5 DEF Abs, Signed
<1>4. ~ \E c \in poll.todo : PollFills(c)
  BY DEF PollFills, IsNextCandidate
<1> QED
  BY <1>2, <1>3, <1>4 DEF Fills

LEMMA OnlyPollsExceed ==
  ASSUME Inv, QuantitiesSound, [Step]_vars, MaxPosition # NoLimit, phase # "poll",
         Abs(acct'.pos[Primary]) > MaxPosition
  PROVE  Abs(acct'.pos[Primary]) <= Abs(acct.pos[Primary])
<1>1. /\ acct.pos \in [Instruments -> Int] /\ Primary \in Instruments
      /\ acct.pos[Primary] \in Int
  BY RowsAssumption DEF Inv, Typed, BooksTyped, Accounts
<1>2. CASE UNCHANGED acct
  BY <1>1, <1>2 DEF Abs
<1>3. CASE PlaceFills \/ FlattenFills \/ \E c \in poll.todo : PollFills(c)
  <2>1. PICK o \in Intents, price \in Int : Fills(o, price) /\ FillMoves(o, price)
    BY <1>3, FillsMove
  <2>2. acct'.pos = [acct.pos EXCEPT ![o.inst] = @ + Signed(o.side, o.qty)]
    BY <2>1 DEF FillMoves
  <2>3. CASE o.inst = Primary
    <3>1. acct'.pos[Primary] = acct.pos[Primary] + Signed(o.side, o.qty)
      BY <1>1, <2>2, <2>3
    <3> QED
      BY <2>1, <2>3, <3>1, FilledWithin
  <2>4. CASE o.inst # Primary
    BY <1>1, <2>2, <2>4 DEF Abs
  <2> QED
    BY <2>3, <2>4
<1>4. CASE \E i \in Instruments : Settled(i)
  <2>1. acct'.pos[Primary] \in {acct.pos[Primary], 0}
    BY <1>1, <1>4, SettledMoves
  <2> QED
    BY <1>1, <2>1 DEF Abs
<1> QED
  BY <1>2, <1>3, <1>4, AccountSteps

\* risk.rs max position: each order is held to the limit when it is deferred and again
\* when it is placed, after whatever has filled in between, and what is rounded off or
\* flattened keeps to it.  Only a poll takes the position of the primary instrument
\* further beyond the limit, whatever else the strategy answers.
THEOREM LimitIsKept ==
  ASSUME SoundQuantities
  PROVE  (Spec => OnlyPollsExceedLimit) /\ (LiveSpec => OnlyPollsExceedLimit)
<1> DEFINE Act == MaxPosition # NoLimit /\ phase # "poll" /\ Abs(acct'.pos[Primary]) > MaxPosition
                    => Abs(acct'.pos[Primary]) <= Abs(acct.pos[Primary])
<1>1. Init => QuantitiesSound
  BY DEF Init, Asked, QuantitiesSound
<1>2. LiveInit => QuantitiesSound
  BY <1>1 DEF LiveInit
<1>3. Inv /\ QuantitiesSound /\ [Step]_vars => QuantitiesSound'
  BY QuantitiesSoundStep
<1>4. Inv /\ QuantitiesSound /\ [Step]_vars => Act
  BY OnlyPollsExceed
<1>5. (Spec => [][Act]_vars) /\ (LiveSpec => [][Act]_vars)
  <2> HIDE DEF Act
  <2> QED
    BY <1>1, <1>2, <1>3, <1>4, InvHolds, PTL DEF Spec, LiveSpec
<1> QED
  BY <1>5 DEF OnlyPollsExceedLimit
-----------------------------------------------------------------------------
(***************************************************************************)
(* Sums over finite sets.                                                  *)
(***************************************************************************)
LEMMA LeastSubset ==
  ASSUME NEW S, IsFiniteSet(S), NEW T \in SUBSET SUBSET S, T # {}
  PROVE  \E m \in T : \A k \in T : k \subseteq m => k = m
<1>1. IsWellFoundedOn(StrictSubsetOrdering(S), SUBSET S)
  BY FS_StrictSubsetOrderingWellFounded, FS_FiniteSubsetsOfFinite
<1>2. PICK m \in T : \A k \in T : ~ (<<k, m>> \in StrictSubsetOrdering(S))
  BY <1>1, WFMin
<1>3. \A k \in T : k \subseteq m => k = m
  BY <1>2 DEF StrictSubsetOrdering
<1> QED
  BY <1>3

\* The element that a fold takes first.
First(s) == CHOOSE x \in s : TRUE

LEMMA FirstTaken ==
  ASSUME NEW s, s # {}
  PROVE  First(s) \in s /\ s \ {First(s)} \subseteq s /\ s \ {First(s)} # s
BY DEF First

\* `g` sums `h` over the subsets of `S` as a fold does.
Sums(g, h, S) ==
  g = [s \in SUBSET S |-> IF s = {} THEN 0 ELSE h[First(s)] + g[s \ {First(s)}]]

LEMMA SumsAt ==
  ASSUME NEW g, NEW h, NEW S, Sums(g, h, S), NEW s \in SUBSET S
  PROVE  g[s] = IF s = {} THEN 0 ELSE h[First(s)] + g[s \ {First(s)}]
<1> DEFINE F(t) == IF t = {} THEN 0 ELSE h[First(t)] + g[t \ {First(t)}]
<1>1. g = [t \in SUBSET S |-> F(t)]
  BY DEF Sums
<1> HIDE DEF F
<1>2. g[s] = F(s)
  BY <1>1
<1> QED
  BY <1>2 DEF F

LEMMA SumsAgree ==
  ASSUME NEW h, NEW S, IsFiniteSet(S), NEW g, NEW T, Sums(g, h, T), NEW f, Sums(f, h, S),
         S \subseteq T
  PROVE  f[S] = g[S]
<1> DEFINE Bad == {s \in SUBSET S : f[s] # g[s]}
<1> SUFFICES ASSUME Bad # {} PROVE FALSE
  OBVIOUS
<1>1. Bad \in SUBSET SUBSET S
  OBVIOUS
<1>2. PICK m \in Bad : \A k \in Bad : k \subseteq m => k = m
  <2> HIDE DEF Bad
  <2> QED
    BY <1>1, LeastSubset
<1>3. /\ f[m] = IF m = {} THEN 0 ELSE h[First(m)] + f[m \ {First(m)}]
      /\ g[m] = IF m = {} THEN 0 ELSE h[First(m)] + g[m \ {First(m)}]
  BY SumsAt
<1>4. m # {} => f[m \ {First(m)}] = g[m \ {First(m)}]
  BY <1>2, FirstTaken
<1> QED
  BY <1>3, <1>4

LEMMA SumsExist ==
  ASSUME NEW h, NEW S, IsFiniteSet(S)
  PROVE  \E g : Sums(g, h, S)
<1> DEFINE Bad == {s \in SUBSET S : ~ \E g : Sums(g, h, s)}
<1> SUFFICES ASSUME Bad # {} PROVE FALSE
  OBVIOUS
<1>1. Bad \in SUBSET SUBSET S
  OBVIOUS
<1>2. PICK m \in Bad : \A k \in Bad : k \subseteq m => k = m
  <2> HIDE DEF Bad
  <2> QED
    BY <1>1, LeastSubset
<1> DEFINE Of(s) == CHOOSE g : Sums(g, h, s)
           V == [s \in SUBSET m |-> Of(s)[s]]
           top == IF m = {} THEN 0 ELSE h[First(m)] + V[m \ {First(m)}]
           g == [s \in SUBSET m |-> IF s = m THEN top ELSE V[s]]
           Body(s) == IF s = {} THEN 0 ELSE h[First(s)] + g[s \ {First(s)}]
<1>3. \A s \in SUBSET m : s # m => Sums(Of(s), h, s)
  BY <1>2
<1>4. \A s \in SUBSET m : IsFiniteSet(s)
  BY FS_Subset
<1>5. ASSUME NEW s \in SUBSET m PROVE g[s] = Body(s)
  <2>1. CASE s = m
    <3>1. m # {} => g[m \ {First(m)}] = V[m \ {First(m)}]
      BY FirstTaken
    <3> QED
      BY <2>1, <3>1
  <2>2. CASE s # m /\ s = {}
    <3>1. Of(s)[s] = 0
      BY <1>3, <2>2, SumsAt
    <3> QED
      BY <2>2, <3>1
  <2>3. CASE s # m /\ s # {}
    <3> DEFINE r == s \ {First(s)}
    <3>1. r \in SUBSET s /\ r \in SUBSET m /\ r # m
      BY <2>3, FirstTaken
    <3>2. Sums(Of(s), h, s) /\ Sums(Of(r), h, r) /\ IsFiniteSet(r)
      BY <1>3, <1>4, <2>3, <3>1
    <3> HIDE DEF Of, r
    <3>3. Of(s)[s] = h[First(s)] + Of(s)[r]
      BY <2>3, <3>2, SumsAt DEF r
    <3>4. Of(r)[r] = Of(s)[r]
      BY <3>1, <3>2, SumsAgree
    <3>5. g[s] = Of(s)[s] /\ g[r] = Of(r)[r]
      BY <2>3, <3>1
    <3> QED
      BY <2>3, <3>3, <3>4, <3>5 DEF r
  <2> QED
    BY <2>1, <2>2, <2>3
<1>6. g = [s \in SUBSET m |-> g[s]]
  OBVIOUS
<1> HIDE DEF g
<1>7. g = [s \in SUBSET m |-> Body(s)]
  <2> HIDE DEF Body
  <2> QED
    BY <1>5, <1>6
<1>8. Sums(g, h, m)
  BY <1>7 DEF Sums
<1> QED
  BY <1>8

LEMMA SumsTyped ==
  ASSUME NEW h, NEW S, IsFiniteSet(S), \A x \in S : h[x] \in Int, NEW g, Sums(g, h, S)
  PROVE  \A s \in SUBSET S : g[s] \in Int
<1> DEFINE Bad == {s \in SUBSET S : g[s] \notin Int}
<1> SUFFICES ASSUME Bad # {} PROVE FALSE
  OBVIOUS
<1>1. Bad \in SUBSET SUBSET S
  OBVIOUS
<1>2. PICK m \in Bad : \A k \in Bad : k \subseteq m => k = m
  <2> HIDE DEF Bad
  <2> QED
    BY <1>1, LeastSubset
<1>3. g[m] = IF m = {} THEN 0 ELSE h[First(m)] + g[m \ {First(m)}]
  BY SumsAt
<1>4. m # {} => h[First(m)] \in Int /\ g[m \ {First(m)}] \in Int
  BY <1>2, FirstTaken
<1> QED
  BY <1>3, <1>4

\* A sum changes by as much as one of its terms.
LEMMA SumsChange ==
  ASSUME NEW S, IsFiniteSet(S), NEW i \in S, NEW h, NEW k,
         \A x \in S : h[x] \in Int /\ k[x] \in Int /\ (x # i => k[x] = h[x]),
         NEW f, Sums(f, h, S), NEW g, Sums(g, k, S)
  PROVE  f[S] \in Int /\ g[S] = f[S] + (k[i] - h[i])
<1> DEFINE D(s) == IF i \in s THEN k[i] - h[i] ELSE 0
           Bad == {s \in SUBSET S : g[s] # f[s] + D(s)}
<1>1. \A s \in SUBSET S : f[s] \in Int /\ g[s] \in Int
  BY SumsTyped
<1>2. Bad = {}
  <2> SUFFICES ASSUME Bad # {} PROVE FALSE
    OBVIOUS
  <2>1. Bad \in SUBSET SUBSET S
    OBVIOUS
  <2>2. PICK m \in Bad : \A s \in Bad : s \subseteq m => s = m
    <3> HIDE DEF Bad
    <3> QED
      BY <2>1, LeastSubset
  <2>3. /\ f[m] = IF m = {} THEN 0 ELSE h[First(m)] + f[m \ {First(m)}]
        /\ g[m] = IF m = {} THEN 0 ELSE k[First(m)] + g[m \ {First(m)}]
    BY SumsAt
  <2>4. CASE m = {}
    BY <2>3, <2>4
  <2>5. CASE m # {}
    <3> DEFINE x == First(m)
               r == m \ {First(m)}
    <3>1. x \in m /\ r \in SUBSET S /\ g[r] = f[r] + D(r) /\ f[r] \in Int
      BY <1>1, <2>2, <2>5, FirstTaken
    <3>2. f[m] = h[x] + f[r] /\ g[m] = k[x] + g[r]
      BY <2>3, <2>5
    <3>3. /\ h[x] \in Int /\ k[x] \in Int /\ h[i] \in Int /\ k[i] \in Int
          /\ x # i => k[x] = h[x] /\ D(r) = D(m)
          /\ x = i => D(r) = 0 /\ D(m) = k[x] - h[x]
      BY <3>1
    <3>4. D(m) \in Int /\ D(r) \in Int
      BY <3>3
    <3> HIDE DEF D, x, r
    <3>5. g[m] = f[m] + D(m)
      BY <3>1, <3>2, <3>3, <3>4
    <3> QED
      BY <3>5
  <2> QED
    BY <2>4, <2>5
<1> QED
  BY <1>1, <1>2
-----------------------------------------------------------------------------
(***************************************************************************)
(* Equity.                                                                 *)
(***************************************************************************)
QuotedIn(quote) == {i \in Instruments : Meta[i].quote = quote}

LEMMA QuotedFinite ==
  ASSUME NEW quote
  PROVE  IsFiniteSet(QuotedIn(quote))
<1>1. Rows \in Surjection(1 .. Len(Rows), Instruments)
  BY RowsAssumption DEF Surjection, Instruments
<1>2. IsFiniteSet(1 .. Len(Rows))
  BY RowsAssumption, FS_Interval
<1>3. IsFiniteSet(Instruments)
  BY <1>1, <1>2, FS_Surjection
<1> QED
  BY <1>3, FS_Subset DEF QuotedIn

LEMMA EquityIsSum ==
  ASSUME NEW a, NEW mkt, NEW quote, NEW h, \A i \in QuotedIn(quote) : h[i] = Value(a, mkt, i)
  PROVE  \E g : /\ Sums(g, h, QuotedIn(quote))
                /\ Equity(a, mkt, quote) = a.bal[quote] + g[QuotedIn(quote)]
<1> DEFINE S == QuotedIn(quote)
           Folds(g) == g = [s \in SUBSET S |->
              IF s = {} THEN 0 ELSE Value(a, mkt, First(s)) + g[s \ {First(s)}]]
           fold == CHOOSE g : Folds(g)
<1>1. MapThenSumSet(LAMBDA i : Value(a, mkt, i), S) = fold[S]
  BY DEF MapThenSumSet, MapThenFoldSet, First
<1>2. Equity(a, mkt, quote) = a.bal[quote] + fold[S]
  BY <1>1 DEF Equity, QuotedIn
<1>3. \A g : Folds(g) <=> Sums(g, h, S)
  <2>1. \A s \in SUBSET S : s # {} => h[First(s)] = Value(a, mkt, First(s))
    BY FirstTaken
  <2> SUFFICES ASSUME NEW g PROVE Folds(g) <=> Sums(g, h, S)
    OBVIOUS
  <2> DEFINE F(s) == IF s = {} THEN 0 ELSE Value(a, mkt, First(s)) + g[s \ {First(s)}]
             G(s) == IF s = {} THEN 0 ELSE h[First(s)] + g[s \ {First(s)}]
  <2>2. \A s \in SUBSET S : F(s) = G(s)
    <3> HIDE DEF S
    <3> QED
      BY <2>1
  <2>3. Folds(g) <=> g = [s \in SUBSET S |-> F(s)]
    OBVIOUS
  <2>4. Sums(g, h, S) <=> g = [s \in SUBSET S |-> G(s)]
    BY DEF Sums
  <2> HIDE DEF S, F, G, Folds
  <2> QED
    BY <2>2, <2>3, <2>4
<1>4. Folds(fold)
  <2>1. \E g : Folds(g)
    BY <1>3, QuotedFinite, SumsExist
  <2> HIDE DEF Folds
  <2> QED
    BY <2>1
<1> HIDE DEF Folds, fold
<1> QED
  BY <1>2, <1>3, <1>4

LEMMA ValueTyped ==
  ASSUME Inv, NEW i \in Instruments
  PROVE  Value(acct, market, i) \in Int
<1>1. /\ acct \in Accounts /\ market[i] \in MarketRows /\ Coherent(market[i])
      /\ Meta[i].mult \in Nat /\ Meta[i].base \in Assets
  BY MetaTyped DEF Inv, Typed, BooksTyped, MarketTyped, RowsCoherent
<1> DEFINE mid == IF MidOrLast(market[i]) = NoPrice THEN 0 ELSE MidOrLast(market[i])
           entry == IF acct.entry[i] = NoPrice THEN mid ELSE acct.entry[i]
<1>2. mid \in Int
  BY <1>1, MidTyped DEF Prices
<1>3. entry \in Int /\ acct.pos[i] \in Int /\ acct.bal[Meta[i].base] \in Int
      /\ Multiplier(Meta[i]) \in Int /\ Meta[i].mult \in Int
  BY <1>1, <1>2 DEF Accounts, Multiplier, Prices
<1> HIDE DEF mid
<1>4. (mid - entry) * acct.pos[i] \in Int /\ acct.bal[Meta[i].base] * mid \in Int
  <2> HIDE DEF entry
  <2> QED
    BY <1>2, <1>3
<1>5. /\ (mid - entry) * acct.pos[i] * Meta[i].mult \in Int
      /\ acct.bal[Meta[i].base] * mid * Multiplier(Meta[i]) \in Int
  <2> HIDE DEF entry
  <2> QED
    BY <1>3, <1>4
<1> QED
  BY <1>5 DEF Value, PositionValue, mid

\* What a liquidation takes from the value of the position it adds to the cash.
LEMMA LiquidationMoves ==
  ASSUME Inv, NEW i \in Instruments, Liquidate(i)
  PROVE  LET q   == Meta[i].quote
             due == Value(acct, market, i)
         IN  /\ acct'.bal[q] = acct.bal[q] + due
             /\ Value(acct', market, i) = 0
             /\ \A j \in Instruments \ {i} : Value(acct', market, j) = Value(acct, market, j)
<1> DEFINE x == Meta[i]
           mid == MidOrLast(market[i])
           c == [Closed(acct, i, x) EXCEPT !.entry[i] = NoPrice]
           cash == LiquidationCash(acct, i, x, mid)
<1>1. /\ acct \in Accounts /\ x.base \in Assets /\ x.quote \in Assets /\ x.base # x.quote
      /\ market[i] \in MarketRows /\ Coherent(market[i]) /\ x.mult \in Nat
  BY MetaTyped DEF Inv, Typed, BooksTyped, MarketTyped, RowsCoherent
<1>2. mid # NoPrice /\ UsesMargin(x) /\ acct' = [c EXCEPT !.bal[x.quote] = @ + cash]
  BY DEF Liquidate, Settling, Due, MustLiquidate, Credit
<1>3. /\ c.pos = [acct.pos EXCEPT ![i] = 0]
      /\ c.entry = [acct.entry EXCEPT ![i] = NoPrice]
      /\ c.bal = [acct.bal EXCEPT ![x.base] = 0]
      /\ DOMAIN c = {"pos", "entry", "bal"}
  BY <1>1 DEF Closed, Accounts
<1>4. cash = Value(acct, market, i)
  BY <1>2 DEF LiquidationCash, Value, PositionValue
<1>5. mid \in Int
  BY <1>1, <1>2, MidTyped DEF Prices
<1> HIDE DEF cash, c, mid
<1>6. /\ acct'.pos = [acct.pos EXCEPT ![i] = 0]
      /\ acct'.entry = [acct.entry EXCEPT ![i] = NoPrice]
      /\ acct'.bal = [acct.bal EXCEPT ![x.base] = 0, ![x.quote] = acct.bal[x.quote] + cash]
  <2>1. /\ acct'.pos = c.pos /\ acct'.entry = c.entry
        /\ acct'.bal = [c.bal EXCEPT ![x.quote] = c.bal[x.quote] + cash]
    BY <1>2, <1>3
  <2>2. c.bal[x.quote] = acct.bal[x.quote]
    BY <1>1, <1>3 DEF Accounts
  <2> QED
    BY <1>3, <2>1, <2>2
<1>7. acct'.bal[x.quote] = acct.bal[x.quote] + cash
  BY <1>1, <1>6 DEF Accounts
<1>8. Value(acct', market, i) = 0
  <2>1. acct'.pos[i] = 0 /\ acct'.entry[i] = NoPrice
    BY <1>1, <1>6 DEF Accounts
  <2> QED
    BY <1>1, <1>2, <1>5, <2>1 DEF Value, PositionValue, mid
<1>9. ASSUME NEW j \in Instruments \ {i} PROVE Value(acct', market, j) = Value(acct, market, j)
  <2>1. Meta[j].base \in Assets /\ Meta[j].base # x.base /\ Meta[j].base # x.quote
    BY MetaTyped, BasesAssumption
  <2>2. /\ acct'.pos[j] = acct.pos[j] /\ acct'.entry[j] = acct.entry[j]
        /\ acct'.bal[Meta[j].base] = acct.bal[Meta[j].base]
    BY <1>1, <1>6, <2>1 DEF Accounts
  <2> QED
    BY <2>2 DEF Value, PositionValue
<1> QED
  BY <1>4, <1>7, <1>8, <1>9

LEMMA LiquidationKeepsEquity ==
  ASSUME Inv, NEW i \in Instruments, Liquidate(i)
  PROVE  Equity(acct', market', Meta[i].quote) = Equity(acct, market, Meta[i].quote)
<1> DEFINE q == Meta[i].quote
           S == QuotedIn(q)
           h == [j \in Instruments |-> Value(acct, market, j)]
           k == [j \in Instruments |-> Value(acct', market, j)]
<1>1. market' = market
  BY DEF Liquidate, Settling, marketVars
<1>2. IsFiniteSet(S) /\ i \in S /\ S \subseteq Instruments
  BY QuotedFinite DEF QuotedIn
<1>3. /\ \A j \in Instruments : h[j] \in Int
      /\ k[i] = 0 /\ \A j \in Instruments \ {i} : k[j] = h[j]
      /\ acct'.bal[q] = acct.bal[q] + h[i]
  BY ValueTyped, LiquidationMoves
<1>4. acct.bal[q] \in Int
  BY MetaTyped DEF Inv, Typed, BooksTyped, Accounts
<1>5. PICK f : Sums(f, h, S) /\ Equity(acct, market, q) = acct.bal[q] + f[S]
  BY <1>2, EquityIsSum
<1>6. PICK g : Sums(g, k, S) /\ Equity(acct', market, q) = acct'.bal[q] + g[S]
  BY <1>2, EquityIsSum
<1> HIDE DEF h, k, S, q
<1>7. f[S] \in Int /\ g[S] = f[S] + (k[i] - h[i])
  BY <1>2, <1>3, <1>5, <1>6, SumsChange
<1>8. Equity(acct', market, q) = Equity(acct, market, q)
  BY <1>2, <1>3, <1>4, <1>5, <1>6, <1>7
<1> QED
  BY <1>1, <1>8 DEF q

\* lifecycle.rs: a liquidation only realizes what the position was worth: the equity
\* of its quote asset is the same before and after, whatever else is held.
THEOREM LiquidationIsNeutral ==
  (Spec => LiquidationConservesEquity) /\ (LiveSpec => LiquidationConservesEquity)
<1> DEFINE Act == \A i \in Instruments :
                    Liquidate(i) => Equity(acct', market', Meta[i].quote)
                                      = Equity(acct, market, Meta[i].quote)
<1>1. Inv /\ [Step]_vars => Act
  BY LiquidationKeepsEquity
<1>2. (Spec => [][Act]_vars) /\ (LiveSpec => [][Act]_vars)
  <2> HIDE DEF Act
  <2> QED
    BY <1>1, InvHolds, PTL
<1> QED
  BY <1>2 DEF LiquidationConservesEquity
=============================================================================
