-------------------------- MODULE ReplayFeedProofs --------------------------
(***************************************************************************)
(* For any sources and any tapes, sorted or not: the loop of the runner    *)
(* reads the stable stream of its sources, notices a cancellation within   *)
(* one stride, and keeps the events of the session.                        *)
(*                                                                         *)
(* The heap is the frontier of the tapes: one pending event for each       *)
(* source that has any left.  What its source holds before a pending event *)
(* has been returned, so it came before something the other sources hold   *)
(* up to their own pending events.  That is all the least pending event    *)
(* needs to precede everything that is still to come.                      *)
(***************************************************************************)
EXTENDS ReplayFeed, SequenceTheorems, TLAPS

Precedes(e, f) == Stream!Precedes(e, f)

Left == heap \cup Unread

\* The heap is the frontier of the tapes.
Frontier ==
  /\ tape \in [Sources -> Seq(Stamps)]
  /\ read \in [Sources -> Nat]
  /\ heap \subseteq Events(tape)
  /\ \A e \in heap : e[2] = read[e[1]]
  /\ \A i \in Sources : HasNext(i) => <<i, read[i]>> \in heap

\* What a pending event's source holds before it came before the others.
Passed ==
  \A e, f \in heap :
    e[1] # f[1] =>
      \A m \in 1..(e[2] - 1) : \E n \in 1..f[2] : Before(tape, <<e[1], m>>, <<f[1], n>>)

MergeInv == Frontier /\ Passed

-----------------------------------------------------------------------------
LEMMA EventOfTape ==
  ASSUME NEW t \in [Sources -> Seq(Stamps)], NEW e
  PROVE  e \in Events(t) <=>
           \E i \in Sources : \E n \in 1..Len(t[i]) : e = <<i, n>>
BY DEF Events

\* The instants of a tape are integers, so the heap's order is total.
LEMMA InstantOfEvent ==
  ASSUME NEW t \in [Sources -> Seq(Stamps)], NEW i \in Sources, NEW n \in 1..Len(t[i])
  PROVE  event_ts(t, <<i, n>>) \in Int
<1>1. t[i][n] \in Stamps
  BY ElementOfSeq
<1> QED
  BY <1>1, TimesAssumption DEF event_ts, StampOf, Stamps

LEMMA InitEstablishesMergeInv == MergeInit => MergeInv
<1> SUFFICES ASSUME MergeInit PROVE MergeInv
  OBVIOUS
<1>1. tape \in [Sources -> Seq(Stamps)]
  BY TapesAssumption DEF MergeInit
<1>2. \A i \in Sources : Len(tape[i]) \in Nat
  BY <1>1
<1>3. read \in [Sources -> Nat]
  BY DEF MergeInit, Opened
<1>4. \A e \in heap : e[1] \in Sources /\ e[2] = 1 /\ Len(tape[e[1]]) > 0
  BY <1>1, <1>2, EventOfTape DEF MergeInit
<1>5. \A e \in heap : e[2] = read[e[1]]
  BY <1>4 DEF MergeInit, Opened
<1>6. ASSUME NEW i \in Sources, HasNext(i) PROVE <<i, read[i]>> \in heap
  <2>1. Len(tape[i]) > 0 /\ read[i] = 1
    BY <1>2, <1>6 DEF MergeInit, Opened, HasNext
  <2> QED
    BY <2>1, <1>1, <1>2, EventOfTape DEF MergeInit
<1>7. Frontier
  BY <1>1, <1>3, <1>5, <1>6 DEF Frontier, MergeInit
<1>8. Passed
  BY <1>4 DEF Passed
<1> QED
  BY <1>7, <1>8 DEF MergeInv

-----------------------------------------------------------------------------
\* What next() does, in the invariant's terms: e leaves the heap, and its
\* successor comes if there is one.
LEMMA NextEventDraws ==
  ASSUME Frontier, NEW e \in heap, NextEvent(e)
  PROVE  /\ e[1] \in Sources /\ e = <<e[1], read[e[1]]>>
         /\ e[2] \in 1..Len(tape[e[1]]) /\ Len(tape[e[1]]) \in Nat
         /\ tape' = tape
         /\ HasNext(e[1]) =>
              /\ read' = [read EXCEPT ![e[1]] = e[2] + 1]
              /\ heap' = (heap \ {e}) \cup {<<e[1], e[2] + 1>>}
         /\ ~HasNext(e[1]) => read' = read /\ heap' = heap \ {e}
<1>1. PICK i \in Sources : \E n \in 1..Len(tape[i]) : e = <<i, n>>
  BY EventOfTape DEF Frontier
<1>2. e = <<i, read[i]>> /\ read[i] \in 1..Len(tape[i])
  BY <1>1 DEF Frontier
<1>3. Len(tape[i]) \in Nat
  BY DEF Frontier
<1> QED
  BY <1>1, <1>2, <1>3 DEF NextEvent, Pops

LEMMA NextEventKeepsFrontier ==
  ASSUME Frontier, NEW e \in heap, NextEvent(e)
  PROVE  Frontier'
<1> DEFINE i == e[1]
<1>1. i \in Sources /\ e = <<i, read[i]>> /\ e[2] \in 1..Len(tape[i]) /\ Len(tape[i]) \in Nat
      /\ tape' = tape
  BY NextEventDraws
<1>2. CASE HasNext(i)
  <2>1. read' = [read EXCEPT ![i] = e[2] + 1]
        /\ heap' = (heap \ {e}) \cup {<<i, e[2] + 1>>}
    BY <1>2, NextEventDraws
  <2>2. read' \in [Sources -> Nat] /\ read'[i] = e[2] + 1
        /\ \A j \in Sources : j # i => read'[j] = read[j]
    BY <2>1, <1>1 DEF Frontier
  <2>3. <<i, e[2] + 1>> \in Events(tape)
    <3>1. e[2] + 1 \in 1..Len(tape[i])
      BY <1>1, <1>2 DEF HasNext
    <3> QED
      BY <3>1, <1>1, EventOfTape DEF Frontier
  <2>4. \A f \in heap' : f[2] = read'[f[1]]
    <3> TAKE f \in heap'
    <3>1. CASE f = <<i, e[2] + 1>>
      BY <3>1, <2>2
    <3>2. CASE f \in heap \ {e}
      <4>1. f[1] \in Sources /\ f = <<f[1], f[2]>> /\ f[2] = read[f[1]]
        BY <3>2, EventOfTape DEF Frontier
      <4>2. f[1] # i
        BY <4>1, <3>2, <1>1
      <4> QED
        BY <4>1, <4>2, <2>2
    <3> QED
      BY <3>1, <3>2, <2>1
  <2>5. ASSUME NEW j \in Sources, HasNext(j)' PROVE <<j, read'[j]>> \in heap'
    <3>1. CASE j = i
      BY <3>1, <2>1, <2>2
    <3>2. CASE j # i
      BY <3>2, <2>1, <2>2, <2>5, <1>1 DEF HasNext, Frontier
    <3> QED
      BY <3>1, <3>2
  <2> QED
    BY <1>1, <2>1, <2>2, <2>3, <2>4, <2>5 DEF Frontier
<1>3. CASE ~HasNext(i)
  <2>1. read' = read /\ heap' = heap \ {e}
    BY <1>3, NextEventDraws
  <2>2. ASSUME NEW j \in Sources, HasNext(j)' PROVE <<j, read'[j]>> \in heap'
    BY <1>1, <1>3, <2>1, <2>2 DEF HasNext, Frontier
  <2> QED
    BY <1>1, <2>1, <2>2 DEF Frontier
<1> QED
  BY <1>2, <1>3

\* The event drawn from e's source has e before it, and e was the least.
LEMMA NextEventKeepsPassed ==
  ASSUME MergeInv, NEW e \in heap, NextEvent(e)
  PROVE  Passed'
<1> DEFINE i == e[1]
           s == <<i, e[2] + 1>>
<1>0. Frontier
  BY DEF MergeInv
<1>1. i \in Sources /\ e = <<i, read[i]>> /\ e[2] \in 1..Len(tape[i]) /\ Len(tape[i]) \in Nat
      /\ tape' = tape
  BY <1>0, NextEventDraws
<1>2. \A f \in heap' : f \in heap \ {e} \/ f = s
  BY <1>0, NextEventDraws
<1>3. \A f \in heap : f[1] \in Sources /\ f = <<f[1], f[2]>> /\ f[2] \in Nat \ {0}
  BY <1>0, EventOfTape DEF Frontier
<1>4. SUFFICES ASSUME NEW f \in heap', NEW g \in heap', f[1] # g[1], NEW m \in 1..(f[2] - 1)
               PROVE  \E n \in 1..g[2] : Before(tape, <<f[1], m>>, <<g[1], n>>)
  BY <1>1 DEF Passed, Before, event_ts, StampOf
<1>5. CASE f \in heap \ {e} /\ g \in heap \ {e}
  BY <1>4, <1>5 DEF MergeInv, Passed
<1>6. CASE f = s /\ g \in heap \ {e}
  <2>1. CASE m = e[2]
    <3>1. Before(tape, e, g)
      BY <1>6 DEF NextEvent, Pops
    <3>2. e = <<f[1], m>> /\ g = <<g[1], g[2]>> /\ g[2] \in 1..g[2]
      BY <2>1, <1>1, <1>3, <1>6
    <3> QED
      BY <3>1, <3>2
  <2>2. CASE m \in 1..(e[2] - 1)
    BY <2>2, <1>4, <1>6 DEF MergeInv, Passed
  <2>3. m = e[2] \/ m \in 1..(e[2] - 1)
    BY <1>1, <1>6
  <2> QED
    BY <2>1, <2>2, <2>3
<1>7. CASE f \in heap \ {e} /\ g = s
  <2>1. PICK n \in 1..e[2] : Before(tape, <<f[1], m>>, <<i, n>>)
    BY <1>4, <1>7 DEF MergeInv, Passed
  <2> QED
    BY <2>1, <1>1, <1>7
<1> QED
  BY <1>2, <1>4, <1>5, <1>6, <1>7

LEMMA NextEventKeepsMergeInv ==
  ASSUME MergeInv, NEW e \in heap, NextEvent(e)
  PROVE  MergeInv'
<1>1. Frontier
  BY DEF MergeInv
<1>2. Frontier'
  BY <1>1, NextEventKeepsFrontier
<1> QED
  BY <1>2, NextEventKeepsPassed DEF MergeInv

-----------------------------------------------------------------------------
\* The least pending event precedes everything still to come.
LEMMA LeastPrecedes ==
  ASSUME MergeInv, NEW e \in heap, NextEvent(e), NEW f \in Left \ {e}
  PROVE  Precedes(e, f)
<1> DEFINE i == e[1]
           j == f[1]
<1>0. Frontier
  BY DEF MergeInv
<1>1. i \in Sources /\ e = <<i, read[i]>> /\ e[2] \in 1..Len(tape[i]) /\ Len(tape[i]) \in Nat
  BY <1>0, NextEventDraws
<1>2. f \in Events(tape)
  BY <1>0 DEF Frontier, Left, Unread
<1>3. j \in Sources /\ f = <<j, f[2]>> /\ f[2] \in 1..Len(tape[j]) /\ Len(tape[j]) \in Nat
  BY <1>0, <1>2, EventOfTape DEF Frontier
<1>4. f \in heap \/ f[2] > read[j]
  BY DEF Left, Unread
<1>5. CASE i = j
  <2>1. f \notin heap
    BY <1>0, <1>1, <1>3, <1>5 DEF Frontier
  <2> QED
    BY <2>1, <1>1, <1>3, <1>4, <1>5 DEF Precedes, Stream!Precedes
<1>6. CASE i # j
  <2> DEFINE g == <<j, read[j]>>
  <2>1. g \in heap /\ read[j] \in Nat /\ read[j] <= f[2]
    BY <1>0, <1>3, <1>4 DEF Frontier, HasNext
  <2>2. Before(tape, e, g)
    BY <2>1, <1>1, <1>6 DEF NextEvent, Pops
  <2>3. read[j] \in 1..f[2]
    BY <1>0, <2>1, <1>3, EventOfTape DEF Frontier
  <2>4. ASSUME NEW m \in 1..e[2] PROVE \E n \in 1..f[2] : Before(tape, <<i, m>>, <<j, n>>)
    <3>1. CASE m = e[2]
      <4>1. Before(tape, <<i, m>>, <<j, read[j]>>)
        BY <3>1, <2>2, <1>1
      <4> QED
        BY <4>1, <2>3
    <3>2. CASE m \in 1..(e[2] - 1)
      <4>1. PICK n \in 1..read[j] : Before(tape, <<i, m>>, <<j, n>>)
        BY <3>2, <2>1, <1>6 DEF MergeInv, Passed
      <4> QED
        BY <4>1, <2>1, <1>3
    <3>3. m = e[2] \/ m \in 1..(e[2] - 1)
      BY <1>1
    <3> QED
      BY <3>1, <3>2, <3>3
  <2> QED
    BY <2>4, <1>6 DEF Precedes, Stream!Precedes, Stream!Before, Before, Stream!event_ts, event_ts,
                      Stream!StampOf, StampOf
<1> QED
  BY <1>5, <1>6

\* What is left loses the event that is returned, and nothing else.
LEMMA LeftLosesOne ==
  ASSUME Frontier, NEW e \in heap, NextEvent(e)
  PROVE  Left' = Left \ {e}
<1> DEFINE i == e[1]
<1>1. i \in Sources /\ e = <<i, read[i]>> /\ e[2] \in 1..Len(tape[i]) /\ Len(tape[i]) \in Nat
      /\ tape' = tape
  BY NextEventDraws
<1>2. \A f \in Events(tape) : f[1] \in Sources /\ f = <<f[1], f[2]>> /\ f[2] \in Nat
  BY EventOfTape DEF Frontier
<1>3. CASE HasNext(i)
  <2>1. read' = [read EXCEPT ![i] = e[2] + 1]
        /\ heap' = (heap \ {e}) \cup {<<i, e[2] + 1>>}
    BY <1>3, NextEventDraws
  <2>2. Unread' = Unread \ {<<i, e[2] + 1>>}
    <3>1. ASSUME NEW f \in Events(tape)
          PROVE  f[2] > read'[f[1]] <=> f[2] > read[f[1]] /\ f # <<i, e[2] + 1>>
      BY <1>1, <1>2, <2>1, <3>1 DEF Frontier
    <3> QED
      BY <3>1, <1>1 DEF Unread, Events
  <2>3. <<i, e[2] + 1>> \in Unread
    <3>1. e[2] + 1 \in 1..Len(tape[i]) /\ e[2] + 1 > read[i]
      BY <1>1, <1>3 DEF HasNext
    <3>2. <<i, e[2] + 1>> \in Events(tape)
      BY <3>1, <1>1, EventOfTape DEF Frontier
    <3> QED
      BY <3>1, <3>2 DEF Unread
  <2>4. e \notin Unread
    BY <1>1 DEF Unread
  <2> QED
    BY <2>1, <2>2, <2>3, <2>4 DEF Left
<1>4. CASE ~HasNext(i)
  <2>1. read' = read /\ heap' = heap \ {e}
    BY <1>4, NextEventDraws
  <2>2. Unread' = Unread /\ e \notin Unread
    BY <2>1, <1>1 DEF Unread, Events
  <2> QED
    BY <2>1, <2>2 DEF Left
<1> QED
  BY <1>3, <1>4

\* A step of the loop pops an event or leaves the merge alone.
LEMMA LoopSteps ==
  ASSUME [Next]_vars
  PROVE  \/ \E e \in heap : NextEvent(e)
         \/ UNCHANGED mergeVars
<1>1. CASE \E e \in heap : Skip(e) \/ Accept(e)
  BY <1>1 DEF Skip, Accept, Looks, Tracked
<1>2. CASE SetCancel \/ Process \/ Exhausted \/ Finish \/ UNCHANGED vars
  BY <1>2 DEF SetCancel, Process, Exhausted, Finish, vars
<1> QED
  BY <1>1, <1>2 DEF Next

LEMMA StepPreservesMergeInv == MergeInv /\ [Next]_vars => MergeInv'
<1> SUFFICES ASSUME MergeInv, [Next]_vars PROVE MergeInv'
  OBVIOUS
<1>1. CASE \E e \in heap : NextEvent(e)
  BY <1>1, NextEventKeepsMergeInv
<1>2. CASE UNCHANGED mergeVars
  BY <1>2 DEF mergeVars, MergeInv, Frontier, Passed, HasNext, Before, event_ts, StampOf, Events
<1> QED
  BY <1>1, <1>2, LoopSteps

\* MergeSourceStream::next: the heap holds the next event of each source, and what
\* it returned is what comes before those in the tapes, sorted or not.
THEOREM MergeInvHolds == Spec => []MergeInv
<1>1. Init => MergeInv
  BY InitEstablishesMergeInv DEF Init
<1> QED
  BY <1>1, StepPreservesMergeInv, PTL DEF Spec

\* run_merged_replay reads the stable stream of its sources, whatever their tapes
\* hold: the heap of pending events is invisible to the loop.
THEOREM FeedImplementsStableStream == Spec => Implements
<1>1. Init => Stream!StreamInit
  <2> SUFFICES ASSUME Init PROVE Stream!StreamInit
    OBVIOUS
  <2>1. tape \in [Sources -> Seq(Stamps)]
    BY TapesAssumption DEF Init, MergeInit
  <2>2. ASSUME NEW e \in Events(tape) PROVE e[2] = 1 \/ e[2] > read[e[1]]
    BY <2>1, <2>2, EventOfTape DEF Init, MergeInit, Opened
  <2>3. heap \cup Unread = Events(tape)
    BY <2>2 DEF Init, MergeInit, Unread
  <2> QED
    BY <2>3 DEF Init, MergeInit, Stream!StreamInit, Stream!Events, Events
<1>2. MergeInv /\ [Next]_vars => [\E e \in Left : Stream!Deliver(e)]_(Stream!streamVars)
  <2> SUFFICES ASSUME MergeInv, [Next]_vars
               PROVE  [\E e \in Left : Stream!Deliver(e)]_(Stream!streamVars)
    OBVIOUS
  <2>1. CASE \E e \in heap : NextEvent(e)
    <3>1. PICK e \in heap : NextEvent(e)
      BY <2>1
    <3>2. e \in Left /\ \A f \in Left \ {e} : Stream!Precedes(e, f)
      BY <3>1, LeastPrecedes DEF Left, Precedes
    <3>3. Left' = Left \ {e}
      BY <3>1, LeftLosesOne DEF MergeInv
    <3> QED
      BY <3>1, <3>2, <3>3 DEF NextEvent, Pops, Stream!Deliver, Left
  <2>2. CASE UNCHANGED mergeVars
    BY <2>2 DEF mergeVars, Stream!streamVars, Unread, Events
  <2> QED
    BY <2>1, <2>2, LoopSteps
<1> QED
  BY <1>1, <1>2, MergeInvHolds, PTL DEF Spec, Implements, Stream!StreamSpec, Left

-----------------------------------------------------------------------------
\* What came out came in the order of the stream, before all that is left.
Ordered ==
  /\ out \in Seq(Events(tape))
  /\ \A n \in 1..Len(out) : \A m \in 1..(n - 1) : Precedes(out[m], out[n])
  /\ \A n \in 1..Len(out), f \in Left : Precedes(out[n], f)

\* Every event is out or left.
Complete == Events(tape) = {out[n] : n \in 1..Len(out)} \cup Left

OrderInv == MergeInv /\ Ordered /\ Complete

LEMMA NextEventKeepsOrder ==
  ASSUME OrderInv, NEW e \in heap, NextEvent(e)
  PROVE  Ordered' /\ Complete'
<1>1. Left' = Left \ {e} /\ e \in Left /\ tape' = tape /\ Events(tape)' = Events(tape)
  BY LeftLosesOne DEF OrderInv, MergeInv, Left, NextEvent, Pops, Events
<1>2. e \in Events(tape)
  BY DEF OrderInv, MergeInv, Frontier
<1>3. out' = Append(out, e) /\ out \in Seq(Events(tape))
  BY DEF NextEvent, Pops, OrderInv, Ordered
<1>4. out' \in Seq(Events(tape)) /\ Len(out') = Len(out) + 1 /\ out'[Len(out) + 1] = e
      /\ \A n \in 1..Len(out) : out'[n] = out[n]
  BY <1>2, <1>3, AppendProperties
<1>5. \A f, g : Precedes(f, g)' <=> Precedes(f, g)
  BY <1>1 DEF Precedes, Stream!Precedes, Stream!Before, Stream!event_ts, Stream!StampOf
<1>6. Len(out) \in Nat
  BY <1>3
<1>7. ASSUME NEW n \in 1..Len(out'), NEW m \in 1..(n - 1) PROVE Precedes(out'[m], out'[n])
  <2>1. CASE n = Len(out) + 1
    BY <2>1, <1>1, <1>4, <1>6 DEF OrderInv, Ordered
  <2>2. CASE n \in 1..Len(out)
    BY <2>2, <1>4, <1>6 DEF OrderInv, Ordered
  <2> QED
    BY <2>1, <2>2, <1>4, <1>6
<1>8. ASSUME NEW n \in 1..Len(out'), NEW f \in Left' PROVE Precedes(out'[n], f)
  <2>1. CASE n = Len(out) + 1
    BY <2>1, <1>1, <1>4, LeastPrecedes DEF OrderInv
  <2>2. CASE n \in 1..Len(out)
    BY <2>2, <1>1, <1>4 DEF OrderInv, Ordered
  <2> QED
    BY <2>1, <2>2, <1>4, <1>6
<1>9. Ordered'
  BY <1>1, <1>4, <1>5, <1>7, <1>8 DEF Ordered
<1>10. {out'[n] : n \in 1..Len(out')} = {out[n] : n \in 1..Len(out)} \cup {e}
  BY <1>4, <1>6
<1>11. Complete'
  BY <1>1, <1>10 DEF Complete, OrderInv
<1> QED
  BY <1>9, <1>11

LEMMA StepPreservesOrderInv == OrderInv /\ [Next]_vars => OrderInv'
<1> SUFFICES ASSUME OrderInv, [Next]_vars PROVE OrderInv'
  OBVIOUS
<1>1. MergeInv'
  BY StepPreservesMergeInv DEF OrderInv
<1>2. CASE \E e \in heap : NextEvent(e)
  BY <1>1, <1>2, NextEventKeepsOrder DEF OrderInv
<1>3. CASE UNCHANGED mergeVars
  <2>1. Left' = Left
    BY <1>3 DEF mergeVars, Left, Unread, Events
  <2>2. \A f, g : Precedes(f, g)' <=> Precedes(f, g)
    BY <1>3 DEF mergeVars, Precedes, Stream!Precedes, Stream!Before, Stream!event_ts, Stream!StampOf
  <2> QED
    BY <1>1, <1>3, <2>1, <2>2 DEF mergeVars, OrderInv, Ordered, Complete, Events
<1> QED
  BY <1>2, <1>3, LoopSteps

LEMMA InitEstablishesOrderInv == Init => OrderInv
<1> SUFFICES ASSUME Init PROVE OrderInv
  OBVIOUS
<1>1. MergeInv
  BY InitEstablishesMergeInv DEF Init
<1>2. out = <<>>
  BY DEF Init, MergeInit
<1>3. ASSUME NEW e \in Events(tape) PROVE e[2] = 1 \/ e[2] > read[e[1]]
  <2>1. e[1] \in Sources /\ e[2] \in 1..Len(tape[e[1]]) /\ Len(tape[e[1]]) \in Nat
    BY <1>1, EventOfTape DEF MergeInv, Frontier
  <2> QED
    BY <2>1 DEF Init, MergeInit, Opened
<1>4. Left = Events(tape)
  BY <1>3 DEF Init, MergeInit, Left, Unread
<1>5. out \in Seq(Events(tape)) /\ Len(out) = 0
  BY <1>2
<1> QED
  BY <1>1, <1>4, <1>5 DEF OrderInv, Ordered, Complete

\* Over sorted tapes, what MergeSourceStream::next has returned is in order and
\* before all that is still to come.
THEOREM OrderInvHolds == Spec => []OrderInv
BY InitEstablishesOrderInv, StepPreservesOrderInv, PTL DEF Spec

\* In sorted tapes, what falls due before something else comes before it.
LEMMA DueIsBefore ==
  ASSUME tape \in [Sources -> Seq(Stamps)], Sorted(tape),
         NEW e \in Events(tape), NEW f \in Events(tape), Precedes(e, f)
  PROVE  Before(tape, e, f) \/ (e[1] = f[1] /\ e[2] < f[2])
<1> DEFINE i == e[1]
           j == f[1]
<1>1. i \in Sources /\ e = <<i, e[2]>> /\ e[2] \in 1..Len(tape[i])
      /\ j \in Sources /\ f = <<j, f[2]>> /\ f[2] \in 1..Len(tape[j])
      /\ Len(tape[i]) \in Nat /\ Len(tape[j]) \in Nat
  BY EventOfTape
<1>2. CASE i = j
  BY <1>2 DEF Precedes, Stream!Precedes
<1>3. CASE i # j
  <2>1. PICK n \in 1..f[2] : Before(tape, <<i, e[2]>>, <<j, n>>)
    BY <1>1, <1>3 DEF Precedes, Stream!Precedes, Stream!Before, Before, Stream!event_ts, event_ts,
                      Stream!StampOf, StampOf
  <2>2. n \in 1..Len(tape[j]) /\ n <= f[2]
    BY <1>1
  <2>3. event_ts(tape, <<j, n>>) <= event_ts(tape, f)
    BY <1>1, <2>2 DEF Sorted, SortedTape
  <2>4. event_ts(tape, <<j, n>>) \in Int /\ event_ts(tape, f) \in Int /\ event_ts(tape, e) \in Int
    BY <1>1, <2>2, InstantOfEvent
  <2>5. \/ event_ts(tape, e) < event_ts(tape, <<j, n>>)
        \/ event_ts(tape, e) = event_ts(tape, <<j, n>>) /\ i < j
    BY <1>1, <2>1 DEF Before
  <2>6. event_ts(tape, e) < event_ts(tape, f) \/ (event_ts(tape, e) = event_ts(tape, f) /\ i < j)
    BY <2>3, <2>4, <2>5
  <2> QED
    BY <2>6 DEF Before
<1> QED
  BY <1>2, <1>3

\* Sorted tapes merge into one order: by instant, then by source.
THEOREM SortedTapesMergeInOrder == Spec => []MergedInOrder
<1>1. OrderInv => MergedInOrder
  <2> SUFFICES ASSUME OrderInv, Sorted(tape), NEW m \in 1..Len(out), NEW n \in 1..Len(out), m < n
               PROVE  \/ Before(tape, out[m], out[n])
                      \/ out[m][1] = out[n][1] /\ out[m][2] < out[n][2]
    BY DEF MergedInOrder
  <2>1. out[m] \in Events(tape) /\ out[n] \in Events(tape) /\ m \in 1..(n - 1)
    BY DEF OrderInv, Ordered
  <2>2. Precedes(out[m], out[n])
    BY <2>1 DEF OrderInv, Ordered
  <2> QED
    BY <2>1, <2>2, DueIsBefore DEF OrderInv, MergeInv, Frontier
<1> QED
  BY <1>1, OrderInvHolds, PTL

\* No event is left when the heap has run dry.
Drained == heap = {} => {out[n] : n \in 1..Len(out)} = Events(tape)

LEMMA LeftIsEmpty ==
  ASSUME OrderInv, heap = {}
  PROVE  Left = {}
<1>1. ASSUME NEW f \in Unread PROVE FALSE
  <2>1. f[1] \in Sources /\ f[2] \in 1..Len(tape[f[1]]) /\ Len(tape[f[1]]) \in Nat
    BY <1>1, EventOfTape DEF Unread, OrderInv, MergeInv, Frontier
  <2>2. HasNext(f[1])
    BY <1>1, <2>1 DEF Unread, HasNext, OrderInv, MergeInv, Frontier
  <2> QED
    BY <2>1, <2>2 DEF OrderInv, MergeInv, Frontier
<1> QED
  BY <1>1 DEF Left

\* MergeSourceStream::next: when the heap has run dry, every event of every tape
\* has been returned.
THEOREM NothingIsLost == Spec => []Drained
<1>1. OrderInv => Drained
  BY LeftIsEmpty DEF Drained, OrderInv, Complete
<1> QED
  BY <1>1, OrderInvHolds, PTL

-----------------------------------------------------------------------------
\* The count of late events never passes the position in the stride.
CancelInv ==
  /\ accepted \in Nat
  /\ late \in Nat
  /\ late < Stride
  /\ cancel # "set" => late = 0
  /\ phase # "cancelled" => late <= accepted % Stride
  /\ phase = "cancelled" => cancel = "set"

LEMMA Products ==
  ASSUME NEW a \in Nat, NEW b \in Nat
  PROVE  a * b \in Nat
OBVIOUS

LEMMA StrideStep ==
  ASSUME NEW n \in Nat
  PROVE  /\ n % Stride \in 0..(Stride - 1)
         /\ (n + 1) % Stride = 0 \/ (n + 1) % Stride = (n % Stride) + 1
<1> DEFINE S == Stride
           q == n \div S
           r == n % S
           p == (n + 1) \div S
           s == (n + 1) % S
           d == p - q
<1>1. S \in Nat \ {0}
  BY StrideAssumption
<1>2. q \in Int /\ r \in 0..(S - 1) /\ n = S * q + r
  BY <1>1
<1>3. p \in Int /\ s \in 0..(S - 1) /\ n + 1 = S * p + s
  BY <1>1
<1> HIDE DEF S, q, r, p, s
<1>4. d \in Int /\ S * p = S * q + S * d
  BY <1>1, <1>2, <1>3
<1>5. S * d = r + 1 - s
  BY <1>1, <1>2, <1>3, <1>4
<1>6. CASE d = 0
  BY <1>1, <1>2, <1>3, <1>5, <1>6 DEF S, r, s
<1>7. CASE d = 1
  BY <1>1, <1>2, <1>3, <1>5, <1>7 DEF S, r, s
<1>8. CASE d - 2 \in Nat
  <2>1. S * (d - 2) \in Nat /\ S * (d - 2) = S * d - 2 * S
    BY <1>1, <1>4, <1>8, Products
  <2> QED
    BY <2>1, <1>1, <1>2, <1>3, <1>5
<1>9. CASE -d - 1 \in Nat
  <2>1. S * (-d - 1) \in Nat /\ S * (-d - 1) = -(S * d) - S
    BY <1>1, <1>4, <1>9, Products
  <2> QED
    BY <2>1, <1>1, <1>2, <1>3, <1>5
<1> QED
  BY <1>4, <1>6, <1>7, <1>8, <1>9

LEMMA StepPreservesCancelInv == CancelInv /\ [Next]_vars => CancelInv'
<1> SUFFICES ASSUME CancelInv, [Next]_vars PROVE CancelInv'
  OBVIOUS
<1>0. Stride \in Nat \ {0}
  BY StrideAssumption
<1>1. CASE \E e \in heap : Accept(e)
  <2>1. PICK e \in heap : Accept(e)
    BY <1>1
  <2>2. accepted' = accepted + 1 /\ cancel' = cancel /\ phase = "reading"
    BY <2>1 DEF Accept, Looks, Tracked
  <2>3. /\ accepted % Stride \in 0..(Stride - 1)
        /\ accepted' % Stride = 0 \/ accepted' % Stride = (accepted % Stride) + 1
        /\ accepted' % Stride \in 0..(Stride - 1)
    BY <2>2, StrideStep DEF CancelInv
  <2>4. CASE accepted' % Stride = 0 /\ cancel = "set"
    <3>1. phase' = "cancelled" /\ late' = late
      BY <2>1, <2>4 DEF Accept, Looks, Tracked
    <3> QED
      BY <3>1, <2>2, <2>4 DEF CancelInv
  <2>5. CASE ~(accepted' % Stride = 0 /\ cancel = "set")
    <3>1. phase' = "processing" /\ late' = IF cancel = "set" THEN late + 1 ELSE late
      BY <2>1, <2>5 DEF Accept, Looks, Tracked
    <3> QED
      BY <3>1, <1>0, <2>2, <2>3, <2>5 DEF CancelInv
  <2> QED
    BY <2>4, <2>5
<1>2. CASE SetCancel
  BY <1>2 DEF SetCancel, CancelInv
<1>3. CASE \E e \in heap : Skip(e)
  BY <1>3 DEF Skip, CancelInv
<1>4. CASE Process \/ Exhausted \/ Finish
  BY <1>4 DEF Process, Exhausted, Finish, CancelInv
<1>5. CASE UNCHANGED vars
  BY <1>5 DEF vars, loopVars, CancelInv
<1> QED
  BY <1>1, <1>2, <1>3, <1>4, <1>5 DEF Next

\* The loop looks at the cancel flag once per stride of accepted events: it stops
\* before a whole stride follows the moment the flag is set.
THEOREM CancelIsNoticed == Spec => []CancelIsHeeded
<1>1. Init => CancelInv
  <2>1. Stride \in Nat \ {0} /\ 0 % Stride \in 0..(Stride - 1)
    BY StrideAssumption, StrideStep
  <2> QED
    BY <2>1 DEF Init, CancelInv
<1>2. CancelInv => CancelIsHeeded
  BY DEF CancelInv, CancelIsHeeded
<1> QED
  BY <1>1, <1>2, StepPreservesCancelInv, PTL DEF Spec

-----------------------------------------------------------------------------
Instant == Int \cup {NoTime}

\* Each returned event was taken at one instant, its own when it has one.
Stamped ==
  /\ drawn \in Seq(Int)
  /\ Len(drawn) = Len(out)
  /\ AllTimed => \A n \in 1..Len(out) : drawn[n] = event_ts(tape, out[n])

\* The range is empty until an event is processed, then ends at a drawn instant.
Spanned ==
  /\ processed \in Seq(1..Len(drawn))
  /\ curve \in Seq(Int)
  /\ span \in [first : Instant, last : Instant]
  /\ phase = "processing" => span.last # NoTime
  /\ span.last = NoTime => span.first = NoTime /\ processed = <<>> /\ curve = <<>>
  /\ span.last # NoTime =>
       span.first # NoTime /\ \E n \in 1..Len(drawn) : span.last = drawn[n]

InOrder ==
  /\ span.last # NoTime => span.first <= span.last
  /\ \A n \in 1..Len(processed) :
       span.first <= drawn[processed[n]] /\ drawn[processed[n]] <= span.last
  /\ \A n \in 1..Len(curve) : span.first <= curve[n] /\ curve[n] <= span.last
  /\ \A m, n \in 1..Len(curve) : m < n => curve[m] <= curve[n]

ReportInv == OrderInv /\ Stamped /\ Spanned /\ (Sorted(tape) /\ AllTimed => InOrder)

LEMMA InstantOfDraw ==
  ASSUME MergeInv, NEW e \in heap, NEW ts \in Instants(e)
  PROVE  ts \in Int /\ (AllTimed => ts = event_ts(tape, e))
<1>1. e \in Events(tape) /\ tape \in [Sources -> Seq(Stamps)]
  BY DEF MergeInv, Frontier
<1>2. PICK i \in Sources : \E n \in 1..Len(tape[i]) : e = <<i, n>>
  BY <1>1, EventOfTape
<1>3. StampOf(tape, e) \in Stamps
  BY <1>1, <1>2, ElementOfSeq DEF StampOf
<1>4. ts \in Int
  BY <1>3, TimesAssumption, WallClockAssumption DEF Instants, Stamps
<1>5. AllTimed => ts = event_ts(tape, e)
  BY <1>1 DEF AllTimed, Timed, Instants, event_ts
<1> QED
  BY <1>4, <1>5

\* In sorted, dated tapes no event is drawn at an earlier instant than another.
LEMMA DrawnAscend ==
  ASSUME MergeInv, Ordered, Stamped, Sorted(tape), AllTimed,
         NEW e \in heap, NEW ts \in Instants(e), NEW n \in 1..Len(drawn)
  PROVE  drawn[n] <= ts
<1>1. out[n] \in Events(tape) /\ drawn[n] = event_ts(tape, out[n]) /\ drawn[n] \in Int
  BY DEF Stamped, Ordered
<1>2. ts = event_ts(tape, e) /\ ts \in Int
  BY InstantOfDraw
<1>3. e \in Events(tape) /\ e \in Left /\ tape \in [Sources -> Seq(Stamps)]
  BY DEF Left, MergeInv, Frontier
<1>4. Precedes(out[n], e)
  BY <1>3 DEF Ordered, Stamped
<1>5. Before(tape, out[n], e) \/ (out[n][1] = e[1] /\ out[n][2] < e[2])
  BY <1>1, <1>3, <1>4, DueIsBefore
<1>6. CASE Before(tape, out[n], e)
  BY <1>1, <1>2, <1>6 DEF Before
<1>7. CASE out[n][1] = e[1] /\ out[n][2] < e[2]
  <2>1. PICK i \in Sources : \E k \in 1..Len(tape[i]) : e = <<i, k>>
    BY <1>3, EventOfTape
  <2>2. PICK j \in Sources : \E k \in 1..Len(tape[j]) : out[n] = <<j, k>>
    BY <1>1, <1>3, EventOfTape
  <2>3. event_ts(tape, out[n]) <= event_ts(tape, e)
    BY <1>7, <2>1, <2>2 DEF Sorted, SortedTape
  <2> QED
    BY <2>3, <1>1, <1>2
<1> QED
  BY <1>5, <1>6, <1>7

\* A draw stamps the event it returns.
LEMMA DrawKeepsStamped ==
  ASSUME OrderInv, Stamped, NEW e \in heap, NextEvent(e),
         NEW ts \in Instants(e), drawn' = Append(drawn, ts)
  PROVE  /\ Stamped'
         /\ Len(drawn') = Len(drawn) + 1 /\ Len(drawn) \in Nat /\ drawn'[Len(drawn) + 1] = ts
         /\ \A n \in 1..Len(drawn) : drawn'[n] = drawn[n]
         /\ drawn' \in Seq(Int) /\ ts \in Int
         /\ (Sorted(tape)' <=> Sorted(tape)) /\ (AllTimed' <=> AllTimed)
<1>1. ts \in Int /\ (AllTimed => ts = event_ts(tape, e))
  BY InstantOfDraw DEF OrderInv
<1>2. drawn' \in Seq(Int) /\ Len(drawn') = Len(drawn) + 1 /\ Len(drawn) \in Nat
      /\ drawn'[Len(drawn) + 1] = ts /\ \A n \in 1..Len(drawn) : drawn'[n] = drawn[n]
  BY <1>1, AppendProperties DEF Stamped
<1>3. e \in Events(tape) /\ out' = Append(out, e) /\ out \in Seq(Events(tape)) /\ tape' = tape
  BY DEF OrderInv, MergeInv, Frontier, Ordered, NextEvent, Pops
<1>4. Len(out') = Len(out) + 1 /\ out'[Len(out) + 1] = e
      /\ \A n \in 1..Len(out) : out'[n] = out[n]
  BY <1>3, AppendProperties
<1>5. (AllTimed' <=> AllTimed) /\ (Sorted(tape)' <=> Sorted(tape))
      /\ \A f : event_ts(tape, f)' = event_ts(tape, f)
  BY <1>3 DEF AllTimed, Timed, Sorted, SortedTape, event_ts, StampOf, Events
<1>6. Stamped'
  <2> SUFFICES ASSUME AllTimed, NEW n \in 1..Len(out')
               PROVE  drawn'[n] = event_ts(tape, out'[n])
    BY <1>2, <1>3, <1>4, <1>5 DEF Stamped
  <2>1. CASE n = Len(out) + 1
    BY <2>1, <1>1, <1>2, <1>4 DEF Stamped
  <2>2. CASE n \in 1..Len(out)
    BY <2>2, <1>2, <1>4 DEF Stamped
  <2> QED
    BY <2>1, <2>2, <1>4, <1>2 DEF Stamped
<1> QED
  BY <1>1, <1>2, <1>5, <1>6

\* A dropped event is drawn and changes nothing else.
LEMMA SkipKeepsReportInv ==
  ASSUME ReportInv, NEW e \in heap, Skip(e)
  PROVE  Stamped' /\ Spanned' /\ (Sorted(tape)' /\ AllTimed' => InOrder')
<1>1. PICK ts \in Instants(e) : drawn' = Append(drawn, ts)
  BY DEF Skip
<1>2. NextEvent(e) /\ phase' = phase /\ processed' = processed /\ span' = span /\ curve' = curve
  BY DEF Skip
<1>3. Stamped' /\ Len(drawn') = Len(drawn) + 1 /\ Len(drawn) \in Nat
      /\ (\A n \in 1..Len(drawn) : drawn'[n] = drawn[n])
      /\ (Sorted(tape)' <=> Sorted(tape)) /\ (AllTimed' <=> AllTimed)
  BY <1>1, <1>2, DrawKeepsStamped DEF ReportInv
<1>4. processed \in Seq(1..Len(drawn)) /\ \A n \in 1..Len(processed) : processed[n] \in 1..Len(drawn)
  BY ElementOfSeq DEF ReportInv, Spanned
<1>5. processed' \in Seq(1..Len(drawn'))
  <2>1. 1..Len(drawn) \subseteq 1..Len(drawn')
    BY <1>3
  <2> QED
    BY <2>1, <1>2, <1>4, SeqMonotonic
<1>6. Spanned'
  <2>1. Spanned
    BY DEF ReportInv
  <2>2. span.last # NoTime => \E n \in 1..Len(drawn') : span.last = drawn'[n]
    <3> SUFFICES ASSUME span.last # NoTime
                 PROVE  \E n \in 1..Len(drawn') : span.last = drawn'[n]
      OBVIOUS
    <3>1. PICK n \in 1..Len(drawn) : span.last = drawn[n]
      BY <2>1 DEF Spanned
    <3> QED
      BY <3>1, <1>3
  <2> QED
    BY <2>1, <2>2, <1>2, <1>5 DEF Spanned
<1>7. Sorted(tape) /\ AllTimed => InOrder'
  BY <1>2, <1>3, <1>4 DEF ReportInv, InOrder
<1> QED
  BY <1>3, <1>6, <1>7

\* An accepted event extends the range, unless the run is cancelled at it.
LEMMA AcceptKeepsReportInv ==
  ASSUME ReportInv, NEW e \in heap, Accept(e)
  PROVE  Stamped' /\ Spanned' /\ (Sorted(tape)' /\ AllTimed' => InOrder')
<1>1. PICK ts \in Instants(e) :
        /\ drawn' = Append(drawn, ts)
        /\ \/ phase' = "cancelled" /\ UNCHANGED <<processed, span>>
           \/ /\ phase' = "processing"
              /\ processed' = Append(processed, Len(drawn'))
              /\ span' = [first |-> IF span.first = NoTime THEN ts ELSE span.first, last |-> ts]
  BY DEF Accept, Looks, Tracked
<1>2. NextEvent(e) /\ curve' = curve
  BY DEF Accept, Looks, Tracked
<1>3. Stamped' /\ Len(drawn') = Len(drawn) + 1 /\ Len(drawn) \in Nat
      /\ drawn'[Len(drawn) + 1] = ts /\ ts \in Int
      /\ (\A n \in 1..Len(drawn) : drawn'[n] = drawn[n])
      /\ (Sorted(tape)' <=> Sorted(tape)) /\ (AllTimed' <=> AllTimed)
  BY <1>1, <1>2, DrawKeepsStamped DEF ReportInv
<1>4. processed \in Seq(1..Len(drawn)) /\ \A n \in 1..Len(processed) : processed[n] \in 1..Len(drawn)
  BY ElementOfSeq DEF ReportInv, Spanned
<1>5. processed \in Seq(1..Len(drawn'))
  <2>1. 1..Len(drawn) \subseteq 1..Len(drawn')
    BY <1>3
  <2> QED
    BY <2>1, <1>4, SeqMonotonic
<1>6. ts # NoTime
  BY <1>3, TimesAssumption DEF NoTime
<1>7. CASE phase' = "cancelled" /\ UNCHANGED <<processed, span>>
  <2>1. Spanned'
    <3>1. Spanned
      BY DEF ReportInv
    <3>2. span.last # NoTime => \E n \in 1..Len(drawn') : span.last = drawn'[n]
      <4> SUFFICES ASSUME span.last # NoTime
                   PROVE  \E n \in 1..Len(drawn') : span.last = drawn'[n]
        OBVIOUS
      <4>1. PICK n \in 1..Len(drawn) : span.last = drawn[n]
        BY <3>1 DEF Spanned
      <4> QED
        BY <4>1, <1>3
    <3>3. processed' \in Seq(1..Len(drawn'))
      BY <1>3, <1>5, <1>7
    <3> QED
      BY <3>1, <3>2, <3>3, <1>2, <1>7 DEF Spanned
  <2>2. Sorted(tape) /\ AllTimed => InOrder'
    BY <1>2, <1>3, <1>4, <1>7 DEF ReportInv, InOrder
  <2> QED
    BY <2>1, <2>2, <1>3
<1>8. CASE /\ phase' = "processing"
           /\ processed' = Append(processed, Len(drawn'))
           /\ span' = [first |-> IF span.first = NoTime THEN ts ELSE span.first, last |-> ts]
  <2>1. processed' \in Seq(1..Len(drawn')) /\ Len(processed') = Len(processed) + 1
        /\ Len(processed) \in Nat /\ processed'[Len(processed) + 1] = Len(drawn')
        /\ \A n \in 1..Len(processed) : processed'[n] = processed[n]
    BY <1>3, <1>5, <1>8, AppendProperties
  <2>2. span'.last = ts /\ span'.first = IF span.first = NoTime THEN ts ELSE span.first
    BY <1>8
  <2>3. Spanned'
    <3>1. span' \in [first : Instant, last : Instant]
      BY <1>3, <1>8 DEF ReportInv, Spanned, Instant
    <3>2. span'.last # NoTime /\ span'.first # NoTime
      BY <1>6, <2>2
    <3>3. Len(drawn') \in 1..Len(drawn') /\ span'.last = drawn'[Len(drawn')]
      BY <1>3, <2>2
    <3> QED
      BY <1>2, <2>1, <3>1, <3>2, <3>3 DEF ReportInv, Spanned
  <2>4. ASSUME Sorted(tape), AllTimed PROVE InOrder'
    <3>1. \A n \in 1..Len(drawn) : drawn[n] <= ts
      BY <1>2, <2>4, DrawnAscend DEF ReportInv, OrderInv
    <3>2. CASE span.last = NoTime
      <4>1. span'.first = ts /\ Len(processed) = 0 /\ Len(curve) = 0
        BY <2>2, <3>2 DEF ReportInv, Spanned
      <4>2. Len(processed') = 1 /\ drawn'[processed'[1]] = ts
        BY <4>1, <2>1, <1>3
      <4> QED
        BY <4>1, <4>2, <1>2, <1>3, <2>2 DEF InOrder
    <3>3. CASE span.last # NoTime
      <4>1. span.last <= ts /\ span.first \in Int /\ span.last \in Int
        BY <3>1, <3>3 DEF ReportInv, Spanned, Instant
      <4>2. span.first <= span.last /\ span'.first = span.first /\ span.first <= ts
        BY <2>2, <2>4, <3>3, <4>1, <1>3 DEF ReportInv, Spanned, InOrder
      <4>3. ASSUME NEW n \in 1..Len(processed')
            PROVE  span'.first <= drawn'[processed'[n]] /\ drawn'[processed'[n]] <= span'.last
        <5>1. CASE n = Len(processed) + 1
          BY <5>1, <1>3, <2>1, <2>2, <4>2
        <5>2. CASE n \in 1..Len(processed)
          BY <5>2, <1>3, <1>4, <2>1, <2>2, <2>4, <3>1, <4>2 DEF ReportInv, InOrder
        <5> QED
          BY <5>1, <5>2, <2>1
      <4>4. \A n \in 1..Len(curve) : span'.first <= curve[n] /\ curve[n] <= span'.last
        <5> TAKE n \in 1..Len(curve)
        <5>1. curve[n] \in Int
          BY DEF ReportInv, Spanned
        <5> QED
          BY <5>1, <1>3, <2>2, <2>4, <4>1, <4>2 DEF ReportInv, InOrder
      <4> QED
        BY <1>2, <2>2, <2>4, <4>2, <4>3, <4>4 DEF ReportInv, InOrder
    <3> QED
      BY <3>2, <3>3
  <2> QED
    BY <2>3, <2>4, <1>3
<1> QED
  BY <1>1, <1>7, <1>8

\* A sample is taken at the end of the range.
LEMMA SampleKeepsReportInv ==
  ASSUME ReportInv, span.last # NoTime, RecordEquity(span.last), UNCHANGED <<mergeVars, drawn, processed, span>>,
         phase' # "processing"
  PROVE  Stamped' /\ Spanned' /\ (Sorted(tape)' /\ AllTimed' => InOrder')
<1>1. Stamped' /\ (Sorted(tape)' <=> Sorted(tape)) /\ (AllTimed' <=> AllTimed)
  BY DEF ReportInv, Stamped, mergeVars, AllTimed, Timed, Sorted, SortedTape, event_ts, StampOf, Events
<1>2. CASE curve' = curve
  BY <1>1, <1>2 DEF ReportInv, Spanned, InOrder
<1>3. CASE curve' = Append(curve, span.last)
  <2>1. span.last \in Int /\ span.first \in Int /\ curve \in Seq(Int)
    BY DEF ReportInv, Spanned, Instant
  <2>2. curve' \in Seq(Int) /\ Len(curve') = Len(curve) + 1 /\ Len(curve) \in Nat
        /\ curve'[Len(curve) + 1] = span.last
        /\ \A n \in 1..Len(curve) : curve'[n] = curve[n] /\ curve[n] \in Int
    BY <2>1, <1>3, AppendProperties
  <2>3. Spanned'
    BY <2>2 DEF ReportInv, Spanned
  <2>4. ASSUME Sorted(tape), AllTimed PROVE InOrder'
    <3>1. InOrder /\ span' = span /\ processed' = processed /\ drawn' = drawn
      BY <2>4 DEF ReportInv
    <3>2. ASSUME NEW n \in 1..Len(curve') PROVE span.first <= curve'[n] /\ curve'[n] <= span.last
      <4>1. CASE n = Len(curve) + 1
        BY <4>1, <2>1, <2>2, <3>1 DEF InOrder
      <4>2. CASE n \in 1..Len(curve)
        BY <4>2, <2>2, <3>1 DEF InOrder
      <4> QED
        BY <4>1, <4>2, <2>2
    <3>3. ASSUME NEW m \in 1..Len(curve'), NEW n \in 1..Len(curve'), m < n
          PROVE  curve'[m] <= curve'[n]
      <4>1. CASE n = Len(curve) + 1
        BY <4>1, <2>2, <3>2
      <4>2. CASE n \in 1..Len(curve)
        BY <4>2, <2>2, <3>1, <3>3 DEF InOrder
      <4> QED
        BY <4>1, <4>2, <2>2
    <3> QED
      BY <3>1, <3>2, <3>3 DEF InOrder
  <2> QED
    BY <1>1, <2>3, <2>4
<1> QED
  BY <1>2, <1>3 DEF RecordEquity

LEMMA StepPreservesReportInv == ReportInv /\ [Next]_vars => ReportInv'
<1> SUFFICES ASSUME ReportInv, [Next]_vars PROVE ReportInv'
  OBVIOUS
<1>1. OrderInv'
  BY StepPreservesOrderInv DEF ReportInv
<1> SUFFICES Stamped' /\ Spanned' /\ (Sorted(tape)' /\ AllTimed' => InOrder')
  BY <1>1 DEF ReportInv
<1>2. CASE \E e \in heap : Skip(e)
  BY <1>2, SkipKeepsReportInv
<1>3. CASE \E e \in heap : Accept(e)
  BY <1>3, AcceptKeepsReportInv
<1>4. ASSUME UNCHANGED <<mergeVars, drawn, processed, span, curve>>,
             phase' = "processing" => phase = "processing"
      PROVE  Stamped' /\ Spanned' /\ (Sorted(tape)' /\ AllTimed' => InOrder')
  BY <1>4 DEF ReportInv, Stamped, Spanned, InOrder, mergeVars, AllTimed, Timed, Sorted, SortedTape,
              event_ts, StampOf, Events
<1>5. CASE SetCancel \/ Exhausted \/ UNCHANGED vars
  BY <1>4, <1>5 DEF SetCancel, Exhausted, vars, loopVars
<1>6. CASE Process
  <2>1. span.last # NoTime
    BY <1>6 DEF Process, ReportInv, Spanned
  <2> QED
    BY <2>1, <1>4, <1>6, SampleKeepsReportInv DEF Process
<1>7. CASE Finish
  BY <1>4, <1>7, SampleKeepsReportInv DEF Finish
<1> QED
  BY <1>2, <1>3, <1>5, <1>6, <1>7 DEF Next

\* Sorted, dated tapes give a report whose equity samples are in time order and
\* whose range spans them, with the last sample taken after the final callback.
THEOREM ReportIsInOrder == Spec => []ReportInOrder
<1>1. Init => ReportInv
  <2> SUFFICES ASSUME Init PROVE ReportInv
    OBVIOUS
  <2>1. OrderInv
    BY InitEstablishesOrderInv
  <2>2. Len(drawn) = 0 /\ Len(processed) = 0 /\ Len(curve) = 0 /\ Len(out) = 0
        /\ drawn \in Seq(Int) /\ curve \in Seq(Int) /\ processed \in Seq(1..Len(drawn))
    BY DEF Init, MergeInit
  <2>3. span = [first |-> NoTime, last |-> NoTime] /\ phase = "reading"
    BY DEF Init
  <2> QED
    BY <2>1, <2>2, <2>3 DEF ReportInv, Stamped, Spanned, InOrder, Instant, Init
<1>2. ReportInv => ReportInOrder
  <2> SUFFICES ASSUME ReportInv, Sorted(tape), AllTimed
               PROVE  /\ \A m, n \in 1..Len(curve) : m < n => curve[m] <= curve[n]
                      /\ \A n \in Range(processed) : span.first <= drawn[n] /\ drawn[n] <= span.last
                      /\ \A ts \in Range(curve) : span.first <= ts /\ ts <= span.last
    BY DEF ReportInOrder
  <2>1. InOrder /\ DOMAIN processed = 1..Len(processed) /\ DOMAIN curve = 1..Len(curve)
    BY DEF ReportInv, Spanned
  <2>2. ASSUME NEW n \in Range(processed) PROVE span.first <= drawn[n] /\ drawn[n] <= span.last
    BY <2>1, <2>2 DEF InOrder, Range
  <2>3. ASSUME NEW ts \in Range(curve) PROVE span.first <= ts /\ ts <= span.last
    BY <2>1, <2>3 DEF InOrder, Range
  <2> QED
    BY <2>1, <2>2, <2>3 DEF InOrder
<1> QED
  BY <1>1, <1>2, StepPreservesReportInv, PTL DEF Spec

-----------------------------------------------------------------------------
\* The calendar.  Leap days up to a year.
Leaps(n) == n \div 4 - n \div 100 + n \div 400

\* 400 years hold 97 leap days, spread evenly but for three days.
LEMMA LeapsAreEven ==
  ASSUME NEW n \in Int
  PROVE  /\ Leaps(n) \in Int
         /\ 400 * Leaps(n) <= 97 * n + 400
         /\ 97 * n - 700 <= 400 * Leaps(n)
<1> DEFINE a == n \div 4
           b == n \div 100
           c == n \div 400
<1>1. a \in Int /\ 4 * a <= n /\ n <= 4 * a + 3
  OBVIOUS
<1>2. b \in Int /\ 100 * b <= n /\ n <= 100 * b + 99
  OBVIOUS
<1>3. c \in Int /\ 400 * c <= n /\ n <= 400 * c + 399
  OBVIOUS
<1>4. Leaps(n) = a - b + c
  BY DEF Leaps
<1> HIDE DEF a, b, c
<1> QED
  BY <1>1, <1>2, <1>3, <1>4

LEMMA DateIsLinear ==
  ASSUME NEW y \in Int, NEW m \in 1..12, NEW d \in Int
  PROVE  /\ Date(y, m, 1) \in Int
         /\ Date(y, m, d) = Date(y, m, 1) + d - 1
<1>1. BeforeMonth[m] \in Int
  BY DEF BeforeMonth
<1>2. Leaps(y - 1) \in Int /\ Leaps(1969) \in Int
  BY LeapsAreEven
<1>3. \A k \in Int : Date(y, m, k) = 365 * (y - 1970) + Leaps(y - 1) - Leaps(1969)
          + BeforeMonth[m] + (IF m > 2 /\ IsLeap(y) THEN 1 ELSE 0) + k - 1
  BY DEF Date, Leaps
<1> QED
  BY <1>1, <1>2, <1>3

LEMMA NewYear ==
  ASSUME NEW y \in Int
  PROVE  /\ Date(y, 1, 1) = 365 * (y - 1970) + Leaps(y - 1) - 477
         /\ Date(y, 1, 1) \in Int
<1>1. Leaps(1969) = 477 /\ Leaps(y - 1) \in Int
  BY LeapsAreEven DEF Leaps
<1> QED
  BY <1>1 DEF Date, Leaps, BeforeMonth

\* The year of a date is the one it falls in.
LEMMA YearOfDate ==
  ASSUME NEW date \in Int
  PROVE  /\ YearOf(date) \in Int
         /\ Date(YearOf(date), 1, 1) <= date /\ date < Date(YearOf(date) + 1, 1, 1)
<1> DEFINE about == 1970 + (400 * date) \div 146097
           In(y) == Date(y, 1, 1) <= date /\ date < Date(y + 1, 1, 1)
<1>1. about \in Int /\ 146097 * (about - 1970) <= 400 * date
      /\ 400 * date < 146097 * (about - 1970) + 146097
  OBVIOUS
<1>2. YearOf(date) = CHOOSE y \in about - 1 .. about + 1 : In(y)
  BY DEF YearOf
<1> HIDE DEF about
<1>3. Date(about - 1, 1, 1) <= date
  <2>1. Date(about - 1, 1, 1) = 365 * (about - 1 - 1970) + Leaps(about - 2) - 477
        /\ Date(about - 1, 1, 1) \in Int
    BY <1>1, NewYear
  <2>2. Leaps(about - 2) \in Int /\ 400 * Leaps(about - 2) <= 97 * (about - 2) + 400
    BY <1>1, LeapsAreEven
  <2> QED
    BY <1>1, <2>1, <2>2
<1>4. date < Date(about + 2, 1, 1)
  <2>1. Date(about + 2, 1, 1) = 365 * (about + 2 - 1970) + Leaps(about + 1) - 477
        /\ Date(about + 2, 1, 1) \in Int
    BY <1>1, NewYear
  <2>2. Leaps(about + 1) \in Int /\ 97 * (about + 1) - 700 <= 400 * Leaps(about + 1)
    BY <1>1, LeapsAreEven
  <2> QED
    BY <1>1, <2>1, <2>2
<1>5. Date(about, 1, 1) \in Int /\ Date(about + 1, 1, 1) \in Int
  BY <1>1, NewYear
<1>6. \E y \in about - 1 .. about + 1 : In(y)
  <2>1. CASE date < Date(about, 1, 1)
    BY <1>1, <1>3, <2>1
  <2>2. CASE Date(about, 1, 1) <= date /\ date < Date(about + 1, 1, 1)
    BY <1>1, <2>2
  <2>3. CASE Date(about + 1, 1, 1) <= date
    BY <1>1, <1>4, <2>3
  <2> QED
    BY <1>5, <2>1, <2>2, <2>3
<1> HIDE DEF In
<1>7. YearOf(date) \in about - 1 .. about + 1 /\ In(YearOf(date))
  BY <1>2, <1>6
<1> QED
  BY <1>1, <1>7 DEF In

-----------------------------------------------------------------------------
LEMMA DaysOfWeek ==
  ASSUME NEW date \in Int
  PROVE  /\ Weekday(date) \in 0..6
         /\ \E k \in Int : date + 3 = 7 * k + Weekday(date)
<1> DEFINE k == (date + 3) \div 7
<1>1. k \in Int /\ (date + 3) % 7 \in 0..6 /\ date + 3 = 7 * k + ((date + 3) % 7)
  OBVIOUS
<1> QED
  BY <1>1 DEF Weekday, Thursday

LEMMA WeekdayIs ==
  ASSUME NEW date \in Int, NEW k \in Int, NEW w \in 0..6, date + 3 = 7 * k + w
  PROVE  Weekday(date) = w
BY DEF Weekday, Thursday

\* Each weekday comes once in seven days on end.
LEMMA OnceAWeek ==
  ASSUME NEW from \in Int, NEW w \in 0..6, NEW date \in Int
  PROVE  (Weekday(date) = w /\ date \in from .. from + 6)
           <=> date = from + ((w - Weekday(from)) % 7)
<1> DEFINE v == Weekday(from)
           r == (w - v) % 7
           q == (w - v) \div 7
<1>1. PICK j \in Int : v \in 0..6 /\ from + 3 = 7 * j + v
  BY DaysOfWeek
<1> HIDE DEF v
<1>2. r \in 0..6 /\ q \in Int /\ w - v = 7 * q + r
  BY <1>1
<1> HIDE DEF r, q
<1>3. ASSUME date = from + r PROVE Weekday(date) = w /\ date \in from .. from + 6
  <2>1. date + 3 = 7 * (j - q) + w /\ j - q \in Int
    BY <1>1, <1>2, <1>3
  <2>2. Weekday(date) = w
    BY <2>1, WeekdayIs
  <2> QED
    BY <2>2, <1>2, <1>3
<1>4. ASSUME Weekday(date) = w, date \in from .. from + 6 PROVE date = from + r
  <2>1. PICK k \in Int : date + 3 = 7 * k + w
    BY <1>4, DaysOfWeek
  <2> QED
    BY <2>1, <1>1, <1>2, <1>4
<1> QED
  BY <1>3, <1>4 DEF r, v

LEMMA NextWeekday ==
  ASSUME NEW date \in Int, NEW n \in Int
  PROVE  /\ Weekday(date + 7 * n) = Weekday(date)
         /\ Weekday(date + n) = (Weekday(date) + n) % 7
<1>1. PICK k \in Int : date + 3 = 7 * k + Weekday(date) /\ Weekday(date) \in 0..6
  BY DaysOfWeek
<1>2. Weekday(date + 7 * n) = Weekday(date)
  <2>1. date + 7 * n + 3 = 7 * (k + n) + Weekday(date) /\ k + n \in Int /\ date + 7 * n \in Int
    BY <1>1
  <2> QED
    BY <2>1, <1>1, WeekdayIs
<1>3. Weekday(date + n) = (Weekday(date) + n) % 7
  <2> DEFINE w == Weekday(date)
             r == (w + n) % 7
             q == (w + n) \div 7
  <2>0. w \in 0..6 /\ date + 3 = 7 * k + w
    BY <1>1
  <2> HIDE DEF w
  <2>1. r \in 0..6 /\ q \in Int /\ w + n = 7 * q + r
    BY <2>0
  <2> HIDE DEF r, q
  <2>2. date + n + 3 = 7 * (k + q) + r /\ k + q \in Int /\ date + n \in Int
    BY <1>1, <2>0, <2>1
  <2>3. Weekday(date + n) = r
    BY <2>1, <2>2, WeekdayIs
  <2> QED
    BY <2>3 DEF r, w
<1> QED
  BY <1>2, <1>3

-----------------------------------------------------------------------------
\* The nth of a weekday in a month falls on one of seven days of it.
LEMMA NthWeekdayFalls ==
  ASSUME NEW date \in Int, NEW y \in Int, NEW m \in 1..12, NEW w \in 0..6, NEW n \in 1..4
  PROVE  date = nth_weekday(y, m, w, n) <=> Falls(date, y, m, (7 * n - 6) .. (7 * n), w)
<1> DEFINE first == Date(y, m, 1)
           weeks == n - 1
           from == first + 7 * weeks
<1>0. weeks \in 0..3 /\ n = weeks + 1
  OBVIOUS
<1>1. first \in Int /\ \A d \in Int : Date(y, m, d) = first + d - 1
  BY DateIsLinear
<1> HIDE DEF first, weeks
<1>2. from \in Int /\ Weekday(from) = Weekday(first)
  <2>1. weeks \in Int
    BY <1>0
  <2>2. Weekday(first + 7 * weeks) = Weekday(first)
    BY <2>1, <1>1, NextWeekday
  <2> QED
    BY <2>1, <2>2, <1>1
<1>3. nth_weekday(y, m, w, n) = from + ((w - Weekday(from)) % 7)
  <2>1. Weekday(first) \in 0..6
    BY <1>1, DaysOfWeek
  <2>2. (w - Weekday(first)) % 7 \in Int
    BY <2>1
  <2> QED
    BY <1>0, <1>1, <1>2, <2>2 DEF nth_weekday, first
<1>4. (\E d \in (7 * n - 6) .. (7 * n) : date = Date(y, m, d)) <=> date \in from .. from + 6
  <2>1. ASSUME date \in from .. from + 6
        PROVE  \E d \in (7 * n - 6) .. (7 * n) : date = Date(y, m, d)
    <3>1. date - first + 1 \in (7 * n - 6) .. (7 * n)
      BY <1>0, <1>1, <2>1
    <3>2. date = Date(y, m, date - first + 1)
      BY <1>1
    <3> QED
      BY <3>1, <3>2
  <2>2. ASSUME NEW d \in (7 * n - 6) .. (7 * n), date = Date(y, m, d)
        PROVE  date \in from .. from + 6
    BY <1>0, <1>1, <2>2
  <2> QED
    BY <2>1, <2>2
<1> HIDE DEF from
<1>5. (Weekday(date) = w /\ date \in from .. from + 6) <=> date = from + ((w - Weekday(from)) % 7)
  BY <1>2, OnceAWeek
<1> QED
  BY <1>3, <1>4, <1>5 DEF Falls

\* The last of a weekday in a month of 31 days.
LEMMA LastWeekdayFalls ==
  ASSUME NEW date \in Int, NEW y \in Int, NEW w \in 0..6
  PROVE  date = last_weekday(y, 5, w) <=> Falls(date, y, 5, 25..31, w)
<1> DEFINE first == Date(y, 5, 1)
           last == first + 30
           from == last - 6
           back == (Weekday(last) - w) % 7
<1>1. first \in Int /\ \A d \in Int : Date(y, 5, d) = first + d - 1
  BY DateIsLinear
<1> HIDE DEF first
<1>2. DaysInMonth(y, 5) = 31
  BY DEF DaysInMonth
<1>3. last_weekday(y, 5, w) = last - back
  BY <1>1, <1>2 DEF last_weekday
<1>4. (\E d \in 25..31 : date = Date(y, 5, d)) <=> date \in from .. from + 6
  <2>1. ASSUME date \in from .. from + 6
        PROVE  \E d \in 25..31 : date = Date(y, 5, d)
    <3>1. date - first + 1 \in 25..31
      BY <1>1, <2>1
    <3>2. date = Date(y, 5, date - first + 1)
      BY <1>1
    <3> QED
      BY <3>1, <3>2
  <2>2. ASSUME NEW d \in 25..31, date = Date(y, 5, d)
        PROVE  date \in from .. from + 6
    BY <1>1, <2>2
  <2> QED
    BY <2>1, <2>2
<1>5. last \in Int /\ from \in Int
  BY <1>1
<1>6. (Weekday(date) = w /\ date \in from .. from + 6) <=> date = from + ((w - Weekday(from)) % 7)
  BY <1>5, OnceAWeek
<1>7. from + ((w - Weekday(from)) % 7) = last - back
  <2> DEFINE v == Weekday(last)
  <2>1. v \in 0..6 /\ Weekday(from) = (v + (-6)) % 7
    <3>1. from = last + (-6) /\ last \in Int /\ -6 \in Int
      BY <1>1
    <3>2. Weekday(last + (-6)) = (Weekday(last) + (-6)) % 7
      BY <3>1, NextWeekday
    <3> QED
      BY <3>1, <3>2, DaysOfWeek
  <2> HIDE DEF v
  <2>2. (w - ((v + (-6)) % 7)) % 7 = 6 - ((v - w) % 7)
    BY <2>1
  <2> QED
    BY <1>5, <2>1, <2>2 DEF v
<1> QED
  BY <1>3, <1>4, <1>6, <1>7 DEF Falls

\* A fixed day is moved off a weekend, and a New Year's Day not out of its year.
LEMMA ObservedIsKept ==
  ASSUME NEW date \in Int, NEW y \in Int, NEW m \in 1..12, NEW d \in Nat \ {0},
         d = 1 => Date(y, m, d) <= date
  PROVE  date = observed(Date(y, m, d)) <=> Kept(date, y, m, d)
<1> DEFINE fixed == Date(y, m, d)
           v == Weekday(fixed)
<1>1. fixed \in Int /\ Date(y, m, d + 1) = fixed + 1 /\ Date(y, m, d - 1) = fixed - 1
      /\ (d = 1 => fixed <= date)
  <2>1. Date(y, m, 1) \in Int /\ \A k \in Int : Date(y, m, k) = Date(y, m, 1) + k - 1
    BY DateIsLinear
  <2> QED
    BY <2>1
<1>2. Kept(date, y, m, d) <=> \/ date = fixed /\ Weekday(date) < 5
                              \/ Weekday(date) = 0 /\ date = fixed + 1
                              \/ d > 1 /\ Weekday(date) = 4 /\ date = fixed - 1
  BY <1>1 DEF Kept, Falls, Monday, Friday, Saturday
<1>3. observed(fixed) = IF v = 5 THEN fixed - 1 ELSE IF v = 6 THEN fixed + 1 ELSE fixed
  BY DEF observed, Saturday, Sunday
<1>4. v \in 0..6 /\ Weekday(fixed + 1) = (v + 1) % 7 /\ Weekday(fixed - 1) = (v + (-1)) % 7
  <2>1. fixed - 1 = fixed + (-1)
    BY <1>1
  <2>2. Weekday(fixed + (-1)) = (Weekday(fixed) + (-1)) % 7
        /\ Weekday(fixed + 1) = (Weekday(fixed) + 1) % 7
    <3> HIDE DEF fixed
    <3>1. fixed \in Int /\ -1 \in Int /\ 1 \in Int
      BY <1>1
    <3> QED
      BY <3>1, NextWeekday
  <2> QED
    BY <1>1, <2>1, <2>2, DaysOfWeek
<1>8. Weekday(fixed) = v
  OBVIOUS
<1> SUFFICES date = observed(fixed) <=> Kept(date, y, m, d)
  OBVIOUS
<1> HIDE DEF fixed, v
<1>5. CASE v = 5
  <2>1. Weekday(fixed - 1) = 4 /\ Weekday(fixed + 1) = 6
    BY <1>4, <1>5
  <2>2. d = 1 => date # fixed - 1
    BY <1>1
  <2> QED
    BY <1>1, <1>2, <1>3, <1>8, <1>5, <2>1, <2>2
<1>6. CASE v = 6
  <2>1. Weekday(fixed - 1) = 5 /\ Weekday(fixed + 1) = 0
    BY <1>4, <1>6
  <2> QED
    BY <1>1, <1>2, <1>3, <1>8, <1>6, <2>1
<1>7. CASE v \in 0..4
  <2>1. Weekday(fixed + 1) = v + 1 /\ Weekday(fixed - 1) \in {6, v - 1}
    BY <1>4, <1>7
  <2> QED
    BY <1>1, <1>2, <1>3, <1>8, <1>7, <2>1
<1> QED
  BY <1>4, <1>5, <1>6, <1>7

\* A leap year has its extra day before March.
LEMMA LeapsStep ==
  ASSUME NEW y \in Int
  PROVE  Leaps(y) = Leaps(y - 1) + (IF IsLeap(y) THEN 1 ELSE 0)
<1>1. y \div 4 = ((y - 1) \div 4) + (IF y % 4 = 0 THEN 1 ELSE 0)
  OBVIOUS
<1>2. y \div 100 = ((y - 1) \div 100) + (IF y % 100 = 0 THEN 1 ELSE 0)
  OBVIOUS
<1>3. y \div 400 = ((y - 1) \div 400) + (IF y % 400 = 0 THEN 1 ELSE 0)
  OBVIOUS
<1>4. (y % 400 = 0 => y % 100 = 0) /\ (y % 100 = 0 => y % 4 = 0)
  OBVIOUS
<1> DEFINE a == (y - 1) \div 4
           b == (y - 1) \div 100
           c == (y - 1) \div 400
           p == y % 4 = 0
           q == y % 100 = 0
           r == y % 400 = 0
<1>5. a \in Int /\ b \in Int /\ c \in Int
  OBVIOUS
<1>6. Leaps(y - 1) = a - b + c
  BY DEF Leaps
<1>7. Leaps(y) = (a + (IF p THEN 1 ELSE 0)) - (b + (IF q THEN 1 ELSE 0)) + (c + (IF r THEN 1 ELSE 0))
  BY <1>1, <1>2, <1>3 DEF Leaps
<1>8. IsLeap(y) <=> p /\ (~q \/ r)
  BY DEF IsLeap
<1>9. (r => q) /\ (q => p)
  BY <1>4
<1> HIDE DEF a, b, c, p, q, r
<1> QED
  BY <1>5, <1>6, <1>7, <1>8, <1>9

LEMMA MarchAndApril ==
  ASSUME NEW y \in Int, NEW d \in Int
  PROVE  /\ Date(y, 3, d) = 365 * (y - 1970) + Leaps(y) - 477 + 59 + d - 1
         /\ Date(y, 4, d) = Date(y, 3, d + 31)
         /\ Date(y, 3, d) \in Int
<1>1. Leaps(1969) = 477
  BY DEF Leaps
<1>2. Leaps(y - 1) \in Int /\ Leaps(y) \in Int
  BY LeapsAreEven
<1>3. \A k \in Int :
        /\ Date(y, 3, k) = 365 * (y - 1970) + Leaps(y - 1) - Leaps(1969)
                             + 59 + (IF IsLeap(y) THEN 1 ELSE 0) + k - 1
        /\ Date(y, 4, k) = 365 * (y - 1970) + Leaps(y - 1) - Leaps(1969)
                             + 90 + (IF IsLeap(y) THEN 1 ELSE 0) + k - 1
  BY DEF Date, Leaps, BeforeMonth
<1>4. Leaps(y) = Leaps(y - 1) + (IF IsLeap(y) THEN 1 ELSE 0)
  BY LeapsStep
<1> QED
  BY <1>1, <1>2, <1>3, <1>4

\* The centuries the table of full moons is for.
Computus == 1900..2199

\* The number of Easter Sunday in the computus, counted from 22 March.
LEMMA EasterSunday ==
  ASSUME NEW y \in Computus
  PROVE  \E x \in 0..34 :
           /\ good_friday(y) = Date(y, 3, 22) + x - 2
           /\ Weekday(Date(y, 3, 22) + x) = 6
           /\ Date(y, 3, 22) + x - FullMoon(y) \in 1..7
<1> DEFINE a == y % 19
           b == y \div 100
           c == y % 100
           d == b \div 4
           e == b % 4
           f == (b + 8) \div 25
           g == (b - f + 1) \div 3
           h == (19 * a + b - d - g + 15) % 30
           i == c \div 4
           k == c % 4
           s == 32 + 2 * e + 2 * i - h - k
           l == s % 7
           q == s \div 7
           m == (a + 11 * h + 22 * l) \div 451
           x == h + l - 7 * m
           n == x + 114
           base == Date(y, 3, 22)
<1>1. y \in Int /\ a \in 0..18 /\ b \in 19..21 /\ c \in 0..99 /\ y = 100 * b + c
  BY DEF Computus
<1>2. good_friday(y) = Date(y, n \div 31, (n % 31) + 1) - 2
  BY DEF good_friday
<1>3. FullMoon(y) = Date(y, 3, 21) +
        (LET age == (19 * a + 24) % 30 IN IF age = 29 \/ (age = 28 /\ a > 10) THEN age - 1 ELSE age)
  BY DEF FullMoon
<1>4. Leaps(y) = 24 * b + i + d
  <2>1. y \div 4 = 25 * b + i
    BY <1>1
  <2>2. y \div 400 = d
    BY <1>1
  <2>3. i \in Int /\ d \in Int
    BY <1>1
  <2> QED
    BY <1>1, <2>1, <2>2, <2>3 DEF Leaps
<1>5. /\ base \in Int
      /\ base = 365 * (y - 1970) + Leaps(y) - 397
      /\ Date(y, 3, 21) = base - 1
      /\ \A z \in Int : Date(y, 3, z) = base + z - 22
      /\ \A z \in Int : Date(y, 4, z) = base + z + 9
  <2>1. Leaps(y) \in Int
    BY <1>1, LeapsAreEven
  <2>0. y \in Int
    BY <1>1
  <2>2. ASSUME NEW z \in Int
        PROVE  Date(y, 3, z) = 365 * (y - 1970) + Leaps(y) - 477 + 59 + z - 1
    BY <2>0, MarchAndApril
  <2>3. ASSUME NEW z \in Int
        PROVE  Date(y, 4, z) = Date(y, 3, z + 31)
    BY <2>0, MarchAndApril
  <2> QED
    BY <1>1, <2>1, <2>2, <2>3
<1> HIDE DEF base, a
<1>6. h = (19 * a + 24) % 30
  <2>1. d = (IF b = 19 THEN 4 ELSE 5) /\ f = 1 /\ g = (IF b = 21 THEN 7 ELSE 6)
    BY <1>1
  <2>2. b - d - g + 15 = 24
    BY <1>1, <2>1
  <2> HIDE DEF d, g, b
  <2>3. 19 * a + b - d - g + 15 = 19 * a + 24
    BY <1>1, <2>1, <2>2
  <2> QED
    BY <2>3
<1>7. h \in 0..29
  BY <1>1, <1>6
<1>8. d \in Int /\ e \in 0..3 /\ b = 4 * d + e /\ i \in 0..24 /\ k \in 0..3 /\ c = 4 * i + k
  BY <1>1
<1>9. FullMoon(y) = base - 1 + (IF h = 29 \/ (h = 28 /\ a > 10) THEN h - 1 ELSE h)
  BY <1>3, <1>5, <1>6
<1>10. 4 * d + e \in 19..21
  BY <1>1, <1>8
<1>11. base = 365 * (100 * b + c - 1970) + 24 * b + i + d - 397
  BY <1>1, <1>4, <1>5
<1> HIDE DEF b, c, d, e, f, g, h, i, k
<1>12. s \in Int
  BY <1>7, <1>8
<1>13. l \in 0..6 /\ q \in Int /\ s = 7 * q + l
  BY <1>12
<1>14. s = 32 + 2 * e + 2 * i - h - k
  OBVIOUS
<1> HIDE DEF s, l, q
<1>15. m = IF l = 6 /\ (h = 29 \/ (h = 28 /\ a > 10)) THEN 1 ELSE 0
  BY <1>1, <1>7, <1>13
<1> HIDE DEF m
<1>16. x \in 0..34
  BY <1>1, <1>7, <1>13, <1>15
<1>17. base + x - FullMoon(y) \in 1..7
  BY <1>1, <1>5, <1>7, <1>9, <1>13, <1>15
<1>18. x = h + l - 7 * m /\ m \in Int
  BY <1>15
<1>19. n = x + 114
  OBVIOUS
<1> HIDE DEF x, n
<1>20. Date(y, n \div 31, (n % 31) + 1) = base + x
  <2>1. CASE x \in 0..9
    <3>1. n \div 31 = 3 /\ n % 31 = x + 21
      BY <1>19, <2>1
    <3>2. Date(y, 3, (x + 21) + 1) = base + (x + 21 + 1) - 22
      BY <1>5, <2>1
    <3> QED
      BY <1>5, <2>1, <3>1, <3>2
  <2>2. CASE x \in 10..34
    <3>1. n \div 31 = 4 /\ n % 31 = x - 10
      BY <1>19, <2>2
    <3>2. Date(y, 4, (x - 10) + 1) = base + (x - 10 + 1) + 9
      BY <1>5, <2>2
    <3> QED
      BY <1>5, <2>2, <3>1, <3>2
  <2> QED
    BY <1>16, <2>1, <2>2
<1>21. Weekday(base + x) = 6
  <2>1. base + x + 3 = 365 * (100 * b + c - 1970) + 24 * b + i + d - 394 + 32 + 2 * e + 2 * i - k - 7 * q - 7 * m
    BY <1>1, <1>5, <1>7, <1>8, <1>11, <1>13, <1>14, <1>18
  <2>2. \E j \in Int : base + x + 3 = 7 * j + 6
    <3>1. CASE b = 19
      <4>1. d = 4 /\ e = 3
        BY <3>1, <1>8
      <4>2. base + x + 3 = 7 * (209 * i + 52 * k - 3636 - q - m) + 6
        BY <3>1, <4>1, <2>1, <1>8, <1>13, <1>18
      <4>3. 209 * i + 52 * k - 3636 - q - m \in Int
        BY <1>8, <1>13, <1>18
      <4> QED
        BY <4>2, <4>3
    <3>2. CASE b = 20
      <4>1. d = 5 /\ e = 0
        BY <3>2, <1>8
      <4>2. base + x + 3 = 7 * (209 * i + 52 * k + 1581 - q - m) + 6
        BY <3>2, <4>1, <2>1, <1>8, <1>13, <1>18
      <4>3. 209 * i + 52 * k + 1581 - q - m \in Int
        BY <1>8, <1>13, <1>18
      <4> QED
        BY <4>2, <4>3
    <3>3. CASE b = 21
      <4>1. d = 5 /\ e = 1
        BY <3>3, <1>8
      <4>2. base + x + 3 = 7 * (209 * i + 52 * k + 6799 - q - m) + 6
        BY <3>3, <4>1, <2>1, <1>8, <1>13, <1>18
      <4>3. 209 * i + 52 * k + 6799 - q - m \in Int
        BY <1>8, <1>13, <1>18
      <4> QED
        BY <4>2, <4>3
    <3> QED
      BY <1>1, <3>1, <3>2, <3>3
  <2>3. PICK j \in Int : base + x + 3 = 7 * j + 6
    BY <2>2
  <2>4. base + x \in Int
    BY <1>5, <1>16
  <2> QED
    BY <2>3, <2>4, WeekdayIs
<1>22. good_friday(y) = base + x - 2
  <2> DEFINE easter == Date(y, n \div 31, (n % 31) + 1)
  <2>1. good_friday(y) = easter - 2
    BY <1>2
  <2>2. easter = base + x
    BY <1>20
  <2> HIDE DEF easter
  <2> QED
    BY <2>1, <2>2, <1>5, <1>16
<1> HIDE DEF base
<1>23. \E z \in 0..34 : /\ good_friday(y) = base + z - 2
                       /\ Weekday(base + z) = 6
                       /\ base + z - FullMoon(y) \in 1..7
  BY <1>16, <1>17, <1>21, <1>22, Zenon
<1> QED
  BY <1>23, Zenon DEF base

\* The computus and the table of full moons give one Good Friday.
LEMMA GoodFriday ==
  ASSUME NEW date \in Int, NEW y \in Computus
  PROVE  date = good_friday(y) <=> IsGoodFriday(date, y)
<1> DEFINE base == Date(y, 3, 22)
           moon == FullMoon(y)
<1>1. PICK x \in 0..34 : /\ good_friday(y) = base + x - 2
                         /\ Weekday(base + x) = 6
                         /\ base + x - moon \in 1..7
  BY EasterSunday
<1>2. y \in Int /\ base \in Int
  BY MarchAndApril DEF Computus
<1>3. moon \in Int
  <2>1. Date(y, 3, 21) \in Int /\ y % 19 \in Int /\ (19 * (y % 19) + 24) % 30 \in Int
    BY <1>2, MarchAndApril
  <2> QED
    BY <2>1 DEF FullMoon
<1> DEFINE from == moon + 1
           easter == base + x
           sunday == date + 2
<1>4. IsGoodFriday(date, y) <=> Weekday(sunday) = 6 /\ sunday \in from .. from + 6
  <2>1. Weekday(date) \in 0..6 /\ Weekday(sunday) = (Weekday(date) + 2) % 7
    <3>1. 2 \in Int
      OBVIOUS
    <3> QED
      BY <3>1, NextWeekday, DaysOfWeek
  <2>2. Weekday(date) = 4 <=> Weekday(sunday) = 6
    BY <2>1
  <2>3. date + 2 - moon \in 1..7 <=> sunday \in from .. from + 6
    BY <1>3
  <2> QED
    BY <2>2, <2>3 DEF IsGoodFriday, Friday
<1>9. sunday = easter <=> date = good_friday(y)
  <2>1. x \in Int /\ good_friday(y) = base + x - 2
    BY <1>1
  <2> HIDE DEF base
  <2> QED
    BY <2>1, <1>2
<1>5. easter \in Int /\ easter \in from .. from + 6 /\ Weekday(easter) = 6
  BY <1>1, <1>2, <1>3
<1>6. from \in Int /\ sunday \in Int
  BY <1>3
<1> HIDE DEF from, sunday, easter
<1>7. easter = from + ((6 - Weekday(from)) % 7)
  BY <1>5, <1>6, OnceAWeek
<1>8. (Weekday(sunday) = 6 /\ sunday \in from .. from + 6) <=> sunday = from + ((6 - Weekday(from)) % 7)
  BY <1>6, OnceAWeek
<1> QED
  BY <1>4, <1>7, <1>8, <1>9

LEMMA HolidaysAgree ==
  ASSUME NEW date \in Int, YearOf(date) \in Computus
  PROVE  is_us_market_holiday(date) <=> IsHoliday(date)
<1> DEFINE y == YearOf(date)
<1>1. y \in Int /\ Date(y, 1, 1) <= date
  BY YearOfDate
<1>2. y \in Computus
  OBVIOUS
<1>3. is_us_market_holiday(date) <=>
        \/ date = observed(Date(y, 1, 1)) \/ date = observed(Date(y, 7, 4))
        \/ date = observed(Date(y, 12, 25))
        \/ y >= 2022 /\ date = observed(Date(y, 6, 19))
        \/ date = nth_weekday(y, 1, 0, 3) \/ date = nth_weekday(y, 2, 0, 3)
        \/ date = last_weekday(y, 5, 0) \/ date = nth_weekday(y, 9, 0, 1)
        \/ date = nth_weekday(y, 11, 3, 4) \/ date = good_friday(y)
  BY DEF is_us_market_holiday, Monday, Thursday
<1>4. IsHoliday(date) <=>
        \/ Kept(date, y, 1, 1) \/ Kept(date, y, 7, 4) \/ Kept(date, y, 12, 25)
        \/ y > 2021 /\ Kept(date, y, 6, 19)
        \/ Falls(date, y, 1, 15..21, 0) \/ Falls(date, y, 2, 15..21, 0)
        \/ Falls(date, y, 5, 25..31, 0) \/ Falls(date, y, 9, 1..7, 0)
        \/ Falls(date, y, 11, 22..28, 3) \/ IsGoodFriday(date, y)
  BY DEF IsHoliday, Monday, Thursday
<1> HIDE DEF y
<1>5. /\ date = observed(Date(y, 1, 1)) <=> Kept(date, y, 1, 1)
      /\ date = observed(Date(y, 7, 4)) <=> Kept(date, y, 7, 4)
      /\ date = observed(Date(y, 12, 25)) <=> Kept(date, y, 12, 25)
      /\ date = observed(Date(y, 6, 19)) <=> Kept(date, y, 6, 19)
  BY <1>1, ObservedIsKept
<1>6. /\ date = nth_weekday(y, 1, 0, 3) <=> Falls(date, y, 1, 15..21, 0)
      /\ date = nth_weekday(y, 2, 0, 3) <=> Falls(date, y, 2, 15..21, 0)
      /\ date = nth_weekday(y, 9, 0, 1) <=> Falls(date, y, 9, 1..7, 0)
      /\ date = nth_weekday(y, 11, 3, 4) <=> Falls(date, y, 11, 22..28, 3)
  <2>1. /\ (7 * 3 - 6) .. (7 * 3) = 15..21 /\ (7 * 1 - 6) .. (7 * 1) = 1..7
        /\ (7 * 4 - 6) .. (7 * 4) = 22..28
    OBVIOUS
  <2>2. /\ date = nth_weekday(y, 1, 0, 3) <=> Falls(date, y, 1, (7 * 3 - 6) .. (7 * 3), 0)
        /\ date = nth_weekday(y, 2, 0, 3) <=> Falls(date, y, 2, (7 * 3 - 6) .. (7 * 3), 0)
        /\ date = nth_weekday(y, 9, 0, 1) <=> Falls(date, y, 9, (7 * 1 - 6) .. (7 * 1), 0)
        /\ date = nth_weekday(y, 11, 3, 4) <=> Falls(date, y, 11, (7 * 4 - 6) .. (7 * 4), 3)
    BY <1>1, NthWeekdayFalls
  <2> QED
    BY <2>1, <2>2
<1>7. date = last_weekday(y, 5, 0) <=> Falls(date, y, 5, 25..31, 0)
  BY <1>1, LastWeekdayFalls
<1>8. date = good_friday(y) <=> IsGoodFriday(date, y)
  BY <1>2, GoodFriday
<1>9. y >= 2022 <=> y > 2021
  BY <1>1
<1> QED
  BY <1>3, <1>4, <1>5, <1>6, <1>7, <1>8, <1>9

LEMMA DayAndTime ==
  ASSUME NEW t \in Int
  PROVE  t \div 86400 \in Int /\ t % 86400 \in Int /\ 0 <= t % 86400 /\ t % 86400 < 86400
OBVIOUS

\* Both filters, as hours of the week from Monday 00:00.
LEMMA EquityHours ==
  ASSUME NEW day \in 0..6, NEW time \in Int, 0 <= time, time < 86400,
         NEW d \in 0..4, NEW week \in Int, week = day * 86400 + time
  PROVE  34200 <= week - d * 86400 /\ week - d * 86400 <= 57599
           <=> day = d /\ 34200 <= time /\ time < 57600
OBVIOUS

LEMMA ForexHours ==
  ASSUME NEW day \in 0..6, NEW time \in Int, 0 <= time, time < 86400,
         NEW week \in Int, week = day * 86400 + time
  PROVE  406800 <= week /\ week <= 579599
           <=> \/ day = 5
               \/ day = 6 /\ time < 61200
               \/ day = 4 /\ time >= 61200
OBVIOUS

LEMMA LocalClock ==
  ASSUME NEW ts \in Int
  PROVE  /\ LocalDate(ts) \in Int
         /\ TimeOfDay(ts) \in Int /\ 0 <= TimeOfDay(ts) /\ TimeOfDay(ts) < 86400
         /\ Weekday(LocalDate(ts)) \in 0..6
         /\ InWeek(Local(ts)) \in Int
         /\ InWeek(Local(ts)) = Weekday(LocalDate(ts)) * 86400 + TimeOfDay(ts)
<1>1. Local(ts) \in Int
  BY DEF Local
<1>2. LocalDate(ts) = Local(ts) \div 86400 /\ TimeOfDay(ts) = Local(ts) % 86400
  BY DEF LocalDate, TimeOfDay, Day
<1>3. LocalDate(ts) \in Int /\ TimeOfDay(ts) \in Int /\ 0 <= TimeOfDay(ts) /\ TimeOfDay(ts) < 86400
  BY <1>1, <1>2, DayAndTime
<1>4. Weekday(LocalDate(ts)) \in 0..6
  BY <1>3, DaysOfWeek
<1>5. InWeek(Local(ts)) = Weekday(LocalDate(ts)) * 86400 + TimeOfDay(ts)
  BY <1>2 DEF InWeek, Day
<1> QED
  BY <1>3, <1>4, <1>5

\* calendar.rs keeps the published hours and holidays, by its own clock.
LEMMA HoursByFixedClock ==
  ASSUME NEW filtering \in Filters, NEW ts \in Int, YearOf(LocalDate(ts)) \in Computus
  PROVE  is_session_open(filtering, ts) <=> ClockInHours(filtering, Local(ts))
<1> DEFINE date == LocalDate(ts)
           day == Weekday(date)
           time == TimeOfDay(ts)
           week == InWeek(Local(ts))
<1>1. date \in Int /\ day \in 0..6 /\ time \in Int /\ 0 <= time /\ time < 86400
      /\ week \in Int /\ week = day * 86400 + time
  BY LocalClock
<1>2. is_us_market_holiday(date) <=> IsHoliday(date)
  BY <1>1, HolidaysAgree
<1>6. Local(ts) \div Day = date
  BY DEF LocalDate
<1>3. CASE filtering = "none"
  BY <1>3 DEF is_session_open, ClockInHours
<1>4. CASE filtering = "equity_rth"
  <2>1. is_session_open(filtering, ts) <=>
          day \notin {5, 6} /\ ~is_us_market_holiday(date) /\ 34200 <= time /\ time < 57600
    <3>1. is_session_open(filtering, ts) <=> equity_rth_open(ts)
      BY <1>4 DEF is_session_open
    <3> QED
      BY <3>1, <1>1 DEF equity_rth_open, Saturday, Sunday, HoursMinutes
  <2>2. ClockInHours(filtering, Local(ts)) <=>
          \E d \in 0..4 :
            week - d * Day \in HoursMinutes(9, 30)..(HoursMinutes(16, 0) - 1) /\ ~IsHoliday(date)
    BY <1>4, <1>6 DEF ClockInHours, Monday, Friday
  <2>3. HoursMinutes(9, 30) = 34200 /\ HoursMinutes(16, 0) = 57600 /\ Day = 86400
    BY DEF HoursMinutes, Day
  <2> HIDE DEF date, day, time, week
  <2>4. ASSUME NEW d \in 0..4
        PROVE  week - d * Day \in HoursMinutes(9, 30)..(HoursMinutes(16, 0) - 1)
                 <=> day = d /\ 34200 <= time /\ time < 57600
    <3>1. week - d * Day \in HoursMinutes(9, 30)..(HoursMinutes(16, 0) - 1)
            <=> 34200 <= week - d * 86400 /\ week - d * 86400 <= 57599
      BY <1>1, <2>3
    <3> QED
      BY <3>1, <1>1, EquityHours
  <2>5. day \notin {5, 6} <=> \E d \in 0..4 : day = d
    BY <1>1
  <2> QED
    BY <1>2, <2>1, <2>2, <2>4, <2>5
<1>5. CASE filtering = "forex_245"
  <2>1. is_session_open(filtering, ts) <=>
          ~ (day = 5 \/ (day = 6 /\ time < 61200) \/ (day = 4 /\ time >= 61200))
    <3>1. is_session_open(filtering, ts) <=> forex_245_open(ts)
      BY <1>5 DEF is_session_open
    <3> QED
      BY <3>1, <1>1 DEF forex_245_open, Saturday, Sunday, Friday, HoursMinutes
  <2>2. ClockInHours(filtering, Local(ts)) <=>
          week \notin (4 * Day + HoursMinutes(17, 0))..(6 * Day + HoursMinutes(17, 0) - 1)
    BY <1>5 DEF ClockInHours, Friday, Sunday
  <2>3. HoursMinutes(17, 0) = 61200 /\ Day = 86400
    BY DEF HoursMinutes, Day
  <2> HIDE DEF date, day, time, week
  <2>4. week \in (4 * Day + HoursMinutes(17, 0))..(6 * Day + HoursMinutes(17, 0) - 1)
          <=> 406800 <= week /\ week <= 579599
    BY <1>1, <2>3
  <2> QED
    BY <1>1, <2>1, <2>2, <2>4, ForexHours
<1> QED
  BY <1>3, <1>4, <1>5 DEF Filters

LEMMA ClockOfDay ==
  ASSUME NEW date \in Int, NEW time \in Int, 0 <= time, time < 86400
  PROVE  (date * 86400 + time) \div 86400 = date /\ (date * 86400 + time) % 86400 = time
OBVIOUS

\* Of a Sunday morning no filter lets anything through.
LEMMA ClosedOnSundayMorning ==
  ASSUME NEW filtering \in Filters, NEW date \in Int, Weekday(date) = 6,
         NEW time \in Int, 0 <= time, time < 61200
  PROVE  ClockInHours(filtering, date * 86400 + time) <=> filtering = "none"
<1> DEFINE clock == date * 86400 + time
           week == InWeek(clock)
<1>1. clock \div Day = date /\ clock % Day = time
  BY ClockOfDay DEF Day
<1> HIDE DEF clock
<1>2. week = 518400 + time
  <2>1. week = Weekday(date) * 86400 + time
    BY <1>1 DEF InWeek, Day
  <2> HIDE DEF week
  <2> QED
    BY <2>1
<1> HIDE DEF week
<1>0. HoursMinutes(9, 30) = 34200 /\ HoursMinutes(16, 0) = 57600 /\ HoursMinutes(17, 0) = 61200
      /\ Day = 86400
  BY DEF HoursMinutes, Day
<1>5. filtering = "equity_rth" => ~ClockInHours(filtering, clock)
  <2> SUFFICES ASSUME filtering = "equity_rth", ClockInHours(filtering, clock) PROVE FALSE
    OBVIOUS
  <2>1. PICK d \in 0..4 : week - d * Day \in HoursMinutes(9, 30)..(HoursMinutes(16, 0) - 1)
    BY DEF ClockInHours, week, Monday, Friday
  <2>2. week - d * 86400 <= 57599
    <3>1. week - d * 86400 \in Int
      BY <1>2
    <3> QED
      BY <2>1, <3>1, <1>0
  <2> QED
    BY <2>2, <1>2
<1>6. filtering = "forex_245" => ~ClockInHours(filtering, clock)
  <2> SUFFICES ASSUME filtering = "forex_245", ClockInHours(filtering, clock) PROVE FALSE
    OBVIOUS
  <2>1. week \notin (4 * Day + HoursMinutes(17, 0))..(6 * Day + HoursMinutes(17, 0) - 1)
    BY DEF ClockInHours, week, Friday, Sunday
  <2>2. ~(406800 <= week /\ week <= 579599)
    BY <2>1, <1>0, <1>2
  <2> QED
    BY <2>2, <1>2
<1>7. filtering = "none" => ClockInHours(filtering, clock)
  BY DEF ClockInHours
<1>8. filtering \in {"none", "equity_rth", "forex_245"}
  BY DEF Filters
<1> QED
  BY <1>5, <1>6, <1>7, <1>8 DEF clock

LEMMA YearsGrow ==
  ASSUME NEW y \in Int, NEW z \in Int, y < z
  PROVE  Date(y, 1, 1) < Date(z, 1, 1)
<1>1. /\ Date(y, 1, 1) = 365 * (y - 1970) + Leaps(y - 1) - 477
      /\ Date(z, 1, 1) = 365 * (z - 1970) + Leaps(z - 1) - 477
  BY NewYear
<1>2. /\ Leaps(y - 1) \in Int /\ 400 * Leaps(y - 1) <= 97 * (y - 1) + 400
      /\ Leaps(z - 1) \in Int /\ 97 * (z - 1) - 700 <= 400 * Leaps(z - 1)
  BY LeapsAreEven
<1> QED
  BY <1>1, <1>2

LEMMA YearIs ==
  ASSUME NEW date \in Int, NEW y \in Int, Date(y, 1, 1) <= date, date < Date(y + 1, 1, 1)
  PROVE  YearOf(date) = y
<1> DEFINE z == YearOf(date)
<1>1. z \in Int /\ Date(z, 1, 1) <= date /\ date < Date(z + 1, 1, 1)
  BY YearOfDate
<1> HIDE DEF z
<1>2. /\ Date(y, 1, 1) \in Int /\ Date(y + 1, 1, 1) \in Int
      /\ Date(z, 1, 1) \in Int /\ Date(z + 1, 1, 1) \in Int
  BY <1>1, NewYear
<1>3. ~(z < y)
  <2> SUFFICES ASSUME z < y PROVE FALSE
    OBVIOUS
  <2>1. Date(z + 1, 1, 1) <= Date(y, 1, 1)
    <3>1. CASE z + 1 = y
      BY <3>1, <1>2
    <3>2. CASE z + 1 < y
      BY <3>2, <1>1, <1>2, YearsGrow
    <3> QED
      BY <3>1, <3>2, <1>1
  <2> QED
    BY <2>1, <1>1, <1>2
<1>4. ~(y < z)
  <2> SUFFICES ASSUME y < z PROVE FALSE
    OBVIOUS
  <2>1. Date(y + 1, 1, 1) <= Date(z, 1, 1)
    <3>1. CASE y + 1 = z
      BY <3>1, <1>2
    <3>2. CASE y + 1 < z
      BY <3>2, <1>1, <1>2, YearsGrow
    <3> QED
      BY <3>1, <3>2, <1>1
  <2> QED
    BY <2>1, <1>1, <1>2
<1> QED
  BY <1>1, <1>3, <1>4 DEF z

LEMMA YearHasDates ==
  ASSUME NEW y \in Int
  PROVE  /\ Date(y, 1, 1) \in Int
         /\ Date(y, 3, 8) \in Int /\ Date(y, 3, 14) \in Int
         /\ Date(y, 11, 1) \in Int /\ Date(y, 11, 7) \in Int
<1>1. ASSUME NEW m \in 1..12, NEW d \in Int PROVE Date(y, m, d) \in Int
  <2>1. Date(y, m, 1) \in Int /\ Date(y, m, d) = Date(y, m, 1) + d - 1
    BY DateIsLinear
  <2> QED
    BY <2>1
<1>2. 1 \in 1..12 /\ 3 \in 1..12 /\ 11 \in 1..12
  OBVIOUS
<1>3. 1 \in Int /\ 7 \in Int /\ 8 \in Int /\ 14 \in Int
  OBVIOUS
<1> QED
  BY <1>1, <1>2, <1>3, Zenon

\* The hour that the clocks of New York skip is one of a Sunday morning.
LEMMA FirstHourOfDaylight ==
  ASSUME NEW ts \in Int, IsDaylight(ts), ~IsDaylight(ts - 3600)
  PROVE  \E sunday \in Int :
           /\ Weekday(sunday) = 6
           /\ sunday * 86400 + 25200 <= ts
           /\ ts < sunday * 86400 + 28800
<1> DEFINE y == YearOf(ts \div 86400)
           Summer(t, year, march, november) ==
             /\ march \in Date(year, 3, 8) .. Date(year, 3, 14)
             /\ november \in Date(year, 11, 1) .. Date(year, 11, 7)
             /\ Weekday(march) = 6 /\ Weekday(november) = 6
             /\ march * 86400 + 25200 <= t /\ t <= november * 86400 + 21599
<1>0. ASSUME NEW t \in Int
      PROVE  IsDaylight(t) <=> \E march, november \in Int : Summer(t, YearOf(t \div 86400), march, november)
  <2>1. YearOf(t \div 86400) \in Int
    <3>1. t \div 86400 \in Int
      BY <1>0
    <3> QED
      BY <3>1, YearOfDate
  <2> DEFINE year == YearOf(t \div 86400)
  <2>0. year \in Int
    BY <2>1
  <2> HIDE DEF year
  <2>2. Date(year, 3, 8) \in Int /\ Date(year, 3, 14) \in Int
        /\ Date(year, 11, 1) \in Int /\ Date(year, 11, 7) \in Int
    BY <2>0, YearHasDates
  <2>3. ASSUME NEW march \in Int, NEW november \in Int
        PROVE  t \in (march * Day + HoursMinutes(7, 0)) .. (november * Day + HoursMinutes(6, 0) - 1)
                 <=> march * 86400 + 25200 <= t /\ t <= november * 86400 + 21599
    <3>1. Day = 86400 /\ HoursMinutes(7, 0) = 25200 /\ HoursMinutes(6, 0) = 21600
      BY DEF Day, HoursMinutes
    <3> QED
      BY <3>1
  <2>4. IsDaylight(t) <=>
          \E march \in Date(year, 3, 8) .. Date(year, 3, 14), november \in Date(year, 11, 1) .. Date(year, 11, 7) :
            /\ Weekday(march) = 6 /\ Weekday(november) = 6
            /\ t \in (march * Day + HoursMinutes(7, 0)) .. (november * Day + HoursMinutes(6, 0) - 1)
    BY DEF IsDaylight, Sunday, Day, year
  <2> QED
    BY <2>2, <2>3, <2>4 DEF year
<1>1. PICK march \in Int, november \in Int : Summer(ts, y, march, november)
  BY <1>0
<1> DEFINE earlier == ts - 3600
           day == earlier \div 86400
           today == ts \div 86400
<1>2. earlier \in Int /\ day \in Int /\ today \in Int /\ day <= today
  OBVIOUS
<1>3. y \in Int /\ today < Date(y + 1, 1, 1)
  BY <1>2, YearOfDate
<1>4. march * 86400 + 25200 <= ts /\ ts <= november * 86400 + 21599 /\ Weekday(march) = 6
  BY <1>1
<1>5. march * 86400 <= earlier => march <= day
  BY <1>2
<1> HIDE DEF y
<1>6. Date(y, 3, 8) <= march
  <2>1. Date(y, 3, 8) \in Int /\ Date(y, 3, 14) \in Int
    BY <1>3, YearHasDates
  <2> QED
    BY <1>1, <2>1
<1>7. ASSUME YearOf(day) = y, march * 86400 + 25200 <= earlier PROVE Summer(earlier, y, march, november)
  BY <1>1, <1>2, <1>7
<1>8. earlier = ts - 3600
  OBVIOUS
<1> HIDE DEF Summer, earlier, day, today
<1>9. Date(y, 1, 1) < Date(y, 3, 8)
  <2>1. /\ Date(y, 1, 1) = 365 * (y - 1970) + Leaps(y - 1) - 477
        /\ Date(y, 3, 8) = 365 * (y - 1970) + Leaps(y) - 477 + 59 + 8 - 1
    BY <1>3, NewYear, MarchAndApril
  <2>2. Leaps(y) \in Int /\ Leaps(y - 1) \in Int
    BY <1>3, LeapsAreEven
  <2>3. Leaps(y) = Leaps(y - 1) + (IF IsLeap(y) THEN 1 ELSE 0)
    BY <1>3, LeapsStep
  <2> QED
    BY <2>1, <2>2, <2>3, <1>3
<1>10. earlier < march * 86400 + 25200
  <2> SUFFICES ASSUME march * 86400 + 25200 <= earlier PROVE FALSE
    BY <1>2
  <2>1. march * 86400 <= earlier
    BY <1>2
  <2>2. march <= day
    BY <2>1, <1>5
  <2>3. Date(y, 1, 1) \in Int /\ Date(y, 3, 8) \in Int /\ Date(y + 1, 1, 1) \in Int
    BY <1>3, YearHasDates, NewYear
  <2>4. Date(y, 1, 1) <= day /\ day < Date(y + 1, 1, 1)
    BY <2>2, <2>3, <1>2, <1>3, <1>6, <1>9
  <2>5. YearOf(day) = y
    BY <2>4, <1>2, <1>3, YearIs
  <2>6. Summer(earlier, YearOf(day), march, november)
    BY <2>5, <1>7
  <2>7. YearOf(day) = YearOf(earlier \div 86400)
    BY DEF day
  <2>8. IsDaylight(earlier)
    BY <2>6, <2>7, <1>0, <1>2
  <2> QED
    BY <2>8, <1>8
<1>11. march * 86400 + 25200 <= ts /\ ts < march * 86400 + 28800
  BY <1>4, <1>8, <1>10
<1> QED
  BY <1>4, <1>11

\* calendar.rs keeps the published holidays, and the published hours as long as New
\* York keeps standard time: in daylight time it opens and closes an hour late.
THEOREM SessionHoursLag ==
  ASSUME NEW filtering \in Filters, NEW ts \in Int, YearOf(LocalDate(ts)) \in Computus
  PROVE  is_session_open(filtering, ts) <=> InTradingHours(filtering, ts - Behind(ts))
<1> SUFFICES ClockInHours(filtering, Local(ts)) <=> InTradingHours(filtering, ts - Behind(ts))
  BY HoursByFixedClock
<1>1. Local(ts) = ts - 18000
  BY DEF Local
<1>2. CASE ~IsDaylight(ts)
  <2>1. ts - Behind(ts) = ts /\ NewYork(ts) = ts - 18000
    BY <1>2 DEF Behind, NewYork
  <2> QED
    BY <2>1, <1>1 DEF InTradingHours
<1>3. CASE IsDaylight(ts) /\ IsDaylight(ts - 3600)
  <2>1. ts - Behind(ts) = ts - 3600 /\ NewYork(ts - 3600) = ts - 18000
    BY <1>3 DEF Behind, NewYork
  <2> QED
    BY <2>1, <1>1 DEF InTradingHours
<1>4. CASE IsDaylight(ts) /\ ~IsDaylight(ts - 3600)
  <2>1. ts - Behind(ts) = ts - 3600 /\ NewYork(ts - 3600) = ts - 21600
    BY <1>4 DEF Behind, NewYork
  <2>2. PICK sunday \in Int :
          /\ Weekday(sunday) = 6
          /\ sunday * 86400 + 25200 <= ts
          /\ ts < sunday * 86400 + 28800
    BY <1>4, FirstHourOfDaylight
  <2> DEFINE fixed == ts - 18000 - sunday * 86400
             standard == ts - 21600 - sunday * 86400
  <2>3. /\ fixed \in Int /\ 0 <= fixed /\ fixed < 61200
        /\ standard \in Int /\ 0 <= standard /\ standard < 61200
        /\ ts - 18000 = sunday * 86400 + fixed
        /\ ts - 21600 = sunday * 86400 + standard
    BY <2>2
  <2> HIDE DEF fixed, standard
  <2>5. /\ ClockInHours(filtering, sunday * 86400 + fixed) <=> filtering = "none"
        /\ ClockInHours(filtering, sunday * 86400 + standard) <=> filtering = "none"
    BY <2>2, <2>3, ClosedOnSundayMorning
  <2>4. ClockInHours(filtering, ts - 18000) <=> ClockInHours(filtering, ts - 21600)
    BY <2>3, <2>5
  <2> QED
    BY <2>1, <2>4, <1>1 DEF InTradingHours
<1> QED
  BY <1>2, <1>3, <1>4

-----------------------------------------------------------------------------
\* The loop keeps the events that are drawn in session and drops the others.
Taken ==
  /\ filter \in Filters
  /\ drawn \in Seq(Int) /\ Len(drawn) = Len(out)
  /\ \A n \in 1..Len(out) : Timed(out[n]) => drawn[n] = StampOf(tape, out[n])
  /\ processed \in Seq(1..Len(out))
  /\ phase # "cancelled" =>
       \A n \in 1..Len(out) : n \in Range(processed) <=> is_session_open(filter, drawn[n])
  /\ phase \in {"finishing", "reported"} => heap = {}

SessionInv == OrderInv /\ Taken

LEMMA RangeOfAppend ==
  ASSUME NEW S, NEW s \in Seq(S), NEW x \in S
  PROVE  /\ Append(s, x) \in Seq(S)
         /\ Range(Append(s, x)) = Range(s) \cup {x}
<1>1. Append(s, x) \in Seq(S) /\ Len(Append(s, x)) = Len(s) + 1 /\ Len(s) \in Nat
      /\ Append(s, x)[Len(s) + 1] = x /\ \A n \in 1..Len(s) : Append(s, x)[n] = s[n]
  BY AppendProperties
<1>2. DOMAIN Append(s, x) = 1..(Len(s) + 1) /\ DOMAIN s = 1..Len(s)
  BY <1>1
<1>3. 1..(Len(s) + 1) = 1..Len(s) \cup {Len(s) + 1}
  BY <1>1
<1> QED
  BY <1>1, <1>2, <1>3 DEF Range

\* A drawn event is taken at its own instant, if it has one.
LEMMA DrawKeepsInstants ==
  ASSUME OrderInv, Taken, NEW e \in heap, NextEvent(e),
         NEW ts \in Instants(e), drawn' = Append(drawn, ts)
  PROVE  /\ drawn' \in Seq(Int) /\ Len(drawn') = Len(out')
         /\ Len(out') = Len(out) + 1 /\ Len(out) \in Nat
         /\ drawn'[Len(out')] = ts
         /\ \A n \in 1..Len(out) : drawn'[n] = drawn[n]
         /\ \A n \in 1..Len(out') : Timed(out[n])' => drawn'[n] = StampOf(tape, out[n])'
<1>1. ts \in Int
  BY InstantOfDraw DEF OrderInv
<1>2. drawn' \in Seq(Int) /\ Len(drawn') = Len(drawn) + 1 /\ Len(drawn) \in Nat
      /\ drawn'[Len(drawn) + 1] = ts /\ \A n \in 1..Len(drawn) : drawn'[n] = drawn[n]
  BY <1>1, AppendProperties DEF Taken
<1>3. e \in Events(tape) /\ out' = Append(out, e) /\ out \in Seq(Events(tape)) /\ tape' = tape
  BY DEF OrderInv, MergeInv, Frontier, Ordered, NextEvent, Pops
<1>4. Len(out') = Len(out) + 1 /\ Len(out) \in Nat /\ out'[Len(out) + 1] = e
      /\ \A n \in 1..Len(out) : out'[n] = out[n]
  BY <1>3, AppendProperties
<1>5. ASSUME NEW n \in 1..Len(out'), Timed(out[n])' PROVE drawn'[n] = StampOf(tape, out[n])'
  <2>1. StampOf(tape, out'[n]) # Untimed
    BY <1>3, <1>5 DEF Timed
  <2>2. CASE n = Len(out) + 1
    <3>1. StampOf(tape, e) # Untimed /\ drawn'[n] = ts
      BY <2>1, <2>2, <1>2, <1>4 DEF Taken
    <3>2. ts = StampOf(tape, e)
      BY <3>1 DEF Instants
    <3> QED
      BY <3>1, <3>2, <2>2, <1>3, <1>4
  <2>3. CASE n \in 1..Len(out)
    BY <2>1, <2>3, <1>2, <1>3, <1>4 DEF Taken, Timed
  <2>4. n = Len(out) + 1 \/ n \in 1..Len(out)
    BY <1>4
  <2> QED
    BY <2>2, <2>3, <2>4
<1> QED
  BY <1>2, <1>4, <1>5 DEF Taken

LEMMA SkipKeepsTaken ==
  ASSUME SessionInv, NEW e \in heap, Skip(e)
  PROVE  Taken'
<1>1. PICK ts \in Instants(e) : ~is_session_open(filter, ts) /\ drawn' = Append(drawn, ts)
  BY DEF Skip
<1>2. NextEvent(e) /\ phase = "reading" /\ phase' = phase /\ processed' = processed /\ filter' = filter
  BY DEF Skip
<1>3. /\ drawn' \in Seq(Int) /\ Len(drawn') = Len(out')
      /\ Len(out') = Len(out) + 1 /\ Len(out) \in Nat
      /\ drawn'[Len(out')] = ts
      /\ \A n \in 1..Len(out) : drawn'[n] = drawn[n]
      /\ \A n \in 1..Len(out') : Timed(out[n])' => drawn'[n] = StampOf(tape, out[n])'
  BY <1>1, <1>2, DrawKeepsInstants DEF SessionInv
<1>4. processed \in Seq(1..Len(out)) /\ \A n \in Range(processed) : n \in 1..Len(out)
  BY ElementOfSeq DEF SessionInv, Taken, Range
<1>5. processed' \in Seq(1..Len(out'))
  <2>1. 1..Len(out) \subseteq 1..Len(out')
    BY <1>3
  <2> QED
    BY <2>1, <1>2, <1>4, SeqMonotonic
<1>6. ASSUME NEW n \in 1..Len(out')
      PROVE  n \in Range(processed) <=> is_session_open(filter, drawn'[n])
  <2>1. CASE n = Len(out')
    BY <2>1, <1>1, <1>3, <1>4
  <2>2. CASE n \in 1..Len(out)
    BY <2>2, <1>2, <1>3 DEF SessionInv, Taken
  <2> QED
    BY <2>1, <2>2, <1>3
<1> QED
  BY <1>2, <1>3, <1>5, <1>6 DEF SessionInv, Taken

LEMMA AcceptKeepsTaken ==
  ASSUME SessionInv, NEW e \in heap, Accept(e)
  PROVE  Taken'
<1>1. PICK ts \in Instants(e) :
        /\ is_session_open(filter, ts)
        /\ drawn' = Append(drawn, ts)
        /\ \/ phase' = "cancelled" /\ processed' = processed
           \/ phase' = "processing" /\ processed' = Append(processed, Len(drawn'))
  BY DEF Accept, Looks, Tracked
<1>2. NextEvent(e) /\ phase = "reading" /\ filter' = filter
  BY DEF Accept, Looks, Tracked
<1>3. /\ drawn' \in Seq(Int) /\ Len(drawn') = Len(out')
      /\ Len(out') = Len(out) + 1 /\ Len(out) \in Nat
      /\ drawn'[Len(out')] = ts
      /\ \A n \in 1..Len(out) : drawn'[n] = drawn[n]
      /\ \A n \in 1..Len(out') : Timed(out[n])' => drawn'[n] = StampOf(tape, out[n])'
  BY <1>1, <1>2, DrawKeepsInstants DEF SessionInv
<1>4. processed \in Seq(1..Len(out)) /\ \A n \in Range(processed) : n \in 1..Len(out)
  BY ElementOfSeq DEF SessionInv, Taken, Range
<1>5. processed \in Seq(1..Len(out'))
  <2>1. 1..Len(out) \subseteq 1..Len(out')
    BY <1>3
  <2> QED
    BY <2>1, <1>4, SeqMonotonic
<1>6. CASE phase' = "cancelled" /\ processed' = processed
  BY <1>2, <1>3, <1>5, <1>6 DEF SessionInv, Taken
<1>7. CASE phase' = "processing" /\ processed' = Append(processed, Len(drawn'))
  <2>1. processed' \in Seq(1..Len(out')) /\ Range(processed') = Range(processed) \cup {Len(out')}
    <3> DEFINE S == 1..Len(out')
               x == Len(out')
    <3>1. x \in S /\ processed \in Seq(S) /\ processed' = Append(processed, x)
      BY <1>3, <1>5, <1>7
    <3> HIDE DEF S, x
    <3>2. Append(processed, x) \in Seq(S) /\ Range(Append(processed, x)) = Range(processed) \cup {x}
      BY <3>1, RangeOfAppend
    <3> QED
      BY <3>1, <3>2 DEF S, x
  <2>2. ASSUME NEW n \in 1..Len(out')
        PROVE  n \in Range(processed') <=> is_session_open(filter, drawn'[n])
    <3>1. CASE n = Len(out')
      BY <3>1, <2>1, <1>1, <1>3
    <3>2. CASE n \in 1..Len(out)
      BY <3>2, <2>1, <1>2, <1>3 DEF SessionInv, Taken
    <3> QED
      BY <3>1, <3>2, <1>3
  <2> QED
    BY <1>2, <1>3, <1>7, <2>1, <2>2 DEF SessionInv, Taken
<1> QED
  BY <1>1, <1>6, <1>7

LEMMA StepPreservesSessionInv == SessionInv /\ [Next]_vars => SessionInv'
<1> SUFFICES ASSUME SessionInv, [Next]_vars PROVE SessionInv'
  OBVIOUS
<1>1. OrderInv'
  BY StepPreservesOrderInv DEF SessionInv
<1> SUFFICES Taken'
  BY <1>1 DEF SessionInv
<1>2. CASE \E e \in heap : Skip(e)
  BY <1>2, SkipKeepsTaken
<1>3. CASE \E e \in heap : Accept(e)
  BY <1>3, AcceptKeepsTaken
<1>4. ASSUME UNCHANGED <<mergeVars, filter, drawn, processed>>,
             phase' = "cancelled" <=> phase = "cancelled",
             phase' \in {"finishing", "reported"} =>
               heap = {} \/ phase \in {"finishing", "reported"}
      PROVE  Taken'
  <2>1. Timed(out[1])' <=> Timed(out[1])
    BY <1>4 DEF mergeVars, Timed, StampOf
  <2>2. \A n \in 1..Len(out) : Timed(out[n])' <=> Timed(out[n])
    BY <1>4 DEF mergeVars, Timed, StampOf
  <2> QED
    BY <1>4, <2>2 DEF SessionInv, Taken, mergeVars, Timed, StampOf
<1>5. CASE SetCancel \/ Exhausted \/ Process \/ Finish \/ UNCHANGED vars
  BY <1>4, <1>5 DEF SetCancel, Exhausted, Process, Finish, vars, loopVars
<1> QED
  BY <1>2, <1>3, <1>5 DEF Next

\* The dated events of the tapes are of the years the full moons are listed for.
InComputus == \A ts \in Times : YearOf(LocalDate(ts)) \in Computus

\* A run that reads its tapes to the end hands the engine every dated event of the
\* session, and no other: of the published one in standard time, of the one an hour
\* later in daylight time.
THEOREM SessionIsComplete ==
  ASSUME InComputus
  PROVE  Spec => []SessionIsReplayed
<1>1. Init => SessionInv
  <2> SUFFICES ASSUME Init PROVE Taken
    BY InitEstablishesOrderInv DEF SessionInv
  <2>1. drawn \in Seq(Int) /\ Len(drawn) = 0 /\ Len(out) = 0 /\ processed \in Seq(1..Len(out))
        /\ phase = "reading" /\ filter \in Filters
    BY DEF Init, MergeInit
  <2> QED
    BY <2>1 DEF Taken
<1>2. SessionInv => SessionIsReplayed
  <2> SUFFICES ASSUME SessionInv, phase \in {"finishing", "reported"}
               PROVE  {e \in {out[n] : n \in Range(processed)} : Timed(e)}
                        = {e \in Events(tape) : Timed(e) /\ InTradingHours(filter, StampOf(tape, e) - Behind(StampOf(tape, e)))}
    BY DEF SessionIsReplayed
  <2>1. heap = {} /\ filter \in Filters
    BY DEF SessionInv, Taken
  <2>2. Events(tape) = {out[n] : n \in 1..Len(out)}
    BY <2>1, LeftIsEmpty DEF SessionInv, OrderInv, Complete
  <2>3. ASSUME NEW n \in 1..Len(out), Timed(out[n])
        PROVE  n \in Range(processed) <=>
                 InTradingHours(filter, StampOf(tape, out[n]) - Behind(StampOf(tape, out[n])))
    <3>1. out[n] \in Events(tape) /\ tape \in [Sources -> Seq(Stamps)]
      BY <2>2 DEF SessionInv, OrderInv, MergeInv, Frontier
    <3>2. StampOf(tape, out[n]) \in Times
      <4>1. PICK i \in Sources : \E k \in 1..Len(tape[i]) : out[n] = <<i, k>>
        BY <3>1, EventOfTape
      <4>2. StampOf(tape, out[n]) \in Stamps
        BY <3>1, <4>1, ElementOfSeq DEF StampOf
      <4> QED
        BY <4>2, <2>3 DEF Stamps, Timed
    <3>3. StampOf(tape, out[n]) \in Int /\ YearOf(LocalDate(StampOf(tape, out[n]))) \in Computus
      BY <3>2, TimesAssumption DEF InComputus
    <3>4. is_session_open(filter, StampOf(tape, out[n])) <=>
            InTradingHours(filter, StampOf(tape, out[n]) - Behind(StampOf(tape, out[n])))
      BY <2>1, <3>3, SessionHoursLag
    <3>5. n \in Range(processed) <=> is_session_open(filter, drawn[n])
      BY DEF SessionInv, Taken
    <3>6. drawn[n] = StampOf(tape, out[n])
      BY <2>3 DEF SessionInv, Taken
    <3> QED
      BY <3>4, <3>5, <3>6
  <2>4. \A n \in Range(processed) : n \in 1..Len(out)
    BY ElementOfSeq DEF SessionInv, Taken, Range
  <2> QED
    BY <2>2, <2>3, <2>4
<1> QED
  BY <1>1, <1>2, StepPreservesSessionInv, PTL DEF Spec
=============================================================================
