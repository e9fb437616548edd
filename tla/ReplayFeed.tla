----------------------------- MODULE ReplayFeed -----------------------------
(***************************************************************************)
(* backtest::runner as the loop that feeds a replay: which events reach    *)
(* the engine, in what order and at what instant, when an equity sample is *)
(* taken, when a cancellation is noticed, and what range the report names. *)
(* What one event does to the account is ReplayEngine.tla; here it may     *)
(* fill or not, leave the portfolio priced or not, or fail.                *)
(***************************************************************************)
EXTENDS MergeSources, TradingDays, Functions

CONSTANTS
  Stride,      \* accepted events between two looks at the cancel flag, 64
  WallClock    \* instants the system clock may show

ASSUME StrideAssumption == Stride \in Nat \ {0}

ASSUME WallClockAssumption == WallClock \subseteq Int

\* No event has been processed yet.
NoTime == Untimed

VARIABLES
  filter,     \* BacktestConfig.session_filter
  cancel,     \* "absent", "clear" or "set": the caller's cancel flag
  phase,      \* where the run is
  drawn,      \* the instant the loop took each returned event at
  accepted,   \* event_ix: the events counted towards the stride
  processed,  \* the events tracked, as indices of out
  span,       \* first_event_ts and last_event_ts
  curve,      \* the instants of the equity samples
  filled,     \* whether fill_log holds a fill
  firstFill,  \* first_fill_event
  late        \* events processed since the flag was set

loopVars == <<filter, cancel, phase, drawn, accepted, processed, span, curve,
              filled, firstFill, late>>
vars == <<mergeVars, loopVars>>

Phases == {"reading", "processing", "finishing", "reported", "cancelled", "failed"}

(***************************************************************************)
(* ReplayRun::new, then the merge is opened.  A run of one instrument      *)
(* reads its source, or borrows its bars, directly: a merge of one source. *)
(***************************************************************************)
Init ==
  /\ MergeInit
  /\ filter \in Filters
  /\ cancel \in {"absent", "clear"}
  /\ phase = "reading"
  /\ drawn = <<>>
  /\ accepted = 0
  /\ processed = <<>>
  /\ span = [first |-> NoTime, last |-> NoTime]
  /\ curve = <<>>
  /\ filled = FALSE
  /\ firstFill = 0
  /\ late = 0

\* Another thread sets the flag.
SetCancel ==
  /\ cancel = "clear"
  /\ cancel' = "set"
  /\ UNCHANGED <<mergeVars, filter, phase, drawn, accepted, processed, span,
                 curve, filled, firstFill, late>>

\* runner::event_ts: an event without an instant is taken at the wall clock's.
Instants(e) ==
  IF StampOf(tape, e) = Untimed THEN WallClock ELSE {StampOf(tape, e)}

\* An event outside the session is dropped and not counted.
Skip(e) ==
  /\ phase = "reading"
  /\ NextEvent(e)
  /\ \E ts \in Instants(e) :
       /\ ~is_session_open(filter, ts)
       /\ drawn' = Append(drawn, ts)
  /\ UNCHANGED <<filter, cancel, phase, accepted, processed, span, curve, filled,
                 firstFill, late>>

\* Mutant of Looks: one event late.
LooksLate(n) == n % (Stride + 1) = 0

\* Whether the flag is looked at after n accepted events.
Looks(n) == n % Stride = 0

\* Mutant of Tracked: the first instant is overwritten.
TrackedLast(ts) == [first |-> ts, last |-> ts]

\* track_event.
Tracked(ts) ==
  [first |-> IF span.first = NoTime THEN ts ELSE span.first, last |-> ts]

\* ReplayRun::accept, and track_event when the run goes on.
Accept(e) ==
  /\ phase = "reading"
  /\ NextEvent(e)
  /\ \E ts \in Instants(e) :
       /\ is_session_open(filter, ts)
       /\ drawn' = Append(drawn, ts)
       /\ accepted' = accepted + 1
       /\ IF Looks(accepted') /\ cancel = "set"
          THEN /\ phase' = "cancelled"
               /\ UNCHANGED <<processed, span, late>>
          ELSE /\ phase' = "processing"
               /\ processed' = Append(processed, Len(drawn'))
               /\ span' = Tracked(ts)
               /\ late' = IF cancel = "set" THEN late + 1 ELSE late
  /\ UNCHANGED <<filter, cancel, curve, filled, firstFill>>

\* record_equity: no sample until something has priced the account.
RecordEquity(ts) ==
  /\ firstFill' = IF firstFill = 0 /\ filled' THEN Len(processed) ELSE firstFill
  /\ \/ curve' = Append(curve, ts)
     \/ curve = <<>> /\ UNCHANGED curve

\* The engine is done with the event, or a poll or the strategy failed.
Process ==
  /\ phase = "processing"
  /\ \/ /\ phase' = "reading"
        /\ filled' \in {filled, TRUE}
        /\ RecordEquity(span.last)
     \/ /\ phase' = "failed"
        /\ UNCHANGED <<curve, filled, firstFill>>
  /\ UNCHANGED <<mergeVars, filter, cancel, drawn, accepted, processed, span, late>>

Exhausted ==
  /\ phase = "reading"
  /\ heap = {}
  /\ phase' = "finishing"
  /\ UNCHANGED <<mergeVars, filter, cancel, drawn, accepted, processed, span,
                 curve, filled, firstFill, late>>

\* finish_strategy samples the equity again if the last callback changed
\* anything and there is an instant to sample it at; then the report is built.
Finish ==
  /\ phase = "finishing"
  /\ \/ /\ phase' = "reported"
        /\ filled' \in {filled, TRUE}
        /\ \/ /\ span.last # NoTime
              /\ RecordEquity(span.last)
           \/ /\ span.last = NoTime \/ filled' = filled
              /\ UNCHANGED <<curve, firstFill>>
     \/ /\ phase' = "failed"
        /\ UNCHANGED <<curve, filled, firstFill>>
  /\ UNCHANGED <<mergeVars, filter, cancel, drawn, accepted, processed, span, late>>

Next ==
  \/ SetCancel
  \/ \E e \in heap : Skip(e) \/ Accept(e)
  \/ Process
  \/ Exhausted
  \/ Finish

Spec == Init /\ [][Next]_vars

-----------------------------------------------------------------------------

Timed(e) == StampOf(tape, e) # Untimed

AllTimed == \A e \in Events(tape) : Timed(e)

(***************************************************************************)
(* A run that reads its tapes to the end has handed the engine every dated *)
(* event of the session, and no other: neither the merge nor the filter of *)
(* calendar.rs loses one, whatever the order of the tapes and the wall     *)
(* clock (runner.rs:333-341, 414-433).  The session is the published one   *)
(* as long as New York keeps standard time.  In daylight time it is the    *)
(* published one an hour late, both edges of it: calendar.rs:11 and 13 and *)
(* data/README.md:51 promise the hours of New York, calendar.rs:43 and 154 *)
(* read the clock five hours behind UTC.                                   *)
(***************************************************************************)
SessionIsReplayed ==
  phase \in {"finishing", "reported"} =>
    {e \in {out[n] : n \in Range(processed)} : Timed(e)}
      = {e \in Events(tape) :
           Timed(e) /\ InTradingHours(filter, StampOf(tape, e) - Behind(StampOf(tape, e)))}

(***************************************************************************)
(* When every tape is dated and in time order, the equity samples come in  *)
(* time order, the extra one after the last callback included, and the     *)
(* range the report names is the least and the greatest instant that was   *)
(* processed (runner.rs:397-412, 435-451).                                 *)
(***************************************************************************)
ReportInOrder ==
  Sorted(tape) /\ AllTimed =>
    /\ \A m, n \in 1..Len(curve) : m < n => curve[m] <= curve[n]
    /\ \A n \in Range(processed) : span.first <= drawn[n] /\ drawn[n] <= span.last
    /\ \A ts \in Range(curve) : span.first <= ts /\ ts <= span.last

(***************************************************************************)
(* Once the flag is set less than one stride of further events reaches the *)
(* engine, whenever in the loop it was set and however many events the     *)
(* session drops, and a caller that gave no flag is not cancelled          *)
(* (runner.rs:423-430).                                                    *)
(***************************************************************************)
CancelIsHeeded ==
  /\ late < Stride
  /\ phase = "cancelled" => cancel = "set"
=============================================================================
