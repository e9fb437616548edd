----------------------------- MODULE EventTapes -----------------------------
(***************************************************************************)
(* The recorded events a replay reads: one tape per historical source.  An *)
(* event is named by its place, <<source, position>>; of its content only  *)
(* the time stamp matters here.                                            *)
(***************************************************************************)
EXTENDS Integers, Sequences

CONSTANTS
  Sources,   \* indices of the sources, in the order they were loaded
  Times,     \* the instants recorded events carry
  Untimed,   \* the stamp of an account or control event: it carries no instant
  Epoch,     \* 1970-01-01T00:00Z
  Tapes      \* what the sources may hold: source -> its events' stamps

ASSUME SourcesAssumption == Sources \subseteq Nat

ASSUME TimesAssumption == Times \subseteq Int /\ Epoch \in Int /\ Untimed \notin Int

Stamps == Times \cup {Untimed}

ASSUME TapesAssumption == Tapes \subseteq [Sources -> Seq(Stamps)]

Events(tape) == UNION {{i} \X (1..Len(tape[i])) : i \in Sources}

StampOf(tape, e) == tape[e[1]][e[2]]

\* The instant the merge orders an event by.
event_ts(tape, e) ==
  IF StampOf(tape, e) = Untimed THEN Epoch ELSE StampOf(tape, e)

\* The order of the heap: by instant, then by source.
Before(tape, e, f) ==
  \/ event_ts(tape, e) < event_ts(tape, f)
  \/ event_ts(tape, e) = event_ts(tape, f) /\ e[1] < f[1]

\* Every tape is written in time order.
SortedTape(tape, i) ==
  \A m, n \in 1..Len(tape[i]) :
    m <= n => event_ts(tape, <<i, m>>) <= event_ts(tape, <<i, n>>)

Sorted(tape) == \A i \in Sources : SortedTape(tape, i)
=============================================================================
