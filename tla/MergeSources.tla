---------------------------- MODULE MergeSources ----------------------------
(***************************************************************************)
(* backtest::merge: a k-way merge of historical sources that holds one     *)
(* pending event per source in a heap.                                     *)
(***************************************************************************)
EXTENDS EventTapes

VARIABLES
  tape,   \* source -> its recorded events
  read,   \* source -> how many of its events have been drawn
  heap,   \* the pending events
  out     \* the events the iterator has returned, in order

mergeVars == <<tape, read, heap, out>>

\* HistoricalSource::next_event
HasNext(i) == read[i] < Len(tape[i])

\* MergedSources::new draws the first event of every source.
Opened(t) == [i \in Sources |-> IF Len(t[i]) > 0 THEN 1 ELSE 0]

MergeInit ==
  /\ tape \in Tapes
  /\ read = Opened(tape)
  /\ heap = {e \in Events(tape) : e[2] = 1}
  /\ out = <<>>

\* Mutant of Pops: the source does not break a tie.
PopsUntied(e) == e \in heap /\ \A f \in heap \ {e} : event_ts(tape, e) <= event_ts(tape, f)

\* The heap gives up its least event.
Pops(e) == e \in heap /\ \A f \in heap \ {e} : Before(tape, e, f)

\* Iterator::next pops an event and draws its successor.
NextEvent(e) ==
  /\ Pops(e)
  /\ IF HasNext(e[1])
     THEN /\ read' = [read EXCEPT ![e[1]] = @ + 1]
          /\ heap' = (heap \ {e}) \cup {<<e[1], read[e[1]] + 1>>}
     ELSE /\ heap' = heap \ {e}
          /\ UNCHANGED read
  /\ out' = Append(out, e)
  /\ UNCHANGED tape

Unread == {e \in Events(tape) : e[2] > read[e[1]]}

Stream == INSTANCE StableStream WITH left <- heap \cup Unread, stream <- out

(***************************************************************************)
(* The merge delivers the stable stream of its sources: no tape, sorted or *)
(* not, makes it lose, repeat or reorder events beyond what the latest     *)
(* instant of each source imposes, and a tie goes to the source that was   *)
(* loaded first (merge.rs:71-81).                                          *)
(***************************************************************************)
Implements == Stream!StreamSpec

(***************************************************************************)
(* If every tape is written in time order, the merged events are too, and  *)
(* simultaneous ones come in the order their sources were loaded.          *)
(***************************************************************************)
MergedInOrder ==
  Sorted(tape) =>
    \A m, n \in 1..Len(out) :
      m < n => \/ Before(tape, out[m], out[n])
               \/ out[m][1] = out[n][1] /\ out[m][2] < out[n][2]
=============================================================================
