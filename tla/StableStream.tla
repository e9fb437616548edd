---------------------------- MODULE StableStream ----------------------------
(***************************************************************************)
(* What a merged replay promises for any tapes, sorted or not.  An event   *)
(* falls due at the latest instant its own source has reached when it is   *)
(* read; events come in the order in which they fall due, those of one     *)
(* source in the order of its tape, simultaneous ones in source order.     *)
(* Nothing is lost and nothing comes twice.                                *)
(***************************************************************************)
EXTENDS EventTapes

VARIABLES
  tape,    \* source -> its recorded events
  left,    \* the events still to come
  stream   \* the events delivered, in order

streamVars == <<tape, left, stream>>

\* e falls due before f: whatever e's source holds up to e, the source of f
\* holds something later, or as late in a later source, up to f.
Precedes(e, f) ==
  IF e[1] = f[1]
  THEN e[2] < f[2]
  ELSE \A m \in 1..e[2] : \E n \in 1..f[2] : Before(tape, <<e[1], m>>, <<f[1], n>>)

StreamInit ==
  /\ tape \in Tapes
  /\ left = Events(tape)
  /\ stream = <<>>

Deliver(e) ==
  /\ e \in left
  /\ \A f \in left \ {e} : Precedes(e, f)
  /\ left' = left \ {e}
  /\ stream' = Append(stream, e)
  /\ UNCHANGED tape

StreamSpec == StreamInit /\ [][\E e \in left : Deliver(e)]_streamVars
=============================================================================
