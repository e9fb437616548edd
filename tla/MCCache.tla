------------------------------ MODULE MCCache ------------------------------
(***************************************************************************)
(* Command lines for the runs of DatabentoCache.                           *)
(***************************************************************************)
EXTENDS DatabentoCache, TLC

CommandLines ==
  [request : Requests, adjust : BOOLEAN, refresh : BOOLEAN, definitions : BOOLEAN,
   estimate : BOOLEAN]

\* Raw or adjusted data, definitions with either, and an estimate.
SomeConfigs == {c \in CommandLines : c.estimate => c.definitions /\ c.adjust /\ c.refresh}

\* Plain fetches.
PlainConfigs == {c \in CommandLines : ~(c.adjust \/ c.refresh \/ c.definitions \/ c.estimate)}

\* Requests and versions are compared for equality only.
Symmetry == Permutations(Requests) \cup Permutations(Versions)
=============================================================================
