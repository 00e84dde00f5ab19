--------------------------- MODULE MCReleaseGate ---------------------------
(***************************************************************************)
(* The instance of ReleaseGate.                                               *)
(***************************************************************************)
EXTENDS ReleaseGate

\* One environment for each of the two jobs.
EdgePool == [t \in {"edge"} |-> 2]

=============================================================================
