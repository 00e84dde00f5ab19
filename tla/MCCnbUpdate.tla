---------------------------- MODULE MCCnbUpdate ----------------------------
(***************************************************************************)
(* Instances of CnbUpdate.                                                 *)
(***************************************************************************)
EXTENDS CnbUpdate

V(line, number) == [line |-> line, number |-> number]

\* Two versions of one line, and one of another.
TwoLines == {V(1, 1), V(1, 2), V(2, 1)}

\* One more than two that are kept.
OneLine == {V(1, 1), V(1, 2), V(1, 3)}

=============================================================================
