--------------------------- MODULE MCVersionLines ---------------------------
(* Small instances of VersionLines for TLC. *)
EXTENDS VersionLines

V(major, minor, patch) ==
  [major |-> major, minor |-> minor, patch |-> patch, suffix |-> <<>>]

\* Two versions of line 1.2.X, one of which has a fourth segment, and one of line
\* 1.3.X, which comes later, as may 1.X.X, were it not refused.
SomeVersions ==
  {V(1, 2, 9), [V(1, 2, 9) EXCEPT !.suffix = <<1>>], V(1, 3, 0)}

Line12 == <<1, Dot, 2, Dot, X>>
Line13 == <<1, Dot, 3, Dot, X>>
Line1  == <<1, Dot, X, Dot, X>>

SomeLines == {Line12}
OtherLines == {Line13, Line1}

\* The lines are of the kind that the theorem on separate lines is about.
ASSUME InstanceStandsApart == LinesStandApart

=============================================================================
