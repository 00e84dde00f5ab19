------------------------------ MODULE MCDocPage ------------------------------
(* Small instances of DocPage for TLC. *)
EXTENDS DocPage

\* Queries with several results, with one and without.
ThreeQueries == {"check", "crystal", "cheque"}
ThreeHits == [q \in ThreeQueries |->
                CASE q = "check" -> 2 [] q = "crystal" -> 1 [] OTHER -> 0]

=============================================================================
