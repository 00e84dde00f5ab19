--------------------------- MODULE MCDotnetTable ---------------------------
(***************************************************************************)
(* The instance of DotnetTable.                                            *)
(***************************************************************************)
EXTENDS DotnetTable

S(channel, line, number, patch) ==
  [channel |-> channel, line |-> line, number |-> number, patch |-> patch]

\* Two lines of channel 1, with three runtimes, and a line of channel 2.
TwoChannels ==
  {S(1, 1, 1, 1), S(1, 1, 2, 2), S(1, 1, 3, 3),
   S(1, 2, 1, 1), S(1, 2, 2, 2), S(1, 2, 3, 3),
   S(2, 1, 1, 1), S(2, 1, 2, 2)}

\* The second runtime of channel 2 is like 2.2.10, which contains "2.1".
Mistaken == {<<2, 2, 1>>}

=============================================================================
