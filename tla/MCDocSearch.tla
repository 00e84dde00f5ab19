----------------------------- MODULE MCDocSearch -----------------------------
(* A small index of DocSearch for TLC, with types of depwatcher. *)
EXTENDS DocSearch

SomeTokens == {":", "#", ".", "Depwatcher", "depwatcher", "Base", "base",
               "HTTP", "http", "Client", "client", "new", "VERSION", "version"}

SomeLower ==
  [t \in SomeTokens |->
     CASE t = "Depwatcher" -> "depwatcher" [] t = "Base" -> "base"
       [] t = "HTTP" -> "http" [] t = "Client" -> "client"
       [] t = "VERSION" -> "version" [] OTHER -> t]

InOrder == << <<"Base">>, <<"client">>, <<"Depwatcher">>, <<"HTTP", "Client">>,
              <<"new">>, <<"VERSION">> >>
SomeNames == ToSet(InOrder)
SomeCollation == [n \in SomeNames |-> CHOOSE i \in DOMAIN InOrder : InOrder[i] = n]

Depwatcher == <<"Depwatcher">>
In(name) == Depwatcher \o <<":", ":">> \o name

SomeIndex == <<
  [full_name |-> Depwatcher, doc |-> <<>>, members |-> <<
     [kind |-> "constant", name |-> <<"VERSION">>, args |-> <<>>,
      args_string |-> <<>>, doc |-> <<"base">>] >>],
  [full_name |-> In(<<"Base">>), doc |-> <<"client">>, members |-> <<
     [kind |-> "instance_method", name |-> <<"client">>, args |-> <<>>,
      args_string |-> <<>>, doc |-> <<>>],
     [kind |-> "constructor", name |-> <<"new">>, args |-> << <<"client">> >>,
      args_string |-> <<"client">>, doc |-> <<>>] >>],
  [full_name |-> In(<<"HTTP", "Client">>), doc |-> <<>>, members |-> <<>>] >>

SomeWords == {
  <<"client">>, <<"Client">>, <<"http">>, <<"#">>, <<"#", "client">>,
  <<".", "new">>, In(<<"Base">>), <<":", ":", "Base">>,
  In(<<"Base">>) \o <<".", "new">>, In(<<"HTTP", "Client">>), <<"VERSION">> }

=============================================================================
