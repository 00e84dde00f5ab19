------------------------------ MODULE DocSearch ------------------------------
(***************************************************************************)
(* What a search in depwatcher's API documentation finds and shows         *)
(* (dockerfiles/depwatcher/docs/js/doc.js: Query, runQuery, rankResults,   *)
(* displaySearchResults).  A user types words and searches; when searches  *)
(* run is DocPage.                                                         *)
(*                                                                         *)
(* The index is any: the types in the order searchType visits them, each   *)
(* with its methods and constants in the order of their lists.  A result   *)
(* is known by its place in that order.  How it is written and what of it  *)
(* is highlighted are left out.                                            *)
(***************************************************************************)
EXTENDS DocRanking, SequencesExt

CONSTANTS
  Index,      \* Seq of types: [full_name, doc, members]
  Words,      \* what a user types between blanks
  MaxWords,   \* bound: words in a query
  MaxResults  \* MAX_RESULTS_DISPLAY

Members ==
  [kind : Methods \cup {"constant"}, name : Names, args : Seq(Texts),
   args_string : Texts, doc : Texts]

\* The name of a type without its namespace.
TypeName(type) ==
  LET n == type.full_name
      colons == {i \in 2..(Len(n) - 1) : n[i] = ":" /\ n[i + 1] = ":"}
  IN  IF colons = {} THEN n
      ELSE SubSeq(n, (CHOOSE i \in colons : \A j \in colons : j <= i) + 2, Len(n))

\* No name in Crystal has a "#" or a ".", nor a colon at either end.
IsName(name) ==
  /\ name \in Texts \ {<<>>}
  /\ \A i \in 1..Len(name) : name[i] \notin {"#", "."}
  /\ name[1] # ":" /\ name[Len(name)] # ":"

ASSUME SearchAssumption ==
  /\ Index \in Seq([full_name : Texts, doc : Texts, members : Seq(Members)])
  /\ \A i \in 1..Len(Index) :
       /\ IsName(Index[i].full_name)
       /\ TypeName(Index[i]) \in Names /\ IsName(TypeName(Index[i]))
       /\ \A j \in 1..Len(Index[i].members) : IsName(Index[i].members[j].name)
  /\ Words \subseteq Texts \ {<<>>}
  /\ MaxWords \in Nat /\ MaxResults \in Nat

VARIABLES
  words,    \* what the search box has
  query,    \* the words searched last
  found,    \* runQuery: the results for them, at their places
  shown     \* the places of those in the list

searchVars == <<words, query, found, shown>>

-----------------------------------------------------------------------------
(***************************************************************************)
(* Query.                                                                  *)
(***************************************************************************)

\* Mutant: the terms stay as they were typed.
TypedTerms(typed) == {w \in ToSet(typed) : IsTerm(w)}

\* Query.normalizedTerms, each once.
NormalizedTerms(typed) == {Lower(w) : w \in {v \in ToSet(typed) : IsTerm(v)}}

\* matches
InText(field, term) ==
  term[1] \notin {"#", "."} /\ IndexOf(field, term) > 0

\* Mutant: the term must follow a colon.
AfterColon(field, term) ==
  LET at == IndexOf(field, StripColons(term))
  IN  /\ IndexOf(term, <<":">>) > 0
      /\ at > 1 /\ field[at - 1] = ":"

\* namespaceMatcher: only the first place where the term occurs counts.
InNamespace(field, term) ==
  LET at == IndexOf(field, StripColons(term))
  IN  /\ IndexOf(term, <<":">>) > 0
      /\ at = 1 \/ (at > 1 /\ field[at - 1] = ":")

\* matchesMethod: "#" asks for instance methods and "." for the others, with
\* what is before it in the name of the type.
InMethod(field, kind, full_name, term) ==
  LET hash == IndexOf(term, <<"#">>)
      dot  == IndexOf(term, <<".">>)
      at   == IF hash > 0 THEN hash ELSE dot
      type == SubSeq(term, 1, at - 1)
  IN  \/ /\ at = 0
         /\ \/ term[1] # ":" /\ InNamespace(field, term)
            \/ IndexOf(field, term) > 0
      \/ /\ at > 0
         /\ kind \in (IF hash > 0 THEN {"instance_method"}
                      ELSE Methods \ {"instance_method"})
         /\ type = <<>> \/ IndexOf(Lower(full_name), type) > 0
         /\ IndexOf(field, SubSeq(term, at + 1, Len(term))) > 0

\* runMatcher, with `matches` and with `namespaceMatcher`.
MatchingText(field, terms) ==
  {t \in terms : field # <<>> /\ InText(Lower(field), t)}

MatchingNamespace(field, terms) ==
  {t \in terms : field # <<>> /\ InNamespace(Lower(field), t)}

-----------------------------------------------------------------------------
(***************************************************************************)
(* runQuery.                                                               *)
(***************************************************************************)

\* matchedFields and matches, from a field, a number and the terms it matched.
FieldsOf(tries) == {<<t[1], t[2]>> : t \in {u \in tries : u[3] # {}}}

MatchesOf(tries) == UNION {t[3] : t \in tries}

TypeResult(type, terms) ==
  LET tries == {<<"name", 1, MatchingText(TypeName(type), terms)>>,
                <<"name", 2, MatchingNamespace(type.full_name, terms)>>,
                <<"doc", 1, MatchingText(type.doc, terms)>>}
  IN  [kind |-> "type", name |-> TypeName(type), full_name |-> type.full_name,
       args |-> <<>>, fields |-> FieldsOf(tries), terms |-> MatchesOf(tries)]

\* searchMethod (which looks for the terms in the documentation of the type)
\* and searchConstant.  The name of the type only counts along with the others.
MemberResult(m, type, terms) ==
  LET names ==
        IF m.kind = "constant" THEN MatchingText(m.name, terms)
        ELSE {t \in terms : InMethod(Lower(m.name), m.kind, type.full_name, t)}
      doc == IF m.kind = "constant" THEN m.doc ELSE type.doc
      own == {<<"name", 1, names>>, <<"doc", 1, MatchingText(doc, terms)>>}
               \cup {<<"args", i, MatchingText(m.args[i], terms)>> : i \in DOMAIN m.args}
      tries == IF MatchesOf(own) = {} THEN {}
               ELSE own \cup {<<"type", 1, MatchingText(type.full_name, terms)>>}
  IN  [kind |-> m.kind, name |-> m.name,
       full_name |-> type.full_name \o <<"#">> \o m.name,
       args |-> m.args_string, fields |-> FieldsOf(tries), terms |-> MatchesOf(tries)]

\* A type, at 0, and its members after it.
Places ==
  UNION {{<<i, j>> : j \in 0..Len(Index[i].members)} : i \in 1..Len(Index)}

Earlier(p, q) == p[1] < q[1] \/ (p[1] = q[1] /\ p[2] < q[2])

ResultAt(p, terms) ==
  LET type == Index[p[1]]
  IN  IF p[2] = 0 THEN TypeResult(type, terms)
      ELSE MemberResult(type.members[p[2]], type, terms)

\* Mutant: a result must match every term.
FoundAll(terms) ==
  [p \in {q \in Places : terms # {} /\ ResultAt(q, terms).terms = terms} |->
     ResultAt(p, terms)]

\* searchType, from the type on top.
Found(terms) ==
  [p \in {q \in Places : ResultAt(q, terms).terms # {}} |-> ResultAt(p, terms)]

-----------------------------------------------------------------------------
(***************************************************************************)
(* rankResults and displaySearchResults.                                   *)
(***************************************************************************)

IsOrder(before, S) ==
  \A p, q, r \in S : /\ <<p, q>> \in before => <<q, p>> \notin before
                     /\ p # q => <<p, q>> \in before \/ <<q, p>> \in before
                     /\ <<p, q>> \in before /\ <<q, r>> \in before
                          => <<p, r>> \in before

\* How many go before each, counting from 0.
RankBy(before, S) == [p \in S |-> Cardinality({q \in S : <<q, p>> \in before})]

\* How the sort may rank what was found: equal ones stay in their order, but
\* nothing is promised of any when the comparator contradicts itself.
Rankings(results, typed) ==
  LET S == DOMAIN results
      before == {pq \in S \X S :
                   LET c == Compare(results[pq[1]], results[pq[2]], typed)
                   IN  c < 0 \/ (c = 0 /\ Earlier(pq[1], pq[2]))}
  IN  IF IsOrder(before, S) THEN {RankBy(before, S)}
      ELSE Injection(S, 0..(Cardinality(S) - 1))

\* Mutant: only as many terms as the first has.
KeepEqual(results, rank) ==
  {p \in DOMAIN results : \A q \in DOMAIN results :
     rank[q] = 0 => Cardinality(results[p].terms) = Cardinality(results[q].terms)}

\* The filter of rankResults looks at the first result, wherever the most terms
\* were matched.
Kept(results, rank) ==
  {p \in DOMAIN results : \A q \in DOMAIN results :
     rank[q] = 0 => Cardinality(results[p].terms) + 1 >= Cardinality(results[q].terms)}

\* The first ones of those kept.
Displayed(kept, rank) ==
  {p \in kept : Cardinality({q \in kept : rank[q] < rank[p]}) < MaxResults}

-----------------------------------------------------------------------------

SearchInit ==
  words = <<>> /\ query = <<>> /\ found = [p \in {} |-> p] /\ shown = {}

TypeWord(word) ==
  /\ Len(words) < MaxWords
  /\ words' = Append(words, word)
  /\ UNCHANGED <<query, found, shown>>

\* CrystalDoc.search
SearchWords ==
  /\ words # query /\ words # <<>>
  /\ query' = words
  /\ found' = Found(NormalizedTerms(words))
  /\ \E rank \in Rankings(found', words) : shown' = Displayed(Kept(found', rank), rank)
  /\ UNCHANGED words

SearchNext == SearchWords \/ \E word \in Words : TypeWord(word)

SearchSpec == SearchInit /\ [][SearchNext]_searchVars

-----------------------------------------------------------------------------
(***************************************************************************)
(* Properties.                                                             *)
(***************************************************************************)

CutOff == Cardinality(shown) = MaxResults

\* Whatever the order the sort leaves, no result with as many matched terms as
\* any is left out unless the list is full (rankResults).
MostMatchesAreShown ==
  \A p \in DOMAIN found :
    (\A q \in DOMAIN found : Cardinality(found[q].terms) <= Cardinality(found[p].terms))
      => p \in shown \/ CutOff

\* What a user may call what is at a place: a type by its full name and by the
\* last part of it, a method also with "#" or "." and the name of its type.
NamesAt(p) ==
  LET type == Index[p[1]]
      m    == type.members[p[2]]
      sign == IF m.kind = "instance_method" THEN <<"#">> ELSE <<".">>
  IN  IF p[2] = 0 THEN {type.full_name, TypeName(type)}
      ELSE IF m.kind = "constant" THEN {m.name}
      ELSE {m.name, sign \o m.name, type.full_name \o sign \o m.name}

\* What has one of its names among the words of a query is found by it (Query,
\* runQuery).
NamedIsFound ==
  \A p \in Places : NamesAt(p) \cap ToSet(query) # {} => p \in DOMAIN found

\* A query finds the same in capitals, although the ranking looks for the terms
\* as they were typed (normalizeTerm).
CaseIsIgnored ==
  found = Found(NormalizedTerms([i \in 1..Len(query) |-> Lower(query[i])]))

\* Two types, or two results that are not types, compare in the opposite way
\* when they are swapped.  A type and a method need not (aOnlyDocs in rankResults).
ComparedEitherWay ==
  \A p, q \in DOMAIN found :
    (found[p].kind = "type" <=> found[q].kind = "type")
      => Compare(found[p], found[q], query) = -Compare(found[q], found[p], query)

\* A further word never takes anything from what is found (runMatcher).
FoundGrows == [][DOMAIN found \subseteq DOMAIN found']_searchVars

=============================================================================
