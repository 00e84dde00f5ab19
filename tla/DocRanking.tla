----------------------------- MODULE DocRanking -----------------------------
(***************************************************************************)
(* Texts of the documentation search and the comparison that orders its    *)
(* results (dockerfiles/depwatcher/docs/js/doc.js: rankResults).           *)
(*                                                                         *)
(* A text is a sequence of tokens: parts of words and the characters that  *)
(* mean something in a query.  Positions count from 1 and 0 is none, where *)
(* the code counts from 0 and has -1.                                      *)
(***************************************************************************)
EXTENDS Integers, Sequences, FiniteSets

CONSTANTS
  Tokens,    \* parts of words, ":", "#" and "."
  LowerOf,   \* [Tokens -> Tokens], toLowerCase
  Names,     \* names of types, methods and constants
  Collation  \* [Names -> Int], their places in the order of localeCompare

Texts == Seq(Tokens)
Modifiers == {":", "#", "."}

ASSUME RankingAssumption ==
  /\ Modifiers \subseteq Tokens
  /\ LowerOf \in [Tokens -> Tokens]
  /\ \A t \in Tokens : LowerOf[LowerOf[t]] = LowerOf[t]
  /\ \A t \in Tokens : t \in Modifiers \/ LowerOf[t] \in Modifiers => LowerOf[t] = t
  /\ Names \subseteq Texts
  /\ Collation \in [Names -> Int]

Methods == {"instance_method", "class_method", "constructor", "macro"}
Kinds == Methods \cup {"type", "constant"}
Fields == {"name", "args", "doc", "type"}

\* A result as runQuery makes it.  matched_fields has a field as often as it
\* matched, here with a number each time; its order is never looked at, and of
\* matched_terms only the different ones are.
IsResult(r) ==
  /\ r.kind \in Kinds
  /\ r.name \in Names
  /\ r.full_name \in Texts /\ r.args \in Texts
  /\ r.fields \subseteq Fields \X Nat /\ IsFiniteSet(r.fields)
  /\ IsFiniteSet(r.terms)

-----------------------------------------------------------------------------
(***************************************************************************)
(* Texts.                                                                  *)
(***************************************************************************)

Smallest(numbers) == CHOOSE n \in numbers : \A m \in numbers : n <= m

\* normalizeTerm
Lower(text) == [i \in 1..Len(text) |-> LowerOf[text[i]]]

\* indexOf
IndexOf(text, part) ==
  LET at == {i \in 1..(Len(text) + 1 - Len(part)) :
               SubSeq(text, i, i + Len(part) - 1) = part}
  IN  IF at = {} THEN 0 ELSE Smallest(at)

\* Query.terms: a word that is a modifier only is no term (stripModifiers).
IsTerm(word) == Len(word) > IF word[1] \in Modifiers THEN 1 ELSE 0

\* term.replace(/^::?|::?$/, ""): without the flag g, what is at the end stays
\* when something at the start goes.
StripColons(term) ==
  LET n == Len(term)
      Colons(i, j) == IF term[i] # ":" THEN 0 ELSE IF n > 1 /\ term[j] = ":" THEN 2 ELSE 1
  IN  IF term[1] = ":" THEN SubSeq(term, Colons(1, 2) + 1, n)
      ELSE SubSeq(term, 1, n - Colons(n, n - 1))

-----------------------------------------------------------------------------
(***************************************************************************)
(* The comparison: negative when a goes before b.                          *)
(***************************************************************************)

Sign(n) == IF n > 0 THEN 1 ELSE IF n < 0 THEN -1 ELSE 0

\* A chain of ifs that return as soon as one of them tells a and b apart.
FirstSign(signs) ==
  LET told == {i \in DOMAIN signs : signs[i] # 0}
  IN  IF told = {} THEN 0 ELSE signs[Smallest(told)]

Matched(r, field) == \E f \in r.fields : f[1] = field

\* aOnlyDocs and bOnlyDocs both ask b whether the documentation matched.
ByKind(a, b) ==
  LET OnlyDocs(r) == Matched(b, "doc") /\ Cardinality(r.fields) = 1
  IN  IF a.kind = "type" /\ b.kind # "type" /\ ~OnlyDocs(a) THEN -1
      ELSE IF b.kind = "type" /\ a.kind # "type" /\ ~OnlyDocs(b) THEN 1
      ELSE 0

ByNamed(a, b) ==
  Sign((IF Matched(b, "name") THEN 1 ELSE 0) - (IF Matched(a, "name") THEN 1 ELSE 0))

\* Mutant: equal positions decide, too.
ByLaterOrSame(p, q) ==
  IF p = 0 \/ q = 0 THEN Sign((IF q = 0 THEN 0 ELSE 1) - (IF p = 0 THEN 0 ELSE 1))
  ELSE IF p > q THEN 1 ELSE -1

\* The earlier position, any position before none.
ByPosition(p, q) ==
  IF p = 0 \/ q = 0 THEN Sign((IF q = 0 THEN 0 ELSE 1) - (IF p = 0 THEN 0 ELSE 1))
  ELSE Sign(p - q)

\* prefixForType and the name in lower case.
RankedName(r) ==
  LET prefix == IF r.kind = "instance_method" THEN <<"#">>
                ELSE IF r.kind \in Methods THEN <<".">> ELSE <<>>
  IN  Lower(prefix \o (IF r.kind = "type" THEN r.full_name ELSE r.name))

ByNames(a, b, typed) ==
  FirstSign([i \in 1..Len(typed) |->
    IF ~IsTerm(typed[i]) THEN 0
    ELSE ByPosition(IndexOf(RankedName(a), StripColons(typed[i])),
                    IndexOf(RankedName(b), StripColons(typed[i])))])

ByArgs(a, b, typed) ==
  FirstSign([i \in 1..Len(typed) |->
    IF ~IsTerm(typed[i]) THEN 0
    ELSE ByPosition(IndexOf(a.args, typed[i]), IndexOf(b.args, typed[i]))])

\* The comparator of rankResults.  The words are as they were typed.
Compare(a, b, typed) ==
  FirstSign(<<
    ByKind(a, b),
    ByNamed(a, b),
    IF Matched(a, "name") /\ Matched(b, "name") THEN ByNames(a, b, typed) ELSE 0,
    Sign(Cardinality(b.terms) - Cardinality(a.terms)),
    Sign(Cardinality(b.fields) - Cardinality(a.fields)),
    Sign(Collation[a.name] - Collation[b.name]),
    IF Matched(a, "args") /\ Matched(b, "args") THEN ByArgs(a, b, typed) ELSE 0>>)

=============================================================================
