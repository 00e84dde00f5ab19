--------------------------- MODULE CnbUpdateProofs ---------------------------
(***************************************************************************)
(* Theorems of CnbUpdate, for every set of versions and stacks, every      *)
(* number of versions to keep and every bound.                             *)
(***************************************************************************)
EXTENDS CnbUpdate, FiniteSetTheorems, WellFoundedInduction, TLAPS

\* "less than" on the naturals as a relation.
LEMMA LessIsWellFounded ==
  \E R : IsWellFoundedOn(R, Nat) /\ \A m, n \in Nat : m < n => <<m, n>> \in R
<1>1. \A m, n \in Nat : m < n => <<m, n>> \in OpToRel(<, Nat)
  BY DEF OpToRel
<1> QED
  BY <1>1, NatLessThanWellFounded

-----------------------------------------------------------------------------
(***************************************************************************)
(* Versions                                                                *)
(***************************************************************************)

\* Newer is irreflexive and transitive.
LEMMA NewerIsStrict ==
  ASSUME NEW u \in Versions, NEW v \in Versions, NEW w \in Versions
  PROVE  /\ ~Newer(v, v)
         /\ Newer(u, v) /\ Newer(v, w) => Newer(u, w)
BY VersionsAssumption DEF Newer

\* Sets of versions are finite, and a smaller number means a smaller set.
LEMMA VersionSetsAreFinite ==
  ASSUME NEW S \in SUBSET Versions
  PROVE  /\ IsFiniteSet(S) /\ Cardinality(S) \in Nat
         /\ \A T \in SUBSET S : /\ Cardinality(T) \in Nat
                                /\ Cardinality(T) <= Cardinality(S)
                                /\ Cardinality(T) = Cardinality(S) => T = S
<1>1. IsFiniteSet(S)
  BY VersionsAssumption, FS_Subset
<1>2. ASSUME NEW T \in SUBSET S
      PROVE  /\ Cardinality(T) \in Nat
             /\ Cardinality(T) <= Cardinality(S)
             /\ Cardinality(T) = Cardinality(S) => T = S
  BY <1>1, <1>2, FS_Subset, FS_CardinalityType
<1> QED
  BY <1>1, <1>2, FS_CardinalityType

\* The versions of S that are newer than v.
NewerIn(S, v) == {w \in S : Newer(w, v)}

\* In a set of versions that is not empty one has no newer one.
LEMMA NewestExists ==
  ASSUME NEW S \in SUBSET Versions, S # {}
  PROVE  \E v \in S : \A w \in S : ~Newer(w, v)
<1> DEFINE Rank(v) == Cardinality(NewerIn(S, v))
           Ranks == {Rank(v) : v \in S}
<1>1. \A v \in S : Rank(v) \in Nat
  <2>1. \A v \in S : NewerIn(S, v) \in SUBSET S
    BY DEF NewerIn
  <2> QED
    BY <2>1, VersionSetsAreFinite
<1>2. Ranks \in SUBSET Nat /\ Ranks # {}
  BY <1>1
<1>3. PICK R : IsWellFoundedOn(R, Nat) /\ \A m, k \in Nat : m < k => <<m, k>> \in R
  BY LessIsWellFounded
<1>4. IsWellFoundedOn(R, Nat)
  BY <1>3
<1>5. \E k \in Ranks : \A m \in Ranks : ~(<<m, k>> \in R)
  <2> HIDE DEF Ranks
  <2> QED
    BY <1>2, <1>4, WFMin, Zenon
<1>6. PICK v \in S : \A m \in Ranks : ~(<<m, Rank(v)>> \in R)
  BY <1>5
<1>7. ASSUME NEW w \in S, Newer(w, v)
      PROVE  FALSE
  <2>1. NewerIn(S, w) \in SUBSET NewerIn(S, v)
    BY <1>7, NewerIsStrict DEF NewerIn
  <2>2. w \in NewerIn(S, v) /\ w \notin NewerIn(S, w)
    BY <1>7, NewerIsStrict DEF NewerIn
  <2>3. NewerIn(S, v) \in SUBSET Versions
    BY DEF NewerIn
  <2>4. Rank(w) <= Rank(v) /\ Rank(w) # Rank(v)
    BY <2>1, <2>2, <2>3, VersionSetsAreFinite
  <2>5. Rank(w) \in Nat /\ Rank(v) \in Nat /\ Rank(w) \in Ranks
    BY <1>1
  <2> HIDE DEF Rank, Ranks
  <2>6. Rank(w) < Rank(v)
    BY <2>4, <2>5
  <2>7. <<Rank(w), Rank(v)>> \in R
    BY <1>3, <2>5, <2>6
  <2> QED
    BY <1>6, <2>5, <2>7
<1> QED
  BY <1>7

\* If what is gone from Old has Keep newer versions among those that are left
\* or that are gone themselves, it has Keep newer ones among those left: of the
\* versions for which this fails, look at the newest.
LEMMA EnoughAreLeft ==
  ASSUME NEW Old \in SUBSET Versions, NEW Left \in SUBSET Versions,
         \A v \in Old : v \in Left \/ \E S \in SUBSET (Old \cup Left) :
                                        Cardinality(NewerIn(S, v)) >= Keep
  PROVE  \A v \in Old : v \in Left \/ Cardinality(NewerIn(Left, v)) >= Keep
<1> DEFINE Bad == {v \in Old : v \notin Left /\ ~(Cardinality(NewerIn(Left, v)) >= Keep)}
<1>1. SUFFICES ASSUME Bad # {} PROVE FALSE
  OBVIOUS
<1>2. PICK v \in Bad : \A w \in Bad : ~Newer(w, v)
  <2>1. Bad \in SUBSET Versions
    OBVIOUS
  <2> HIDE DEF Bad
  <2> QED
    BY <1>1, <2>1, NewestExists
<1>3. PICK S \in SUBSET (Old \cup Left) : Cardinality(NewerIn(S, v)) >= Keep
  OBVIOUS
<1>4. /\ NewerIn(S, v) \in SUBSET Versions /\ NewerIn(Left, v) \in SUBSET Versions
      /\ v \in Versions
  BY DEF NewerIn
<1>5. ASSUME NEW T \in SUBSET NewerIn(Left, v), Cardinality(T) >= Keep
      PROVE  FALSE
  <2>1. Cardinality(T) <= Cardinality(NewerIn(Left, v))
    BY <1>4, VersionSetsAreFinite
  <2>2. Cardinality(T) \in Nat /\ Cardinality(NewerIn(Left, v)) \in Nat
    BY <1>4, VersionSetsAreFinite
  <2>3. ~(Cardinality(NewerIn(Left, v)) >= Keep)
    OBVIOUS
  <2> QED
    BY <1>5, <2>1, <2>2, <2>3, KeepAssumption
<1>6. PICK w \in NewerIn(S, v) : w \notin Left
  <2>1. SUFFICES ASSUME NewerIn(S, v) \subseteq Left PROVE FALSE
    OBVIOUS
  <2>2. NewerIn(S, v) \in SUBSET NewerIn(Left, v)
    BY <2>1 DEF NewerIn
  <2> QED
    BY <1>3, <1>5, <2>2
<1>7. w \in Old /\ Newer(w, v)
  BY <1>6 DEF NewerIn
<1>8. Cardinality(NewerIn(Left, w)) >= Keep
  BY <1>2, <1>6, <1>7
<1>9. NewerIn(Left, w) \in SUBSET NewerIn(Left, v)
  BY <1>4, <1>7, NewerIsStrict DEF NewerIn
<1> QED
  BY <1>5, <1>8, <1>9

\* Superseded, in terms of the versions on the stack.
LEMMA SupersededIs ==
  ASSUME NEW deps, NEW v, NEW s
  PROVE  Superseded(deps, v, s) <=> Cardinality(NewerIn(OnStack(deps, s), v)) >= Keep
BY DEF Superseded, NewerIn

-----------------------------------------------------------------------------
(***************************************************************************)
(* Dependencies#Update                                                     *)
(***************************************************************************)

\* Every entry is for one stack.
Singletons(deps) == \A d \in deps : \E s \in Stacks : d.stacks = {s}

\* The fields of an entry.
LEMMA EntryIs ==
  ASSUME NEW d \in Entries
  PROVE  /\ d = [version |-> d.version, build |-> d.build, stacks |-> d.stacks]
         /\ d.version \in Versions /\ d.build \in 1..MaxBuilds
         /\ d.stacks \subseteq Stacks /\ d.stacks # {}
BY DEF Entries

\* A stack has versions of the dependency.
LEMMA OnStackIsVersions ==
  ASSUME NEW deps \in SUBSET Entries, NEW s
  PROVE  OnStack(deps, s) \in SUBSET Versions
BY EntryIs DEF OnStack

\* Entries for one stack each have the same versions per stack.
LEMMA ExpandIs ==
  ASSUME NEW deps \in SUBSET Entries, OneBinary(deps)
  PROVE  /\ ExpandByStack(deps) \in SUBSET Entries
         /\ OneBinary(ExpandByStack(deps)) /\ Singletons(ExpandByStack(deps))
         /\ \A s \in Stacks : OnStack(ExpandByStack(deps), s) = OnStack(deps, s)
<1> DEFINE E == ExpandByStack(deps)
           Part(d, s) == [version |-> d.version, build |-> d.build, stacks |-> {s}]
<1>1. \A d \in deps : \A s : [d EXCEPT !.stacks = {s}] = Part(d, s)
  BY EntryIs
<1>2. \A e : e \in E <=> \E d \in deps : e \in {Part(d, s) : s \in d.stacks}
  <2>1. ASSUME NEW d \in deps
        PROVE  {[d EXCEPT !.stacks = {s}] : s \in d.stacks} = {Part(d, s) : s \in d.stacks}
    <3> HIDE DEF Part
    <3> QED
      BY <1>1, Zenon
  <2> DEFINE Parts(d) == {[d EXCEPT !.stacks = {s}] : s \in d.stacks}
  <2>2. E = UNION {Parts(d) : d \in deps}
    BY Zenon DEF ExpandByStack
  <2>3. \A d \in deps : Parts(d) = {Part(d, s) : s \in d.stacks}
    BY <2>1, Zenon
  <2> HIDE DEF Parts, Part, E
  <2> QED
    BY <2>2, <2>3
<1>3. /\ \A e \in E : \E d \in deps : \E s \in d.stacks : e = Part(d, s)
      /\ \A d \in deps : \A s \in d.stacks : Part(d, s) \in E
  BY <1>2, Zenon
<1>4. \A d \in deps : \A s \in d.stacks : Part(d, s) \in Entries /\ s \in Stacks
  <2>1. SUFFICES ASSUME NEW d \in deps, NEW s \in d.stacks
                 PROVE  Part(d, s) \in Entries /\ s \in Stacks
    OBVIOUS
  <2>2. d.version \in Versions /\ d.build \in 1..MaxBuilds /\ s \in Stacks
    BY EntryIs
  <2> QED
    BY <2>2 DEF Entries
<1> HIDE DEF E
<1>5. E \in SUBSET Entries /\ Singletons(E)
  BY <1>3, <1>4 DEF Singletons
<1>6. OneBinary(E)
  <2>1. SUFFICES ASSUME NEW d \in E, NEW e \in E, d.version = e.version,
                        d.stacks \cap e.stacks # {}
                 PROVE  d = e
    BY DEF OneBinary
  <2>2. PICK c \in deps : \E s \in c.stacks : d = Part(c, s)
    BY <1>3
  <2>3. PICK s \in c.stacks : d = Part(c, s)
    BY <2>2
  <2>4. PICK f \in deps : \E t \in f.stacks : e = Part(f, t)
    BY <1>3
  <2>5. PICK t \in f.stacks : e = Part(f, t)
    BY <2>4
  <2>6. s = t
    BY <2>1, <2>3, <2>5
  <2>7. c.version = f.version /\ c.stacks \cap f.stacks # {}
    BY <2>1, <2>3, <2>5, <2>6
  <2>8. c = f
    BY <2>7 DEF OneBinary
  <2> QED
    BY <2>3, <2>5, <2>6, <2>8
<1>7. ASSUME NEW s \in Stacks
      PROVE  OnStack(E, s) = OnStack(deps, s)
  <2>1. ASSUME NEW e \in E, s \in e.stacks
        PROVE  e.version \in OnStack(deps, s)
    <3>1. PICK d \in deps : \E t \in d.stacks : e = Part(d, t)
      BY <1>3
    <3>2. PICK t \in d.stacks : e = Part(d, t)
      BY <3>1
    <3> QED
      BY <2>1, <3>2 DEF OnStack
  <2>2. ASSUME NEW d \in deps, s \in d.stacks
        PROVE  d.version \in OnStack(E, s)
    <3>1. Part(d, s) \in E /\ s \in Part(d, s).stacks
      BY <1>3, <2>2
    <3> QED
      BY <3>1 DEF OnStack
  <2> QED
    BY <2>1, <2>2 DEF OnStack
<1> QED
  BY <1>5, <1>6, <1>7 DEF E

\* Overwriting per version and stack loses no version.
LEMMA MergeWithIs ==
  ASSUME NEW deps \in SUBSET Entries, OneBinary(deps), Singletons(deps),
         NEW newDeps \in SUBSET Entries, OneBinary(newDeps), Singletons(newDeps)
  PROVE  /\ MergeWith(deps, newDeps) \in SUBSET Entries
         /\ OneBinary(MergeWith(deps, newDeps))
         /\ Singletons(MergeWith(deps, newDeps))
         /\ \A s \in Stacks :
              OnStack(deps, s) \subseteq OnStack(MergeWith(deps, newDeps), s)
<1> DEFINE M == MergeWith(deps, newDeps)
<1>1. M \in SUBSET Entries /\ Singletons(M)
  BY DEF MergeWith, Singletons
<1>2. ASSUME NEW d \in M, NEW e \in M, d.version = e.version, d.stacks \cap e.stacks # {}
      PROVE  d = e
  <2>1. d.stacks = e.stacks
    BY <1>1, <1>2 DEF Singletons
  <2>2. CASE d \in newDeps /\ e \in newDeps
    BY <1>2, <2>2 DEF OneBinary
  <2>3. CASE d \notin newDeps /\ e \notin newDeps
    BY <1>2, <2>3 DEF OneBinary, MergeWith
  <2>4. CASE d \in newDeps /\ e \notin newDeps
    BY <1>2, <2>1, <2>4 DEF MergeWith
  <2>5. CASE d \notin newDeps /\ e \in newDeps
    BY <1>2, <2>1, <2>5 DEF MergeWith
  <2> QED
    BY <2>2, <2>3, <2>4, <2>5
<1>3. OneBinary(M)
  BY <1>2 DEF OneBinary
<1>4. ASSUME NEW s \in Stacks
      PROVE  OnStack(deps, s) \subseteq OnStack(M, s)
  <2>1. SUFFICES ASSUME NEW d \in deps, s \in d.stacks
                 PROVE  d.version \in OnStack(M, s)
    BY DEF OnStack
  <2>2. CASE d \in M
    BY <2>1, <2>2 DEF OnStack
  <2>3. CASE d \notin M
    <3>1. PICK n \in newDeps : n.version = d.version /\ n.stacks = d.stacks
      BY <2>3 DEF MergeWith
    <3>2. n \in M /\ s \in n.stacks
      BY <2>1, <3>1 DEF MergeWith
    <3> QED
      BY <3>1, <3>2 DEF OnStack
  <2> QED
    BY <2>2, <2>3
<1> QED
  BY <1>1, <1>3, <1>4

\* What is removed from a stack has Keep newer versions there afterwards.
LEMMA RemoveOldIs ==
  ASSUME NEW deps \in SUBSET Entries, OneBinary(deps), Singletons(deps),
         NEW v \in Versions
  PROVE  /\ RemoveOldDeps(deps, v) \in SUBSET Entries
         /\ OneBinary(RemoveOldDeps(deps, v))
         /\ \A s \in Stacks : \A w \in OnStack(deps, s) :
              \/ w \in OnStack(RemoveOldDeps(deps, v), s)
              \/ Superseded(RemoveOldDeps(deps, v), w, s)
<1> DEFINE R == RemoveOldDeps(deps, v)
<1>1. R \in SUBSET deps
  BY DEF RemoveOldDeps
<1>2. R \in SUBSET Entries /\ OneBinary(R)
  BY <1>1 DEF OneBinary
<1>3. ASSUME NEW s \in Stacks
      PROVE  \A w \in OnStack(deps, s) : w \in OnStack(R, s) \/ Superseded(R, w, s)
  <2> DEFINE Old == OnStack(deps, s)
             Left == OnStack(R, s)
  <2>1. Old \in SUBSET Versions /\ Left \in SUBSET Versions
    BY <1>2, OnStackIsVersions
  <2>2. ASSUME NEW w \in Old, w \notin Left
        PROVE  Cardinality(NewerIn(Old, w)) >= Keep
    <3>1. PICK d \in deps : d.version = w /\ s \in d.stacks
      BY DEF OnStack
    <3>2. d \notin R /\ d.stacks = {s}
      BY <2>2, <3>1 DEF OnStack, Singletons
    <3>3. ~(Cardinality({x \in OnStack(deps, s) : Newer(x, d.version)}) < Keep)
      BY <3>2 DEF RemoveOldDeps
    <3>4. NewerIn(Old, w) = {x \in OnStack(deps, s) : Newer(x, d.version)}
      BY <3>1 DEF NewerIn
    <3>5. NewerIn(Old, w) \in SUBSET Versions
      BY <2>1 DEF NewerIn
    <3>6. Cardinality(NewerIn(Old, w)) \in Nat
      BY <3>5, VersionSetsAreFinite
    <3>7. ~(Cardinality(NewerIn(Old, w)) < Keep)
      BY <3>3, <3>4
    <3> QED
      BY <3>6, <3>7, KeepAssumption
  <2>3. \A w \in Old : w \in Left \/ \E S \in SUBSET (Old \cup Left) :
                                        Cardinality(NewerIn(S, w)) >= Keep
    BY <2>2
  <2> HIDE DEF Old, Left
  <2>4. \A w \in Old : w \in Left \/ Cardinality(NewerIn(Left, w)) >= Keep
    BY <2>1, <2>3, EnoughAreLeft
  <2> QED
    BY <2>4, SupersededIs DEF Old, Left
<1> QED
  BY <1>2, <1>3

\* Joining the entries of one build changes no stack.
LEMMA CollapseIs ==
  ASSUME NEW deps \in SUBSET Entries, OneBinary(deps)
  PROVE  /\ CollapseByStack(deps) \in SUBSET Entries
         /\ OneBinary(CollapseByStack(deps))
         /\ \A s \in Stacks : OnStack(CollapseByStack(deps), s) = OnStack(deps, s)
<1> DEFINE C == CollapseByStack(deps)
           Same(d) == {e \in deps : e.version = d.version /\ e.build = d.build}
           Whole(d) == [version |-> d.version, build |-> d.build,
                        stacks |-> StacksOf(Same(d))]
<1>1. \A d \in deps : [d EXCEPT !.stacks = StacksOf(Same(d))] = Whole(d)
  BY EntryIs
<1>2. \A c \in C : \E d \in deps : c = Whole(d)
  BY <1>1 DEF CollapseByStack
<1>3. \A d \in deps : Whole(d) \in C
  BY <1>1 DEF CollapseByStack
<1> HIDE DEF C
<1>4. ASSUME NEW d \in deps
      PROVE  Whole(d) \in Entries /\ d.stacks \subseteq Whole(d).stacks
  <2>1. d.stacks # {} /\ d.version \in Versions /\ d.build \in 1..MaxBuilds
    BY EntryIs
  <2>2. d.stacks \subseteq StacksOf(Same(d))
    BY DEF StacksOf
  <2>3. StacksOf(Same(d)) \subseteq Stacks
    BY EntryIs DEF StacksOf
  <2> QED
    BY <2>1, <2>2, <2>3 DEF Entries
<1>5. C \in SUBSET Entries
  BY <1>2, <1>4
<1>6. \A d \in deps : \A s \in Whole(d).stacks :
        \E e \in deps : e.version = d.version /\ e.build = d.build /\ s \in e.stacks
  BY DEF StacksOf
<1>7. OneBinary(C)
  <2>1. SUFFICES ASSUME NEW c \in C, NEW b \in C, c.version = b.version,
                        c.stacks \cap b.stacks # {}
                 PROVE  c = b
    BY DEF OneBinary
  <2>2. PICK d \in deps : c = Whole(d)
    BY <1>2
  <2>3. PICK e \in deps : b = Whole(e)
    BY <1>2
  <2>4. PICK s \in c.stacks : s \in b.stacks
    BY <2>1
  <2>5. PICK f \in deps : f.version = d.version /\ f.build = d.build /\ s \in f.stacks
    BY <1>6, <2>2, <2>4
  <2>6. PICK g \in deps : g.version = e.version /\ g.build = e.build /\ s \in g.stacks
    BY <1>6, <2>3, <2>4
  <2>7. d.version = e.version
    BY <2>1, <2>2, <2>3
  <2>8. f = g
    BY <2>5, <2>6, <2>7 DEF OneBinary
  <2>9. d.build = e.build
    BY <2>5, <2>6, <2>8
  <2> QED
    BY <2>2, <2>3, <2>7, <2>9
<1>8. ASSUME NEW s \in Stacks
      PROVE  OnStack(C, s) = OnStack(deps, s)
  <2>1. ASSUME NEW c \in C, s \in c.stacks
        PROVE  c.version \in OnStack(deps, s)
    <3>1. PICK d \in deps : c = Whole(d)
      BY <1>2
    <3>2. PICK e \in deps : e.version = d.version /\ s \in e.stacks
      BY <1>6, <2>1, <3>1
    <3> QED
      BY <3>1, <3>2 DEF OnStack
  <2>2. ASSUME NEW d \in deps, s \in d.stacks
        PROVE  d.version \in OnStack(C, s)
    <3>1. Whole(d) \in C /\ s \in Whole(d).stacks
      BY <1>3, <1>4, <2>2
    <3> QED
      BY <3>1 DEF OnStack
  <2> QED
    BY <2>1, <2>2 DEF OnStack
<1> QED
  BY <1>5, <1>7, <1>8 DEF C

\* What is built and configured, which Init has before there is a main.
BuildsAreTyped ==
  /\ built \in [Versions -> 0..MaxBuilds]
  /\ copies \in [Versions -> [CopyStacks -> 0..MaxBuilds]]
  /\ configured \in (SUBSET Stacks) \ {{}}

\* The metadata files of a version name one build for each stack.
LEMMA LoadIs ==
  ASSUME BuildsAreTyped, NEW v \in Versions
  PROVE  /\ LoadDependencies(v) \in SUBSET Entries
         /\ OneBinary(LoadDependencies(v)) /\ Singletons(LoadDependencies(v))
<1>1. \A s \in configured : s \in Stacks /\ BuildFor(v, s) \in 0..MaxBuilds
  BY BoundsAssumption DEF BuildsAreTyped, BuildFor
<1>2. \A d \in LoadDependencies(v) : \E s \in configured :
        BuildFor(v, s) # 0 /\ d = [version |-> v, build |-> BuildFor(v, s), stacks |-> {s}]
  BY DEF LoadDependencies
<1>3. ASSUME NEW d \in LoadDependencies(v)
      PROVE  d \in Entries /\ \E s \in Stacks : d.stacks = {s}
  <2>1. PICK s \in configured : /\ BuildFor(v, s) # 0
                                /\ d = [version |-> v, build |-> BuildFor(v, s), stacks |-> {s}]
    BY <1>2
  <2>2. BuildFor(v, s) \in 1..MaxBuilds /\ s \in Stacks
    BY <1>1, <2>1, BoundsAssumption
  <2> QED
    BY <2>1, <2>2 DEF Entries
<1>4. OneBinary(LoadDependencies(v))
  <2>1. SUFFICES ASSUME NEW d \in LoadDependencies(v), NEW e \in LoadDependencies(v),
                        d.stacks \cap e.stacks # {}
                 PROVE  d = e
    BY DEF OneBinary
  <2>2. PICK s \in configured : d = [version |-> v, build |-> BuildFor(v, s), stacks |-> {s}]
    BY <1>2
  <2>3. PICK t \in configured : e = [version |-> v, build |-> BuildFor(v, t), stacks |-> {t}]
    BY <1>2
  <2>4. s = t
    BY <2>1, <2>2, <2>3
  <2> QED
    BY <2>2, <2>3, <2>4
<1> QED
  BY <1>3, <1>4 DEF Singletons

\* deps may be replaced by newDeps: one binary each, and nothing is lost on a
\* stack but what Keep newer versions have taken the place of.
Improves(newDeps, deps) ==
  /\ OneBinary(deps) /\ OneBinary(newDeps)
  /\ \A s \in Stacks : \A w \in OnStack(deps, s) :
       w \in OnStack(newDeps, s) \/ Superseded(newDeps, w, s)

\* The whole update improves the dependencies it starts from.
LEMMA UpdateDependenciesIs ==
  ASSUME BuildsAreTyped, NEW deps \in SUBSET Entries, OneBinary(deps), NEW v \in Versions
  PROVE  LET new == UpdateDependencies(deps, LoadDependencies(v), v)
         IN  new \in SUBSET Entries /\ Improves(new, deps)
<1> DEFINE E == ExpandByStack(deps)
           M == MergeWith(E, LoadDependencies(v))
           R == RemoveOldDeps(M, v)
           C == CollapseByStack(R)
<1>1. /\ E \in SUBSET Entries /\ OneBinary(E) /\ Singletons(E)
      /\ \A s \in Stacks : OnStack(E, s) = OnStack(deps, s)
  BY ExpandIs
<1> HIDE DEF E
<1>2. /\ M \in SUBSET Entries /\ OneBinary(M) /\ Singletons(M)
      /\ \A s \in Stacks : OnStack(E, s) \subseteq OnStack(M, s)
  BY <1>1, LoadIs, MergeWithIs
<1> HIDE DEF M
<1>3. /\ R \in SUBSET Entries /\ OneBinary(R)
      /\ \A s \in Stacks : \A w \in OnStack(M, s) : w \in OnStack(R, s) \/ Superseded(R, w, s)
  BY <1>2, RemoveOldIs
<1> HIDE DEF R
<1>4. /\ C \in SUBSET Entries /\ OneBinary(C)
      /\ \A s \in Stacks : OnStack(C, s) = OnStack(R, s)
  BY <1>3, CollapseIs
<1> HIDE DEF C
<1>5. \A s \in Stacks : \A w : Superseded(R, w, s) <=> Superseded(C, w, s)
  BY <1>4, SupersededIs
<1>6. \A s \in Stacks : \A w \in OnStack(deps, s) : w \in OnStack(C, s) \/ Superseded(C, w, s)
  BY <1>1, <1>2, <1>3, <1>4, <1>5
<1>7. C = UpdateDependencies(deps, LoadDependencies(v), v)
  BY DEF C, R, M, E, UpdateDependencies
<1>8. Improves(C, deps)
  BY <1>4, <1>6 DEF Improves
<1> QED
  BY <1>4, <1>7, <1>8

-----------------------------------------------------------------------------
(***************************************************************************)
(* The invariant                                                           *)
(***************************************************************************)

\* All these versions and stacks have been on main.
Offers(deps) ==
  \A s \in Stacks : \A w \in OnStack(deps, s) : <<w, s>> \in offered

\* A pull request was made from what main once was, and improves that.
PullRequestsFit ==
  \A pr \in prs :
    /\ Improves(pr.head.deps, pr.base.deps)
    /\ Offers(pr.base.deps)
    /\ pr.base.stacks = StacksOf(pr.base.deps)
    /\ pr.head.stacks = StacksOf(pr.head.deps)

\* What every step keeps.
IInv ==
  /\ TypeOK
  /\ Offers(main.deps)
  /\ OneBinaryPerStack
  /\ StacksAreListed
  /\ OfferedIsKept
  /\ PullRequestsFit

\* The stacks of dependencies are those with a version.
LEMMA StacksOfIs ==
  ASSUME NEW deps \in SUBSET Entries
  PROVE  /\ StacksOf(deps) \in SUBSET Stacks
         /\ \A s : s \in StacksOf(deps) <=> OnStack(deps, s) # {}
<1>1. \A s : s \in StacksOf(deps) <=> \E d \in deps : s \in d.stacks
  BY DEF StacksOf
<1>2. \A s : OnStack(deps, s) # {} <=> \E d \in deps : s \in d.stacks
  BY DEF OnStack
<1>3. \A d \in deps : d.stacks \subseteq Stacks
  BY EntryIs
<1> QED
  BY <1>1, <1>2, <1>3

\* What the order of a buildpack.toml can be: a version of the dependency or none.
Orders == {{}} \cup {{v} : v \in Versions}

\* The fields of a buildpack.toml.
LEMMA TomlIs ==
  ASSUME NEW toml \in Tomls
  PROVE  toml.deps \in SUBSET Entries /\ toml.stacks \in SUBSET Stacks /\ toml.order \in Orders
BY DEF Tomls, Orders

\* An update leaves an order that can be.
LEMMA UpdateOrdersIs ==
  ASSUME NEW order \in Orders, NEW v \in Versions
  PROVE  UpdateOrders(order, v) \in Orders
<1>1. CASE order = {}
  <2>1. UpdateOrders(order, v) = {}
    BY <1>1 DEF UpdateOrders
  <2> QED
    BY <2>1 DEF Orders
<1>2. CASE order # {}
  <2>1. UpdateOrders(order, v) = {v}
    BY <1>2 DEF UpdateOrders
  <2> QED
    BY <2>1 DEF Orders
<1> QED
  BY <1>1, <1>2

\* The head of a pull request improves its base.
LEMMA UpdateTomlIs ==
  ASSUME BuildsAreTyped, NEW toml, toml.deps \in SUBSET Entries, OneBinary(toml.deps),
         toml.order \in Orders, NEW v \in Versions
  PROVE  /\ UpdateToml(toml, v) \in Tomls
         /\ Improves(UpdateToml(toml, v).deps, toml.deps)
         /\ UpdateToml(toml, v).stacks = StacksOf(UpdateToml(toml, v).deps)
<1> DEFINE new == UpdateDependencies(toml.deps, LoadDependencies(v), v)
           order == UpdateOrders(toml.order, v)
<1>1. new \in SUBSET Entries /\ Improves(new, toml.deps)
  BY UpdateDependenciesIs
<1>2. UpdateToml(toml, v) = [deps |-> new, stacks |-> StacksOf(new), order |-> order]
  BY DEF UpdateToml
<1>3. order \in Orders
  BY UpdateOrdersIs
<1> HIDE DEF new, order
<1>4. StacksOf(new) \in SUBSET Stacks
  BY <1>1, StacksOfIs
<1> QED
  BY <1>1, <1>2, <1>3, <1>4 DEF Tomls, Orders

\* The first buildpack.toml satisfies the invariant.
LEMMA InitHolds ==
  ASSUME Init
  PROVE  IInv
<1>1. PICK v \in Versions, order \in Orders :
        /\ built = [w \in Versions |-> IF w = v THEN 1 ELSE 0]
        /\ copies = [w \in Versions |-> [c \in CopyStacks |-> built[w]]]
        /\ main = UpdateToml([deps |-> {}, stacks |-> {}, order |-> order], v)
  <2>1. \A v \in Versions : {{}, {v}} \subseteq Orders
    BY DEF Orders
  <2> QED
    BY <2>1 DEF Init
<1> DEFINE none == [deps |-> {}, stacks |-> {}, order |-> order]
<1>2. /\ built \in [Versions -> 0..MaxBuilds]
      /\ copies \in [Versions -> [CopyStacks -> 0..MaxBuilds]]
  <2>1. \A w \in Versions : (IF w = v THEN 1 ELSE 0) \in 0..MaxBuilds
    BY BoundsAssumption
  <2>2. built \in [Versions -> 0..MaxBuilds]
    BY <1>1, <2>1
  <2> QED
    BY <1>1, <2>2
<1>3. configured \in (SUBSET Stacks) \ {{}}
  BY DEF Init
<1>4. /\ main \in Tomls /\ OneBinary(main.deps)
      /\ main.stacks = StacksOf(main.deps)
  <2>1. BuildsAreTyped
    BY <1>2, <1>3 DEF BuildsAreTyped
  <2>2. /\ none.deps \in SUBSET Entries /\ OneBinary(none.deps)
        /\ none.order \in Orders
    BY DEF OneBinary
  <2>3. main = UpdateToml(none, v)
    BY <1>1
  <2> HIDE DEF none
  <2> QED
    BY <2>1, <2>2, <2>3, UpdateTomlIs DEF Improves
<1>5. TypeOK
  <2>1. offered \subseteq Versions \X Stacks
    BY DEF Init
  <2>2. rebuilds \in 0..MaxRebuilds /\ edits \in 0..MaxEdits
    BY BoundsAssumption DEF Init
  <2>3. prs = {}
    BY DEF Init
  <2> QED
    BY <1>2, <1>3, <1>4, <2>1, <2>2, <2>3 DEF TypeOK
<1>6. Offers(main.deps)
  <2>1. \A s \in Stacks : OnStack(main.deps, s) \in SUBSET Versions
    BY <1>4, TomlIs, OnStackIsVersions
  <2>2. offered = {x \in Versions \X Stacks : x[1] \in OnStack(main.deps, x[2])}
    BY DEF Init
  <2> QED
    BY <2>1, <2>2 DEF Offers
<1>7. OfferedIsKept
  BY DEF Init, OfferedIsKept
<1>8. PullRequestsFit
  BY DEF Init, PullRequestsFit
<1> QED
  BY <1>4, <1>5, <1>6, <1>7, <1>8 DEF IInv, OneBinaryPerStack, StacksAreListed

\* Steps that leave main alone and open no pull request.
LEMMA MainStays ==
  ASSUME IInv, TypeOK', UNCHANGED <<main, offered>>, prs' \subseteq prs
  PROVE  IInv'
<1>1. Offers(main.deps)' /\ OneBinaryPerStack' /\ StacksAreListed' /\ OfferedIsKept'
  BY DEF IInv, Offers, OneBinaryPerStack, StacksAreListed, OfferedIsKept
<1>2. PullRequestsFit'
  BY DEF IInv, PullRequestsFit, Offers
<1> QED
  BY <1>1, <1>2 DEF IInv

\* A build keeps the invariant.
LEMMA BuildHolds ==
  ASSUME IInv, NEW v \in Versions, Build(v)
  PROVE  IInv'
<1>1. built[v] + 1 \in 0..MaxBuilds /\ rebuilds' \in 0..MaxRebuilds
  <2>1. built[v] \in 0..MaxBuilds
    BY DEF IInv, TypeOK
  <2>2. built[v] + 1 \in 0..MaxBuilds
    BY <2>1, BoundsAssumption DEF Build
  <2>3. rebuilds \in 0..MaxRebuilds
    BY DEF IInv, TypeOK
  <2> QED
    BY <2>1, <2>2, <2>3, BoundsAssumption DEF Build
<1>2. TypeOK'
  BY <1>1 DEF IInv, TypeOK, Build
<1> QED
  BY <1>2, MainStays DEF Build

\* A copy job keeps the invariant.
LEMMA CopyHolds ==
  ASSUME IInv, NEW v \in Versions, NEW c \in CopyStacks, Copy(v, c)
  PROVE  IInv'
<1>1. TypeOK'
  BY DEF IInv, TypeOK, Copy
<1> QED
  BY <1>1, MainStays DEF Copy

\* An edit of the configured stacks keeps the invariant.
LEMMA ConfigureHolds ==
  ASSUME IInv, NEW S \in SUBSET Stacks, Configure(S)
  PROVE  IInv'
<1>1. edits' \in 0..MaxEdits
  BY BoundsAssumption DEF IInv, TypeOK, Configure
<1>2. TypeOK'
  BY <1>1 DEF IInv, TypeOK, Configure
<1> QED
  BY <1>2, MainStays DEF Configure

\* Closing a pull request keeps the invariant.
LEMMA CloseHolds ==
  ASSUME IInv, NEW pr \in prs, Close(pr)
  PROVE  IInv'
<1>1. TypeOK'
  BY DEF IInv, TypeOK, Close
<1> QED
  BY <1>1, MainStays DEF Close

\* A new pull request is made from main and improves it.
LEMMA UpdateHolds ==
  ASSUME IInv, NEW v \in Versions, Update(v)
  PROVE  IInv'
<1> DEFINE head == UpdateToml(main, v)
           new == [version |-> v, base |-> main, head |-> head]
<1>1. /\ main \in Tomls /\ main.deps \in SUBSET Entries /\ OneBinary(main.deps)
      /\ main.order \in Orders
  BY TomlIs DEF IInv, TypeOK, OneBinaryPerStack
<1>2. head \in Tomls /\ Improves(head.deps, main.deps) /\ head.stacks = StacksOf(head.deps)
  BY <1>1, UpdateTomlIs DEF IInv, TypeOK, BuildsAreTyped
<1> HIDE DEF head
<1>3. prs' = prs \cup {new}
  BY DEF Update, head
<1>4. TypeOK'
  BY <1>1, <1>2, <1>3 DEF IInv, TypeOK, Update
<1>5. Offers(main.deps)' /\ OneBinaryPerStack' /\ StacksAreListed' /\ OfferedIsKept'
  BY DEF IInv, Offers, OneBinaryPerStack, StacksAreListed, OfferedIsKept, Update
<1>6. PullRequestsFit'
  <2>1. SUFFICES ASSUME NEW pr \in prs'
                 PROVE  /\ Improves(pr.head.deps, pr.base.deps)
                        /\ Offers(pr.base.deps)'
                        /\ pr.base.stacks = StacksOf(pr.base.deps)
                        /\ pr.head.stacks = StacksOf(pr.head.deps)
    BY DEF PullRequestsFit
  <2>2. offered' = offered
    BY DEF Update
  <2>3. CASE pr \in prs
    BY <2>2, <2>3 DEF IInv, PullRequestsFit, Offers
  <2>4. CASE pr = new
    <3>1. main.stacks = StacksOf(main.deps) /\ Offers(main.deps)
      BY DEF IInv, StacksAreListed
    <3> QED
      BY <1>2, <2>2, <2>4, <3>1 DEF Offers
  <2> QED
    BY <1>3, <2>1, <2>3, <2>4
<1> QED
  BY <1>4, <1>5, <1>6 DEF IInv

\* Where a version is superseded there are versions.
LEMMA SomeAreLeft ==
  ASSUME NEW deps \in SUBSET Entries, NEW v, NEW s, Superseded(deps, v, s)
  PROVE  OnStack(deps, s) # {}
<1>1. SUFFICES ASSUME OnStack(deps, s) = {} PROVE FALSE
  OBVIOUS
<1>2. NewerIn(OnStack(deps, s), v) = {}
  BY <1>1 DEF NewerIn
<1>3. Cardinality({}) = 0
  BY FS_EmptySet
<1> QED
  BY <1>2, <1>3, SupersededIs, KeepAssumption

\* The merge of what a pull request adds and removes: what leaves main on a
\* stack has Keep newer versions on the stack in the head of the pull request,
\* and those have been on main or are now.
LEMMA MergeHolds ==
  ASSUME IInv, NEW pr \in prs, Merge(pr)
  PROVE  IInv'
<1> DEFINE M == main.deps
           B == pr.base.deps
           H == pr.head.deps
           N == (M \ (B \ H)) \cup (H \ B)
           Bs == pr.base.stacks
           Hs == pr.head.stacks
           order == IF pr.head.order # pr.base.order THEN pr.head.order ELSE main.order
           Now == {x \in Versions \X Stacks : x[1] \in OnStack(main'.deps, x[2])}
<1>1. /\ main \in Tomls /\ pr.base \in Tomls /\ pr.head \in Tomls
      /\ offered \subseteq Versions \X Stacks
  BY DEF IInv, TypeOK
<1>2. /\ M \in SUBSET Entries /\ B \in SUBSET Entries /\ H \in SUBSET Entries
      /\ Bs \in SUBSET Stacks /\ Hs \in SUBSET Stacks /\ main.stacks \in SUBSET Stacks
      /\ order \in Orders
  BY <1>1, TomlIs
<1>3. /\ OneBinary(M) /\ Offers(M) /\ main.stacks = StacksOf(M)
      /\ Improves(H, B) /\ Offers(B)
      /\ Bs = StacksOf(B) /\ Hs = StacksOf(H)
  BY DEF IInv, OneBinaryPerStack, StacksAreListed, PullRequestsFit
<1>4. /\ B \ H \subseteq M
      /\ \A d \in H \ B, e \in M \ B : d.version = e.version => d.stacks \cap e.stacks = {}
  BY DEF Merge, Applies
<1>5. main' = [deps |-> N, stacks |-> (main.stacks \ (Bs \ Hs)) \cup (Hs \ Bs), order |-> order]
  BY DEF Merge, Merged
<1>6. offered' = offered \cup Now /\ prs' \subseteq prs
  BY DEF Merge
<1>7. UNCHANGED <<built, copies, configured, rebuilds, edits>>
  BY DEF Merge
<1> HIDE DEF M, B, H, Bs, Hs, order
<1>8. N \in SUBSET Entries
  BY <1>2
<1>9. main'.deps = N /\ main' \in Tomls
  BY <1>2, <1>5, <1>8 DEF Tomls, Orders
<1>10. TypeOK'
  BY <1>6, <1>7, <1>9 DEF IInv, TypeOK
<1>11. OneBinary(N)
  <2>1. SUFFICES ASSUME NEW d \in N, NEW e \in N, d.version = e.version,
                        d.stacks \cap e.stacks # {}
                 PROVE  d = e
    BY DEF OneBinary
  <2>2. OneBinary(H)
    BY <1>3 DEF Improves
  <2>3. CASE d \in M /\ e \in M
    BY <1>3, <2>1, <2>3 DEF OneBinary
  <2>4. CASE d \in H /\ e \in H
    BY <2>1, <2>2, <2>4 DEF OneBinary
  <2>5. CASE d \in H \ B /\ e \in M \ B
    BY <1>4, <2>1, <2>5
  <2>6. CASE e \in H \ B /\ d \in M \ B
    BY <1>4, <2>1, <2>6
  <2> QED
    BY <2>3, <2>4, <2>5, <2>6
<1>12. \A x : x \in offered' <=> \/ x \in offered
                                 \/ x \in Versions \X Stacks /\ x[1] \in OnStack(N, x[2])
  BY <1>6, <1>9
<1> HIDE DEF N, Now
<1>13. Offers(main.deps)'
  <2>1. \A s \in Stacks : OnStack(N, s) \in SUBSET Versions
    BY <1>8, OnStackIsVersions
  <2> QED
    BY <1>9, <1>12, <2>1 DEF Offers
<1>14. ASSUME NEW s \in Stacks, NEW v, <<v, s>> \in offered'
       PROVE  v \in OnStack(N, s) \/ Superseded(N, v, s)
  <2> DEFINE Old == {w \in Versions : <<w, s>> \in offered}
             Left == OnStack(N, s)
  <2>1. Old \in SUBSET Versions /\ Left \in SUBSET Versions
    BY <1>8, OnStackIsVersions
  <2>2. OnStack(M, s) \in SUBSET Versions /\ OnStack(H, s) \in SUBSET Versions
    BY <1>2, OnStackIsVersions
  <2>3. OnStack(M, s) \subseteq Old
    BY <1>3, <2>2 DEF Offers
  <2>4. OnStack(H, s) \subseteq Old \cup Left
    <3>1. SUFFICES ASSUME NEW h \in H, s \in h.stacks
                   PROVE  h.version \in Old \cup Left
      BY DEF OnStack
    <3>2. h.version \in OnStack(H, s)
      BY <3>1 DEF OnStack
    <3>3. CASE h \in B
      <4>1. h.version \in OnStack(B, s)
        BY <3>1, <3>3 DEF OnStack
      <4>2. <<h.version, s>> \in offered
        BY <1>3, <4>1 DEF Offers
      <4> QED
        BY <2>2, <3>2, <4>2
    <3>4. CASE h \notin B
      BY <3>1, <3>4 DEF OnStack, N
    <3> QED
      BY <3>3, <3>4
  <2>5. ASSUME NEW w \in Old, w \notin Left
        PROVE  \E S \in SUBSET (Old \cup Left) : Cardinality(NewerIn(S, w)) >= Keep
    <3>1. CASE w \in OnStack(M, s)
      <4>1. PICK d \in M : d.version = w /\ s \in d.stacks
        BY <3>1 DEF OnStack
      <4>2. d \in B /\ d \notin H
        BY <2>5, <4>1 DEF OnStack, N
      <4>3. w \in OnStack(B, s)
        BY <4>1, <4>2 DEF OnStack
      <4>4. w \notin OnStack(H, s)
        <5>1. SUFFICES ASSUME NEW h \in H, h.version = w, s \in h.stacks
                       PROVE  FALSE
          BY DEF OnStack
        <5>2. h \in B
          BY <2>5, <5>1 DEF OnStack, N
        <5>3. h = d
          BY <1>3, <4>1, <4>2, <5>1, <5>2 DEF Improves, OneBinary
        <5> QED
          BY <4>2, <5>3
      <4>5. Superseded(H, w, s)
        BY <1>3, <4>3, <4>4 DEF Improves
      <4> QED
        BY <2>4, <4>5, SupersededIs
    <3>2. CASE w \notin OnStack(M, s)
      <4>1. <<w, s>> \in offered
        OBVIOUS
      <4>2. Superseded(M, w, s)
        BY <3>2, <4>1 DEF IInv, OfferedIsKept, M
      <4> QED
        BY <2>3, <4>2, SupersededIs
    <3> QED
      BY <3>1, <3>2
  <2>6. v \in Old \/ v \in Left
    BY <1>1, <1>12, <1>14
  <2>7. \A w \in Old : w \in Left \/ \E S \in SUBSET (Old \cup Left) :
                                        Cardinality(NewerIn(S, w)) >= Keep
    BY <2>5
  <2> HIDE DEF Old, Left
  <2>8. \A w \in Old : w \in Left \/ Cardinality(NewerIn(Left, w)) >= Keep
    BY <2>1, <2>7, EnoughAreLeft
  <2> QED
    BY <2>6, <2>8, SupersededIs DEF Left
<1>15. OfferedIsKept'
  <2>1. offered' \subseteq Versions \X Stacks
    BY <1>10 DEF TypeOK
  <2>2. ASSUME NEW x \in offered'
        PROVE  x[1] \in OnStack(N, x[2]) \/ Superseded(N, x[1], x[2])
    <3>1. x[2] \in Stacks /\ <<x[1], x[2]>> \in offered'
      BY <2>1
    <3> QED
      BY <1>14, <3>1
  <2> QED
    BY <1>9, <2>2 DEF OfferedIsKept, Superseded
<1>16. \A s \in Stacks : \A w : Superseded(M, w, s) => OnStack(M, s) # {}
  BY <1>2, SomeAreLeft
<1>17. \A s \in Stacks : \A w : Superseded(H, w, s) => OnStack(H, s) # {}
  BY <1>2, SomeAreLeft
<1>18. \A s \in Stacks : \A w : Superseded(N, w, s) => OnStack(N, s) # {}
  BY <1>8, SomeAreLeft
<1>19. ASSUME NEW s \in Stacks
       PROVE  /\ s \in Bs <=> OnStack(B, s) # {}
              /\ s \in Hs <=> OnStack(H, s) # {}
              /\ s \in main.stacks <=> OnStack(M, s) # {}
              /\ s \in StacksOf(N) <=> OnStack(N, s) # {}
  BY <1>2, <1>3, <1>8, StacksOfIs
<1>20. Bs \subseteq Hs /\ Bs \subseteq main.stacks
  <2>1. SUFFICES ASSUME NEW s \in Stacks, s \in Bs
                 PROVE  s \in Hs /\ s \in main.stacks
    BY <1>2
  <2>2. PICK w : w \in OnStack(B, s)
    BY <1>19, <2>1
  <2>3. s \in Hs
    BY <1>3, <1>17, <1>19, <2>2 DEF Improves
  <2>4. <<w, s>> \in offered
    BY <1>3, <2>2 DEF Offers
  <2>5. w \in OnStack(M, s) \/ Superseded(M, w, s)
    BY <2>4 DEF IInv, OfferedIsKept, M
  <2> QED
    BY <1>16, <1>19, <2>3, <2>5
<1>21. main'.stacks = main.stacks \cup Hs
  <2>1. main'.stacks = (main.stacks \ (Bs \ Hs)) \cup (Hs \ Bs)
    BY <1>5
  <2> QED
    BY <1>20, <2>1
<1>22. ASSUME NEW s \in Stacks
       PROVE  s \in main.stacks \cup Hs <=> s \in StacksOf(N)
  <2>1. ASSUME s \in main.stacks
        PROVE  s \in StacksOf(N)
    <3>1. PICK w : w \in OnStack(M, s)
      BY <1>19, <2>1
    <3>2. <<w, s>> \in offered'
      BY <1>3, <1>12, <3>1 DEF Offers
    <3> QED
      BY <1>14, <1>18, <1>19, <3>2
  <2>2. ASSUME s \in Hs, s \notin main.stacks
        PROVE  s \in StacksOf(N)
    <3>1. PICK h \in H : s \in h.stacks
      BY <1>19, <2>2 DEF OnStack
    <3>2. h \notin B
      BY <1>19, <1>20, <2>2, <3>1 DEF OnStack
    <3>3. h \in N
      BY <3>2 DEF N
    <3>4. OnStack(N, s) # {}
      BY <3>1, <3>3 DEF OnStack
    <3> QED
      BY <1>19, <3>4
  <2>3. ASSUME s \in StacksOf(N)
        PROVE  s \in main.stacks \cup Hs
    <3>1. PICK d \in N : s \in d.stacks
      BY <1>19, <2>3 DEF OnStack
    <3>2. d \in M \/ d \in H
      BY DEF N
    <3> QED
      BY <1>19, <3>1, <3>2 DEF OnStack
  <2> QED
    BY <2>1, <2>2, <2>3
<1>23. StacksAreListed'
  <2>1. StacksOf(N) \in SUBSET Stacks
    BY <1>8, StacksOfIs
  <2>2. main'.stacks = StacksOf(N)
    BY <1>2, <1>21, <1>22, <2>1
  <2> QED
    BY <1>9, <2>2 DEF StacksAreListed
<1>24. PullRequestsFit'
  <2>1. ASSUME NEW p \in prs'
        PROVE  /\ Improves(p.head.deps, p.base.deps)
               /\ Offers(p.base.deps)'
               /\ p.base.stacks = StacksOf(p.base.deps)
               /\ p.head.stacks = StacksOf(p.head.deps)
    BY <1>6 DEF IInv, PullRequestsFit, Offers
  <2> QED
    BY <2>1 DEF PullRequestsFit
<1>25. OneBinaryPerStack'
  BY <1>9, <1>11 DEF OneBinaryPerStack
<1> QED
  BY <1>10, <1>13, <1>15, <1>23, <1>24, <1>25 DEF IInv

-----------------------------------------------------------------------------
(***************************************************************************)
(* The theorems                                                            *)
(***************************************************************************)

\* Every step keeps the invariant.
LEMMA NextHolds ==
  ASSUME IInv, [Next]_vars
  PROVE  IInv'
<1>1. CASE UNCHANGED vars
  <2>1. TypeOK'
    BY <1>1 DEF IInv, TypeOK, vars
  <2> QED
    BY <1>1, <2>1, MainStays DEF vars
<1>2. ASSUME NEW v \in Versions, Build(v) \/ Update(v)
      PROVE  IInv'
  BY <1>2, BuildHolds, UpdateHolds
<1>3. ASSUME NEW v \in Versions, NEW c \in CopyStacks, Copy(v, c)
      PROVE  IInv'
  BY <1>3, CopyHolds
<1>4. ASSUME NEW S \in SUBSET Stacks, Configure(S)
      PROVE  IInv'
  BY <1>4, ConfigureHolds
<1>5. ASSUME NEW pr \in prs, Merge(pr) \/ Close(pr)
      PROVE  IInv'
  BY <1>5, MergeHolds, CloseHolds
<1> QED
  BY <1>1, <1>2, <1>3, <1>4, <1>5 DEF Next

\* The invariant holds in every reachable state.
LEMMA IInvHolds == Spec => []IInv
<1>1. Init => IInv
  BY InitHolds
<1>2. IInv /\ [Next]_vars => IInv'
  BY NextHolds
<1> QED
  BY <1>1, <1>2, PTL DEF Spec

\* What builds, copies, configuration edits and merges write has the shape the
\* tasks expect to read: in particular no entry of buildpack.toml is without a
\* stack.
THEOREM TomlTypeCorrect == Spec => []TypeOK
<1>1. IInv => TypeOK
  BY DEF IInv
<1> QED
  BY <1>1, IInvHolds, PTL

\* However many pull requests wait and in whatever order they are merged, a
\* stack has one binary of each version.
THEOREM OneBinaryStays == Spec => []OneBinaryPerStack
<1>1. IInv => OneBinaryPerStack
  BY DEF IInv
<1> QED
  BY <1>1, IInvHolds, PTL

\* The list of stacks that update-stacks wrote, merged as text, is the list of
\* the stacks of the merged dependencies.
THEOREM StacksStayListed == Spec => []StacksAreListed
<1>1. IInv => StacksAreListed
  BY DEF IInv
<1> QED
  BY <1>1, IInvHolds, PTL

\* No sequence of builds, copies, edits and merges takes a version off a stack
\* before as many newer ones as are to be kept are there.
THEOREM OfferedStaysKept == Spec => []OfferedIsKept
<1>1. IInv => OfferedIsKept
  BY DEF IInv
<1> QED
  BY <1>1, IInvHolds, PTL

=============================================================================
