------------------------ MODULE ManifestUpdateProofs ------------------------
(***************************************************************************)
(* Theorems of ManifestUpdate, for every configuration, all versions and   *)
(* stacks and every order in which the metadata files are listed.          *)
(***************************************************************************)
EXTENDS ManifestUpdate, DependenciesProofs, FiniteSetTheorems,
        SequenceTheorems, WellFoundedInduction

AllVersions == Versions \cup Old

\* What a turn starts from and leaves.
Accs == [deps : SUBSET Entries, added : SUBSET AllVersions,
         removed : SUBSET AllVersions, rebuilt : BOOLEAN]

Before == [deps |-> manifest, added |-> {}, removed |-> {}, rebuilt |-> TRUE]

\* The entry that a file of v is switched to.
DepOf(v, file) == [version |-> v, stacks |-> StacksOf(file), sha |-> 0]

SwitchTo(v, file, deps) ==
  Switch(setup.line, setup.strategy, DepOf(v, file), deps, released)

-----------------------------------------------------------------------------
(***************************************************************************)
(* The loop.                                                               *)
(***************************************************************************)

\* "less than" on the naturals as a relation.
LEMMA LessIsWellFounded ==
  \E R : IsWellFoundedOn(R, Nat) /\ \A m, n \in Nat : m < n => <<m, n>> \in R
<1>1. \A m, n \in Nat : m < n => <<m, n>> \in OpToRel(<, Nat)
  BY DEF OpToRel
<1> QED
  BY <1>1, NatLessThanWellFounded

\* A set of numbers that is not empty has a smallest one.
LEMMA HasSmallest ==
  ASSUME NEW S, S \subseteq Nat, S # {}
  PROVE  \E n \in S : \A m \in S : n <= m
<1>1. PICK R : IsWellFoundedOn(R, Nat) /\ \A m, n \in Nat : m < n => <<m, n>> \in R
  BY LessIsWellFounded
<1>2. IsWellFoundedOn(R, Nat)
  BY <1>1
<1>3. \E n \in S : \A m \in S : ~(<<m, n>> \in R)
  BY <1>2, WFMin, Zenon
<1>4. PICK n \in S : \A m \in S : ~(<<m, n>> \in R)
  BY <1>3
<1>5. ASSUME NEW m \in S
      PROVE  n <= m
  <2>1. m \in Nat /\ n \in Nat
    OBVIOUS
  <2>2. ~(m < n)
    BY <1>1, <1>4, <2>1, Zenon
  <2> QED
    BY <2>1, <2>2
<1> QED
  BY <1>5

\* What holds of 0 and of every number whose predecessor it holds of, holds up
\* to n.
LEMMA Counting ==
  ASSUME NEW n \in Nat, NEW S, 0 \in S,
         \A m \in 1..n : m - 1 \in S => m \in S
  PROVE  \A m \in 0..n : m \in S
<1> SUFFICES ASSUME {m \in 0..n : m \notin S} # {}
             PROVE  FALSE
  OBVIOUS
<1>1. PICK m \in {m \in 0..n : m \notin S} : \A k \in {k \in 0..n : k \notin S} : m <= k
  <2>1. {m \in 0..n : m \notin S} \subseteq Nat
    OBVIOUS
  <2> QED
    BY <2>1, HasSmallest
<1>2. m \in 1..n /\ m - 1 \in 0..n /\ ~(m <= m - 1)
  OBVIOUS
<1>3. m - 1 \in S
  BY <1>1, <1>2
<1> QED
  BY <1>2, <1>3

\* f has the accumulators of the first m turns.
IsTurns(v, order, m, f) ==
  f = [n \in 0..m |-> IF n = 0 THEN Before ELSE Turn(v, f[n - 1], order[n])]

\* The accumulators of the turns exist, and are what their definition says.
LEMMA TurnsExist ==
  ASSUME NEW v, NEW order, Len(order) \in Nat
  PROVE  \E f : IsTurns(v, order, Len(order), f)
<1> DEFINE S == {m \in 0..Len(order) : \E f : IsTurns(v, order, m, f)}
<1>1. 0 \in S
  <2> DEFINE f == [n \in 0..0 |-> Before]
  <2>1. \A n \in 0..0 : n = 0
    OBVIOUS
  <2>2. IsTurns(v, order, 0, f)
    BY <2>1 DEF IsTurns
  <2>3. 0 \in 0..Len(order)
    OBVIOUS
  <2> QED
    BY <2>2, <2>3
<1>2. ASSUME NEW m \in 1..Len(order), m - 1 \in S
      PROVE  m \in S
  <2>1. PICK g : IsTurns(v, order, m - 1, g)
    BY <1>2
  <2> DEFINE f == [n \in 0..m |-> IF n < m THEN g[n] ELSE Turn(v, g[m - 1], order[m])]
  <2>2. ASSUME NEW n \in 0..m
        PROVE  f[n] = IF n = 0 THEN Before ELSE Turn(v, f[n - 1], order[n])
    <3>1. CASE n = 0
      <4>1. 0 \in 0..(m - 1) /\ 0 < m /\ 0 \in 0..m
        OBVIOUS
      <4>2. f[0] = g[0]
        BY <4>1
      <4>3. g[0] = Before
        BY <2>1, <4>1, Zenon DEF IsTurns
      <4> QED
        BY <3>1, <4>2, <4>3, Zenon
    <3>2. CASE n # 0 /\ n < m
      <4>1. n \in 0..(m - 1) /\ n - 1 \in 0..m /\ n - 1 < m
        BY <3>2
      <4>2. f[n] = g[n] /\ f[n - 1] = g[n - 1]
        BY <3>2, <4>1
      <4>3. g[n] = Turn(v, g[n - 1], order[n])
        BY <2>1, <3>2, <4>1, Zenon DEF IsTurns
      <4> HIDE DEF f
      <4> QED
        BY <3>2, <4>2, <4>3, Zenon
    <3>3. CASE n = m
      <4>1. ~(n < m) /\ n # 0 /\ n - 1 \in 0..m /\ n - 1 < m
        BY <3>3
      <4>2. f[n] = Turn(v, g[m - 1], order[m])
        BY <4>1, Zenon
      <4>3. f[n - 1] = g[n - 1]
        BY <4>1, Zenon
      <4> HIDE DEF f
      <4> QED
        BY <3>3, <4>1, <4>2, <4>3, Zenon
    <3> QED
      BY <3>1, <3>2, <3>3
  <2>3. f = [n \in 0..m |-> f[n]]
    OBVIOUS
  <2>4. IsTurns(v, order, m, f)
    <3> HIDE DEF f
    <3> QED
      BY <2>2, <2>3, Zenon DEF IsTurns
  <2>5. m \in 0..Len(order)
    OBVIOUS
  <2> HIDE DEF f
  <2> QED
    BY <2>4, <2>5, Zenon
<1>3. Len(order) \in S
  <2> HIDE DEF S
  <2>1. \A m \in 0..Len(order) : m \in S
    BY <1>1, <1>2, Counting
  <2> QED
    BY <2>1
<1> QED
  BY <1>3

LEMMA TurnsAre ==
  ASSUME NEW v, NEW order, Len(order) \in Nat
  PROVE  /\ AfterTurns(v, order)[0] = Before
         /\ \A n \in 1..Len(order) :
              AfterTurns(v, order)[n] = Turn(v, AfterTurns(v, order)[n - 1], order[n])
<1>1. AfterTurns(v, order) = CHOOSE f : IsTurns(v, order, Len(order), f)
  BY DEF AfterTurns, IsTurns, Before
<1>2. \E f : IsTurns(v, order, Len(order), f)
  BY TurnsExist
<1>3. IsTurns(v, order, Len(order), AfterTurns(v, order))
  BY <1>1, <1>2, Zenon
<1>4. 0 \in 0..Len(order) /\ \A n \in 1..Len(order) : n \in 0..Len(order) /\ n # 0
  OBVIOUS
<1> QED
  BY <1>3, <1>4, Zenon DEF IsTurns

\* Whatever is true at the start and stays true in every turn is true at the end
\* of the loop; Good[n] are the accumulators that may be there after n turns.
LEMMA LoopStaysIn ==
  ASSUME NEW v, NEW order, Len(order) \in Nat, NEW Good,
         Before \in Good[0],
         \A n \in 1..Len(order) : \A acc \in Good[n - 1] :
           Turn(v, acc, order[n]) \in Good[n]
  PROVE  Loop(v, order) \in Good[Len(order)]
<1> DEFINE turns == AfterTurns(v, order)
           S == {n \in 0..Len(order) : turns[n] \in Good[n]}
<1>1. 0 \in S
  <2>1. 0 \in 0..Len(order)
    OBVIOUS
  <2> QED
    BY <2>1, TurnsAre
<1>2. ASSUME NEW n \in 1..Len(order), n - 1 \in S
      PROVE  n \in S
  <2>1. turns[n] = Turn(v, turns[n - 1], order[n])
    BY TurnsAre
  <2>2. turns[n - 1] \in Good[n - 1]
    BY <1>2
  <2>3. n \in 0..Len(order)
    OBVIOUS
  <2> HIDE DEF turns
  <2> QED
    BY <2>1, <2>2, <2>3
<1>3. Len(order) \in S
  <2> HIDE DEF S
  <2>1. \A n \in 0..Len(order) : n \in S
    BY <1>1, <1>2, Counting
  <2> QED
    BY <2>1
<1> QED
  BY <1>3 DEF Loop

\* The files of a version are finitely many, and an order lists each of them once.
LEMMA OrdersList ==
  ASSUME TypeOK, NEW order \in Orders
  PROVE  /\ Len(order) \in Nat
         /\ \A n \in 1..Len(order) : order[n] \in Files
         /\ \A m, n \in 1..Len(order) : m # n => order[m] # order[n]
         /\ \A file \in Files : \E n \in 1..Len(order) : order[n] = file
<1>1. IsFiniteSet(Files)
  <2>1. Files \subseteq (Stacks \cup CopyStacks) \cup {"any-stack"}
    BY DEF Files, TypeOK
  <2>2. IsFiniteSet((Stacks \cup CopyStacks) \cup {"any-stack"})
    BY SetupAssumption, FS_Singleton, FS_Union
  <2> QED
    BY <2>1, <2>2, FS_Subset
<1>2. Cardinality(Files) \in Nat
  BY <1>1, FS_CardinalityType
<1> DEFINE D == 1..Cardinality(Files)
<1>3. /\ order \in [D -> Files]
      /\ \A m, n \in D : m # n => order[m] # order[n]
  BY DEF Orders, SetToSeqs
<1>4. Len(order) = Cardinality(Files)
  BY <1>2, <1>3, LenProperties
<1>5. order \in Surjection(D, Files)
  <2>1. order \in Injection(D, Files)
    BY <1>3 DEF Injection, IsInjective
  <2>2. Cardinality(D) = Cardinality(Files)
    BY <1>2, FS_Interval
  <2> QED
    BY <1>1, <2>1, <2>2, FS_Injection
<1> QED
  BY <1>2, <1>3, <1>4, <1>5 DEF Surjection

\* The same without counting the turns.
LEMMA LoopKeeps ==
  ASSUME TypeOK, NEW v, NEW order \in Orders, NEW Good, Before \in Good,
         \A file \in Files : \A acc \in Good : Turn(v, acc, file) \in Good
  PROVE  Loop(v, order) \in Good
<1> DEFINE After == [n \in 0..Len(order) |-> Good]
<1>1. Len(order) \in Nat /\ \A n \in 1..Len(order) : order[n] \in Files
  BY OrdersList
<1>2. \A n \in 0..Len(order) : After[n] = Good
  OBVIOUS
<1>3. Before \in After[0]
  BY <1>1, <1>2
<1>4. \A n \in 1..Len(order) : \A acc \in After[n - 1] : Turn(v, acc, order[n]) \in After[n]
  <2> SUFFICES ASSUME NEW n \in 1..Len(order), NEW acc \in After[n - 1]
               PROVE  Turn(v, acc, order[n]) \in After[n]
    OBVIOUS
  <2>1. After[n - 1] = Good /\ After[n] = Good
    BY <1>1
  <2> HIDE DEF After
  <2> QED
    BY <1>1, <2>1
<1>5. Loop(v, order) \in After[Len(order)]
  <2> HIDE DEF After
  <2> QED
    BY <1>1, <1>3, <1>4, LoopStaysIn
<1> QED
  BY <1>1, <1>2, <1>5

\* What one turn does: nothing for a copy stack, one switch for any other.
LEMMA TurnIs ==
  ASSUME NEW v, NEW acc, NEW file
  PROVE  IF file \in CopyStacks THEN Turn(v, acc, file) = acc
         ELSE LET new == SwitchTo(v, file, acc.deps)
                  turn == Turn(v, acc, file)
              IN  /\ turn = [deps    |-> new,
                             added   |-> acc.added \cup
                                           (EntryVersions(new) \ EntryVersions(acc.deps)),
                             removed |-> acc.removed \cup
                                           (EntryVersions(acc.deps) \ EntryVersions(new)),
                             rebuilt |-> acc.rebuilt /\ v \in EntryVersions(acc.deps)]
                  /\ turn.deps = new
BY DEF Turn, SwitchTo, DepOf

-----------------------------------------------------------------------------
(***************************************************************************)
(* One switch.                                                             *)
(***************************************************************************)

\* e serves what d serves, with a version of its line that is not older.
Covers(e, d) ==
  /\ d.stacks \subseteq e.stacks
  /\ SameLine(setup.line, e.version, d.version)
  /\ ~Newer(d.version, e.version)

CoversAll(new, deps) == \A d \in deps : \E e \in new : Covers(e, d)

\* Entries are for build stacks, all of those at once or one at a time.
Fits(deps) ==
  \A d \in deps : /\ d.stacks \subseteq buildStacks
                  /\ setup.anyStack \/ \E s \in buildStacks : d.stacks = {s}

OneBinaryIn(deps) ==
  \A d, e \in deps :
    d.version = e.version /\ d.stacks \cap e.stacks # {} => d = e

\* The inductive invariant: what has been released is covered by the manifest, so
\* what comes back from there is older than what has just been added.
IInv ==
  /\ TypeOK
  /\ Fits(manifest) /\ Fits(released)
  /\ CoversAll(manifest, released)
  /\ OneBinaryPerStack

LEMMA SetupIs ==
  ASSUME TypeOK
  PROVE  /\ setup.line \in LineTypes /\ setup.strategy \in Strategies
         /\ setup.anyStack \in BOOLEAN
         /\ buildStacks \subseteq Stacks /\ buildStacks # {}
<1>1. setup \in SetupType
  BY SetupAssumption DEF TypeOK
<1>2. /\ setup.line \in LineTypes /\ setup.strategy \in Strategies
      /\ setup.anyStack \in BOOLEAN
  BY <1>1, Zenon DEF SetupType
<1>3. buildStacks \subseteq Stacks /\ buildStacks # {}
  BY DEF TypeOK
<1> QED
  BY <1>2, <1>3, Zenon

LEMMA EntryIs ==
  \A d \in Entries : /\ d.version \in AllVersions /\ d.version \in VersionRecords
                     /\ d.stacks \subseteq Stacks /\ d.stacks # {}
<1>1. AllVersions \subseteq VersionRecords
  BY SetupAssumption DEF AllVersions
<1>2. \A d \in Entries : /\ d.version \in AllVersions
                         /\ d.stacks \in SUBSET Stacks /\ d.stacks \notin {{}}
  BY DEF Entries, AllVersions
<1> QED
  BY <1>1, <1>2

LEMMA EntriesAreEqual ==
  \A d, e \in Entries : d.version = e.version /\ d.stacks = e.stacks => d = e
BY DEF Entries

LEMMA CoversOrder ==
  ASSUME TypeOK
  PROVE  /\ \A d \in Entries : Covers(d, d)
         /\ \A d, e, f \in Entries : Covers(f, e) /\ Covers(e, d) => Covers(f, d)
<1>1. \A d \in Entries : Covers(d, d)
  BY SetupIs, EntryIs, SameLineEquivalence, NewerOrder DEF Covers
<1>2. ASSUME NEW d \in Entries, NEW e \in Entries, NEW f \in Entries,
             Covers(f, e), Covers(e, d)
      PROVE  Covers(f, d)
  <2>1. SameLine(setup.line, f.version, d.version)
    BY <1>2, SetupIs, SameLineEquivalence DEF Covers
  <2>2. ~Newer(d.version, f.version)
    BY <1>2, EntryIs, NewerOrder DEF Covers
  <2> QED
    BY <1>2, <2>1, <2>2 DEF Covers
<1> QED
  BY <1>1, <1>2

LEMMA CoversAllOrder ==
  ASSUME TypeOK, NEW old \in SUBSET Entries
  PROVE  /\ CoversAll(old, old)
         /\ \A deps, new \in SUBSET Entries :
              CoversAll(new, deps) /\ CoversAll(deps, old) => CoversAll(new, old)
<1>1. CoversAll(old, old)
  BY CoversOrder DEF CoversAll
<1>2. ASSUME NEW deps \in SUBSET Entries, NEW new \in SUBSET Entries,
             CoversAll(new, deps), CoversAll(deps, old)
      PROVE  CoversAll(new, old)
  <2> SUFFICES ASSUME NEW d \in old
               PROVE  \E e \in new : Covers(e, d)
    BY DEF CoversAll
  <2>1. PICK e \in deps : Covers(e, d)
    BY <1>2 DEF CoversAll
  <2>2. PICK f \in new : Covers(f, e)
    BY <1>2 DEF CoversAll
  <2> QED
    BY <2>1, <2>2, CoversOrder
<1> QED
  BY <1>1, <1>2

\* The built entry is for any-stack or for one stack.
LEMMA DepIs ==
  ASSUME TypeOK, NEW v \in Versions, NEW file \in Files, file \notin CopyStacks
  PROVE  /\ DepOf(v, file) \in Entries /\ DepOf(v, file).version = v
         /\ IF setup.anyStack THEN DepOf(v, file).stacks = buildStacks
            ELSE file \in buildStacks /\ DepOf(v, file).stacks = {file}
<1>1. IF setup.anyStack THEN file = "any-stack" ELSE file \in buildStacks
  BY SetupIs DEF Files
<1>2. file \in buildStacks => file # "any-stack"
  BY SetupIs, SetupAssumption
<1>3. IF setup.anyStack THEN StacksOf(file) = buildStacks ELSE StacksOf(file) = {file}
  BY <1>1, <1>2, SetupIs DEF StacksOf
<1>4. StacksOf(file) \in (SUBSET Stacks) \ {{}}
  <2>1. CASE setup.anyStack
    BY <1>3, <2>1, SetupIs
  <2>2. CASE ~setup.anyStack
    BY <1>1, <1>3, <2>2, SetupIs
  <2> QED
    BY <2>1, <2>2
<1>5. DepOf(v, file) \in Entries
  BY <1>4 DEF DepOf, Entries
<1> QED
  BY <1>1, <1>3, <1>5, SetupIs DEF DepOf

LEMMA SwitchIsTyped ==
  ASSUME TypeOK, NEW v \in Versions, NEW file \in Files, file \notin CopyStacks,
         NEW deps \in SUBSET Entries
  PROVE  SwitchTo(v, file, deps) \in SUBSET Entries
<1>1. SwitchTo(v, file, deps)
        \subseteq deps \cup {DepOf(v, file)} \cup Matching(setup.line, DepOf(v, file), released)
  BY SwitchAdds DEF SwitchTo
<1>2. Matching(setup.line, DepOf(v, file), released) \subseteq Entries
  BY DEF Matching, TypeOK
<1> QED
  BY <1>1, <1>2, DepIs

\* A switch never leaves a stack with less than it had.
LEMMA SwitchCoversAll ==
  ASSUME TypeOK, NEW v \in Versions, NEW file \in Files, file \notin CopyStacks,
         NEW deps \in SUBSET Entries
  PROVE  CoversAll(SwitchTo(v, file, deps), deps)
<1> DEFINE dep == DepOf(v, file)
           new == SwitchTo(v, file, deps)
<1> SUFFICES ASSUME NEW d \in deps
             PROVE  \E e \in new : Covers(e, d)
  BY DEF CoversAll
<1>1. CASE d \in new
  BY <1>1, CoversOrder
<1>2. CASE d \notin new
  <2>1. /\ d \in Matching(setup.line, dep, deps) /\ dep \in new
        /\ d.version = dep.version \/ Newer(dep.version, d.version)
    BY <1>2, SwitchRemoves DEF SwitchTo
  <2>2. d.stacks \subseteq dep.stacks /\ SameLine(setup.line, d.version, dep.version)
    BY <2>1 DEF Matching, SameDependencyLine
  <2>3. SameLine(setup.line, dep.version, d.version)
    BY <2>2, SameLineEquivalence
  <2>4. d.version \in VersionRecords /\ dep.version \in VersionRecords
    BY DepIs, EntryIs
  <2>5. ~Newer(d.version, dep.version)
    BY <2>1, <2>4, NewerOrder
  <2> QED
    BY <2>1, <2>2, <2>3, <2>5 DEF Covers
<1> QED
  BY <1>1, <1>2

LEMMA SwitchFits ==
  ASSUME TypeOK, NEW v \in Versions, NEW file \in Files, file \notin CopyStacks,
         NEW deps \in SUBSET Entries, Fits(deps), Fits(released)
  PROVE  Fits(SwitchTo(v, file, deps))
<1>1. SwitchTo(v, file, deps)
        \subseteq deps \cup {DepOf(v, file)} \cup Matching(setup.line, DepOf(v, file), released)
  BY SwitchAdds DEF SwitchTo
<1>2. Matching(setup.line, DepOf(v, file), released) \subseteq released
  BY DEF Matching
<1>3. Fits({DepOf(v, file)})
  BY DepIs, SetupIs DEF Fits
<1> QED
  BY <1>1, <1>2, <1>3 DEF Fits

\* A version never gets a second binary for a stack.  With one entry per stack
\* it could not; for any-stack the entry that comes back from the released
\* manifest is older than the built one, and no entry of its line is left.
LEMMA SwitchKeepsOneBinary ==
  ASSUME TypeOK, NEW v \in Versions, NEW file \in Files, file \notin CopyStacks,
         NEW deps \in SUBSET Entries, Fits(deps), Fits(released),
         CoversAll(deps, released), OneBinaryIn(deps)
  PROVE  OneBinaryIn(SwitchTo(v, file, deps))
<1> DEFINE dep == DepOf(v, file)
           new == SwitchTo(v, file, deps)
           matching == Matching(setup.line, dep, deps)
           same == {d \in matching : d.version = dep.version}
           kept == KeptFromReleased(setup.line, setup.strategy, dep, released)
<1>1. new \subseteq Entries
  BY SwitchIsTyped
<1>2. CASE ~setup.anyStack
  <2> SUFFICES ASSUME NEW d \in new, NEW e \in new,
                      d.version = e.version, d.stacks \cap e.stacks # {}
               PROVE  d = e
    BY DEF OneBinaryIn
  <2>1. PICK s, t \in buildStacks : d.stacks = {s} /\ e.stacks = {t}
    BY <1>2, SwitchFits DEF Fits
  <2>2. d.stacks = e.stacks
    BY <2>1
  <2> QED
    BY <1>1, <2>2, EntriesAreEqual
<1>3. CASE setup.anyStack
  <2>1. dep.stacks = buildStacks /\ dep \in Entries
    BY <1>3, DepIs
  <2>2. \A d \in deps \cup released : d.stacks \subseteq dep.stacks
    BY <2>1 DEF Fits
  <2>3. matching = {d \in deps : SameLine(setup.line, d.version, dep.version)}
    BY <2>2 DEF Matching, SameDependencyLine
  <2>4. \A d \in deps : d.version = dep.version => d \in same
    BY <2>3, SetupIs, SameLineEquivalence
  <2>5. CASE same # {}
    <3>1. new = (deps \ same) \cup {dep}
      BY <2>5 DEF SwitchTo, Switch
    <3> SUFFICES OneBinaryIn(new)
      OBVIOUS
    <3> HIDE DEF same, new, dep
    <3> QED
      BY <2>4, <3>1 DEF OneBinaryIn
  <2>6. CASE same = {} /\ (setup.strategy = "keep_all" \/ ~IsLatest(dep, matching))
    <3>1. new = deps \/ new = deps \cup {dep}
      BY <2>6 DEF SwitchTo, Switch
    <3> SUFFICES OneBinaryIn(new)
      OBVIOUS
    <3> HIDE DEF same, new, dep
    <3> QED
      BY <2>4, <2>6, <3>1 DEF OneBinaryIn
  <2>7. CASE same = {} /\ setup.strategy # "keep_all" /\ IsLatest(dep, matching)
    <3>1. new = (deps \ matching) \cup {dep} \cup kept
      BY <2>7 DEF SwitchTo, Switch
    <3>2. \A d, e \in kept : d = e
      BY DEF KeptFromReleased, NewestReleased
    <3>3. ASSUME NEW k \in kept
          PROVE  /\ k \in released
                 /\ SameLine(setup.line, k.version, dep.version)
                 /\ k.version # dep.version
      <4>1. k \in released /\ SameLine(setup.line, k.version, dep.version)
        BY KeptFromReleasedMatches DEF Matching, SameDependencyLine
      <4>2. PICK e \in deps : Covers(e, k)
        BY <4>1 DEF CoversAll
      <4>3. SameLine(setup.line, e.version, dep.version)
        BY <4>1, <4>2, SameLineEquivalence, SetupIs DEF Covers
      <4>4. e \in matching
        BY <2>3, <4>3
      <4>5. Newer(dep.version, e.version)
        BY <2>7, <4>4 DEF IsLatest
      <4> QED
        BY <4>1, <4>2, <4>5 DEF Covers
    <3>4. \A d \in deps \ matching : \A k \in kept \cup {dep} : d.version # k.version
      BY <2>3, <2>4, <3>3, SetupIs, SameLineEquivalence
    <3> SUFFICES OneBinaryIn(new)
      OBVIOUS
    <3> HIDE DEF same, new, dep, matching, kept
    <3> QED
      BY <3>1, <3>2, <3>3, <3>4 DEF OneBinaryIn
  <2> QED
    BY <2>5, <2>6, <2>7
<1> QED
  BY <1>2, <1>3

-----------------------------------------------------------------------------
(***************************************************************************)
(* What the loop leaves.                                                   *)
(***************************************************************************)

LEMMA BeforeIs ==
  ASSUME TypeOK
  PROVE  Before \in Accs /\ Before.deps = manifest
<1>1. manifest \in SUBSET Entries /\ {} \in SUBSET AllVersions /\ TRUE \in BOOLEAN
  BY DEF TypeOK
<1> QED
  BY <1>1, Zenon DEF Before, Accs

LEMMA TurnIsTyped ==
  ASSUME TypeOK, NEW v \in Versions, NEW file \in Files, NEW acc \in Accs
  PROVE  Turn(v, acc, file) \in Accs
<1>1. CASE file \in CopyStacks
  BY <1>1, TurnIs
<1>2. CASE file \notin CopyStacks
  <2> DEFINE new == SwitchTo(v, file, acc.deps)
             added == acc.added \cup (EntryVersions(new) \ EntryVersions(acc.deps))
             removed == acc.removed \cup (EntryVersions(acc.deps) \ EntryVersions(new))
             rebuilt == acc.rebuilt /\ v \in EntryVersions(acc.deps)
  <2>1. /\ acc.deps \in SUBSET Entries /\ acc.added \in SUBSET AllVersions
        /\ acc.removed \in SUBSET AllVersions
    BY DEF Accs
  <2>2. new \in SUBSET Entries
    BY <1>2, <2>1, SwitchIsTyped
  <2>3. \A deps \in SUBSET Entries : EntryVersions(deps) \subseteq AllVersions
    BY EntryIs DEF EntryVersions
  <2>4. added \in SUBSET AllVersions /\ removed \in SUBSET AllVersions
    BY <2>1, <2>2, <2>3
  <2>5. rebuilt \in BOOLEAN
    BY Zenon DEF Accs
  <2>6. Turn(v, acc, file)
          = [deps |-> new, added |-> added, removed |-> removed, rebuilt |-> rebuilt]
    BY <1>2, TurnIs, Zenon
  <2> HIDE DEF new, added, removed, rebuilt
  <2>7. [deps |-> new, added |-> added, removed |-> removed, rebuilt |-> rebuilt] \in Accs
    BY <2>2, <2>4, <2>5, Zenon DEF Accs
  <2> QED
    BY <2>6, <2>7, Zenon
<1> QED
  BY <1>1, <1>2

\* Accumulators whose entries are as they should be: they cover the manifest.
Sound ==
  {acc \in Accs : /\ Fits(acc.deps)
                  /\ CoversAll(acc.deps, manifest)
                  /\ OneBinaryIn(acc.deps)}

LEMMA LoopIsSound ==
  ASSUME IInv, NEW v \in Versions, NEW order \in Orders
  PROVE  Loop(v, order) \in Sound
<1>1. TypeOK /\ manifest \in SUBSET Entries /\ released \in SUBSET Entries
  BY DEF IInv, TypeOK
<1>2. Before \in Sound
  <2>1. OneBinaryIn(manifest)
    BY DEF IInv, OneBinaryPerStack, OneBinaryIn
  <2> QED
    BY <1>1, <2>1, BeforeIs, CoversAllOrder DEF IInv, Sound
<1>3. ASSUME NEW file \in Files, NEW acc \in Sound
      PROVE  Turn(v, acc, file) \in Sound
  <2>1. CASE file \in CopyStacks
    BY <2>1, TurnIs
  <2>2. CASE file \notin CopyStacks
    <3> DEFINE new == SwitchTo(v, file, acc.deps)
    <3>1. Turn(v, acc, file) \in Accs
      BY <1>1, TurnIsTyped DEF Sound
    <3>2. Turn(v, acc, file).deps = new
      BY <2>2, TurnIs
    <3>3. /\ acc.deps \in SUBSET Entries /\ Fits(acc.deps) /\ OneBinaryIn(acc.deps)
          /\ CoversAll(acc.deps, manifest)
      BY DEF Sound, Accs
    <3>4. CoversAll(acc.deps, released)
      BY <1>1, <3>3, CoversAllOrder DEF IInv
    <3>5. new \in SUBSET Entries
      BY <1>1, <2>2, <3>3, SwitchIsTyped
    <3>6. CoversAll(new, manifest)
      <4>1. CoversAll(new, acc.deps)
        BY <1>1, <2>2, <3>3, SwitchCoversAll
      <4> HIDE DEF new
      <4> QED
        BY <1>1, <3>3, <3>5, <4>1, CoversAllOrder
    <3>7. Fits(new)
      BY <1>1, <2>2, <3>3, SwitchFits DEF IInv
    <3>8. OneBinaryIn(new)
      BY <1>1, <2>2, <3>3, <3>4, SwitchKeepsOneBinary DEF IInv
    <3> HIDE DEF new
    <3> QED
      BY <3>1, <3>2, <3>6, <3>7, <3>8 DEF Sound
  <2> QED
    BY <2>1, <2>2
<1> QED
  BY <1>1, <1>2, <1>3, LoopKeeps

-----------------------------------------------------------------------------
(***************************************************************************)
(* The manifest at the start.                                              *)
(***************************************************************************)

\* A finite set of versions that is not empty has a newest one.
LEMMA NewestIs ==
  ASSUME NEW V \in SUBSET VersionRecords, IsFiniteSet(V), V # {}
  PROVE  NewestOf(V) \in V /\ \A w \in V : ~Newer(w, NewestOf(V))
<1> DEFINE HasNewest(W) == \E v \in W : \A w \in W : ~Newer(w, v)
           S == {n \in 0..Cardinality(V) :
                   \A W \in SUBSET V : W # {} /\ Cardinality(W) = n => HasNewest(W)}
<1>1. Cardinality(V) \in Nat /\ \A W \in SUBSET V : IsFiniteSet(W) /\ Cardinality(W) \in Nat
  BY FS_Subset, FS_CardinalityType
<1>2. 0 \in S
  <2>1. \A W \in SUBSET V : Cardinality(W) = 0 => W = {}
    BY <1>1, FS_EmptySet
  <2>2. 0 \in 0..Cardinality(V)
    BY <1>1
  <2> HIDE DEF HasNewest
  <2> QED
    BY <2>1, <2>2
<1>3. ASSUME NEW n \in 1..Cardinality(V), n - 1 \in S
      PROVE  n \in S
  <2> SUFFICES ASSUME NEW W \in SUBSET V, W # {}, Cardinality(W) = n
               PROVE  HasNewest(W)
    <3>1. n \in 0..Cardinality(V)
      BY <1>1
    <3> HIDE DEF HasNewest
    <3> QED
      BY <3>1
  <2>1. PICK x : x \in W
    OBVIOUS
  <2>2. x \in VersionRecords /\ ~Newer(x, x)
    BY <2>1, NewerOrder
  <2>3. Cardinality(W \ {x}) = n - 1
    BY <1>1, <2>1, FS_RemoveElement
  <2>4. CASE W \ {x} = {}
    BY <2>1, <2>2, <2>4
  <2>5. CASE W \ {x} # {}
    <3>1. HasNewest(W \ {x})
      <4> HIDE DEF HasNewest
      <4> QED
        BY <1>3, <2>3, <2>5
    <3>2. PICK y \in W \ {x} : \A w \in W \ {x} : ~Newer(w, y)
      BY <3>1
    <3>3. y \in VersionRecords /\ \A w \in W : w \in VersionRecords
      OBVIOUS
    <3>4. CASE Newer(x, y)
      <4>1. \A w \in W : ~Newer(w, x)
        BY <2>2, <3>2, <3>3, <3>4, NewerOrder
      <4> QED
        BY <2>1, <4>1
    <3>5. CASE ~Newer(x, y)
      BY <3>2, <3>5
    <3> QED
      BY <3>4, <3>5
  <2> QED
    BY <2>4, <2>5
<1>4. Cardinality(V) \in S
  <2> HIDE DEF S
  <2>1. \A n \in 0..Cardinality(V) : n \in S
    BY <1>1, <1>2, <1>3, Counting
  <2> QED
    BY <1>1, <2>1
<1>5. HasNewest(V)
  <2> HIDE DEF HasNewest
  <2> QED
    BY <1>4
<1> QED
  BY <1>5 DEF NewestOf

LEMMA InitIsTyped == Init => TypeOK
<1> SUFFICES ASSUME Init
             PROVE  TypeOK
  OBVIOUS
<1> DEFINE V == {v \in Old : \A w \in Old : SameLine(setup.line, v, w) => ~Newer(w, v)}
<1>1. setup \in Setups /\ buildStacks = setup.stacks
  BY DEF Init
<1>2. setup.line \in LineTypes /\ setup.stacks \in (SUBSET Stacks) \ {{}}
  <2>1. setup \in SetupType
    BY <1>1, SetupAssumption
  <2> QED
    BY <2>1, Zenon DEF SetupType
<1>3. Old \in SUBSET VersionRecords /\ IsFiniteSet(Old) /\ Old # {}
  BY SetupAssumption
<1>4. /\ V \subseteq Old /\ V # {}
      /\ \A W \in SUBSET V : W # {} => NewestOf(W) \in W
  <2>1. NewestOf(Old) \in V
    BY <1>3, NewestIs
  <2>2. \A W \in SUBSET V : IsFiniteSet(W) /\ W \in SUBSET VersionRecords
    BY <1>3, FS_Subset
  <2> QED
    BY <2>1, <2>2, NewestIs
<1>5. manifest = [version : V, sha : {0},
                  stacks : IF setup.anyStack THEN {setup.stacks}
                           ELSE {{s} : s \in setup.stacks}]
      /\ released = manifest
  BY DEF Init
<1>6. manifest \subseteq Entries
  <2>1. (IF setup.anyStack THEN {setup.stacks} ELSE {{s} : s \in setup.stacks})
          \subseteq (SUBSET Stacks) \ {{}}
    BY <1>2
  <2> QED
    BY <1>4, <1>5, <2>1 DEF Entries
<1>7. /\ default = IF DefaultLine \in {LineOf(v) : v \in V}
                   THEN NewestOf({v \in V : LineOf(v) = DefaultLine})
                   ELSE NewestOf(V)
      /\ options = [l \in {LineOf(v) : v \in V} |->
                      NewestOf({v \in V : LineOf(v) = l})]
      /\ lines = [s \in {Stability(v) : v \in V} |->
                    LineOf(NewestOf({v \in V : Stability(v) = s}))]
      /\ extension = NewestOf(V)
  BY DEF Init
<1> HIDE DEF V
<1>8. default \in Old /\ extension \in Old
  <2>1. NewestOf(V) \in V
    BY <1>4
  <2>2. ASSUME DefaultLine \in {LineOf(v) : v \in V}
        PROVE  NewestOf({v \in V : LineOf(v) = DefaultLine}) \in V
    BY <1>4, <2>2
  <2> QED
    BY <1>4, <1>7, <2>1, <2>2
<1>9. \A l \in DOMAIN options : options[l] \in Old
  <2> SUFFICES ASSUME NEW l \in {LineOf(v) : v \in V}
               PROVE  NewestOf({v \in V : LineOf(v) = l}) \in Old
    BY <1>7
  <2> QED
    BY <1>4
<1>10. \A s \in DOMAIN lines : lines[s] \in {LineOf(v) : v \in Old}
  <2> SUFFICES ASSUME NEW s \in {Stability(v) : v \in V}
               PROVE  NewestOf({v \in V : Stability(v) = s}) \in Old
    BY <1>7
  <2> QED
    BY <1>4
<1> QED
  BY <1>1, <1>2, <1>5, <1>6, <1>8, <1>9, <1>10 DEF TypeOK

LEMMA InitIsInv == Init => IInv
<1> SUFFICES ASSUME Init
             PROVE  IInv
  OBVIOUS
<1>1. TypeOK
  BY InitIsTyped
<1>2. setup.stacks = buildStacks /\ released = manifest
  BY DEF Init
<1>3. \A d \in manifest :
        d.stacks \in (IF setup.anyStack THEN {setup.stacks} ELSE {{s} : s \in setup.stacks})
  BY DEF Init
<1>4. Fits(manifest)
  BY <1>2, <1>3 DEF Fits
<1>5. OneBinaryPerStack
  <2>1. \A d, e \in manifest : d.stacks \cap e.stacks # {} => d.stacks = e.stacks
    BY <1>3
  <2>2. \A d \in manifest : d \in Entries
    BY <1>1 DEF TypeOK
  <2> QED
    BY <2>1, <2>2, EntriesAreEqual DEF OneBinaryPerStack
<1>6. CoversAll(manifest, released)
  BY <1>1, <1>2, CoversAllOrder DEF TypeOK
<1> QED
  BY <1>1, <1>2, <1>4, <1>5, <1>6 DEF IInv

-----------------------------------------------------------------------------
(***************************************************************************)
(* Steps.                                                                  *)
(***************************************************************************)

\* What Write and the guards of Update make of a sound loop.
LEMMA UpdateIsTyped ==
  ASSUME IInv, NEW v \in Versions, Update(v)
  PROVE  TypeOK'
<1>1. PICK order \in Orders :
        LET out == Loop(v, order) IN
        /\ out.rebuilt \/ ~(UnknownPhp(v) \/ OddAppdynamics(out))
        /\ Write(v, out)
        /\ UNCHANGED <<setup, buildStacks, released>>
  BY DEF Update
<1> DEFINE out == Loop(v, order)
<1>2. out \in Accs
  BY LoopIsSound DEF Sound
<1>3. out.deps \subseteq Entries /\ out.added \subseteq Versions \cup Old
  BY <1>2 DEF Accs, AllVersions
<1> HIDE DEF out
<1>4. TypeOK
  BY DEF IInv
<1>5. /\ setup' \in Setups /\ buildStacks' \in (SUBSET Stacks) \ {{}}
      /\ manifest' \subseteq Entries /\ released' \subseteq Entries
  BY <1>1, <1>3, <1>4 DEF out, Write, TypeOK
<1>6. CASE out.rebuilt
  BY <1>1, <1>4, <1>5, <1>6 DEF out, Write, TypeOK
<1>7. CASE ~out.rebuilt
  <2>1. default' = v \/ default' = default
    BY <1>1, <1>7 DEF out, Write, UpdateDefaults
  <2>2. \/ options' = options
        \/ options' = [l \in DOMAIN options \cup {LineOf(v)} |->
                         IF l = LineOf(v) THEN v ELSE options[l]]
    BY <1>1, <1>7 DEF out, Write
  <2>3. \A l \in DOMAIN options' : options'[l] \in Versions \cup Old
    BY <1>4, <2>2 DEF TypeOK
  <2>4. \/ lines' = lines
        \/ lines' = [s \in DOMAIN lines \cup {Stability(v)} |->
                       IF s = Stability(v) THEN LineOf(v) ELSE lines[s]]
    BY <1>1, <1>7 DEF out, Write
  <2>5. \A s \in DOMAIN lines' : lines'[s] \in {LineOf(w) : w \in Versions \cup Old}
    BY <1>4, <2>4 DEF TypeOK
  <2>6. extension' \in Versions \cup Old
    <3>1. CASE extension' = extension
      BY <1>4, <3>1 DEF TypeOK
    <3>2. CASE extension' # extension
      <4>1. /\ setup.language = "php" /\ ManifestName = "appdynamics"
            /\ extension' = CHOOSE a \in out.added : TRUE
        BY <1>1, <1>7, <3>2 DEF out, Write
      <4>2. out.added # {}
        BY <1>1, <1>7, <4>1 DEF out, OddAppdynamics
      <4> QED
        BY <1>3, <4>1, <4>2
    <3> QED
      BY <3>1, <3>2
  <2> QED
    BY <1>4, <1>5, <2>1, <2>3, <2>5, <2>6 DEF TypeOK
<1> QED
  BY <1>6, <1>7

\* A manifest that an update leaves covers the one before it.
LEMMA UpdateIs ==
  ASSUME IInv, NEW v \in Versions, Update(v)
  PROVE  /\ manifest' \in SUBSET Entries /\ Fits(manifest')
         /\ CoversAll(manifest', manifest) /\ OneBinaryIn(manifest')
         /\ UNCHANGED <<setup, buildStacks, released>>
<1>1. PICK order \in Orders : /\ manifest' = Loop(v, order).deps
                              /\ UNCHANGED <<setup, buildStacks, released>>
  BY DEF Update, Write
<1>2. Loop(v, order) \in Sound
  BY LoopIsSound
<1> HIDE DEF Loop
<1>3. Loop(v, order) \in Accs
  BY <1>2 DEF Sound
<1>4. Loop(v, order).deps \in SUBSET Entries
  BY <1>3 DEF Accs
<1> QED
  BY <1>1, <1>2, <1>4 DEF Sound

LEMMA StepIsInv == IInv /\ [Next]_vars => IInv'
<1> SUFFICES ASSUME IInv, [Next]_vars
             PROVE  IInv'
  OBVIOUS
<1>1. TypeOK /\ manifest \in SUBSET Entries /\ released \in SUBSET Entries
  BY DEF IInv, TypeOK
<1>2. ASSUME NEW v \in Versions, Update(v)
      PROVE  IInv'
  <2>1. TypeOK'
    BY <1>2, UpdateIsTyped
  <2>2. /\ manifest' \in SUBSET Entries /\ Fits(manifest')
        /\ CoversAll(manifest', manifest) /\ OneBinaryIn(manifest')
        /\ UNCHANGED <<setup, buildStacks, released>>
    BY <1>2, UpdateIs
  <2>3. CoversAll(manifest', released)
    BY <1>1, <2>2, CoversAllOrder DEF IInv
  <2>4. (CoversAll(manifest, released))'
    BY <2>2, <2>3 DEF CoversAll, Covers
  <2>5. Fits(manifest)' /\ Fits(released)'
    BY <2>2 DEF IInv, Fits
  <2>6. OneBinaryPerStack'
    BY <2>2 DEF OneBinaryPerStack, OneBinaryIn
  <2> QED
    BY <2>1, <2>4, <2>5, <2>6 DEF IInv
<1>3. ASSUME NEW s \in Stacks, AddStack(s)
      PROVE  IInv'
  <2>1. TypeOK'
    BY <1>1, <1>3 DEF AddStack, TypeOK
  <2>2. Fits(manifest)' /\ Fits(released)'
    BY <1>3 DEF AddStack, IInv, Fits
  <2>3. CoversAll(manifest, released)' /\ OneBinaryPerStack'
    BY <1>3 DEF AddStack, IInv, CoversAll, Covers, OneBinaryPerStack
  <2> QED
    BY <2>1, <2>2, <2>3 DEF IInv
<1>4. CASE Ship
  <2>1. TypeOK'
    BY <1>1, <1>4 DEF Ship, TypeOK
  <2>2. Fits(manifest)' /\ Fits(released)' /\ OneBinaryPerStack'
    BY <1>4 DEF Ship, IInv, Fits, OneBinaryPerStack
  <2>3. CoversAll(manifest, manifest)
    BY <1>1, CoversAllOrder
  <2>4. CoversAll(manifest, released)'
    BY <1>4, <2>3 DEF Ship, CoversAll, Covers
  <2> QED
    BY <2>1, <2>2, <2>4 DEF IInv
<1>5. CASE UNCHANGED vars
  BY <1>5 DEF vars, IInv, TypeOK, Fits, CoversAll, Covers, OneBinaryPerStack
<1> QED
  BY <1>2, <1>3, <1>4, <1>5 DEF Next

LEMMA Invariance == Spec => []IInv
<1> QED
  BY InitIsInv, StepIsInv, PTL DEF Spec

-----------------------------------------------------------------------------
(***************************************************************************)
(* Theorems.                                                               *)
(***************************************************************************)

\* What run.rb writes are entries of built or old versions for stacks of the
\* configuration, and versions or lines of those.
THEOREM UpdateTypeCorrect == Spec => []TypeOK
<1>1. IInv => TypeOK
  BY DEF IInv
<1> QED
  BY <1>1, Invariance, PTL

\* No order of files, no new stack and no release gives a version two binaries for
\* one stack (Dependencies#switch with any-stack and keep_latest_released).
THEOREM OneBinaryRemains == Spec => []OneBinaryPerStack
<1>1. IInv => OneBinaryPerStack
  BY DEF IInv
<1> QED
  BY <1>1, Invariance, PTL

\* No step loses a stack of an entry: what served it is served by the same line in
\* a version that is not older ("we don't want to lose supported stacks").
LEMMA StepLosesNoStack ==
  ASSUME IInv, [Next]_vars
  PROVE  \A d \in manifest : \A s \in d.stacks :
           \E e \in manifest' : /\ s \in e.stacks
                                /\ SameLine(setup.line, e.version, d.version)
                                /\ ~Newer(d.version, e.version)
<1>1. CoversAll(manifest', manifest)
  <2>1. ASSUME NEW v \in Versions, Update(v)
        PROVE  CoversAll(manifest', manifest)
    BY <2>1, UpdateIs
  <2>2. CoversAll(manifest, manifest)
    BY CoversAllOrder DEF IInv, TypeOK
  <2>3. manifest' = manifest => CoversAll(manifest', manifest)
    BY <2>2
  <2> QED
    BY <2>1, <2>3 DEF Next, AddStack, Ship, vars
<1> QED
  BY <1>1 DEF CoversAll, Covers

THEOREM StacksAreKept == Spec => StacksAreNeverLost
<1>1. IInv /\ [Next]_vars
        => [\A d \in manifest : \A s \in d.stacks :
              \E e \in manifest' : /\ s \in e.stacks
                                   /\ SameLine(setup.line, e.version, d.version)
                                   /\ ~Newer(d.version, e.version)]_vars
  BY StepLosesNoStack
<1> QED
  BY <1>1, Invariance, PTL DEF Spec, StacksAreNeverLost

-----------------------------------------------------------------------------
(***************************************************************************)
(* One stack at a time: a switch for one stack leaves the others alone.    *)
(***************************************************************************)

On(deps, s) == {d \in deps : d.stacks = {s}}

\* No released entry for the same stacks and of the same line is newer than d.
IsNewestReleased(d) ==
  /\ d \in released
  /\ \A e \in released :
       e.stacks = d.stacks /\ SameLine(setup.line, e.version, d.version)
         => ~Newer(e.version, d.version)

\* Under keep_latest_released what is kept of the released manifest is there
\* already.
KeepsNewest(deps) ==
  ~setup.anyStack /\ setup.strategy = "keep_latest_released" =>
    \A d \in released : IsNewestReleased(d) => d \in deps

LEMMA MatchingIs ==
  ASSUME TypeOK, ~setup.anyStack,
         NEW v \in Versions, NEW file \in Files, file \notin CopyStacks,
         NEW deps \in SUBSET Entries
  PROVE  Matching(setup.line, DepOf(v, file), deps)
           = {d \in On(deps, file) : SameLine(setup.line, d.version, v)}
<1>1. DepOf(v, file).stacks = {file} /\ DepOf(v, file).version = v
  BY DepIs
<1>2. \A d \in deps : d.stacks # {}
  BY EntryIs
<1>3. \A d \in deps : d.stacks \subseteq {file} <=> d.stacks = {file}
  BY <1>2
<1> QED
  BY <1>1, <1>3 DEF Matching, SameDependencyLine, On

\* What keep_latest_released keeps is the newest released entry of the line.
LEMMA KeptIs ==
  ASSUME TypeOK, ~setup.anyStack,
         NEW v \in Versions, NEW file \in Files, file \notin CopyStacks
  PROVE  /\ \A k \in NewestReleased(setup.line, DepOf(v, file), released) :
              IsNewestReleased(k)
         /\ \A d \in On(released, file) :
              IsNewestReleased(d) /\ SameLine(setup.line, d.version, v)
                => d \in NewestReleased(setup.line, DepOf(v, file), released)
<1> DEFINE candidates == Matching(setup.line, DepOf(v, file), released)
           newest == {d \in candidates : \A e \in candidates : ~Newer(e.version, d.version)}
           kept == NewestReleased(setup.line, DepOf(v, file), released)
<1>1. released \in SUBSET Entries
  BY DEF TypeOK
<1>2. candidates = {d \in On(released, file) : SameLine(setup.line, d.version, v)}
  BY <1>1, MatchingIs
<1>3. kept = IF newest = {} THEN {} ELSE {CHOOSE d \in newest : TRUE}
  BY DEF NewestReleased
<1>4. kept \subseteq newest
  <2>1. newest # {} => (CHOOSE d \in newest : TRUE) \in newest
    OBVIOUS
  <2> HIDE DEF newest
  <2> QED
    BY <1>3, <2>1
<1>5. ASSUME NEW k \in newest
      PROVE  IsNewestReleased(k)
  BY <1>2, SameLineEquivalence DEF IsNewestReleased, On
<1>6. ASSUME NEW d \in On(released, file), IsNewestReleased(d),
             SameLine(setup.line, d.version, v)
      PROVE  d \in kept
  <2>1. d \in candidates
    BY <1>2, <1>6
  <2>2. \A e \in candidates : e.stacks = d.stacks /\ SameLine(setup.line, e.version, d.version)
    BY <1>2, <1>6, SameLineEquivalence DEF On
  <2>3. d \in newest
    BY <1>2, <1>6, <2>1, <2>2 DEF IsNewestReleased, On
  <2>4. PICK k \in newest : kept = {k}
    <3>1. (CHOOSE e \in newest : TRUE) \in newest /\ newest # {}
      BY <2>3
    <3> HIDE DEF newest
    <3> QED
      BY <1>3, <3>1
  <2>5. ~Newer(k.version, d.version) /\ ~Newer(d.version, k.version)
    BY <2>1, <2>3
  <2>6. d \in Entries /\ k \in Entries
    BY <1>1, <1>2 DEF On
  <2>7. d.version = k.version
    BY <2>5, <2>6, EntryIs, NewerIsTotal
  <2>8. d = k
    BY <2>2, <2>6, <2>7, EntriesAreEqual
  <2> QED
    BY <2>4, <2>8
<1> QED
  BY <1>4, <1>5, <1>6

LEMMA SwitchKeepsNewest ==
  ASSUME TypeOK, NEW v \in Versions, NEW file \in Files, file \notin CopyStacks,
         NEW deps \in SUBSET Entries, KeepsNewest(deps)
  PROVE  KeepsNewest(SwitchTo(v, file, deps))
<1> DEFINE dep == DepOf(v, file)
           new == SwitchTo(v, file, deps)
           matching == Matching(setup.line, dep, deps)
           same == {d \in matching : d.version = dep.version}
<1> SUFFICES ASSUME ~setup.anyStack, setup.strategy = "keep_latest_released",
                    NEW d \in released, IsNewestReleased(d), d \notin new
             PROVE  FALSE
  BY DEF KeepsNewest
<1>1. d \in deps
  BY DEF KeepsNewest
<1>2. d \in matching /\ dep \in new
  BY <1>1, SwitchRemoves DEF SwitchTo
<1>3. d \in On(deps, file) /\ SameLine(setup.line, d.version, v)
  BY <1>2, MatchingIs
<1>4. d.version # v
  <2>1. dep.stacks = {file} /\ dep.version = v /\ dep \in Entries
    BY DepIs
  <2>2. d.stacks = {file}
    BY <1>3 DEF On
  <2> QED
    BY <1>1, <1>2, <2>1, <2>2, EntriesAreEqual
<1>5. new = (deps \ matching) \cup {dep}
              \cup NewestReleased(setup.line, dep, released)
  <2>1. \/ same # {} /\ new = (deps \ same) \cup {dep}
        \/ new = (deps \ matching) \cup {dep}
                   \cup KeptFromReleased(setup.line, setup.strategy, dep, released)
        \/ new = deps
    BY DEF SwitchTo, Switch
  <2>2. d \notin same
    BY <1>4, DepIs
  <2> HIDE DEF dep, matching, same, new
  <2> QED
    BY <1>1, <2>1, <2>2 DEF KeptFromReleased
<1>6. d \in NewestReleased(setup.line, dep, released)
  BY <1>3, KeptIs DEF On
<1> QED
  BY <1>5, <1>6

\* So a switch for one stack brings nothing but the built entry.
LEMMA SwitchBringsBuilt ==
  ASSUME TypeOK, ~setup.anyStack,
         NEW v \in Versions, NEW file \in Files, file \notin CopyStacks,
         NEW deps \in SUBSET Entries, KeepsNewest(deps)
  PROVE  SwitchTo(v, file, deps) \subseteq deps \cup {DepOf(v, file)}
<1>1. CASE setup.strategy # "keep_latest_released"
  BY <1>1, SwitchAddsBuilt DEF SwitchTo
<1>2. CASE setup.strategy = "keep_latest_released"
  <2>1. NewestReleased(setup.line, DepOf(v, file), released) \subseteq deps
    BY <1>2, KeptIs DEF KeepsNewest, IsNewestReleased
  <2> QED
    BY <1>2, <2>1 DEF SwitchTo, Switch, KeptFromReleased
<1> QED
  BY <1>1, <1>2

\* A version that is in the manifest stays there while it is updated to.
LEMMA SwitchKeepsVersion ==
  ASSUME TypeOK, NEW v \in Versions, NEW file \in Files, file \notin CopyStacks,
         NEW deps \in SUBSET Entries, v \in EntryVersions(deps)
  PROVE  v \in EntryVersions(SwitchTo(v, file, deps))
<1>1. PICK d \in deps : d.version = v
  BY DEF EntryVersions
<1>2. d \in SwitchTo(v, file, deps) \/ DepOf(v, file) \in SwitchTo(v, file, deps)
  BY SwitchRemoves DEF SwitchTo
<1> QED
  BY <1>1, <1>2, DepIs DEF EntryVersions

\* A switch for one stack only looks at the entries of that stack, and only
\* changes those.
LEMMA SwitchIsLocal ==
  ASSUME TypeOK, ~setup.anyStack,
         NEW v \in Versions, NEW file \in Files, file \notin CopyStacks,
         NEW deps \in SUBSET Entries
  PROVE  /\ \A s : s # file => On(SwitchTo(v, file, deps), s) = On(deps, s)
         /\ \A old \in SUBSET Entries :
              On(old, file) = On(deps, file)
                => On(SwitchTo(v, file, old), file) = On(SwitchTo(v, file, deps), file)
<1> DEFINE dep == DepOf(v, file)
           kept == KeptFromReleased(setup.line, setup.strategy, dep, released)
           Matches(d) == d.stacks = {file} /\ SameLine(setup.line, d.version, v)
           New(D) == LET matching == {d \in D : Matches(d)}
                         same == {d \in matching : d.version = dep.version}
                     IN  IF same # {} THEN (D \ same) \cup {dep}
                         ELSE IF setup.strategy = "keep_all" THEN D \cup {dep}
                         ELSE IF IsLatest(dep, matching)
                              THEN (D \ matching) \cup {dep} \cup kept
                         ELSE D
<1>1. dep.stacks = {file}
  BY DepIs
<1>2. \A d \in kept : d.stacks = {file}
  <2>1. kept \subseteq Matching(setup.line, dep, released)
    BY KeptFromReleasedMatches
  <2>2. released \in SUBSET Entries
    BY DEF TypeOK
  <2> QED
    BY <2>1, <2>2, MatchingIs DEF On
<1>3. ASSUME NEW D \in SUBSET Entries
      PROVE  SwitchTo(v, file, D) = New(D)
  <2>1. Matching(setup.line, dep, D) = {d \in D : Matches(d)}
    BY MatchingIs DEF On
  <2> HIDE DEF dep, kept, Matches
  <2> QED
    BY <2>1 DEF SwitchTo, Switch, dep, kept
<1>4. ASSUME NEW s, s # file
      PROVE  On(New(deps), s) = On(deps, s)
  <2>1. {s} # {file}
    BY <1>4
  <2> HIDE DEF dep, kept
  <2> QED
    BY <1>1, <1>2, <2>1 DEF On
<1>5. ASSUME NEW old \in SUBSET Entries, On(old, file) = On(deps, file)
      PROVE  On(New(old), file) = On(New(deps), file)
  <2>1. {d \in old : Matches(d)} = {d \in deps : Matches(d)}
    BY <1>5 DEF On
  <2>2. \A d : d.stacks = {file} => (d \in old <=> d \in deps)
    BY <1>5 DEF On
  <2> HIDE DEF dep, kept, Matches
  <2> QED
    BY <1>1, <1>2, <2>1, <2>2 DEF On
<1> HIDE DEF New
<1> QED
  BY <1>3, <1>4, <1>5

-----------------------------------------------------------------------------
(***************************************************************************)
(* The order of the files.                                                 *)
(***************************************************************************)

\* What the loop has when the files in done have had their turns, with one entry
\* per stack: each stack is switched or is as it was, whatever came first.
SplitAt(v, done) ==
  {acc \in Accs :
    /\ Fits(acc.deps) /\ KeepsNewest(acc.deps)
    /\ \A s \in buildStacks :
         On(acc.deps, s) = IF s \in done THEN On(SwitchTo(v, s, manifest), s)
                           ELSE On(manifest, s)
    /\ v \in EntryVersions(manifest) => v \in EntryVersions(acc.deps)
    /\ acc.rebuilt <=> done \cap buildStacks = {} \/ v \in EntryVersions(manifest)
    /\ acc.added = IF v \in EntryVersions(manifest) THEN {}
                   ELSE EntryVersions(acc.deps) \cap {v}}

\* Entries for single stacks are known by those of each stack.
LEMMA KnownByStack ==
  ASSUME ~setup.anyStack, NEW deps, NEW new, Fits(deps), Fits(new),
         \A s \in buildStacks : On(deps, s) = On(new, s)
  PROVE  deps = new
<1>1. \A d \in deps : d \in new
  <2> SUFFICES ASSUME NEW d \in deps
               PROVE  d \in new
    OBVIOUS
  <2>1. PICK s \in buildStacks : d.stacks = {s}
    BY DEF Fits
  <2> QED
    BY <2>1 DEF On
<1>2. \A d \in new : d \in deps
  <2> SUFFICES ASSUME NEW d \in new
               PROVE  d \in deps
    OBVIOUS
  <2>1. PICK s \in buildStacks : d.stacks = {s}
    BY DEF Fits
  <2> QED
    BY <2>1 DEF On
<1> QED
  BY <1>1, <1>2

LEMMA BeforeIsSplit ==
  ASSUME IInv, KeepsNewest(manifest), NEW v
  PROVE  Before \in SplitAt(v, {})
<1>1. Before \in Accs /\ Before.deps = manifest
  BY BeforeIs DEF IInv
<1>2. Before.rebuilt = TRUE /\ Before.added = {}
  BY DEF Before
<1>3. v \notin EntryVersions(manifest) => EntryVersions(manifest) \cap {v} = {}
  OBVIOUS
<1>4. Fits(manifest)
  BY DEF IInv
<1> QED
  BY <1>1, <1>2, <1>3, <1>4 DEF SplitAt

LEMMA TurnIsSplit ==
  ASSUME IInv, ~setup.anyStack,
         NEW v \in Versions, NEW done, NEW file \in Files, file \notin done,
         NEW acc \in SplitAt(v, done)
  PROVE  Turn(v, acc, file) \in SplitAt(v, done \cup {file})
<1>1. TypeOK /\ manifest \in SUBSET Entries /\ Fits(manifest) /\ Fits(released)
  BY DEF IInv, TypeOK
<1>2. CASE file \in CopyStacks
  <2>1. file \notin buildStacks
    BY <1>1, <1>2, SetupIs, SetupAssumption
  <2>2. (done \cup {file}) \cap buildStacks = done \cap buildStacks
    BY <2>1
  <2>3. \A s \in buildStacks : s \in done \cup {file} <=> s \in done
    BY <2>1
  <2>4. Turn(v, acc, file) = acc
    BY <1>2, TurnIs
  <2> QED
    BY <2>2, <2>3, <2>4 DEF SplitAt
<1>3. CASE file \notin CopyStacks
  <2> DEFINE new == SwitchTo(v, file, acc.deps)
             turn == Turn(v, acc, file)
             old == v \in EntryVersions(manifest)
             had == v \in EntryVersions(acc.deps)
             has == v \in EntryVersions(new)
  <2>1. file \in buildStacks
    BY <1>1, <1>3, DepIs
  <2>2. /\ acc \in Accs /\ acc.deps \in SUBSET Entries
        /\ Fits(acc.deps) /\ KeepsNewest(acc.deps)
    BY DEF SplitAt, Accs
  <2>3. /\ \A s \in buildStacks :
             On(acc.deps, s) = IF s \in done THEN On(SwitchTo(v, s, manifest), s)
                               ELSE On(manifest, s)
        /\ acc.added = IF old THEN {} ELSE EntryVersions(acc.deps) \cap {v}
    BY DEF SplitAt
  <2>4. old => had
    BY DEF SplitAt
  <2>5. acc.rebuilt <=> done \cap buildStacks = {} \/ old
    BY DEF SplitAt
  <2>6. turn \in Accs
    BY <1>1, <2>2, TurnIsTyped
  <2>7. /\ turn.deps = new
        /\ turn.added = acc.added \cup (EntryVersions(new) \ EntryVersions(acc.deps))
    <3>1. /\ turn = [deps    |-> new,
                     added   |-> acc.added \cup
                                   (EntryVersions(new) \ EntryVersions(acc.deps)),
                     removed |-> acc.removed \cup
                                   (EntryVersions(acc.deps) \ EntryVersions(new)),
                     rebuilt |-> acc.rebuilt /\ v \in EntryVersions(acc.deps)]
      BY <1>3, TurnIs, Zenon
    <3> HIDE DEF turn, new
    <3> QED
      BY <3>1
  <2>8. turn.rebuilt <=> acc.rebuilt /\ had
    <3>1. /\ turn = [deps    |-> new,
                     added   |-> acc.added \cup
                                   (EntryVersions(new) \ EntryVersions(acc.deps)),
                     removed |-> acc.removed \cup
                                   (EntryVersions(acc.deps) \ EntryVersions(new)),
                     rebuilt |-> acc.rebuilt /\ v \in EntryVersions(acc.deps)]
      BY <1>3, TurnIs, Zenon
    <3> HIDE DEF turn, new
    <3> QED
      BY <3>1, Zenon
  <2>9. Fits(new) /\ KeepsNewest(new)
    BY <1>1, <1>3, <2>2, SwitchFits, SwitchKeepsNewest
  <2>10. ASSUME NEW s \in buildStacks
         PROVE  On(new, s) = IF s \in done \cup {file} THEN On(SwitchTo(v, s, manifest), s)
                             ELSE On(manifest, s)
    <3>1. CASE s = file
      <4>1. On(acc.deps, file) = On(manifest, file)
        BY <2>1, <2>3
      <4>2. On(SwitchTo(v, file, manifest), file) = On(new, file)
        BY <1>1, <1>3, <2>2, <4>1, SwitchIsLocal
      <4> HIDE DEF new
      <4> QED
        BY <3>1, <4>2
    <3>2. CASE s # file
      <4>1. On(new, s) = On(acc.deps, s)
        BY <1>1, <1>3, <2>2, <3>2, SwitchIsLocal
      <4> HIDE DEF new
      <4> QED
        BY <2>3, <3>2, <4>1
    <3> QED
      BY <3>1, <3>2
  <2>11. had => has
    BY <1>1, <1>3, <2>2, SwitchKeepsVersion
  <2>12. EntryVersions(new) \ EntryVersions(acc.deps) = IF has /\ ~had THEN {v} ELSE {}
    <3>1. new \subseteq acc.deps \cup {DepOf(v, file)}
      BY <1>1, <1>3, <2>2, SwitchBringsBuilt
    <3>2. DepOf(v, file).version = v
      BY <1>1, <1>3, DepIs
    <3> HIDE DEF new
    <3> QED
      BY <3>1, <3>2 DEF EntryVersions
  <2>13. turn.added = IF old THEN {} ELSE EntryVersions(new) \cap {v}
    <3> HIDE DEF new, turn
    <3> QED
      BY <2>3, <2>4, <2>7, <2>11, <2>12
  <2>14. done \cap buildStacks = {} => (had => old)
    <3> SUFFICES ASSUME done \cap buildStacks = {}
                 PROVE  acc.deps = manifest
      OBVIOUS
    <3>1. \A s \in buildStacks : On(acc.deps, s) = On(manifest, s)
      BY <2>3
    <3> QED
      BY <1>1, <2>2, <3>1, KnownByStack
  <2>15. turn.rebuilt <=> old
    <3> HIDE DEF turn, old, had
    <3> QED
      BY <2>4, <2>5, <2>8, <2>14
  <2>16. (done \cup {file}) \cap buildStacks # {}
    BY <2>1
  <2>17. turn.deps = new
    BY <2>7
  <2>18. /\ Fits(turn.deps) /\ KeepsNewest(turn.deps)
         /\ \A s \in buildStacks :
              On(turn.deps, s) = IF s \in done \cup {file} THEN On(SwitchTo(v, s, manifest), s)
                                 ELSE On(manifest, s)
    <3> HIDE DEF new, turn
    <3> QED
      BY <2>9, <2>10, <2>17, Zenon
  <2>19. /\ old => v \in EntryVersions(turn.deps)
         /\ turn.rebuilt <=> (done \cup {file}) \cap buildStacks = {} \/ old
         /\ turn.added = IF old THEN {} ELSE EntryVersions(turn.deps) \cap {v}
    <3> HIDE DEF new, turn, old, had
    <3> QED
      BY <2>4, <2>11, <2>13, <2>15, <2>16, <2>17, Zenon
  <2> QED
    BY <2>6, <2>18, <2>19, Zenon DEF SplitAt
<1> QED
  BY <1>2, <1>3

\* The files that have had their turns.
Done(order, n) == {order[m] : m \in 1..n}

LEMMA DoneIs ==
  ASSUME TypeOK, NEW order \in Orders
  PROVE  /\ Done(order, 0) = {} /\ Done(order, Len(order)) = Files
         /\ \A n \in 1..Len(order) :
              /\ order[n] \notin Done(order, n - 1)
              /\ Done(order, n) = Done(order, n - 1) \cup {order[n]}
<1>1. /\ Len(order) \in Nat
      /\ \A n \in 1..Len(order) : order[n] \in Files
      /\ \A m, n \in 1..Len(order) : m # n => order[m] # order[n]
      /\ \A file \in Files : \E n \in 1..Len(order) : order[n] = file
  BY OrdersList
<1>2. Done(order, 0) = {}
  BY DEF Done
<1>3. Done(order, Len(order)) = Files
  BY <1>1 DEF Done
<1>4. ASSUME NEW n \in 1..Len(order)
      PROVE  /\ order[n] \notin Done(order, n - 1)
             /\ Done(order, n) = Done(order, n - 1) \cup {order[n]}
  <2>1. \A m \in 1..(n - 1) : m \in 1..Len(order) /\ m # n
    BY <1>1
  <2>2. \A m : m \in 1..n <=> m \in 1..(n - 1) \/ m = n
    BY <1>1
  <2> QED
    BY <1>1, <2>1, <2>2 DEF Done
<1> QED
  BY <1>2, <1>3, <1>4

\* With one entry per stack, every order leaves each stack switched.
LEMMA LoopIsSplit ==
  ASSUME IInv, KeepsNewest(manifest), ~setup.anyStack,
         NEW v \in Versions, NEW order \in Orders
  PROVE  Loop(v, order) \in SplitAt(v, Files)
<1> DEFINE Good == [n \in 0..Len(order) |-> SplitAt(v, Done(order, n))]
<1>1. TypeOK
  BY DEF IInv
<1>2. Len(order) \in Nat /\ \A n \in 1..Len(order) : order[n] \in Files
  BY <1>1, OrdersList
<1>3. \A n \in 0..Len(order) : Good[n] = SplitAt(v, Done(order, n))
  OBVIOUS
<1> HIDE DEF Good
<1>4. Before \in Good[0]
  <2>1. 0 \in 0..Len(order)
    BY <1>2
  <2>2. Good[0] = SplitAt(v, {})
    BY <1>1, <1>3, <2>1, DoneIs
  <2> QED
    BY <2>2, BeforeIsSplit
<1>5. ASSUME NEW n \in 1..Len(order), NEW acc \in Good[n - 1]
      PROVE  Turn(v, acc, order[n]) \in Good[n]
  <2>1. n \in 0..Len(order) /\ n - 1 \in 0..Len(order)
    BY <1>2
  <2>2. acc \in SplitAt(v, Done(order, n - 1))
    BY <1>3, <2>1
  <2>3. Turn(v, acc, order[n]) \in SplitAt(v, Done(order, n - 1) \cup {order[n]})
    BY <1>1, <1>2, <2>2, DoneIs, TurnIsSplit
  <2> QED
    BY <1>1, <1>3, <2>1, <2>3, DoneIs
<1>6. Loop(v, order) \in Good[Len(order)]
  BY <1>2, <1>4, <1>5, LoopStaysIn
<1> QED
  BY <1>1, <1>2, <1>3, <1>6, DoneIs

\* For any-stack there is one turn.
LEMMA LoopIsOneTurn ==
  ASSUME TypeOK, setup.anyStack, NEW v, NEW order \in Orders
  PROVE  Loop(v, order) = Turn(v, Before, "any-stack")
<1> DEFINE At(done) == IF "any-stack" \in done THEN {Turn(v, Before, "any-stack")}
                       ELSE {Before}
           Good == [n \in 0..Len(order) |-> At(Done(order, n))]
<1>1. Len(order) \in Nat /\ \A n \in 1..Len(order) : order[n] \in Files
  BY OrdersList
<1>2. \A n \in 0..Len(order) : Good[n] = At(Done(order, n))
  OBVIOUS
<1> HIDE DEF Good
<1>3. Before \in Good[0]
  BY <1>1, <1>2, DoneIs
<1>4. ASSUME NEW n \in 1..Len(order), NEW acc \in Good[n - 1]
      PROVE  Turn(v, acc, order[n]) \in Good[n]
  <2>1. n \in 0..Len(order) /\ n - 1 \in 0..Len(order)
    BY <1>1
  <2>2. acc \in At(Done(order, n - 1)) /\ Good[n] = At(Done(order, n))
    BY <1>2, <2>1
  <2>3. /\ order[n] \notin Done(order, n - 1)
        /\ Done(order, n) = Done(order, n - 1) \cup {order[n]}
    BY DoneIs
  <2>4. order[n] \in CopyStacks \/ order[n] = "any-stack"
    BY <1>1, SetupIs DEF Files
  <2>5. CASE order[n] = "any-stack"
    BY <2>2, <2>3, <2>5
  <2>6. CASE order[n] # "any-stack"
    <3>1. Turn(v, acc, order[n]) = acc
      BY <2>4, <2>6, TurnIs
    <3> QED
      BY <2>2, <2>3, <2>6, <3>1
  <2> QED
    BY <2>5, <2>6
<1>5. Loop(v, order) \in Good[Len(order)]
  BY <1>1, <1>3, <1>4, LoopStaysIn
<1>6. "any-stack" \in Files
  BY DEF Files
<1>7. "any-stack" \in Done(order, Len(order))
  BY <1>6, DoneIs
<1> QED
  BY <1>1, <1>2, <1>5, <1>7

LEMMA OrderIsIrrelevantNow ==
  ASSUME IInv, KeepsNewest(manifest)
  PROVE  OrderIsIrrelevant
<1> SUFFICES ASSUME NEW v \in Versions, NEW o \in Orders, NEW p \in Orders
             PROVE  LET x == Loop(v, o)
                        y == Loop(v, p)
                    IN  /\ x.deps = y.deps
                        /\ x.rebuilt = y.rebuilt
                        /\ (x.added = {}) = (y.added = {})
  BY DEF OrderIsIrrelevant
<1>1. TypeOK
  BY DEF IInv
<1>2. CASE setup.anyStack
  <2>1. Loop(v, o) = Loop(v, p)
    BY <1>1, <1>2, LoopIsOneTurn
  <2> HIDE DEF Loop
  <2> QED
    BY <2>1
<1>3. CASE ~setup.anyStack
  <2> DEFINE x == Loop(v, o)
             y == Loop(v, p)
  <2>1. x \in SplitAt(v, Files) /\ y \in SplitAt(v, Files)
    BY <1>3, LoopIsSplit
  <2> HIDE DEF x, y
  <2>2. x.deps = y.deps
    <3>1. Fits(x.deps) /\ Fits(y.deps)
      BY <2>1 DEF SplitAt
    <3>2. \A s \in buildStacks : On(x.deps, s) = On(y.deps, s)
      BY <2>1 DEF SplitAt
    <3> QED
      BY <1>3, <3>1, <3>2, KnownByStack
  <2>3. x.added = y.added
    BY <2>1, <2>2 DEF SplitAt
  <2>4. x.rebuilt <=> y.rebuilt
    BY <2>1 DEF SplitAt
  <2>5. x.rebuilt \in BOOLEAN /\ y.rebuilt \in BOOLEAN
    <3>1. x \in Accs /\ y \in Accs
      BY <2>1, Zenon DEF SplitAt
    <3> QED
      BY <3>1, Zenon DEF Accs
  <2>6. x.rebuilt = y.rebuilt
    <3>1. \A a, b \in BOOLEAN : (a <=> b) => a = b
      OBVIOUS
    <3> QED
      BY <2>4, <2>5, <3>1, Zenon
  <2> QED
    BY <2>2, <2>3, <2>6 DEF x, y
<1> QED
  BY <1>2, <1>3

LEMMA InitKeepsNewest == Init => KeepsNewest(manifest)
BY DEF Init, KeepsNewest, IsNewestReleased

LEMMA StepKeepsNewest ==
  ASSUME IInv, KeepsNewest(manifest), [Next]_vars
  PROVE  KeepsNewest(manifest)'
<1>1. ASSUME NEW v \in Versions, Update(v)
      PROVE  KeepsNewest(manifest)'
  <2>1. PICK order \in Orders : /\ manifest' = Loop(v, order).deps
                                /\ UNCHANGED <<setup, buildStacks, released>>
    BY <1>1 DEF Update, Write
  <2>2. ~setup.anyStack => KeepsNewest(Loop(v, order).deps)
    <3>1. ~setup.anyStack => Loop(v, order) \in SplitAt(v, Files)
      BY LoopIsSplit
    <3> HIDE DEF Loop
    <3> QED
      BY <3>1 DEF SplitAt
  <2> HIDE DEF Loop
  <2> QED
    BY <2>1, <2>2 DEF KeepsNewest, IsNewestReleased
<1>2. ASSUME NEW s \in Stacks, AddStack(s)
      PROVE  KeepsNewest(manifest)'
  BY <1>2 DEF AddStack, KeepsNewest, IsNewestReleased
<1>3. CASE Ship
  BY <1>3 DEF Ship, KeepsNewest, IsNewestReleased
<1>4. CASE UNCHANGED vars
  BY <1>4 DEF vars, KeepsNewest, IsNewestReleased
<1> QED
  BY <1>1, <1>2, <1>3, <1>4 DEF Next

\* In whatever order Dir[] lists the metadata files, the task writes the same
\* manifest and decides the same: skip, add or rebuild (run.rb).
THEOREM OrderNeverMatters == Spec => []OrderIsIrrelevant
<1>1. Init => IInv /\ KeepsNewest(manifest)
  BY InitIsInv, InitKeepsNewest
<1>2. IInv /\ KeepsNewest(manifest) /\ [Next]_vars => IInv' /\ KeepsNewest(manifest)'
  BY StepIsInv, StepKeepsNewest
<1>3. IInv /\ KeepsNewest(manifest) => OrderIsIrrelevant
  BY OrderIsIrrelevantNow
<1> QED
  BY <1>1, <1>2, <1>3, PTL DEF Spec

-----------------------------------------------------------------------------
(***************************************************************************)
(* The versions of a manifest.  While build_stacks is what it was, every   *)
(* stack has the same ones, and an update does to them what it does to     *)
(* those of one stack.                                                     *)
(***************************************************************************)

EvenIn(deps) ==
  ~setup.anyStack =>
    \A s, t \in buildStacks : EntryVersions(On(deps, s)) = EntryVersions(On(deps, t))

VersionsThen(v) ==
  VersionsAfter(setup.line, setup.strategy, v, EntryVersions(manifest),
                EntryVersions(released))

LEMMA EvenVersions ==
  ASSUME TypeOK, ~setup.anyStack, NEW deps, Fits(deps), EvenIn(deps),
         NEW s \in buildStacks
  PROVE  EntryVersions(On(deps, s)) = EntryVersions(deps)
<1>1. ASSUME NEW d \in deps
      PROVE  d.version \in EntryVersions(On(deps, s))
  <2>1. PICK t \in buildStacks : d \in On(deps, t)
    BY DEF Fits, On
  <2>2. d.version \in EntryVersions(On(deps, t))
    BY <2>1 DEF EntryVersions
  <2> QED
    BY <2>1, <2>2 DEF EvenIn
<1>2. On(deps, s) \subseteq deps
  BY DEF On
<1> QED
  BY <1>1, <1>2 DEF EntryVersions

LEMMA StackVersions ==
  ASSUME TypeOK, ~setup.anyStack, NEW v \in Versions, NEW s \in buildStacks,
         NEW deps \in SUBSET Entries
  PROVE  EntryVersions(On(SwitchTo(v, s, deps), s))
           = VersionsAfter(setup.line, setup.strategy, v,
                           EntryVersions(On(deps, s)), EntryVersions(On(released, s)))
<1> DEFINE dep == DepOf(v, s)
           old == On(deps, s)
           new == SwitchTo(v, s, old)
           theirs == On(released, s)
<1>1. s \in Files /\ s \notin CopyStacks
  BY SetupIs, SetupAssumption DEF Files
<1>2. dep.stacks = {s} /\ dep.version = v
  BY <1>1, DepIs
<1>3. old \in SUBSET Entries /\ released \in SUBSET Entries /\ theirs \in SUBSET Entries
        /\ On(old, s) = old /\ On(theirs, s) = theirs
  BY DEF On, TypeOK
<1>4. On(SwitchTo(v, s, deps), s) = On(new, s)
  BY <1>1, <1>3, SwitchIsLocal
<1>5. On(new, s) = new
  <2>1. new \subseteq old \cup {dep} \cup Matching(setup.line, dep, released)
    BY SwitchAdds DEF SwitchTo
  <2>2. Matching(setup.line, dep, released) \subseteq theirs
    BY <1>1, <1>3, MatchingIs
  <2>3. \A d \in old \cup {dep} \cup theirs : d.stacks = {s}
    BY <1>2 DEF On
  <2> HIDE DEF new, old, dep, theirs
  <2> QED
    BY <2>1, <2>2, <2>3 DEF On
<1>6. new = Switch(setup.line, setup.strategy, dep, old, theirs)
  <2>1. Matching(setup.line, dep, released) = Matching(setup.line, dep, theirs)
    <3>1. /\ Matching(setup.line, dep, released)
               = {d \in On(released, s) : SameLine(setup.line, d.version, v)}
          /\ Matching(setup.line, dep, theirs)
               = {d \in On(theirs, s) : SameLine(setup.line, d.version, v)}
      BY <1>1, <1>3, MatchingIs
    <3> QED
      BY <1>3, <3>1
  <2>2. NewestReleased(setup.line, dep, released) = NewestReleased(setup.line, dep, theirs)
    BY <2>1 DEF NewestReleased
  <2> HIDE DEF old, dep, theirs
  <2> QED
    BY <2>2 DEF SwitchTo, Switch, KeptFromReleased, dep
<1>7. EntryVersions(Switch(setup.line, setup.strategy, dep, old, theirs))
        = VersionsAfter(setup.line, setup.strategy, dep.version, EntryVersions(old),
                        EntryVersions(theirs))
  <2>1. \A d \in old : d.stacks \subseteq dep.stacks
    BY <1>2 DEF On
  <2>2. \A d \in theirs : d.stacks \subseteq dep.stacks /\ d.version \in VersionRecords
    BY <1>2, <1>3, EntryIs DEF On
  <2> HIDE DEF old, dep, theirs
  <2> QED
    BY <2>1, <2>2, SetupIs, SwitchVersions
<1> QED
  BY <1>2, <1>4, <1>5, <1>6, <1>7

\* What a loop adds and removes is accounted for.
LEMMA LoopAccounts ==
  ASSUME TypeOK, NEW v \in Versions, NEW order \in Orders
  PROVE  LET out == Loop(v, order) IN
         /\ EntryVersions(manifest) \subseteq EntryVersions(out.deps) \cup out.removed
         /\ EntryVersions(out.deps) \subseteq EntryVersions(manifest) \cup out.added
<1> DEFINE Good == {acc \in Accs :
             /\ EntryVersions(manifest) \subseteq EntryVersions(acc.deps) \cup acc.removed
             /\ EntryVersions(acc.deps) \subseteq EntryVersions(manifest) \cup acc.added}
<1>1. Before \in Good
  BY BeforeIs
<1>2. ASSUME NEW file \in Files, NEW acc \in Good
      PROVE  Turn(v, acc, file) \in Good
  <2>1. CASE file \in CopyStacks
    BY <2>1, TurnIs
  <2>2. CASE file \notin CopyStacks
    <3> DEFINE turn == Turn(v, acc, file)
               new == SwitchTo(v, file, acc.deps)
    <3>1. turn \in Accs
      BY TurnIsTyped
    <3>2. turn = [deps    |-> new,
                  added   |-> acc.added \cup
                                (EntryVersions(new) \ EntryVersions(acc.deps)),
                  removed |-> acc.removed \cup
                                (EntryVersions(acc.deps) \ EntryVersions(new)),
                  rebuilt |-> acc.rebuilt /\ v \in EntryVersions(acc.deps)]
      BY <2>2, TurnIs, Zenon
    <3>3. /\ turn.deps = new
          /\ turn.added = acc.added \cup (EntryVersions(new) \ EntryVersions(acc.deps))
          /\ turn.removed = acc.removed \cup (EntryVersions(acc.deps) \ EntryVersions(new))
      <4> HIDE DEF turn, new
      <4> QED
        BY <3>2
    <3> HIDE DEF turn, new
    <3>4. turn \in Good
      BY <3>1, <3>3
    <3> QED
      BY <3>4 DEF turn
  <2> QED
    BY <2>1, <2>2
<1>3. Loop(v, order) \in Good
  <2> HIDE DEF Good
  <2> QED
    BY <1>1, <1>2, LoopKeeps
<1> HIDE DEF Loop
<1> QED
  BY <1>3

\* What an update does to the versions.
LEMMA LoopVersions ==
  ASSUME IInv, KeepsNewest(manifest), EvenIn(manifest), EvenIn(released),
         NEW v \in Versions, NEW order \in Orders
  PROVE  LET out == Loop(v, order) IN
         /\ EntryVersions(out.deps) = VersionsThen(v)
         /\ EvenIn(out.deps)
         /\ out.rebuilt <=> v \in EntryVersions(manifest)
         /\ out.added \subseteq EntryVersions(out.deps)
         /\ out.added # {} => v \in EntryVersions(out.deps)
<1> DEFINE out == Loop(v, order)
<1>1. /\ TypeOK /\ manifest \in SUBSET Entries /\ released \in SUBSET Entries
      /\ Fits(manifest) /\ Fits(released)
  BY DEF IInv, TypeOK
<1>2. CASE setup.anyStack
  <2> DEFINE new == SwitchTo(v, "any-stack", manifest)
             dep == DepOf(v, "any-stack")
  <2>1. "any-stack" \in Files /\ "any-stack" \notin CopyStacks
    BY <1>2, SetupAssumption DEF Files
  <2>2. dep.stacks = buildStacks /\ dep.version = v
    BY <1>1, <1>2, <2>1, DepIs
  <2>3. out = Turn(v, Before, "any-stack")
    BY <1>1, <1>2, LoopIsOneTurn
  <2>4. /\ Before.deps = manifest /\ Before.added = {} /\ Before.rebuilt = TRUE
    BY DEF Before
  <2>5. out = [deps    |-> new,
               added   |-> {} \cup (EntryVersions(new) \ EntryVersions(manifest)),
               removed |-> Before.removed \cup
                             (EntryVersions(manifest) \ EntryVersions(new)),
               rebuilt |-> TRUE /\ v \in EntryVersions(manifest)]
    <3> DEFINE after == SwitchTo(v, "any-stack", Before.deps)
    <3>1. Turn(v, Before, "any-stack")
            = [deps    |-> after,
               added   |-> Before.added \cup
                             (EntryVersions(after) \ EntryVersions(Before.deps)),
               removed |-> Before.removed \cup
                             (EntryVersions(Before.deps) \ EntryVersions(after)),
               rebuilt |-> Before.rebuilt /\ v \in EntryVersions(Before.deps)]
      BY <1>1, <2>1, BeforeIs, TurnIs, Zenon
    <3>2. after = new
      BY <2>4
    <3> HIDE DEF out, after, new
    <3> QED
      BY <2>3, <2>4, <3>1, <3>2, Zenon
  <2>6. out.deps = new /\ out.added = EntryVersions(new) \ EntryVersions(manifest)
    <3> HIDE DEF out, new
    <3> QED
      BY <2>5
  <2>7. out.rebuilt <=> v \in EntryVersions(manifest)
    <3> HIDE DEF out, new
    <3> QED
      BY <2>5, Zenon
  <2>8. EntryVersions(new) = VersionsThen(v)
    <3>1. \A d \in manifest : d.stacks \subseteq dep.stacks
      BY <1>1, <2>2 DEF Fits
    <3>2. \A d \in released : d.stacks \subseteq dep.stacks /\ d.version \in VersionRecords
      BY <1>1, <2>2, EntryIs DEF Fits
    <3>3. EntryVersions(Switch(setup.line, setup.strategy, dep, manifest, released))
            = VersionsAfter(setup.line, setup.strategy, dep.version,
                            EntryVersions(manifest), EntryVersions(released))
      <4> HIDE DEF dep
      <4> QED
        BY <1>1, <3>1, <3>2, SetupIs, SwitchVersions
    <3> QED
      BY <2>2, <3>3 DEF SwitchTo, VersionsThen
  <2>9. EntryVersions(new) \ EntryVersions(manifest) # {} => v \in EntryVersions(new)
    <3>1. dep \in new \/ new = manifest
      BY SwitchCarries DEF SwitchTo
    <3> HIDE DEF new
    <3> QED
      BY <2>2, <3>1 DEF EntryVersions
  <2>10. EvenIn(out.deps)
    BY <1>2 DEF EvenIn
  <2> HIDE DEF out, new
  <2>11. /\ EntryVersions(out.deps) = VersionsThen(v)
         /\ out.added \subseteq EntryVersions(out.deps)
         /\ out.added # {} => v \in EntryVersions(out.deps)
    BY <2>6, <2>8, <2>9
  <2> QED
    BY <2>7, <2>10, <2>11, Zenon DEF out
<1>3. CASE ~setup.anyStack
  <2>1. out \in SplitAt(v, Files)
    BY <1>3, LoopIsSplit
  <2> HIDE DEF out
  <2>2. buildStacks \subseteq Files /\ buildStacks # {}
    BY <1>1, <1>3, SetupIs DEF Files
  <2>3. /\ Fits(out.deps)
        /\ \A s \in buildStacks : On(out.deps, s) = On(SwitchTo(v, s, manifest), s)
        /\ out.added = IF v \in EntryVersions(manifest) THEN {}
                       ELSE EntryVersions(out.deps) \cap {v}
    BY <2>1, <2>2 DEF SplitAt
  <2>4. out.rebuilt <=> v \in EntryVersions(manifest)
    <3>1. Files \cap buildStacks # {}
      BY <2>2
    <3>2. out.rebuilt <=> Files \cap buildStacks = {} \/ v \in EntryVersions(manifest)
      BY <2>1, Zenon DEF SplitAt
    <3> QED
      BY <3>1, <3>2, Zenon
  <2>5. ASSUME NEW s \in buildStacks
        PROVE  EntryVersions(On(out.deps, s)) = VersionsThen(v)
    <3>1. /\ EntryVersions(On(manifest, s)) = EntryVersions(manifest)
          /\ EntryVersions(On(released, s)) = EntryVersions(released)
      BY <1>1, <1>3, EvenVersions
    <3> QED
      BY <1>1, <1>3, <2>3, <3>1, StackVersions DEF VersionsThen
  <2>6. EvenIn(out.deps)
    BY <2>5 DEF EvenIn
  <2>7. EntryVersions(out.deps) = VersionsThen(v)
    BY <1>1, <1>3, <2>2, <2>3, <2>5, <2>6, EvenVersions
  <2>8. out.added \subseteq EntryVersions(out.deps)
          /\ (out.added # {} => v \in EntryVersions(out.deps))
    BY <2>3
  <2> QED
    BY <2>4, <2>6, <2>7, <2>8, Zenon DEF out
<1> QED
  BY <1>2, <1>3

-----------------------------------------------------------------------------
(***************************************************************************)
(* What the task keeps in step with the manifest.                          *)
(***************************************************************************)

\* The invariant that the two theorems of this section rest on.
Even ==
  /\ setup.stacks \subseteq buildStacks
  /\ buildStacks = setup.stacks => EvenIn(manifest) /\ EvenIn(released)

EInv == IInv /\ KeepsNewest(manifest) /\ Even

\* What is known of an update that goes through.
Updates(v, out) ==
  /\ out.added \in SUBSET AllVersions /\ Write(v, out)
  /\ UNCHANGED <<setup, buildStacks, released>>
  /\ EntryVersions(manifest') = VersionsThen(v)
  /\ EvenIn(manifest')
  /\ out.rebuilt => v \in EntryVersions(manifest)
  /\ ~out.rebuilt => /\ v \notin EntryVersions(manifest)
                     /\ v \in EntryVersions(manifest')
                     /\ ~OddAppdynamics(out)
  /\ out.added \subseteq EntryVersions(manifest')
  /\ EntryVersions(manifest) \subseteq EntryVersions(manifest') \cup out.removed

LEMMA UpdateVersions ==
  ASSUME EInv, buildStacks = setup.stacks, NEW v \in Versions, Update(v)
  PROVE  \E out : Updates(v, out)
<1>1. PICK order \in Orders :
        LET out == Loop(v, order) IN
        /\ out.added # {} \/ out.rebuilt
        /\ out.rebuilt \/ ~(UnknownPhp(v) \/ OddAppdynamics(out))
        /\ Write(v, out)
        /\ UNCHANGED <<setup, buildStacks, released>>
  BY DEF Update
<1> DEFINE out == Loop(v, order)
<1>2. /\ IInv /\ TypeOK /\ KeepsNewest(manifest)
      /\ EvenIn(manifest) /\ EvenIn(released)
  BY DEF EInv, IInv, Even
<1>3. /\ EntryVersions(out.deps) = VersionsThen(v)
      /\ EvenIn(out.deps)
      /\ out.rebuilt <=> v \in EntryVersions(manifest)
      /\ out.added \subseteq EntryVersions(out.deps)
      /\ out.added # {} => v \in EntryVersions(out.deps)
  BY <1>2, LoopVersions
<1>4. EntryVersions(manifest) \subseteq EntryVersions(out.deps) \cup out.removed
  BY <1>2, LoopAccounts
<1>5. out.added \in SUBSET AllVersions
  <2>1. out \in Accs
    BY <1>2, LoopIsSound DEF Sound
  <2> HIDE DEF out
  <2> QED
    BY <2>1 DEF Accs
<1>6. /\ out.added # {} \/ out.rebuilt
      /\ out.rebuilt \/ ~OddAppdynamics(out)
      /\ Write(v, out)
      /\ UNCHANGED <<setup, buildStacks, released>>
  BY <1>1
<1> HIDE DEF out
<1>7. manifest' = out.deps
  BY <1>6 DEF Write
<1>8. ~out.rebuilt => v \in EntryVersions(manifest')
  BY <1>3, <1>6, <1>7, Zenon
<1>9. Updates(v, out)
  BY <1>3, <1>4, <1>5, <1>6, <1>7, <1>8, Zenon DEF Updates
<1> QED
  BY <1>9

\* An update takes no version of another line away, and none at all when it is a
\* rebuild.
LEMMA OtherLinesStay ==
  ASSUME TypeOK, NEW v
  PROVE  /\ v \in EntryVersions(manifest) => VersionsThen(v) = EntryVersions(manifest)
         /\ \A w \in EntryVersions(manifest) :
              ~SameLine(setup.line, w, v) => w \in VersionsThen(v)
BY DEF VersionsThen, VersionsAfter

LEMMA InitIsEven == Init => EInv
<1> SUFFICES ASSUME Init
             PROVE  EInv
  OBVIOUS
<1>1. IInv /\ KeepsNewest(manifest)
  BY InitIsInv, InitKeepsNewest
<1>2. buildStacks = setup.stacks /\ released = manifest
  BY DEF Init
<1>3. EvenIn(manifest)
  <2> SUFFICES ASSUME ~setup.anyStack, NEW s \in setup.stacks, NEW t \in setup.stacks
               PROVE  EntryVersions(On(manifest, s)) = EntryVersions(On(manifest, t))
    BY <1>2 DEF EvenIn
  <2> DEFINE V == {v \in Old : \A w \in Old :
                     SameLine(setup.line, v, w) => ~Newer(w, v)}
  <2>1. manifest = [version : V, sha : {0}, stacks : {{x} : x \in setup.stacks}]
    BY DEF Init
  <2> HIDE DEF V
  <2>2. ASSUME NEW x \in setup.stacks
        PROVE  EntryVersions(On(manifest, x)) = V
    <3>1. ASSUME NEW v \in V
          PROVE  v \in EntryVersions(On(manifest, x))
      <4> DEFINE d == [version |-> v, sha |-> 0, stacks |-> {x}]
      <4>1. d \in manifest /\ d.stacks = {x} /\ d.version = v
        BY <2>1
      <4> HIDE DEF d
      <4> QED
        BY <4>1 DEF EntryVersions, On
    <3>2. \A d \in manifest : d.version \in V
      BY <2>1
    <3> QED
      BY <3>1, <3>2 DEF EntryVersions, On
  <2> QED
    BY <2>2
<1> QED
  BY <1>1, <1>2, <1>3 DEF EInv, Even

LEMMA StepIsEven == EInv /\ [Next]_vars => EInv'
<1> SUFFICES ASSUME EInv, [Next]_vars
             PROVE  EInv'
  OBVIOUS
<1>1. IInv' /\ KeepsNewest(manifest)'
  BY StepIsInv, StepKeepsNewest DEF EInv
<1>2. ASSUME NEW v \in Versions, Update(v)
      PROVE  Even'
  <2>1. UNCHANGED <<setup, buildStacks, released>>
    BY <1>2, UpdateIs DEF EInv
  <2>2. buildStacks = setup.stacks => EvenIn(manifest')
    <3> SUFFICES ASSUME buildStacks = setup.stacks
                 PROVE  EvenIn(manifest')
      OBVIOUS
    <3>1. PICK out : Updates(v, out)
      BY <1>2, UpdateVersions
    <3> QED
      BY <3>1 DEF Updates
  <2> QED
    BY <2>1, <2>2 DEF EInv, Even, EvenIn
<1>3. ASSUME NEW s \in Stacks, AddStack(s)
      PROVE  Even'
  BY <1>3 DEF AddStack, EInv, Even
<1>4. ASSUME Ship
      PROVE  Even'
  BY <1>4 DEF Ship, EInv, Even, EvenIn
<1>5. ASSUME UNCHANGED vars
      PROVE  Even'
  BY <1>5 DEF vars, EInv, Even, EvenIn
<1> QED
  BY <1>1, <1>2, <1>3, <1>4, <1>5 DEF Next, EInv

\* The lines that run.rb tells apart.
LEMMA LinesAre ==
  /\ \A v, w \in VersionRecords : SameLine("minor", v, w) <=> LineOf(v) = LineOf(w)
  /\ \A v, w \in VersionRecords :
       v.major = w.major => (SameLine("nginx", v, w) <=> Stability(v) = Stability(w))
  /\ \A v, w \in VersionRecords : ~Newer(v, w) => ~Newer(LineOf(v), LineOf(w))
<1>1. \A v, w \in VersionRecords : SameLine("minor", v, w) <=> LineOf(v) = LineOf(w)
  <2>1. \A v \in VersionRecords :
          LineOf(v) = [major |-> v.major, minor |-> v.minor, patch |-> 0]
    BY DEF VersionRecords, LineOf
  <2> QED
    BY <2>1 DEF SameLine, VersionRecords
<1>2. ASSUME NEW v \in VersionRecords, NEW w \in VersionRecords, v.major = w.major
      PROVE  SameLine("nginx", v, w) <=> Stability(v) = Stability(w)
  <2>1. /\ v.minor \in Nat /\ w.minor \in Nat
        /\ \A n \in Nat : n % 2 = 0 \/ n % 2 = 1
    BY DEF VersionRecords
  <2>2. (v.minor % 2 = 0 \/ v.minor % 2 = 1) /\ (w.minor % 2 = 0 \/ w.minor % 2 = 1)
    BY <2>1
  <2> QED
    BY <1>2, <2>2 DEF SameLine, Stability
<1>3. ASSUME NEW v \in VersionRecords, NEW w \in VersionRecords, ~Newer(v, w)
      PROVE  ~Newer(LineOf(v), LineOf(w))
  <2>1. /\ LineOf(v).major = v.major /\ LineOf(v).minor = v.minor /\ LineOf(v).patch = 0
        /\ LineOf(w).major = w.major /\ LineOf(w).minor = w.minor /\ LineOf(w).patch = 0
    BY DEF VersionRecords, LineOf
  <2> QED
    BY <1>3, <2>1 DEF Newer, VersionRecords
<1> QED
  BY <1>1, <1>2, <1>3

\* The invariant of the named versions: PHP's are of the lines they stand for.
PhpNames ==
  setup.language = "php" /\ buildStacks = setup.stacks =>
    /\ setup.source = ManifestName => default \in EntryVersions(manifest)
    /\ setup.source = "php" =>
         /\ LineOf(default) = DefaultLine
         /\ \A l \in DOMAIN options : /\ options[l] \in EntryVersions(manifest)
                                      /\ LineOf(options[l]) = l
    /\ setup.source = "appdynamics" => extension \in EntryVersions(manifest)

LEMMA NamesAfterUpdate ==
  ASSUME PhpSetupsFit, EInv, PhpNames, NEW v \in Versions, Update(v)
  PROVE  PhpNames'
<1>1. UNCHANGED <<setup, buildStacks, released>>
  BY UpdateIs DEF EInv
<1> SUFFICES ASSUME setup.language = "php", buildStacks = setup.stacks
             PROVE  PhpNames'
  BY <1>1 DEF PhpNames
<1>2. PICK out : Updates(v, out)
  BY UpdateVersions
<1> DEFINE before == EntryVersions(manifest)
           after == EntryVersions(manifest')
<1>3. /\ TypeOK /\ v \in VersionRecords
      /\ setup.source = "php" => setup.line = "minor"
  BY SetupAssumption DEF PhpSetupsFit, EInv, IInv, TypeOK
<1>4. /\ setup.source \in {"php", "appdynamics"} => ManifestName = setup.source
      /\ ManifestName = "php" => setup.source = "php"
      /\ ManifestName' = ManifestName
  BY <1>1 DEF ManifestName
<1>5. /\ setup.source = ManifestName => default \in before
      /\ setup.source = "php" =>
           /\ LineOf(default) = DefaultLine
           /\ \A l \in DOMAIN options : options[l] \in before /\ LineOf(options[l]) = l
      /\ setup.source = "appdynamics" => extension \in before
  BY DEF PhpNames
<1>6. /\ v \in before => after = before
      /\ \A w \in before : ~SameLine(setup.line, w, v) => w \in after
  BY <1>2, <1>3, OtherLinesStay DEF Updates
<1>7. before \subseteq VersionRecords
  <2>1. manifest \subseteq Entries
    BY <1>3 DEF TypeOK
  <2> QED
    BY <2>1, EntryIs DEF EntryVersions
<1>8. setup.source = "php" =>
        \A w \in before : LineOf(w) # LineOf(v) => w \in after
  BY <1>3, <1>6, <1>7, LinesAre
<1>9. CASE out.rebuilt
  <2>1. after = before /\ UNCHANGED <<default, options, extension>>
    BY <1>2, <1>6, <1>9 DEF Updates, Write
  <2> QED
    BY <1>1, <1>4, <1>5, <2>1 DEF PhpNames
<1>10. CASE ~out.rebuilt
  <2>1. v \in after
    BY <1>2, <1>10 DEF Updates
  <2>2. /\ default' = IF ManifestName = "php" => LineOf(v) = DefaultLine
                      THEN UpdateDefaults(v) ELSE default
        /\ options' = IF ManifestName = "php"
                      THEN [l \in DOMAIN options \cup {LineOf(v)} |->
                              IF l = LineOf(v) THEN v ELSE options[l]]
                      ELSE options
        /\ extension' = IF ManifestName = "appdynamics" /\ out.removed = {extension}
                        THEN CHOOSE a \in out.added : TRUE ELSE extension
    BY <1>2, <1>10 DEF Updates, Write
  <2>3. /\ setup.source = ManifestName => default' \in after
        /\ setup.source = "php" => LineOf(default') = DefaultLine
    <3>1. CASE setup.source = "php" /\ LineOf(v) # DefaultLine
      BY <1>4, <1>5, <1>8, <2>2, <3>1
    <3>2. CASE ~(setup.source = "php" /\ LineOf(v) # DefaultLine)
      BY <1>4, <2>1, <2>2, <3>2 DEF UpdateDefaults
    <3> QED
      BY <3>1, <3>2
  <2>4. setup.source = "php" =>
          \A l \in DOMAIN options' : options'[l] \in after /\ LineOf(options'[l]) = l
    <3> SUFFICES ASSUME setup.source = "php", NEW l \in DOMAIN options'
                 PROVE  options'[l] \in after /\ LineOf(options'[l]) = l
      OBVIOUS
    <3>1. options' = [k \in DOMAIN options \cup {LineOf(v)} |->
                        IF k = LineOf(v) THEN v ELSE options[k]]
      BY <1>4, <2>2
    <3>2. CASE l = LineOf(v)
      BY <2>1, <3>1, <3>2
    <3>3. CASE l # LineOf(v)
      BY <1>5, <1>8, <3>1, <3>3
    <3> QED
      BY <3>2, <3>3
  <2>5. setup.source = "appdynamics" => extension' \in after
    <3> SUFFICES ASSUME setup.source = "appdynamics"
                 PROVE  extension' \in after
      OBVIOUS
    <3>1. PICK a, r \in Versions \cup Old : out.added = {a} /\ out.removed = {r}
      BY <1>2, <1>4, <1>10 DEF Updates, OddAppdynamics
    <3>2. a \in after /\ before \subseteq after \cup {r}
      BY <1>2, <3>1 DEF Updates
    <3>3. CASE r = extension
      BY <1>4, <2>2, <3>1, <3>2, <3>3
    <3>4. CASE r # extension
      BY <1>4, <1>5, <2>2, <3>1, <3>2, <3>4
    <3> QED
      BY <3>3, <3>4
  <2> HIDE DEF after
  <2> QED
    BY <1>1, <1>4, <2>3, <2>4, <2>5 DEF PhpNames, after
<1> QED
  BY <1>9, <1>10

\* The versions at the start: the newest of each line.
LEMMA FirstVersions ==
  ASSUME Init
  PROVE  LET V == EntryVersions(manifest) IN
         /\ V = {v \in Old : \A w \in Old : SameLine(setup.line, v, w) => ~Newer(w, v)}
         /\ V \in SUBSET VersionRecords /\ V # {}
         /\ \A W \in SUBSET V :
              W # {} => NewestOf(W) \in W /\ \A w \in W : ~Newer(w, NewestOf(W))
<1> DEFINE V == {v \in Old : \A w \in Old : SameLine(setup.line, v, w) => ~Newer(w, v)}
           Sets == IF setup.anyStack THEN {setup.stacks} ELSE {{s} : s \in setup.stacks}
<1>1. manifest = [version : V, sha : {0}, stacks : Sets]
  BY DEF Init
<1>2. Sets # {}
  <2>1. buildStacks = setup.stacks /\ buildStacks # {}
    BY InitIsTyped DEF Init, TypeOK
  <2> QED
    BY <2>1
<1>3. V \in SUBSET VersionRecords /\ Old \in SUBSET VersionRecords /\ IsFiniteSet(Old)
  BY SetupAssumption
<1>4. \A W \in SUBSET Old :
        W # {} => NewestOf(W) \in W /\ \A w \in W : ~Newer(w, NewestOf(W))
  <2>1. \A W \in SUBSET Old : IsFiniteSet(W) /\ W \in SUBSET VersionRecords
    BY <1>3, FS_Subset
  <2> QED
    BY <2>1, NewestIs
<1>5. V \subseteq Old /\ V # {}
  <2>1. Old # {}
    BY SetupAssumption
  <2>2. NewestOf(Old) \in V
    BY <1>4, <2>1
  <2> QED
    BY <2>2
<1> HIDE DEF V, Sets
<1>6. EntryVersions(manifest) = V
  <2>1. PICK x : x \in Sets
    BY <1>2
  <2>2. ASSUME NEW v \in V
        PROVE  v \in EntryVersions(manifest)
    <3> DEFINE d == [version |-> v, sha |-> 0, stacks |-> x]
    <3>1. d \in manifest /\ d.version = v
      BY <1>1, <2>1
    <3> HIDE DEF d
    <3> QED
      BY <3>1 DEF EntryVersions
  <2>3. \A d \in manifest : d.version \in V
    BY <1>1
  <2> QED
    BY <2>2, <2>3 DEF EntryVersions
<1>7. /\ V \in SUBSET VersionRecords /\ V # {}
      /\ \A W \in SUBSET V :
           W # {} => NewestOf(W) \in W /\ \A w \in W : ~Newer(w, NewestOf(W))
  BY <1>3, <1>4, <1>5
<1> QED
  BY <1>6, <1>7, Zenon DEF V

LEMMA InitNames ==
  ASSUME PhpSetupsFit, Init
  PROVE  PhpNames
<1> DEFINE V == EntryVersions(manifest)
<1>1. /\ V = {v \in Old : \A w \in Old : SameLine(setup.line, v, w) => ~Newer(w, v)}
      /\ V \in SUBSET VersionRecords /\ V # {}
      /\ \A W \in SUBSET V :
           W # {} => NewestOf(W) \in W /\ \A w \in W : ~Newer(w, NewestOf(W))
  BY FirstVersions, Zenon
<1> DEFINE U == {v \in Old : \A w \in Old : SameLine(setup.line, v, w) => ~Newer(w, v)}
<1>2. U = V
  BY <1>1
<1>3. /\ default = IF DefaultLine \in {LineOf(v) : v \in U}
                   THEN NewestOf({v \in U : LineOf(v) = DefaultLine})
                   ELSE NewestOf(U)
      /\ options = [l \in {LineOf(v) : v \in U} |->
                      NewestOf({v \in U : LineOf(v) = l})]
      /\ extension = NewestOf(U)
  BY DEF Init
<1> HIDE DEF U
<1>4. /\ default = IF DefaultLine \in {LineOf(v) : v \in V}
                   THEN NewestOf({v \in V : LineOf(v) = DefaultLine})
                   ELSE NewestOf(V)
      /\ options = [l \in {LineOf(v) : v \in V} |->
                      NewestOf({v \in V : LineOf(v) = l})]
      /\ extension = NewestOf(V)
  BY <1>2, <1>3, Zenon
<1>5. ASSUME setup.language = "php", setup.source = "php"
      PROVE  DefaultLine \in {LineOf(v) : v \in V}
  <2>1. setup.line = "minor" /\ DefaultLine \in {LineOf(v) : v \in Old}
    BY <1>5 DEF PhpSetupsFit, Init
  <2>2. PICK u \in Old : LineOf(u) = DefaultLine
    BY <2>1
  <2> DEFINE W == {w \in Old : LineOf(w) = LineOf(u)}
  <2>3. Old \in SUBSET VersionRecords /\ W \in SUBSET VersionRecords /\ W # {}
          /\ IsFiniteSet(W)
    BY SetupAssumption, FS_Subset
  <2>4. NewestOf(W) \in W /\ \A w \in W : ~Newer(w, NewestOf(W))
    BY <2>3, NewestIs
  <2>5. \A w \in Old : SameLine("minor", NewestOf(W), w) => w \in W
    BY <2>3, <2>4, LinesAre
  <2>6. NewestOf(W) \in V
    BY <1>1, <2>1, <2>4, <2>5
  <2> HIDE DEF V
  <2> QED
    BY <2>2, <2>4, <2>6
<1> HIDE DEF V
<1>6. DefaultLine \in {LineOf(v) : v \in V} => default \in V /\ LineOf(default) = DefaultLine
  BY <1>1, <1>4
<1>7. default \in V /\ extension \in V
  BY <1>1, <1>4, <1>6
<1>8. ASSUME NEW l \in DOMAIN options
      PROVE  options[l] \in V /\ LineOf(options[l]) = l
  <2>1. l \in {LineOf(v) : v \in V} /\ options[l] = NewestOf({v \in V : LineOf(v) = l})
    BY <1>4
  <2> QED
    BY <1>1, <2>1
<1> QED
  BY <1>5, <1>6, <1>7, <1>8 DEF PhpNames, V

\* A new stack ends what the invariants say of the versions.
LEMMA StackIsNew ==
  ASSUME EInv, NEW s \in Stacks, AddStack(s)
  PROVE  buildStacks' # setup'.stacks
BY DEF AddStack, EInv, Even

\* In a PHP buildpack default_versions, options.json and the AppDynamics extension
\* name versions that the manifest has, as long as no stack is added (run.rb's
\* calls of PHPManifest and its edit of extension.py).
THEOREM NamesStayInManifest ==
  ASSUME PhpSetupsFit
  PROVE  Spec => []NamedVersionsAreInManifest
<1>1. Init => EInv /\ PhpNames
  BY InitIsEven, InitNames
<1>2. EInv /\ PhpNames /\ [Next]_vars => EInv' /\ PhpNames'
  <2> SUFFICES ASSUME EInv, PhpNames, [Next]_vars
               PROVE  EInv' /\ PhpNames'
    OBVIOUS
  <2>1. ASSUME NEW v \in Versions, Update(v)
        PROVE  PhpNames'
    BY <2>1, NamesAfterUpdate
  <2>2. ASSUME NEW s \in Stacks, AddStack(s)
        PROVE  PhpNames'
    BY <2>2, StackIsNew DEF PhpNames
  <2>3. ASSUME Ship
        PROVE  PhpNames'
    BY <2>3 DEF Ship, PhpNames, ManifestName
  <2>4. ASSUME UNCHANGED vars
        PROVE  PhpNames'
    BY <2>4 DEF vars, PhpNames, ManifestName
  <2> QED
    BY <2>1, <2>2, <2>3, <2>4, StepIsEven DEF Next
<1>3. PhpNames => NamedVersionsAreInManifest
  BY DEF PhpNames, NamedVersionsAreInManifest
<1> QED
  BY <1>1, <1>2, <1>3, PTL DEF Spec

\* The invariant of version_lines, on the versions of the manifest.
NginxLines ==
  setup.source = "nginx" /\ setup.language = "nginx" /\ buildStacks = setup.stacks =>
    \A s \in DOMAIN lines :
      /\ \E w \in EntryVersions(manifest) : Stability(w) = s /\ LineOf(w) = lines[s]
      /\ \A w \in EntryVersions(manifest) :
           Stability(w) = s => ~Newer(LineOf(w), lines[s])

\* A version that is new in the manifest is the newest of its line there.
LEMMA NewOnesAreNewest ==
  ASSUME EInv, setup.strategy # "keep_all", NEW v \in Versions,
         v \notin EntryVersions(manifest), v \in VersionsThen(v)
  PROVE  /\ \A w \in VersionsThen(v) :
              SameLine(setup.line, w, v) => ~Newer(w, v)
         /\ \A w \in VersionsThen(v) :
              SameLine(setup.line, w, v) \/ w \in EntryVersions(manifest)
<1> DEFINE before == EntryVersions(manifest)
           line == {w \in before : SameLine(setup.line, w, v)}
           back == {w \in EntryVersions(released) : SameLine(setup.line, w, v)}
<1>1. /\ TypeOK /\ CoversAll(manifest, released) /\ v \in VersionRecords
      /\ manifest \in SUBSET Entries /\ released \in SUBSET Entries
  BY SetupAssumption DEF EInv, IInv, TypeOK
<1>2. /\ \A w \in line : Newer(v, w)
      /\ VersionsThen(v) \subseteq (before \ line) \cup {v} \cup back
  BY DEF VersionsThen, VersionsAfter
<1>3. ASSUME NEW w \in back
      PROVE  ~Newer(w, v)
  <2>1. PICK d \in released : d.version = w
    BY DEF EntryVersions
  <2>2. PICK e \in manifest : Covers(e, d)
    BY <1>1 DEF CoversAll
  <2>3. /\ SameLine(setup.line, e.version, w) /\ ~Newer(w, e.version)
        /\ w \in VersionRecords /\ e.version \in VersionRecords /\ e.version \in before
    BY <1>1, <2>1, <2>2, EntryIs DEF Covers, EntryVersions
  <2>4. e.version \in line
    BY <2>3, SameLineEquivalence
  <2>5. ~Newer(e.version, v)
    BY <1>1, <1>2, <2>3, <2>4, NewerOrder
  <2> QED
    BY <1>1, <2>3, <2>5, NewerOrder
<1>4. ~Newer(v, v) /\ SameLine(setup.line, v, v)
  BY <1>1, NewerOrder, SetupIs, SameLineEquivalence
<1> QED
  BY <1>2, <1>3, <1>4

LEMMA LinesAfterUpdate ==
  ASSUME NginxSetupsFit, EInv, NginxLines, NEW v \in Versions, Update(v)
  PROVE  NginxLines'
<1>1. UNCHANGED <<setup, buildStacks, released>>
  BY UpdateIs DEF EInv
<1> SUFFICES ASSUME setup.source = "nginx", setup.language = "nginx",
                    buildStacks = setup.stacks
             PROVE  NginxLines'
  BY <1>1 DEF NginxLines
<1>2. PICK out : Updates(v, out)
  BY UpdateVersions
<1> DEFINE before == EntryVersions(manifest)
           after == EntryVersions(manifest')
<1>3. /\ TypeOK /\ setup.line = "nginx" /\ setup.strategy # "keep_all"
      /\ \A u, w \in AllVersions : u.major = w.major
      /\ v \in AllVersions /\ v \in VersionRecords
  BY SetupAssumption DEF NginxSetupsFit, EInv, IInv, TypeOK, AllVersions
<1>4. before \subseteq AllVersions /\ after \subseteq AllVersions
        /\ AllVersions \subseteq VersionRecords
  <2>1. manifest \subseteq Entries /\ manifest' \subseteq Entries
    BY <1>3, UpdateIs DEF TypeOK, EInv
  <2> QED
    BY <2>1, EntryIs, SetupAssumption DEF EntryVersions, AllVersions
<1>5. \A w \in AllVersions :
        SameLine(setup.line, w, v) <=> Stability(w) = Stability(v)
  BY <1>3, <1>4, LinesAre
<1>6. \A s \in DOMAIN lines :
        /\ \E w \in before : Stability(w) = s /\ LineOf(w) = lines[s]
        /\ \A w \in before : Stability(w) = s => ~Newer(LineOf(w), lines[s])
  BY DEF NginxLines
<1>7. after = VersionsThen(v)
  BY <1>2 DEF Updates
<1>8. /\ v \in before => after = before
      /\ \A w \in before : Stability(w) # Stability(v) => w \in after
  BY <1>3, <1>4, <1>5, <1>7, OtherLinesStay
<1>9. CASE out.rebuilt
  <2>1. after = before /\ lines' = lines
    BY <1>2, <1>8, <1>9 DEF Updates, Write
  <2> QED
    BY <1>1, <1>6, <2>1 DEF NginxLines
<1>10. CASE ~out.rebuilt
  <2>1. v \notin before /\ v \in after
    BY <1>2, <1>10 DEF Updates
  <2>2. /\ \A w \in after : Stability(w) = Stability(v) => ~Newer(w, v)
        /\ \A w \in after : Stability(w) # Stability(v) => w \in before
    BY <1>3, <1>4, <1>5, <1>7, <2>1, NewOnesAreNewest
  <2>3. lines' = [s \in DOMAIN lines \cup {Stability(v)} |->
                    IF s = Stability(v) THEN LineOf(v) ELSE lines[s]]
    BY <1>2, <1>10 DEF Updates, Write, ManifestName
  <2>4. ASSUME NEW s \in DOMAIN lines'
        PROVE  /\ \E w \in after : Stability(w) = s /\ LineOf(w) = lines'[s]
               /\ \A w \in after : Stability(w) = s => ~Newer(LineOf(w), lines'[s])
    <3>1. CASE s = Stability(v)
      <4>1. lines'[s] = LineOf(v)
        BY <2>3, <3>1
      <4>2. \A w \in after : Stability(w) = s => ~Newer(LineOf(w), LineOf(v))
        BY <1>3, <1>4, <2>2, <3>1, LinesAre
      <4> QED
        BY <2>1, <3>1, <4>1, <4>2
    <3>2. CASE s # Stability(v)
      <4>1. s \in DOMAIN lines /\ lines'[s] = lines[s]
        BY <2>3, <3>2
      <4> QED
        BY <1>6, <1>8, <2>2, <3>2, <4>1
    <3> QED
      BY <3>1, <3>2
  <2> QED
    BY <2>4 DEF NginxLines
<1> QED
  BY <1>9, <1>10

LEMMA InitLines ==
  ASSUME Init
  PROVE  NginxLines
<1> DEFINE V == EntryVersions(manifest)
           U == {v \in Old : \A w \in Old : SameLine(setup.line, v, w) => ~Newer(w, v)}
<1>1. /\ V = U /\ V \in SUBSET VersionRecords
      /\ \A W \in SUBSET V :
           W # {} => NewestOf(W) \in W /\ \A w \in W : ~Newer(w, NewestOf(W))
  BY FirstVersions, Zenon
<1>2. lines = [s \in {Stability(v) : v \in U} |->
                 LineOf(NewestOf({v \in U : Stability(v) = s}))]
  BY DEF Init
<1> HIDE DEF U
<1>3. lines = [s \in {Stability(v) : v \in V} |->
                 LineOf(NewestOf({v \in V : Stability(v) = s}))]
  BY <1>1, <1>2, Zenon
<1> HIDE DEF V
<1>4. ASSUME NEW s \in DOMAIN lines
      PROVE  /\ \E w \in V : Stability(w) = s /\ LineOf(w) = lines[s]
             /\ \A w \in V : Stability(w) = s => ~Newer(LineOf(w), lines[s])
  <2> DEFINE W == {v \in V : Stability(v) = s}
  <2>1. W # {} /\ W \in SUBSET V /\ lines[s] = LineOf(NewestOf(W))
    BY <1>3
  <2>2. NewestOf(W) \in W /\ \A w \in W : ~Newer(w, NewestOf(W))
    BY <1>1, <2>1
  <2>3. \A w \in W : ~Newer(LineOf(w), LineOf(NewestOf(W)))
    BY <1>1, <2>2, LinesAre
  <2> QED
    BY <2>1, <2>2, <2>3
<1> QED
  BY <1>4 DEF NginxLines, V

\* version_lines of the nginx buildpack has the newest stable and the newest
\* mainline line of its manifest, as long as no stack is added (the branch for
\* nginx in run.rb).
THEOREM NginxLinesAreNewest ==
  ASSUME NginxSetupsFit
  PROVE  Spec => []VersionLinesAreNewest
<1>1. Init => EInv /\ NginxLines
  BY InitIsEven, InitLines
<1>2. EInv /\ NginxLines /\ [Next]_vars => EInv' /\ NginxLines'
  <2> SUFFICES ASSUME EInv, NginxLines, [Next]_vars
               PROVE  EInv' /\ NginxLines'
    OBVIOUS
  <2>1. ASSUME NEW v \in Versions, Update(v)
        PROVE  NginxLines'
    BY <2>1, LinesAfterUpdate
  <2>2. ASSUME NEW s \in Stacks, AddStack(s)
        PROVE  NginxLines'
    BY <2>2, StackIsNew DEF NginxLines
  <2>3. ASSUME Ship
        PROVE  NginxLines'
    BY <2>3 DEF Ship, NginxLines
  <2>4. ASSUME UNCHANGED vars
        PROVE  NginxLines'
    BY <2>4 DEF vars, NginxLines
  <2> QED
    BY <2>1, <2>2, <2>3, <2>4, StepIsEven DEF Next
<1>3. NginxLines => VersionLinesAreNewest
  BY DEF NginxLines, VersionLinesAreNewest, EntryVersions
<1> QED
  BY <1>1, <1>2, <1>3, PTL DEF Spec

=============================================================================
