------------------------- MODULE DependenciesProofs -------------------------
(***************************************************************************)
(* What Dependencies#switch does to a manifest, whatever the manifest.     *)
(***************************************************************************)
EXTENDS Dependencies, TLAPS

\* dependencies_latest_released returns entries of the line in the released
\* manifest.
LEMMA NewestReleasedMatches ==
  ASSUME NEW lineType, NEW dep, NEW released
  PROVE  NewestReleased(lineType, dep, released)
           \subseteq Matching(lineType, dep, released)
<1> DEFINE candidates == Matching(lineType, dep, released)
           newest == {d \in candidates :
                        \A e \in candidates : ~Newer(e.version, d.version)}
<1>1. newest # {} => (CHOOSE d \in newest : TRUE) \in newest
  OBVIOUS
<1>2. newest \subseteq candidates
  OBVIOUS
<1>3. NewestReleased(lineType, dep, released)
        = IF newest = {} THEN {} ELSE {CHOOSE d \in newest : TRUE}
  BY DEF NewestReleased
<1> QED
  BY <1>1, <1>2, <1>3

\* Whatever the strategy keeps of the released manifest is of the line, too.
LEMMA KeptFromReleasedMatches ==
  ASSUME NEW lineType, NEW strategy, NEW dep, NEW released
  PROVE  KeptFromReleased(lineType, strategy, dep, released)
           \subseteq Matching(lineType, dep, released)
BY NewestReleasedMatches DEF KeptFromReleased

\* switch adds the built entry and entries of its line taken from the released
\* manifest, and nothing else.
LEMMA SwitchAdds ==
  ASSUME NEW lineType, NEW strategy, NEW dep, NEW deps, NEW released
  PROVE  Switch(lineType, strategy, dep, deps, released)
           \subseteq deps \cup {dep} \cup Matching(lineType, dep, released)
BY KeptFromReleasedMatches DEF Switch

\* Unless the strategy is keep_latest_released, it adds the built entry only.
LEMMA SwitchAddsBuilt ==
  ASSUME NEW lineType, NEW strategy, NEW dep, NEW deps, NEW released,
         strategy # "keep_latest_released"
  PROVE  Switch(lineType, strategy, dep, deps, released) \subseteq deps \cup {dep}
BY DEF Switch, KeptFromReleased

\* switch on a version the line has already: a rebuild.
LEMMA SwitchRebuilds ==
  ASSUME NEW lineType, NEW strategy, NEW dep, NEW deps, NEW released,
         NEW d \in Matching(lineType, dep, deps), d.version = dep.version
  PROVE  Switch(lineType, strategy, dep, deps, released)
           = (deps \ {e \in Matching(lineType, dep, deps) : e.version = dep.version})
               \cup {dep}
BY DEF Switch

\* switch removes entries of the line only, and only to put the built entry,
\* which is the same version or a newer one, in their place.
LEMMA SwitchRemoves ==
  ASSUME NEW lineType, NEW strategy, NEW dep, NEW deps, NEW released,
         NEW d \in deps \ Switch(lineType, strategy, dep, deps, released)
  PROVE  /\ d \in Matching(lineType, dep, deps)
         /\ dep \in Switch(lineType, strategy, dep, deps, released)
         /\ d.version = dep.version \/ Newer(dep.version, d.version)
<1>1. CASE {e \in Matching(lineType, dep, deps) : e.version = dep.version} # {}
  BY <1>1 DEF Switch
<1>2. CASE /\ {e \in Matching(lineType, dep, deps) : e.version = dep.version} = {}
           /\ strategy = "keep_all"
  BY <1>2 DEF Switch
<1>3. CASE /\ {e \in Matching(lineType, dep, deps) : e.version = dep.version} = {}
           /\ strategy # "keep_all"
           /\ IsLatest(dep, Matching(lineType, dep, deps))
  <2>1. d \in Matching(lineType, dep, deps)
    BY <1>3 DEF Switch
  <2>2. dep \in Switch(lineType, strategy, dep, deps, released)
    BY <1>3 DEF Switch
  <2> QED
    BY <2>1, <2>2, <1>3 DEF IsLatest
<1>4. CASE /\ {e \in Matching(lineType, dep, deps) : e.version = dep.version} = {}
           /\ strategy # "keep_all"
           /\ ~IsLatest(dep, Matching(lineType, dep, deps))
  BY <1>4 DEF Switch
<1> QED
  BY <1>1, <1>2, <1>3, <1>4

\* After switch the manifest holds the built entry, or it is untouched because
\* the line already has an entry that is not older.
LEMMA SwitchCarries ==
  ASSUME NEW lineType, NEW strategy, NEW dep, NEW deps, NEW released
  PROVE  \/ dep \in Switch(lineType, strategy, dep, deps, released)
         \/ /\ Switch(lineType, strategy, dep, deps, released) = deps
            /\ \E d \in Matching(lineType, dep, deps) :
                 ~Newer(dep.version, d.version)
BY DEF Switch, IsLatest

\* The lines of a line type partition the versions.
LEMMA SameLineEquivalence ==
  ASSUME NEW lineType
  PROVE  /\ \A v : lineType \in LineTypes => SameLine(lineType, v, v)
         /\ \A v, w : SameLine(lineType, v, w) => SameLine(lineType, w, v)
         /\ \A u, v, w : SameLine(lineType, u, v) /\ SameLine(lineType, v, w)
                           => SameLine(lineType, u, w)
BY DEF SameLine, LineTypes

\* Newer is a strict order, so "not older" is transitive.
LEMMA NewerOrder ==
  /\ \A v \in VersionRecords : ~Newer(v, v)
  /\ \A v, w \in VersionRecords : Newer(v, w) => ~Newer(w, v)
  /\ \A u, v, w \in VersionRecords :
       ~Newer(u, v) /\ ~Newer(v, w) => ~Newer(u, w)
BY DEF Newer, VersionRecords

-----------------------------------------------------------------------------
(***************************************************************************)
(* switch on the entries of one stack.                                     *)
(***************************************************************************)

\* What switch does to the versions of a stack depends on nothing but versions:
\* the stack's, the released ones, and the one built.
VersionsAfter(lineType, strategy, v, versions, released) ==
  LET line == {w \in versions : SameLine(lineType, w, v)}
      kept == {w \in released :
                 /\ SameLine(lineType, w, v)
                 /\ \A u \in released : SameLine(lineType, u, v) => ~Newer(u, w)}
  IN  IF v \in versions THEN versions
      ELSE IF strategy = "keep_all" THEN versions \cup {v}
      ELSE IF \A w \in line : Newer(v, w)
           THEN (versions \ line) \cup {v}
                  \cup (IF strategy = "keep_latest_released" THEN kept ELSE {})
      ELSE versions

\* Newer compares any two versions.
LEMMA NewerIsTotal ==
  \A v, w \in VersionRecords : Newer(v, w) \/ Newer(w, v) \/ v = w
BY DEF Newer, VersionRecords

\* On one stack dependencies_latest_released returns the newest released version
\* of the line, if there is one; entries that tie have that version as well.
LEMMA NewestReleasedVersions ==
  ASSUME NEW lineType, NEW dep, NEW released,
         \A d \in released : /\ d.stacks \subseteq dep.stacks
                             /\ d.version \in VersionRecords
  PROVE  EntryVersions(NewestReleased(lineType, dep, released))
           = {w \in EntryVersions(released) :
                /\ SameLine(lineType, w, dep.version)
                /\ \A u \in EntryVersions(released) :
                     SameLine(lineType, u, dep.version) => ~Newer(u, w)}
<1> DEFINE candidates == Matching(lineType, dep, released)
           newest == {d \in candidates :
                        \A e \in candidates : ~Newer(e.version, d.version)}
           kept == {w \in EntryVersions(released) :
                      /\ SameLine(lineType, w, dep.version)
                      /\ \A u \in EntryVersions(released) :
                           SameLine(lineType, u, dep.version) => ~Newer(u, w)}
<1>1. \A d : d \in candidates <=>
               d \in released /\ SameLine(lineType, d.version, dep.version)
  BY DEF Matching, SameDependencyLine
<1>2. NewestReleased(lineType, dep, released)
        = IF newest = {} THEN {} ELSE {CHOOSE d \in newest : TRUE}
  BY DEF NewestReleased
<1>3. \A d \in released : d \in newest <=> d.version \in kept
  BY <1>1 DEF EntryVersions
<1>4. newest \subseteq released
  BY <1>1
<1>5. ASSUME NEW w \in kept PROVE \E d \in newest : d.version = w
  BY <1>3 DEF EntryVersions
<1>6. ASSUME NEW w \in kept, NEW u \in kept PROVE w = u
  <2>1. w \in VersionRecords /\ u \in VersionRecords
    BY DEF EntryVersions
  <2> QED
    BY <2>1, NewerIsTotal
<1>7. CASE newest = {}
  BY <1>2, <1>5, <1>7 DEF EntryVersions
<1>8. CASE newest # {}
  <2>1. PICK d : d = CHOOSE e \in newest : TRUE
    OBVIOUS
  <2>2. d \in newest
    BY <1>8, <2>1
  <2>3. NewestReleased(lineType, dep, released) = {d}
    BY <1>2, <1>8, <2>1
  <2>4. d.version \in kept
    BY <1>3, <1>4, <2>2
  <2>5. kept = {d.version}
    BY <1>6, <2>4
  <2> QED
    BY <2>3, <2>5 DEF EntryVersions
<1> QED
  BY <1>7, <1>8

\* What switch leaves of the versions of a stack.
LEMMA SwitchVersions ==
  ASSUME NEW lineType \in LineTypes, NEW strategy, NEW dep, NEW deps, NEW released,
         \A d \in deps : d.stacks \subseteq dep.stacks,
         \A d \in released : /\ d.stacks \subseteq dep.stacks
                             /\ d.version \in VersionRecords
  PROVE  EntryVersions(Switch(lineType, strategy, dep, deps, released))
           = VersionsAfter(lineType, strategy, dep.version, EntryVersions(deps),
                           EntryVersions(released))
<1> DEFINE matching == Matching(lineType, dep, deps)
           same == {d \in matching : d.version = dep.version}
           kept == KeptFromReleased(lineType, strategy, dep, released)
<1>1. \A d : d \in matching <=>
               d \in deps /\ SameLine(lineType, d.version, dep.version)
  BY DEF Matching, SameDependencyLine
<1>2. \A d : d \in same <=> d \in deps /\ d.version = dep.version
  BY <1>1, SameLineEquivalence
<1>3. Switch(lineType, strategy, dep, deps, released)
        = IF same # {} THEN (deps \ same) \cup {dep}
          ELSE IF strategy = "keep_all" THEN deps \cup {dep}
          ELSE IF IsLatest(dep, matching) THEN (deps \ matching) \cup {dep} \cup kept
          ELSE deps
  BY DEF Switch
<1>4. same # {} <=> dep.version \in EntryVersions(deps)
  BY <1>2 DEF EntryVersions
<1>5. IsLatest(dep, matching)
        <=> \A w \in {u \in EntryVersions(deps) : SameLine(lineType, u, dep.version)} :
              Newer(dep.version, w)
  BY <1>1 DEF IsLatest, EntryVersions
<1>6. EntryVersions((deps \ matching) \cup {dep} \cup kept)
        = (EntryVersions(deps)
             \ {u \in EntryVersions(deps) : SameLine(lineType, u, dep.version)})
            \cup {dep.version} \cup EntryVersions(kept)
  <2>1. EntryVersions(deps \ matching)
          = EntryVersions(deps)
              \ {u \in EntryVersions(deps) : SameLine(lineType, u, dep.version)}
    BY <1>1 DEF EntryVersions
  <2> QED
    BY <2>1 DEF EntryVersions
<1>7. EntryVersions(kept)
        = IF strategy = "keep_latest_released"
          THEN {w \in EntryVersions(released) :
                  /\ SameLine(lineType, w, dep.version)
                  /\ \A u \in EntryVersions(released) :
                       SameLine(lineType, u, dep.version) => ~Newer(u, w)}
          ELSE {}
  BY NewestReleasedVersions DEF KeptFromReleased, EntryVersions
<1>8. same # {} => EntryVersions((deps \ same) \cup {dep}) = EntryVersions(deps)
  BY <1>2 DEF EntryVersions
<1>9. EntryVersions(deps \cup {dep}) = EntryVersions(deps) \cup {dep.version}
  BY DEF EntryVersions
<1> HIDE DEF matching, same, kept
<1> QED
  BY <1>3, <1>4, <1>5, <1>6, <1>7, <1>8, <1>9 DEF VersionsAfter

\* No two entries of a line under remove_all, no three under
\* keep_latest_released.
IsShort(lineType, strategy, deps) ==
  /\ strategy = "remove_all" =>
       \A d, e \in deps : SameLine(lineType, d.version, e.version) => d = e
  /\ strategy = "keep_latest_released" =>
       \A d, e, f \in deps :
         /\ SameLine(lineType, d.version, e.version)
         /\ SameLine(lineType, d.version, f.version)
         => d = e \/ d = f \/ e = f

\* switch leaves the lines of a stack as short as the strategy says.
LEMMA SwitchKeepsShort ==
  ASSUME NEW lineType, NEW strategy, NEW dep, NEW deps, NEW released,
         \A d \in deps : d.stacks \subseteq dep.stacks,
         IsShort(lineType, strategy, deps)
  PROVE  IsShort(lineType, strategy,
                 Switch(lineType, strategy, dep, deps, released))
<1> DEFINE new == Switch(lineType, strategy, dep, deps, released)
           matching == Matching(lineType, dep, deps)
           same == {d \in matching : d.version = dep.version}
           kept == KeptFromReleased(lineType, strategy, dep, released)
<1>1. \A d : d \in matching <=>
               d \in deps /\ SameLine(lineType, d.version, dep.version)
  BY DEF Matching, SameDependencyLine
<1>2. /\ \A v, w : SameLine(lineType, v, w) => SameLine(lineType, w, v)
      /\ \A u, v, w : SameLine(lineType, u, v) /\ SameLine(lineType, v, w)
                        => SameLine(lineType, u, w)
  BY SameLineEquivalence
<1>3. \A d, e \in kept : d = e
  BY DEF KeptFromReleased, NewestReleased
<1>4. strategy # "keep_latest_released" => kept = {}
  BY DEF KeptFromReleased
<1>5. \A d \in kept : SameLine(lineType, d.version, dep.version)
  BY KeptFromReleasedMatches DEF Matching, SameDependencyLine
<1>6. CASE same # {}
  <2>1. new = (deps \ same) \cup {dep}
    BY <1>6 DEF Switch
  <2>2. PICK c \in same : TRUE
    BY <1>6
  <2>3. /\ c \in deps /\ c.version = dep.version
        /\ c \notin deps \ same
    BY <1>1, <2>2
  <2> HIDE DEF new, matching, same, kept
  <2>4. strategy = "remove_all" =>
          \A d, e \in new : SameLine(lineType, d.version, e.version) => d = e
    BY <1>2, <2>1, <2>3 DEF IsShort
  <2>5. strategy = "keep_latest_released" =>
          \A d, e, f \in new :
            /\ SameLine(lineType, d.version, e.version)
            /\ SameLine(lineType, d.version, f.version)
            => d = e \/ d = f \/ e = f
    BY <1>2, <2>1, <2>3 DEF IsShort
  <2> QED
    BY <2>4, <2>5 DEF IsShort, new
<1>7. CASE same = {} /\ strategy = "keep_all"
  BY <1>7 DEF IsShort
<1>8. CASE same = {} /\ strategy # "keep_all" /\ IsLatest(dep, matching)
  <2>1. new = (deps \ matching) \cup {dep} \cup kept
    BY <1>8 DEF Switch
  <2> HIDE DEF new, same, kept, matching
  <2>2. \A d \in deps \ matching, e \in {dep} \cup kept :
          /\ ~SameLine(lineType, d.version, e.version)
          /\ ~SameLine(lineType, e.version, d.version)
    BY <1>1, <1>2, <1>5
  <2>3. \A d, e \in deps :
          strategy = "remove_all" /\ SameLine(lineType, d.version, e.version) => d = e
    BY DEF IsShort
  <2>4. strategy = "remove_all" =>
          \A d, e \in new : SameLine(lineType, d.version, e.version) => d = e
    BY <1>4, <2>1, <2>2, <2>3
  <2>5. strategy = "keep_latest_released" =>
          \A d, e, f \in new :
            /\ SameLine(lineType, d.version, e.version)
            /\ SameLine(lineType, d.version, f.version)
            => d = e \/ d = f \/ e = f
    BY <1>3, <2>1, <2>2 DEF IsShort
  <2> QED
    BY <2>4, <2>5 DEF IsShort, new
<1>9. CASE same = {} /\ strategy # "keep_all" /\ ~IsLatest(dep, matching)
  BY <1>9 DEF Switch
<1> QED
  BY <1>6, <1>7, <1>8, <1>9
=============================================================================
