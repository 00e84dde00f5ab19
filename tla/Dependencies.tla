---------------------------- MODULE Dependencies ----------------------------
(***************************************************************************)
(* The pure part of the buildpack update task: the class Dependencies of   *)
(* tasks/update-buildpack-dependency/dependencies.rb, which decides how    *)
(* the entries of ONE dependency in a manifest change when a version of it *)
(* has been built.  The entries of other dependencies are never looked at  *)
(* (same_dependency_line? compares the names first), so they are left out. *)
(*                                                                         *)
(* A version is a record of its first three segments; an entry is a        *)
(* version, the stacks it runs on and the binary (sha) it points to.  The  *)
(* manifest's list is a set here: the code sorts it by version and stacks. *)
(***************************************************************************)
EXTENDS Integers, FiniteSets

LineTypes == {"major", "minor", "nginx", "none"}

Strategies == {"remove_all", "keep_all", "keep_latest_released"}

VersionRecords == [major : Nat, minor : Nat, patch : Nat]

\* Gem::Version's order on three segments.
Newer(v, w) ==
  \/ v.major > w.major
  \/ v.major = w.major /\ v.minor > w.minor
  \/ v.major = w.major /\ v.minor = w.minor /\ v.patch > w.patch

\* Mutant: nginx lines are taken for minor lines.
SameLineButNginx(lineType, v, w) ==
  \/ lineType = "none"
  \/ lineType = "major" /\ v.major = w.major
  \/ lineType \in {"minor", "nginx"} /\ v.major = w.major /\ v.minor = w.minor

\* The `case @line` of same_dependency_line?: which versions share a line.
SameLine(lineType, v, w) ==
  \/ lineType = "none"
  \/ lineType = "major" /\ v.major = w.major
  \/ lineType = "minor" /\ v.major = w.major /\ v.minor = w.minor
  \/ lineType = "nginx" /\ v.major = w.major /\ v.minor % 2 = w.minor % 2

\* Mutants: the line, or the stacks, are not compared, or the stacks compared
\* for equality.
StacksOnly(lineType, d, dep) == d.stacks \subseteq dep.stacks

LineOnly(lineType, d, dep) == SameLine(lineType, d.version, dep.version)

SameStacks(lineType, d, dep) ==
  d.stacks = dep.stacks /\ SameLine(lineType, d.version, dep.version)

\* An entry belongs to the line being switched only when the new entry serves
\* at least its stacks.
SameDependencyLine(lineType, d, dep) ==
  /\ d.stacks \subseteq dep.stacks
  /\ SameLine(lineType, d.version, dep.version)

Matching(lineType, dep, deps) ==
  {d \in deps : SameDependencyLine(lineType, d, dep)}

\* Mutant: every version built counts as the latest.
AlwaysLatest(dep, matching) == TRUE

\* latest?
IsLatest(dep, matching) ==
  \A d \in matching : Newer(dep.version, d.version)

\* Mutant: all released entries of the line, not the newest one.
AllReleased(lineType, dep, released) == Matching(lineType, dep, released)

\* dependencies_latest_released: the newest entry of the line in the released
\* manifest.  Entries of one version for different stacks tie, and sort_by is
\* not stable, so CHOOSE stands for whichever comes last.
NewestReleased(lineType, dep, released) ==
  LET candidates == Matching(lineType, dep, released)
      newest == {d \in candidates :
                   \A e \in candidates : ~Newer(e.version, d.version)}
  IN  IF newest = {} THEN {} ELSE {CHOOSE d \in newest : TRUE}

\* Mutant: the released entry is kept under every strategy.
AlwaysKept(lineType, strategy, dep, released) ==
  NewestReleased(lineType, dep, released)

KeptFromReleased(lineType, strategy, dep, released) ==
  IF strategy = "keep_latest_released"
  THEN NewestReleased(lineType, dep, released)
  ELSE {}

\* switch
Switch(lineType, strategy, dep, deps, released) ==
  LET matching == Matching(lineType, dep, deps)
      same == {d \in matching : d.version = dep.version}
  IN  IF same # {} THEN (deps \ same) \cup {dep}
      ELSE IF strategy = "keep_all" THEN deps \cup {dep}
      ELSE IF IsLatest(dep, matching)
           THEN (deps \ matching) \cup {dep}
                  \cup KeptFromReleased(lineType, strategy, dep, released)
      ELSE deps

EntryVersions(deps) == {d.version : d \in deps}

=============================================================================
