----------------------------- MODULE CnbUpdate -----------------------------
(***************************************************************************)
(* The update of one dependency in the buildpack.toml of a cloud native    *)
(* buildpack: the tasks update-cnb-dependency and update-stacks, and the   *)
(* pull requests their job opens.  Nobody merges these automatically       *)
(* (`auto_merge: false`), so several wait at a time, each made from the    *)
(* main branch as it was when its build started.                           *)
(*                                                                         *)
(* Entries of other dependencies are left out: the task keeps them as they *)
(* are.  A build number stands for the uri and the sha256 of a binary.     *)
(***************************************************************************)
EXTENDS Integers, FiniteSets

CONSTANTS
  Versions,     \* versions of the dependency: [line, number]
  Stacks,       \* stack ids, numbered in the order of their names
  BuildStack,   \* the stack a binary is built on, if not for any stack
  CopyStacks,   \* `copy-stacks` of the dependency
  AnyStack,     \* `any_stack` of the dependency
  Keep,         \* `versions_to_keep`
  MaxBuilds,    \* bound: builds of one version
  MaxRebuilds,  \* bound: builds that are not the first of their version
  MaxEdits,     \* bound: edits of the configured stacks
  MaxOpen       \* bound: open pull requests

ASSUME VersionsAssumption ==
  /\ Versions \subseteq [line : Nat, number : Nat]
  /\ IsFiniteSet(Versions)
ASSUME StacksAssumption ==
  /\ Stacks \subseteq Nat
  /\ BuildStack \in Stacks
  /\ CopyStacks \subseteq Stacks \ {BuildStack}
  /\ AnyStack \in BOOLEAN
ASSUME KeepAssumption == Keep \in Nat \ {0}
ASSUME BoundsAssumption ==
  /\ MaxBuilds \in Nat \ {0}
  /\ MaxRebuilds \in Nat /\ MaxEdits \in Nat /\ MaxOpen \in Nat

VARIABLES
  built,       \* binary-builds-new: the build described for each version
  copies,      \* binary-builds-new: the build described for each copy stack
  configured,  \* the stacks a dependency for any stack is listed for
  main,        \* buildpack.toml on the main branch
  prs,         \* open pull requests
  offered,     \* history: versions and stacks main has ever had
  rebuilds, edits

vars == <<built, copies, configured, main, prs, offered, rebuilds, edits>>

Entries == [version : Versions, build : 1..MaxBuilds,
            stacks : (SUBSET Stacks) \ {{}}]

\* `order` is the version an order group names, if one has the dependency.
Tomls == [deps : SUBSET Entries, stacks : SUBSET Stacks,
          order : {{}} \cup {{v} : v \in Versions}]

TypeOK ==
  /\ built \in [Versions -> 0..MaxBuilds]
  /\ copies \in [Versions -> [CopyStacks -> 0..MaxBuilds]]
  /\ configured \in (SUBSET Stacks) \ {{}}
  /\ main \in Tomls
  /\ prs \subseteq [version : Versions, base : Tomls, head : Tomls]
  /\ offered \subseteq Versions \X Stacks
  /\ rebuilds \in 0..MaxRebuilds
  /\ edits \in 0..MaxEdits

-----------------------------------------------------------------------------
(***************************************************************************)
(* Dependencies                                                            *)
(***************************************************************************)

Newer(v, w) == v.line = w.line /\ v.number > w.number

StacksOf(deps) == UNION {d.stacks : d \in deps}

\* The versions a list of dependencies has for a stack.
OnStack(deps, s) == {d.version : d \in {e \in deps : s \in e.stacks}}

ExpandByStack(deps) ==
  UNION {{[d EXCEPT !.stacks = {s}] : s \in d.stacks} : d \in deps}

\* Mutant: nothing is overwritten.
MergeAll(deps, newDeps) == deps \cup newDeps

MergeWith(deps, newDeps) ==
  newDeps \cup {d \in deps : \A n \in newDeps :
                               n.version # d.version \/ n.stacks # d.stacks}

\* Mutant: the newest of the line are counted on all stacks together.
RemoveOldOfLine(deps, v) ==
  {d \in deps : Cardinality({n \in deps : Newer(n.version, d.version)}) < Keep
                \/ d.version.line # v.line}

\* Of the line of v, every stack keeps its newest versions.
RemoveOldDeps(deps, v) ==
  {d \in deps :
     \/ d.version.line # v.line
     \/ \A s \in d.stacks :
          Cardinality({w \in OnStack(deps, s) : Newer(w, d.version)}) < Keep}

\* Mutant: the stack of the first of the equal entries is forgotten.
CollapseOthers(deps) ==
  {[d EXCEPT !.stacks =
      StacksOf({e \in deps : e.version = d.version /\ e.build = d.build
                              /\ e # d})] :
     d \in deps}

CollapseByStack(deps) ==
  {[d EXCEPT !.stacks =
      StacksOf({e \in deps : e.version = d.version /\ e.build = d.build})] :
     d \in deps}

UpdateDependencies(deps, newDeps, v) ==
  CollapseByStack(RemoveOldDeps(MergeWith(ExpandByStack(deps), newDeps), v))

\* What a metadata file for a stack of its own says of it, or else the one for
\* any stack: later files overwrite earlier ones, and any-stack is the first.
BuildFor(v, s) ==
  IF s \in CopyStacks THEN copies[v][s]
  ELSE IF AnyStack \/ s = BuildStack THEN built[v]
  ELSE 0

LoadDependencies(v) ==
  {[version |-> v, build |-> BuildFor(v, s), stacks |-> {s}] :
     s \in {t \in configured : BuildFor(v, t) # 0}}

-----------------------------------------------------------------------------
(***************************************************************************)
(* The job.                                                                *)
(***************************************************************************)

\* Only a group that has the dependency gets the version.
UpdateOrders(order, v) == {v : w \in order}

\* Mutant: update-stacks before update-cnb-dependency.
StacksFirst(toml, v) ==
  [deps   |-> UpdateDependencies(toml.deps, LoadDependencies(v), v),
   stacks |-> StacksOf(toml.deps),
   order  |-> UpdateOrders(toml.order, v)]

\* update-cnb-dependency, then update-stacks.
UpdateToml(toml, v) ==
  LET deps == UpdateDependencies(toml.deps, LoadDependencies(v), v)
  IN  [deps |-> deps, stacks |-> StacksOf(deps),
       order |-> UpdateOrders(toml.order, v)]

\* The buildpack has had the dependency in some version from the beginning,
\* with or without an order group for it.
Init ==
  /\ configured \in (SUBSET Stacks) \ {{}}
  /\ \E v \in Versions :
       /\ built = [w \in Versions |-> IF w = v THEN 1 ELSE 0]
       /\ copies = [w \in Versions |-> [c \in CopyStacks |-> built[w]]]
       /\ \E order \in {{}, {v}} :
            main = UpdateToml([deps |-> {}, stacks |-> {}, order |-> order], v)
  /\ prs = {}
  /\ offered = {x \in Versions \X Stacks : x[1] \in OnStack(main.deps, x[2])}
  /\ rebuilds = 0 /\ edits = 0

\* A build job of the version puts its metadata, the first time or again.
Build(v) ==
  /\ built[v] < MaxBuilds
  /\ built[v] > 0 => rebuilds < MaxRebuilds
  /\ built' = [built EXCEPT ![v] = @ + 1]
  /\ rebuilds' = IF built[v] > 0 THEN rebuilds + 1 ELSE rebuilds
  /\ UNCHANGED <<copies, configured, main, prs, offered, edits>>

\* A copy job writes the metadata of the build for its stack.
Copy(v, c) ==
  /\ built[v] > 0
  /\ copies[v][c] # built[v]
  /\ copies' = [copies EXCEPT ![v][c] = built[v]]
  /\ UNCHANGED <<built, configured, main, prs, offered, rebuilds, edits>>

\* dependency-builds.yml is edited: stacks come and go.
Configure(S) ==
  /\ edits < MaxEdits
  /\ S # {} /\ S # configured
  /\ configured' = S
  /\ edits' = edits + 1
  /\ UNCHANGED <<built, copies, main, prs, offered, rebuilds>>

\* The update job of a version, once the jobs before it have passed, for the
\* first time or again.  Without a change there is no pull request.
Update(v) ==
  /\ built[v] > 0 /\ \A c \in CopyStacks : copies[v][c] > 0
  /\ Cardinality(prs) < MaxOpen
  /\ LET head == UpdateToml(main, v)
     IN  /\ head # main
         /\ prs' = prs \cup {[version |-> v, base |-> main, head |-> head]}
  /\ UNCHANGED <<built, copies, configured, main, offered, rebuilds, edits>>

\* A merge adds and removes what the pull request does.
Merged(pr) ==
  [deps   |-> (main.deps \ (pr.base.deps \ pr.head.deps))
                \cup (pr.head.deps \ pr.base.deps),
   stacks |-> (main.stacks \ (pr.base.stacks \ pr.head.stacks))
                \cup (pr.head.stacks \ pr.base.stacks),
   order  |-> IF pr.head.order # pr.base.order THEN pr.head.order
              ELSE main.order]

\* What git can merge: what the pull request removes is still there, main did
\* not get an entry of its own where the pull request adds one for the same
\* version and stack, and the line of the order changed on one side only.
Applies(pr) ==
  /\ pr.base.deps \ pr.head.deps \subseteq main.deps
  /\ \A d \in pr.head.deps \ pr.base.deps, e \in main.deps \ pr.base.deps :
       d.version = e.version => d.stacks \cap e.stacks = {}
  /\ pr.head.order # pr.base.order => main.order = pr.base.order

Merge(pr) ==
  /\ Applies(pr)
  /\ main' = Merged(pr)
  /\ prs' = prs \ {pr}
  /\ offered' = offered \cup
       {x \in Versions \X Stacks : x[1] \in OnStack(main'.deps, x[2])}
  /\ UNCHANGED <<built, copies, configured, rebuilds, edits>>

Close(pr) ==
  /\ prs' = prs \ {pr}
  /\ UNCHANGED <<built, copies, configured, main, offered, rebuilds, edits>>

Next ==
  \/ \E v \in Versions : Build(v) \/ Update(v)
  \/ \E v \in Versions, c \in CopyStacks : Copy(v, c)
  \/ \E S \in SUBSET Stacks : Configure(S)
  \/ \E pr \in prs : Merge(pr) \/ Close(pr)

Spec == Init /\ [][Next]_vars

-----------------------------------------------------------------------------
(***************************************************************************)
(* Properties                                                              *)
(***************************************************************************)

\* At least Keep versions newer than v of its line are there for the stack.
Superseded(deps, v, s) ==
  Cardinality({w \in OnStack(deps, s) : Newer(w, v)}) >= Keep

\* A version that main once offered on a stack is still there, or as many newer
\* versions of its line as are to be kept have taken its place on that stack:
\* neither pull requests made from an old main nor stacks that are built later,
\* or are configured no more, take away more (RemoveOldDeps counts per stack).
OfferedIsKept ==
  \A x \in offered :
    x[1] \in OnStack(main.deps, x[2]) \/ Superseded(main.deps, x[1], x[2])

OneBinary(deps) ==
  \A d, e \in deps :
    d.version = e.version /\ d.stacks \cap e.stacks # {} => d = e

\* A stack gets one binary of a version, however often it is built, copied and
\* proposed: MergeWith overwrites per version and stack.
OneBinaryPerStack == OneBinary(main.deps)

\* buildpack.toml lists the stacks its dependencies are for, although the list
\* and the entries of each pull request are made from an old main.
StacksAreListed == main.stacks = StacksOf(main.deps)

\* An order group of the dependency names a version that buildpack.toml has: "updates the child
\* CNB in the buildpack.toml deps" and "updates versions in order".
OrderIsADependency == main.order \subseteq {d.version : d \in main.deps}

=============================================================================
