--------------------------- MODULE ManifestUpdate ---------------------------
(***************************************************************************)
(* tasks/update-buildpack-dependency/run.rb in full, for one dependency of *)
(* one CF buildpack: the loop over the stacks' metadata files, each turn a *)
(* Dependencies#switch, the decision to rebuild, add or skip, and what the *)
(* task keeps in step with the manifest: default_versions and the          *)
(* options.json of PHP, version_lines of nginx, the AppDynamics extension. *)
(*                                                                         *)
(* DependencyBuilds has one build per stack and a fixed list of stacks;    *)
(* here a binary may serve several stacks (any-stack), and a stack may be  *)
(* added to build_stacks.  The updates follow one another, in any order    *)
(* of the versions: DependencyBuilds covers their concurrency.             *)
(***************************************************************************)
EXTENDS Dependencies, SequencesExt

CONSTANTS
  Setups,       \* what the configuration may say of the dependency
  Versions,     \* versions that may be built
  Old,          \* versions in the manifest at the start
  Stacks,       \* the stacks that build_stacks may come to hold
  CopyStacks,   \* copy stacks, whose metadata files are skipped
  PhpLines,     \* the PHP lines (as versions) that run.rb knows
  DefaultLine   \* the one whose version is PHP_DEFAULT

\* source: the depwatcher source name; language: that of the buildpack;
\* stacks: build_stacks at the start.
SetupType == [source : STRING, language : STRING, line : LineTypes,
              strategy : Strategies, anyStack : BOOLEAN,
              stacks : (SUBSET Stacks) \ {{}}]

ASSUME SetupAssumption ==
  /\ Setups \subseteq SetupType
  /\ Versions \cup Old \subseteq VersionRecords
  /\ IsFiniteSet(Old) /\ Old # {}
  /\ "any-stack" \notin Stacks \cup CopyStacks
  /\ Stacks \cap CopyStacks = {}
  /\ IsFiniteSet(Stacks \cup CopyStacks)

Entries == [version : Versions \cup Old, stacks : (SUBSET Stacks) \ {{}}, sha : {0}]

\* The X.Y of a version, as a record of the same type.
LineOf(v) == [v EXCEPT !.patch = 0]

VARIABLES
  setup,        \* the dependency's configuration
  buildStacks,  \* build_stacks in dependency-builds.yml
  manifest,     \* its entries in manifest.yml
  released,     \* its entries in the released manifest.yml
  default,      \* its version in default_versions
  options,      \* PHP_<line>_LATEST in defaults/options.json
  lines,        \* nginx version_lines: stable and mainline
  extension     \* the version in extensions/appdynamics/extension.py

vars == <<setup, buildStacks, manifest, released, default, options, lines,
          extension>>

ManifestName == IF setup.source = "nginx-static" THEN "nginx" ELSE setup.source

Stability(v) == IF v.minor % 2 = 0 THEN "stable" ELSE "mainline"

NewestOf(V) == CHOOSE v \in V : \A w \in V : ~Newer(w, v)

TypeOK ==
  /\ setup \in Setups
  /\ buildStacks \in (SUBSET Stacks) \ {{}}
  /\ manifest \subseteq Entries
  /\ released \subseteq Entries
  /\ default \in Versions \cup Old
  /\ \A l \in DOMAIN options : options[l] \in Versions \cup Old
  /\ \A s \in DOMAIN lines : lines[s] \in {LineOf(v) : v \in Versions \cup Old}
  /\ extension \in Versions \cup Old

\* A manifest as the buildpack's developers left it: one version per line, and
\* what the task keeps in step is in step.
Init ==
  /\ setup \in Setups
  /\ buildStacks = setup.stacks
  /\ LET V == {v \in Old : \A w \in Old : SameLine(setup.line, v, w) => ~Newer(w, v)}
     IN  /\ manifest = [version : V, sha : {0},
                        stacks : IF setup.anyStack THEN {setup.stacks}
                                 ELSE {{s} : s \in setup.stacks}]
         /\ default = IF DefaultLine \in {LineOf(v) : v \in V}
                      THEN NewestOf({v \in V : LineOf(v) = DefaultLine})
                      ELSE NewestOf(V)
         /\ options = [l \in {LineOf(v) : v \in V} |->
                         NewestOf({v \in V : LineOf(v) = l})]
         /\ lines = [s \in {Stability(v) : v \in V} |->
                       LineOf(NewestOf({v \in V : Stability(v) = s}))]
         /\ extension = NewestOf(V)
  /\ released = manifest

-----------------------------------------------------------------------------
(***************************************************************************)
(* The loop over builds/binary-builds-new/<name>/<version>-*.json.         *)
(***************************************************************************)

\* The metadata files of a version: one per build stack or one for any-stack,
\* and those of the copy jobs.
Files == CopyStacks \cup (IF setup.anyStack THEN {"any-stack"} ELSE buildStacks)

\* Mutant: any-stack is taken for a stack.
OwnStack(file) == {file}

StacksOf(file) == IF file = "any-stack" THEN buildStacks ELSE {file}

\* One turn; rebuilt is the conjunction that `rebuilt.all?` takes in the end.
Turn(v, acc, file) ==
  IF file \in CopyStacks THEN acc
  ELSE LET dep == [version |-> v, stacks |-> StacksOf(file), sha |-> 0]
           new == Switch(setup.line, setup.strategy, dep, acc.deps, released)
       IN  [deps    |-> new,
            added   |-> acc.added \cup (EntryVersions(new) \ EntryVersions(acc.deps)),
            removed |-> acc.removed \cup (EntryVersions(acc.deps) \ EntryVersions(new)),
            rebuilt |-> acc.rebuilt /\ v \in EntryVersions(acc.deps)]

\* The accumulators after each of the turns.
AfterTurns(v, order) ==
  LET turns[n \in 0..Len(order)] ==
        IF n = 0
        THEN [deps |-> manifest, added |-> {}, removed |-> {}, rebuilt |-> TRUE]
        ELSE Turn(v, turns[n - 1], order[n])
  IN  turns

Loop(v, order) == AfterTurns(v, order)[Len(order)]

\* Dir[] lists the files in any order.
Orders == SetToSeqs(Files)

-----------------------------------------------------------------------------
(***************************************************************************)
(* What follows the loop.                                                  *)
(***************************************************************************)

\* Mutant: only the entry of the buildpack's language is updated.
UpdateLanguage(v) == IF setup.source = setup.language THEN v ELSE default

\* PHPManifest.update_defaults compares with the source's name; the entries of
\* default_versions have the manifest's names.
UpdateDefaults(v) == IF setup.source = ManifestName THEN v ELSE default

\* A PHP version of a line run.rb has no option for: exit 1.
UnknownPhp(v) ==
  setup.language = "php" /\ ManifestName = "php" /\ LineOf(v) \notin PhpLines

\* AppDynamics: exactly one version in and one out, or exit 1.  It has one
\* metadata file, so counting versions is counting the elements of the arrays.
OddAppdynamics(out) ==
  /\ setup.language = "php" /\ ManifestName = "appdynamics"
  /\ \A a, r \in Versions \cup Old : out.added # {a} \/ out.removed # {r}

Write(v, out) ==
  /\ manifest' = out.deps
  /\ IF out.rebuilt THEN UNCHANGED <<default, options, lines, extension>>
     ELSE
       /\ lines' = IF setup.language = "nginx" /\ ManifestName = "nginx"
                   THEN [s \in DOMAIN lines \cup {Stability(v)} |->
                           IF s = Stability(v) THEN LineOf(v) ELSE lines[s]]
                   ELSE lines
       /\ default' = IF /\ setup.language = "php"
                        /\ ManifestName = "php" => LineOf(v) = DefaultLine
                     THEN UpdateDefaults(v) ELSE default
       /\ options' = IF setup.language = "php" /\ ManifestName = "php"
                     THEN [l \in DOMAIN options \cup {LineOf(v)} |->
                             IF l = LineOf(v) THEN v ELSE options[l]]
                     ELSE options
       /\ extension' = IF /\ setup.language = "php" /\ ManifestName = "appdynamics"
                          /\ out.removed = {extension}
                       THEN CHOOSE a \in out.added : TRUE ELSE extension

\* An update job runs for a version.
Update(v) ==
  \E order \in Orders :
    LET out == Loop(v, order) IN
    /\ out.added # {} \/ out.rebuilt                 \* else SKIP, exit 0
    /\ out.rebuilt \/ ~(UnknownPhp(v) \/ OddAppdynamics(out))  \* else exit 1
    /\ Write(v, out)
    /\ UNCHANGED <<setup, buildStacks, released>>

\* dependency-builds.yml gets a new build stack.
AddStack(s) ==
  /\ s \notin buildStacks
  /\ buildStacks' = buildStacks \cup {s}
  /\ UNCHANGED <<setup, manifest, released, default, options, lines, extension>>

\* The buildpack is released.
Ship ==
  /\ released # manifest
  /\ released' = manifest
  /\ UNCHANGED <<setup, buildStacks, manifest, default, options, lines, extension>>

Next ==
  \/ \E v \in Versions : Update(v)
  \/ \E s \in Stacks : AddStack(s)
  \/ Ship

Spec == Init /\ [][Next]_vars

-----------------------------------------------------------------------------
(***************************************************************************)
(* Properties.                                                             *)
(***************************************************************************)

\* "When rebuilding, we don't want to lose supported stacks" (dependencies.rb):
\* whatever an entry served before an update, an entry of its line that is not
\* older serves after it, on each of its stacks.
StacksAreNeverLost ==
  [][\A d \in manifest : \A s \in d.stacks :
       \E e \in manifest' : /\ s \in e.stacks
                            /\ SameLine(setup.line, e.version, d.version)
                            /\ ~Newer(d.version, e.version)]_vars

\* A stack has one binary per version: growing any-stack binaries replace the
\* ones they supersede, and what is brought back from the released manifest is
\* not there twice.
OneBinaryPerStack ==
  \A d, e \in manifest :
    d.version = e.version /\ d.stacks \cap e.stacks # {} => d = e

\* The order in which the metadata files are listed does not show in the
\* manifest, nor in the decision to skip, add or rebuild.
OrderIsIrrelevant ==
  \A v \in Versions : \A o, p \in Orders :
    LET x == Loop(v, o)
        y == Loop(v, p)
    IN  /\ x.deps = y.deps
        /\ x.rebuilt = y.rebuilt
        /\ (x.added = {}) = (y.added = {})

\* What NamedVersionsAreInManifest needs of the configuration, as it is in
\* dependency-builds.yml: PHP's lines are minor ones, and the default one is in the
\* manifest from the start.
PhpSetupsFit ==
  \A s \in Setups : s.language = "php" /\ s.source = "php" =>
    s.line = "minor" /\ DefaultLine \in {LineOf(v) : v \in Old}

\* What VersionLinesAreNewest needs: nginx has nginx's lines, older versions are
\* not added, and there is one major version.
NginxSetupsFit ==
  \A s \in Setups : s.source = "nginx" /\ s.language = "nginx" =>
    /\ s.line = "nginx" /\ s.strategy # "keep_all"
    /\ \A v, w \in Versions \cup Old : v.major = w.major

\* While build_stacks is what it was, every version the buildpack names has an
\* entry in the manifest: the default versions of PHP's dependencies, its
\* PHP_<line>_LATEST, and the version in the AppDynamics extension.  The default
\* version of nginx is not among them, as UpdateDefaults never finds it.
NamedVersionsAreInManifest ==
  setup.language = "php" /\ buildStacks = setup.stacks =>
    /\ setup.source = ManifestName => default \in EntryVersions(manifest)
    /\ setup.source = "php" =>
         \A l \in DOMAIN options : options[l] \in EntryVersions(manifest)
    /\ setup.source = "appdynamics" => extension \in EntryVersions(manifest)

\* While build_stacks is what it was, version_lines of nginx has the newest
\* stable and the newest mainline line of the manifest.
VersionLinesAreNewest ==
  setup.source = "nginx" /\ setup.language = "nginx" /\ buildStacks = setup.stacks =>
    \A s \in DOMAIN lines :
      /\ \E d \in manifest : LineOf(d.version) = lines[s]
      /\ \A d \in manifest :
           Stability(d.version) = s => ~Newer(LineOf(d.version), lines[s])

\* "Update the default version for the relevant line to this version of PHP"
\* (run.rb): PHP's default version is one the manifest has an entry for, also
\* when a stack has been added.
PhpDefaultIsInManifest ==
  setup.source = "php" => default \in EntryVersions(manifest)

=============================================================================
