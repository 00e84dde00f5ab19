-------------------------- MODULE DependencyBuilds --------------------------
(***************************************************************************)
(* The dependency-builds pipeline for ONE dependency of                    *)
(* pipelines/config/dependency-builds.yml: from the moment depwatcher      *)
(* reports a new upstream version to the moment its Tracker story is       *)
(* accepted.  The jobs of pipelines/dependency-builds.yml.erb              *)
(*                                                                         *)
(*    create -> build -> copy-<stack>* -> update-<buildpack>* -> accept    *)
(*                                                                         *)
(* run concurrently, each on its own clone of the `builds` git repository  *)
(* taken when its build starts, and talk through that repository, the S3   *)
(* bucket, the Tracker and the develop branches of the buildpacks.         *)
(*                                                                         *)
(* External, modelled from how the pipeline uses them: Concourse (which    *)
(* versions a job gets, serial jobs, failing and re-triggered builds), the *)
(* git resource (`put` with rebase), the create-pull-request resource and  *)
(* the Tracker.  A buildpack's release pipeline is reduced to what it does *)
(* to this one: it moves master to develop.                                *)
(***************************************************************************)
EXTENDS Dependencies

CONSTANTS
  Releases,      \* upstream versions depwatcher may report
  OldVersions,   \* versions every manifest already holds
  JobLine,       \* the version line whose jobs handle a version
  LineType,      \* VERSION_LINE_TYPE of the update jobs
  Strategy,      \* REMOVAL_STRATEGY of the update jobs
  BuildStacks,   \* build_stacks, or {"any-stack"}
  CopyStacks,    \* copy-stacks of the dependency
  CopySource,    \* the build stack whose metadata the copy jobs copy
  Buildpacks,    \* the CF buildpacks that use the dependency's lines
  MaxFailures,   \* bound: builds that fail
  MaxReruns,     \* bound: builds an operator triggers again
  MaxShips       \* bound: buildpack releases

ASSUME VersionAssumption ==
  /\ Releases \subseteq VersionRecords
  /\ OldVersions \subseteq VersionRecords
  /\ Releases \cap OldVersions = {}
  /\ LineType \in LineTypes
  /\ Strategy \in Strategies

\* One line of dependency-builds.yml matches a version.  Entries are switched by
\* LineType, which may be coarser: nginx has jobs for 1.17.X and for 1.19.X and
\* switches both as mainline.  keep_latest_released is only used where the two
\* agree.
ASSUME JobLineAssumption ==
  /\ DOMAIN JobLine = Releases
  /\ Strategy = "keep_latest_released" =>
       \A v, w \in Releases : SameLine(LineType, v, w) => JobLine[v] = JobLine[w]

ASSUME StackAssumption == CopySource \in BuildStacks

\* The lines of a dependency are the ones its buildpacks list.
ASSUME BuildpackAssumption == Buildpacks # {}

\* Jobs are named by their stack or buildpack.
ASSUME JobNamesAssumption ==
  /\ {"create", "build", "accept"} \cap (CopyStacks \cup Buildpacks) = {}
  /\ CopyStacks \cap Buildpacks = {}
  /\ BuildStacks \cap CopyStacks = {}

ASSUME BoundAssumption ==
  MaxFailures \in Nat /\ MaxReruns \in Nat /\ MaxShips \in Nat

Jobs == {"create", "build", "accept"} \cup CopyStacks \cup Buildpacks

\* A job gets a version once, and once more for every re-trigger.
MaxAttempts == MaxReruns + 1

\* The stories of a version and the builds of its binaries are numbered; 0
\* stands for no story, no metadata file, or a binary older than the model.
Ids == 1..MaxAttempts

Entries == [version : Releases \cup OldVersions,
            stacks  : {{s} : s \in BuildStacks},
            sha     : 0..MaxAttempts]

VARIABLES
  \* Concourse
  known,       \* versions depwatcher has reported
  running,     \* [Jobs -> versions with a build in progress]
  passed,      \* [Jobs -> versions with a build that succeeded]
  failed,      \* [Jobs -> versions with a build that failed]
  \* Tracker
  stories,     \* [Releases -> number of stories created]
  accepted,    \* stories (<<version, id>>) in state 'accepted'
  \* the builds repository (binary-builds-new/)
  storyOf,     \* <version>.json: the recorded story, 0 when there is no file
  meta,        \* <version>-<stack>.json: the binary described, 0 when no file
  \* the bucket
  builds,      \* [Releases -> builds of the build job started so far]
  uploaded,    \* [Releases -> <<stack, build>> whose binary is in the bucket]
  \* manifests
  develop,     \* [Buildpacks -> entries on the develop branch]
  released,    \* [Buildpacks -> entries on the master branch]
  \* what running builds hold
  newStory,    \* create: the story just created, not recorded yet
  puts,        \* build: the puts done, as <<stack, "bucket" | "metadata">>
  copied,      \* copy: the metadata read when the build started
  pr,          \* update: the develop fetched and the one the task made of it
  accepting,   \* accept: the story read when the build started
  \* bounds
  failures, reruns, ships

concourse == <<known, running, passed, failed>>
tracker   == <<stories, accepted>>
repo      == <<storyOf, meta>>
bucket    == <<builds, uploaded>>
manifests == <<develop, released>>
locals    == <<newStory, puts, copied, pr, accepting>>
bounds    == <<failures, reruns, ships>>
vars == <<concourse, tracker, repo, bucket, manifests, locals, bounds>>

NoPullRequest == [base |-> {}, head |-> {}]

TypeOK ==
  /\ known \subseteq Releases
  /\ running \in [Jobs -> SUBSET Releases]
  /\ passed \in [Jobs -> SUBSET Releases]
  /\ failed \in [Jobs -> SUBSET Releases]
  /\ stories \in [Releases -> 0..MaxAttempts]
  /\ accepted \subseteq Releases \X Ids
  /\ storyOf \in [Releases -> 0..MaxAttempts]
  /\ meta \in [Releases -> [BuildStacks \cup CopyStacks -> 0..MaxAttempts]]
  /\ builds \in [Releases -> 0..MaxAttempts]
  /\ uploaded \in [Releases -> SUBSET (BuildStacks \X (0..MaxAttempts))]
  /\ develop \in [Buildpacks -> SUBSET Entries]
  /\ released \in [Buildpacks -> SUBSET Entries]
  /\ newStory \in [Releases -> 0..MaxAttempts]
  /\ puts \in [Releases -> SUBSET (BuildStacks \X {"bucket", "metadata"})]
  /\ copied \in [CopyStacks -> [Releases -> 0..MaxAttempts]]
  /\ pr \in [Buildpacks ->
               [Releases -> [base : SUBSET Entries, head : SUBSET Entries]]]
  /\ accepting \in [Releases -> 0..MaxAttempts]
  /\ failures \in 0..MaxFailures
  /\ reruns \in 0..MaxReruns
  /\ ships \in 0..MaxShips

OldEntries == [version : OldVersions, stacks : {{s} : s \in BuildStacks}, sha : {0}]

Init ==
  /\ known = {}
  /\ running = [j \in Jobs |-> {}]
  /\ passed = [j \in Jobs |-> {}]
  /\ failed = [j \in Jobs |-> {}]
  /\ stories = [v \in Releases |-> 0]
  /\ accepted = {}
  /\ storyOf = [v \in Releases |-> 0]
  /\ meta = [v \in Releases |-> [s \in BuildStacks \cup CopyStacks |-> 0]]
  /\ builds = [v \in Releases |-> 0]
  /\ uploaded = [v \in Releases |-> {}]
  /\ develop = [b \in Buildpacks |-> OldEntries]
  /\ released = [b \in Buildpacks |-> OldEntries]
  /\ newStory = [v \in Releases |-> 0]
  /\ puts = [v \in Releases |-> {}]
  /\ copied = [c \in CopyStacks |-> [v \in Releases |-> 0]]
  /\ pr = [b \in Buildpacks |-> [v \in Releases |-> NoPullRequest]]
  /\ accepting = [v \in Releases |-> 0]
  /\ failures = 0 /\ reruns = 0 /\ ships = 0

-----------------------------------------------------------------------------
(***************************************************************************)
(* Concourse.  Every job gets its source with `version: every` and the     *)
(* `passed` constraint of its plan.                                        *)
(***************************************************************************)

SameVersionLine(v, w) == SameLine(LineType, v, w)

SameJobs(v, w) == JobLine[v] = JobLine[w]

\* Mutants: two `passed` constraints left out.
UpstreamWithoutUpdates(j) ==
  CASE j = "create"     -> {}
    [] j = "build"      -> {"create"}
    [] j \in CopyStacks -> {"build"}
    [] j \in Buildpacks -> IF CopyStacks = {} THEN {"build"} ELSE CopyStacks
    [] j = "accept"     -> {"build"}

UpstreamWithoutCopies(j) ==
  CASE j = "create"                   -> {}
    [] j = "build"                    -> {"create"}
    [] j \in CopyStacks \cup Buildpacks -> {"build"}
    [] j = "accept"                   -> Buildpacks

\* The jobs a version must have passed before job j gets it.
Upstream(j) ==
  CASE j = "create"       -> {}
    [] j = "build"        -> {"create"}
    [] j \in CopyStacks   -> {"build"}
    [] j \in Buildpacks   -> IF CopyStacks = {} THEN {"build"} ELSE CopyStacks
    [] j = "accept"       -> Buildpacks

Available(j) == {v \in known : \A u \in Upstream(j) : v \in passed[u]}

Used(j) == running[j] \cup passed[j] \cup failed[j]

\* Mutant: the job has no `version: every`, so it gets the latest one only.
TriggeredByLatest(j, v) ==
  /\ v \in Available(j) \ Used(j)
  /\ \A w \in Available(j) : SameJobs(v, w) => ~Newer(w, v)
  /\ UNCHANGED reruns

\* `version: every`: each available version once.
Triggered(j, v) ==
  /\ v \in Available(j) \ Used(j)
  /\ UNCHANGED reruns

\* An operator starts a build for a version the job has had before.
Retriggered(j, v) ==
  /\ v \in Used(j) \ running[j]
  /\ reruns < MaxReruns
  /\ reruns' = reruns + 1

\* Each line has its own jobs; all but the copy jobs are `serial`.
Idle(j, v) ==
  IF j \in CopyStacks
  THEN v \notin running[j]
  ELSE \A w \in running[j] : ~SameJobs(v, w)

Start(j, v) ==
  /\ Triggered(j, v) \/ Retriggered(j, v)
  /\ Idle(j, v)
  /\ running' = [running EXCEPT ![j] = @ \cup {v}]
  /\ UNCHANGED <<known, passed, failed, failures, ships>>

Succeed(j, v) ==
  /\ running' = [running EXCEPT ![j] = @ \ {v}]
  /\ passed' = [passed EXCEPT ![j] = @ \cup {v}]
  /\ UNCHANGED <<known, failed, failures>>

Break(j, v) ==
  /\ failures < MaxFailures
  /\ failures' = failures + 1
  /\ running' = [running EXCEPT ![j] = @ \ {v}]
  /\ failed' = [failed EXCEPT ![j] = @ \cup {v}]
  /\ UNCHANGED <<known, passed>>

\* The build ends after its last effect: a lost worker or a timed-out API call
\* can still fail it.
End(j, v) == (Succeed(j, v) \/ Break(j, v)) /\ UNCHANGED <<reruns, ships>>

\* Depwatcher reports versions in any order, as not every watcher sorts
\* (VersionLines).
Discover(v) ==
  /\ v \notin known
  /\ known' = known \cup {v}
  /\ UNCHANGED <<running, passed, failed, tracker, repo, bucket, manifests,
                 locals, bounds>>

-----------------------------------------------------------------------------
(***************************************************************************)
(* create-<dep>-<line>-story: create.rb, then `put: builds`.               *)
(***************************************************************************)

StartCreate(v) ==
  /\ Start("create", v)
  /\ UNCHANGED <<tracker, repo, bucket, manifests, locals>>

\* Mutant: the request for a story is repeated within one build.
CreateStories(v) ==
  /\ v \in running["create"]
  /\ stories' = [stories EXCEPT ![v] = @ + 1]
  /\ newStory' = [newStory EXCEPT ![v] = stories[v] + 1]
  /\ UNCHANGED <<concourse, accepted, repo, bucket, manifests, puts, copied, pr,
                 accepting, bounds>>

\* create.rb always asks the Tracker for a new story.
CreateStory(v) ==
  /\ v \in running["create"]
  /\ newStory[v] = 0
  /\ stories[v] < MaxAttempts
  /\ stories' = [stories EXCEPT ![v] = @ + 1]
  /\ newStory' = [newStory EXCEPT ![v] = stories[v] + 1]
  /\ UNCHANGED <<concourse, accepted, repo, bucket, manifests, puts, copied, pr,
                 accepting, bounds>>

\* <version>.json is overwritten, committed and pushed.
RecordStory(v) ==
  /\ v \in running["create"]
  /\ newStory[v] # 0
  /\ storyOf' = [storyOf EXCEPT ![v] = newStory[v]]
  /\ newStory' = [newStory EXCEPT ![v] = 0]
  /\ End("create", v)
  /\ UNCHANGED <<tracker, meta, bucket, manifests, puts, copied, pr, accepting>>

-----------------------------------------------------------------------------
(***************************************************************************)
(* build-<dep>-<line>: per stack the build task, then the put of the       *)
(* binary and the put of its metadata in parallel.  A failing step leaves  *)
(* the puts of the other steps in place.                                   *)
(***************************************************************************)

StartBuild(v) ==
  /\ Start("build", v)
  /\ builds[v] < MaxAttempts
  /\ builds' = [builds EXCEPT ![v] = @ + 1]
  /\ UNCHANGED <<tracker, repo, uploaded, manifests, locals>>

PutArtifact(v, s) ==
  /\ v \in running["build"]
  /\ <<s, "bucket">> \notin puts[v]
  /\ storyOf[v] # 0
  /\ puts' = [puts EXCEPT ![v] = @ \cup {<<s, "bucket">>}]
  /\ uploaded' = [uploaded EXCEPT ![v] = @ \cup {<<s, builds[v]>>}]
  /\ UNCHANGED <<concourse, tracker, repo, builds, manifests, newStory, copied,
                 pr, accepting, bounds>>

PutMetadata(v, s) ==
  /\ v \in running["build"]
  /\ <<s, "metadata">> \notin puts[v]
  /\ storyOf[v] # 0
  /\ puts' = [puts EXCEPT ![v] = @ \cup {<<s, "metadata">>}]
  /\ meta' = [meta EXCEPT ![v][s] = builds[v]]
  /\ UNCHANGED <<concourse, tracker, storyOf, bucket, manifests, newStory,
                 copied, pr, accepting, bounds>>

\* Mutant: the build does not wait for the binaries.
FinishDescribedBuild(v) ==
  /\ v \in running["build"]
  /\ BuildStacks \X {"metadata"} \subseteq puts[v]
  /\ puts' = [puts EXCEPT ![v] = {}]
  /\ End("build", v)
  /\ UNCHANGED <<tracker, repo, bucket, manifests, newStory, copied, pr,
                 accepting>>

\* Mutant: the build does not wait for every stack.
FinishOneStack(v) ==
  /\ v \in running["build"]
  /\ \E s \in BuildStacks : {s} \X {"bucket", "metadata"} \subseteq puts[v]
  /\ puts' = [puts EXCEPT ![v] = {}]
  /\ End("build", v)
  /\ UNCHANGED <<tracker, repo, bucket, manifests, newStory, copied, pr,
                 accepting>>

FinishBuild(v) ==
  /\ v \in running["build"]
  /\ puts[v] = BuildStacks \X {"bucket", "metadata"}
  /\ puts' = [puts EXCEPT ![v] = {}]
  /\ End("build", v)
  /\ UNCHANGED <<tracker, repo, bucket, manifests, newStory, copied, pr,
                 accepting>>

-----------------------------------------------------------------------------
(***************************************************************************)
(* copy-<dep>-<line>-<stack>: repackage-dependency/run.sh.                 *)
(***************************************************************************)

StartCopy(c, v) ==
  /\ Start(c, v)
  /\ copied' = [copied EXCEPT ![c][v] = meta[v][CopySource]]
  /\ UNCHANGED <<tracker, repo, bucket, manifests, newStory, puts, pr, accepting>>

PutCopy(c, v) ==
  /\ v \in running[c]
  /\ copied[c][v] # 0
  /\ meta' = [meta EXCEPT ![v][c] = copied[c][v]]
  /\ copied' = [copied EXCEPT ![c][v] = 0]
  /\ End(c, v)
  /\ UNCHANGED <<tracker, storyOf, bucket, manifests, newStory, puts, pr,
                 accepting>>

-----------------------------------------------------------------------------
(***************************************************************************)
(* update-<dep>-<line>-<buildpack>: update-buildpack-dependency/run.rb on  *)
(* the buildpack's develop, its master and the metadata fetched when the   *)
(* build starts, then the pull request that merges itself.                 *)
(***************************************************************************)

\* The stacks whose metadata run.rb finds and does not skip: copy stacks are
\* in IGNORED_STACKS or unknown.
BuiltStacks(v) == {s \in BuildStacks : meta[v][s] # 0}

BuiltEntry(v, s) == [version |-> v, stacks |-> {s}, sha |-> meta[v][s]]

OnStack(deps, s) == {d \in deps : d.stacks = {s}}

\* The loop over the metadata files: each turn switches the entries of its own
\* stack only, so the turns commute.
Switched(v, deps, rel) ==
  UNION {IF s \in BuiltStacks(v)
         THEN Switch(LineType, Strategy, BuiltEntry(v, s), OnStack(deps, s),
                     OnStack(rel, s))
         ELSE OnStack(deps, s) : s \in BuildStacks}

\* `rebuilt.all?`, which holds when no metadata file was found.
Rebuilt(v, deps) == BuiltStacks(v) = {} \/ v \in EntryVersions(deps)

\* run.rb exits before writing anything unless a version was added or rebuilt.
UpdatedManifest(v, deps, rel) ==
  LET new == Switched(v, deps, rel)
      added == EntryVersions(new) \ EntryVersions(deps)
  IN  IF added = {} /\ ~Rebuilt(v, deps) THEN deps ELSE new

StartUpdate(b, v) ==
  /\ Start(b, v)
  /\ pr' = [pr EXCEPT ![b][v] =
              [base |-> develop[b],
               head |-> UpdatedManifest(v, develop[b], released[b])]]
  /\ UNCHANGED <<tracker, repo, bucket, manifests, newStory, puts, copied,
                 accepting>>

\* Mutant: the branch of the task replaces develop.
ForcePushed(b, v) == pr[b][v].head

\* Git applies the difference between base and head to develop as it is now.
Merged(b, v) ==
  (develop[b] \ (pr[b][v].base \ pr[b][v].head))
    \cup (pr[b][v].head \ pr[b][v].base)

MergePullRequest(b, v) ==
  /\ v \in running[b]
  /\ pr[b][v].base \ pr[b][v].head \subseteq develop[b]
  /\ develop' = [develop EXCEPT ![b] = Merged(b, v)]
  /\ pr' = [pr EXCEPT ![b][v] = NoPullRequest]
  /\ End(b, v)
  /\ UNCHANGED <<tracker, repo, bucket, released, newStory, puts, copied,
                 accepting>>

\* develop has moved since the fetch and git cannot merge: the put fails.
ConflictPullRequest(b, v) ==
  /\ v \in running[b]
  /\ develop[b] # pr[b][v].base
  /\ pr' = [pr EXCEPT ![b][v] = NoPullRequest]
  /\ running' = [running EXCEPT ![b] = @ \ {v}]
  /\ failed' = [failed EXCEPT ![b] = @ \cup {v}]
  /\ UNCHANGED <<known, passed, tracker, repo, bucket, manifests, newStory, puts,
                 copied, accepting, bounds>>

\* A buildpack release moves master to develop (buildpack-to-master).
ShipBuildpack(b) ==
  /\ ships < MaxShips
  /\ ships' = ships + 1
  /\ released' = [released EXCEPT ![b] = develop[b]]
  /\ UNCHANGED <<concourse, tracker, repo, bucket, develop, locals, failures,
                 reruns>>

-----------------------------------------------------------------------------
(***************************************************************************)
(* accept-<dep>-<line>-story: accept.rb.                                   *)
(***************************************************************************)

StartAccept(v) ==
  /\ Start("accept", v)
  /\ accepting' = [accepting EXCEPT ![v] = storyOf[v]]
  /\ UNCHANGED <<tracker, repo, bucket, manifests, newStory, puts, copied, pr>>

AcceptStory(v) ==
  /\ v \in running["accept"]
  /\ accepting[v] # 0
  /\ accepted' = accepted \cup {<<v, accepting[v]>>}
  /\ accepting' = [accepting EXCEPT ![v] = 0]
  /\ End("accept", v)
  /\ UNCHANGED <<stories, repo, bucket, manifests, newStory, puts, copied, pr>>

-----------------------------------------------------------------------------

\* A build fails or is aborted in the middle: what it held is gone, what it put
\* stays.
Fail(j, v) ==
  /\ v \in running[j]
  /\ Break(j, v)
  /\ newStory' = IF j = "create" THEN [newStory EXCEPT ![v] = 0] ELSE newStory
  /\ puts' = IF j = "build" THEN [puts EXCEPT ![v] = {}] ELSE puts
  /\ copied' = IF j \in CopyStacks THEN [copied EXCEPT ![j][v] = 0] ELSE copied
  /\ pr' = IF j \in Buildpacks
           THEN [pr EXCEPT ![j][v] = NoPullRequest] ELSE pr
  /\ accepting' = IF j = "accept" THEN [accepting EXCEPT ![v] = 0] ELSE accepting
  /\ UNCHANGED <<tracker, repo, bucket, manifests, reruns, ships>>

CreateJob(v) == StartCreate(v) \/ CreateStory(v) \/ RecordStory(v)

BuildJob(v) ==
  \/ StartBuild(v)
  \/ \E s \in BuildStacks : PutArtifact(v, s) \/ PutMetadata(v, s)
  \/ FinishBuild(v)

CopyJob(c, v) == StartCopy(c, v) \/ PutCopy(c, v)

UpdateJob(b, v) ==
  StartUpdate(b, v) \/ MergePullRequest(b, v) \/ ConflictPullRequest(b, v)

AcceptJob(v) == StartAccept(v) \/ AcceptStory(v)

Next ==
  \/ \E v \in Releases : Discover(v) \/ CreateJob(v) \/ BuildJob(v) \/ AcceptJob(v)
  \/ \E c \in CopyStacks, v \in Releases : CopyJob(c, v)
  \/ \E b \in Buildpacks, v \in Releases : UpdateJob(b, v)
  \/ \E b \in Buildpacks : ShipBuildpack(b)
  \/ \E j \in Jobs, v \in Releases : Fail(j, v)

Spec == Init /\ [][Next]_vars

\* Concourse starts what it triggers and runs a build to its end.  Nobody
\* promises an upstream version, a release, a failure or an operator.
Fairness ==
  \A v \in Releases :
    /\ WF_vars(CreateJob(v) /\ reruns' = reruns)
    /\ WF_vars(BuildJob(v) /\ reruns' = reruns)
    /\ \A c \in CopyStacks : WF_vars(CopyJob(c, v) /\ reruns' = reruns)
    /\ \A b \in Buildpacks : WF_vars(UpdateJob(b, v) /\ reruns' = reruns)
    /\ WF_vars(AcceptJob(v) /\ reruns' = reruns)

FairSpec == Spec /\ Fairness

-----------------------------------------------------------------------------
(***************************************************************************)
(* Properties.                                                             *)
(***************************************************************************)

\* e does for a line and stack whatever d did: same stacks, same line, not
\* older.
Covers(e, d) ==
  /\ e.stacks = d.stacks
  /\ SameVersionLine(e.version, d.version)
  /\ ~Newer(d.version, e.version)

\* When the accept job has accepted a story of a version, the develop branch of
\* every buildpack that uses the line offers that version or a newer one of the
\* line, on every build stack: whatever was re-triggered, merged out of order
\* or skipped as "not required by buildpack" in between (run.rb, accept.rb).
AcceptedIsInEveryManifest ==
  \A story \in accepted, b \in Buildpacks, s \in BuildStacks :
    \E e \in develop[b] :
      /\ e.stacks = {s}
      /\ SameVersionLine(e.version, story[1])
      /\ ~Newer(story[1], e.version)

\* No step takes the newest version of a line away from a develop branch, on any
\* stack: an old version that is built or re-triggered after a newer one is
\* skipped, and pull requests made from an old base do not undo later merges
\* (Dependencies#switch, the serial update jobs).
NoDowngrade ==
  [][\A b \in Buildpacks : \A d \in develop[b] :
       \E e \in develop'[b] : Covers(e, d)]_vars

\* The removal strategy holds on develop and not just in one run of the task:
\* one version per line and stack under remove_all, and at most one released
\* one beside it under keep_latest_released (dependencies.rb switch).
LinesStayShort ==
  \A b \in Buildpacks : \A d \in develop[b] :
    LET others == {e \in develop[b] \ {d} : /\ e.stacks = d.stacks
                                            /\ SameVersionLine(d.version, e.version)}
    IN  /\ Strategy = "remove_all" => others = {}
        /\ Strategy = "keep_latest_released" => Cardinality(others) <= 1

\* What LinesStayShort needs to hold of the old versions, and of the lines: two
\* jobs that fill an empty line under remove_all have nothing to conflict about.
OldLinesAreShort ==
  /\ Strategy = "remove_all" =>
       /\ \A v, w \in OldVersions : SameVersionLine(v, w) => v = w
       /\ \A v, w \in Releases :
            SameVersionLine(v, w) =>
              SameJobs(v, w) \/ \E u \in OldVersions : SameVersionLine(u, v)
  /\ Strategy = "keep_latest_released" =>
       \A u, v, w \in OldVersions :
         SameVersionLine(u, v) /\ SameVersionLine(u, w) => u = v \/ u = w \/ v = w

\* "We assume that the version is the same for all stacks" (run.rb): a manifest
\* never offers a version on one build stack and not on another, although every
\* stack's metadata is pushed on its own and a build can fail between them.
StacksAgree ==
  \A b \in Buildpacks : \A s, t \in BuildStacks :
    EntryVersions(OnStack(develop[b], s)) = EntryVersions(OnStack(develop[b], t))

\* The files a task opens are there: a build's and an accept's <version>.json,
\* an update's metadata of every build stack.  They are read from the latest
\* `builds`, which no `passed` constraint ties to the version.
InputsArePresent ==
  \A v \in Releases :
    /\ (\E j \in Jobs \ {"create"} : v \in running[j]) => storyOf[v] # 0
    /\ v \in running["accept"] => accepting[v] # 0
    /\ \A j \in CopyStacks \cup Buildpacks :
         v \in running[j] => BuiltStacks(v) = BuildStacks
    /\ \A b \in Buildpacks, c \in CopyStacks : v \in running[b] => meta[v][c] # 0

\* A manifest points to a binary that is in the bucket, although metadata is pushed
\* in parallel with the binary and a build may fail between the two (the build
\* job's in_parallel puts): what a failed build described is described anew before
\* the version passes.  The one exception is a version that had passed: while its
\* build job runs again, and after that has failed, `get: builds` may already give
\* an update the metadata of a binary that is not there.
ManifestBinaryIsUploaded ==
  \A b \in Buildpacks : \A d \in develop[b] \cup released[b] : \A s \in d.stacks :
    d.sha # 0 =>
      \/ <<s, d.sha>> \in uploaded[d.version]
      \/ /\ d.version \in running["build"] \cup failed["build"]
         /\ \E n \in 1..(d.sha - 1) : BuildStacks \X {n} \subseteq uploaded[d.version]

\* Every version depwatcher reports is accepted in the end, unless a build of
\* some job failed on the way: `version: every` leaves none behind.
EveryVersionIsAccepted ==
  \A v \in Releases :
    (v \in known) ~> (\/ v \in passed["accept"]
                      \/ \E j \in Jobs : v \in failed[j])

NotOlder(w, v) == SameVersionLine(w, v) /\ ~Newer(v, w)

OfferedVersions ==
  [b \in Buildpacks |-> [s \in BuildStacks |-> EntryVersions(OnStack(develop[b], s))]]

Delivery == INSTANCE DependencyDelivery WITH
              Stacks <- BuildStacks, AtLeast <- NotOlder,
              offered <- OfferedVersions, accepted <- {story[1] : story \in accepted}

\* The jobs, with everything that fails, overtakes or is triggered again between
\* them, do what the pipeline is for and nothing else: every step reports a
\* version, moves one manifest forward to released versions, or accepts a version
\* that every manifest carries.
Delivers == Delivery!Spec

=============================================================================
