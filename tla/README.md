# A model of buildpacks-ci

This directory holds TLA+ specifications of the programs in this repository:
the Concourse pipelines and the tasks they run that build the dependencies of
the Cloud Foundry buildpacks and put them into the buildpacks' manifests. The
modules are model-checked with TLC on small instances, and theorems about the
core are proved with TLAPS for every instance.

## The system

buildpacks-ci has no server of its own. Concourse runs *jobs*; a job's *build*
fetches inputs (clones and files), runs tasks, and pushes outputs. What jobs
know of each other is what they left in git repositories, buckets, the Tracker
and GitHub. Builds of different jobs run concurrently, on inputs that may be
stale when they are used, and any build can fail between two of its effects and
be started again by hand.

| Component | State | Operations | Hard behaviour | What makes it right |
|---|---|---|---|---|
| dependency-builds pipeline (`pipelines/dependency-builds.yml.erb`, `tasks/build-binary-new`, `tasks/repackage-dependency`) | versions each job has had; stories; `binary-builds-new/` files; binaries in the bucket; develop branches | create, build, copy, update, accept | concurrent jobs on old clones, partial failure, re-triggered old versions, pull requests merged out of order | nothing is downgraded, an accepted version is in every manifest, files are there when read, every version gets through |
| buildpack update task (`tasks/update-buildpack-dependency`) | `manifest.yml`, `defaults/options.json`, AppDynamics extension | one update | loop over stacks in any order, rebuild or add or skip, stacks that grow | no stack lost, one binary per stack, what the buildpack names exists |
| version lines and depwatcher (`dockerfiles/depwatcher`, `create-new-version-line-story.rb`, overlap check of the template) | what each resource has reported; lines | check, new-line story, adding a line | upstream order, watchers that do not sort, window of the newest versions, lines that change | ascending reports where the watcher sorts, one line per version, nothing unnoticed |
| depwatcher API documentation page (`dockerfiles/depwatcher/docs/js/doc.js`, with its index) | text, shown list, highlight, storage, searches that wait | keys, clicks, timer, arrival of the index; search, ranking, cut | events in any order, late index, a comparator that contradicts itself | what is shown is what was typed; nothing that matches best is left out |
| binary builder (`builder.rb`) | none between builds | build one binary | - | names the file it uploads |
| CNB update tasks (`tasks/cnb/update-cnb-dependency`, `update-stacks`) | `buildpack.toml`; pull requests that wait | merge new entries, drop old ones, collapse stacks; merge or close a pull request | pull requests from old mains, counting per stack, rebuilds | every stack keeps its newest versions, one binary each; the stacks and the order fit the dependencies |
| dotnet SDK compat table (`tasks/cnb/update-dotnet-sdks-and-compat-table`) | `buildpack.toml`: table and dependencies | add an SDK to its runtime, drop unsupported runtimes, refuse an SDK | lines in any order, which SDK is dropped, versions compared as substrings | each supported runtime has one SDK, the newest handled, in both places |
| buildpack release pipeline (`pipelines/templates/buildpack.yml.erb` and its tasks) | versions that passed a job, commit statuses, master, pool of environments | specs, statuses, gate | environments kept by failed builds, an input taken twice, a gate that reads and then writes | master only gets tested commits, the newest commit is tested |
| CVE notification (`lib/rootfs-cve-*.rb`, `lib/cve-history.rb`) | history files | compare, notify, write | crash between notify and write | nobody misses a CVE |
| new releases detector (`lib/new-releases-detector.rb`, `dependency-build-enqueuer.rb`) | files of known tags | compare, post | the same, and a file overwritten per version | every release is posted |
| security notice stories (`tasks/*-security-notice*`, `lib/tracker-client.rb`) | labels and states of stories | categorize, finalize | two requests per story, read-modify-write of labels | every notice ends delivered |
| buildpackapplifecycle pipeline (`pipelines/bal.yml`) | one environment | up, deploy, test, destroy | serial group, but no order between versions | a test runs on what was deployed for it |
| deprecation stories, checksum verifier, story and text generators, clients, configuration | - | - | sequential, no shared state | - |

`PROJECT.json` lists the same components with their status, and under
"hazards" the places where the code is hard to test, each with the properties
that cover it or the reason why none does.

## The modules

```
Dependencies              pure: Dependencies#switch and what it rests on
  DependencyBuilds          the pipeline of one dependency (state machine)
    MCDependencyBuilds        instances
    DependencyBuildsProofs    types, safety, implements DependencyDelivery
  ManifestUpdate            run.rb in full, sequential (state machine)
    MCManifestUpdate          instances
    ManifestUpdateProofs      types, safety, the loop in any order
  DependenciesProofs        lemmas on switch
DependencyDelivery        what the pipeline promises (abstract)
VersionLines              depwatcher, lines, the new-line job (state machine)
  MCVersionLines            instances
  VersionLinesProofs        types, order of the reports, one line per version
CnbUpdate                 buildpack.toml and its pull requests (state machine)
  MCCnbUpdate               instances
  CnbUpdateProofs           types, safety
DotnetTable               SDKs and runtimes in buildpack.toml (state machine)
  MCDotnetTable             instance
  DotnetTableProofs         types, safety
ReleaseGate               specs, statuses, environments, master (state machine)
  MCReleaseGate             instance
  ReleaseGateProofs         types, safety
DocRanking                pure: the comparator of the documentation page
  DocSearch                 what a query finds and shows (state machine)
    MCDocSearch               instance
DocPage                   the documentation page's events (state machine)
  MCDocPage                 instance
  DocPageProofs             types, safety; also all safety of DocSearch
```

### Dependencies

The class in `tasks/update-buildpack-dependency/dependencies.rb`, method by
method: `SameDependencyLine`, `IsLatest`, `NewestReleased`
(`dependencies_latest_released`), `Switch`. Versions are records of three
segments, `Newer` is Gem::Version's order on them. Entries of other dependencies
are left out, because `same_dependency_line?` refuses them first. Lists are sets:
the code sorts its result.

### DependencyBuilds

One dependency, from the report of a version to the accepted story.

- *Concourse.* `known` are versions reported; `running`, `passed` and `failed`
  hold, per job, the versions it has had. A job gets a version (`Triggered`) when
  all jobs its plan names in `passed` have succeeded with it (`Upstream`), each
  version once (`version: every`) and in any order, as `Discover` reports
  versions in any order (see VersionLines); `Retriggered` is an operator
  starting a build for a version again. `serial` is `Idle`. Jobs exist
  per version line: `JobLine` tells which line's jobs handle a version, and one
  job of the model stands for the jobs of all lines. `get`s happen when a build
  starts, so what a build reads is kept in a local (`pr`, `copied`, `accepting`)
  and may be old when it is used.
- *create* (`StartCreate`, `CreateStory`, `RecordStory`): `create.rb` calls the
  Tracker, then writes, commits and pushes `<version>.json`.
- *build* (`StartBuild`, `PutArtifact`, `PutMetadata`, `FinishBuild`): per stack
  the binary and its metadata, in any order; binaries are numbered by the build
  that made them, which stands for the sha in their names.
- *copy* (`StartCopy`, `PutCopy`): `repackage-dependency/run.sh`.
- *update* (`StartUpdate`, `MergePullRequest`, `ConflictPullRequest`): the whole
  of `run.rb` on develop, master and metadata as fetched, then the pull request.
  Merging applies the difference between the fetched and the produced manifest
  to develop as it is by then (`Merged`), if the removed entries are still
  there; if develop has moved, the merge may also conflict and fail the build.
- *accept* (`StartAccept`, `AcceptStory`).
- `Fail` breaks any build between two effects; `End` may fail a build after its
  last effect. `ShipBuildpack` moves master to develop.

Two versions of one job line never run together, but of two job lines they do.
Entries are switched by `LineType`, and that can be coarser: nginx has jobs for
1.17.X and for 1.19.X and switches both as *mainline*, so two update jobs edit
the same entries concurrently. `JobLineAssumption` says where this does not
happen: with `keep_latest_released` (php, node and others, never nginx) the two
notions of a line agree. The lines of dotnet-sdk (2.1.4X, 2.1.5X) are switched as
one minor line too, with `keep_all`, which is within the assumption.

### DependencyDelivery

The promise, with no word of jobs or pull requests: a version that was reported
is offered by every buildpack on every stack, by itself or by one of its line
that is not older, before its story is accepted, and a manifest never loses a
line. `Delivery` in DependencyBuilds is the refinement mapping: `known` and
`accepted` are the variables of these names, `offered` is what the develop
branches have per stack (`OfferedVersions`), and *at least* is `NotOlder`. All of
creating, building, copying and failing are stutters; `MergePullRequest` is
`Update`, `AcceptStory` is `Accept`, `Discover` is `Report`.

### ManifestUpdate

`run.rb` for the cases that DependencyBuilds leaves aside, one update after the
other: any-stack binaries that serve several stacks, metadata files in every
order (`Orders`), build stacks that grow (`AddStack`), and what follows the loop:
nginx `version_lines`, PHP `default_versions` and `options.json`, the AppDynamics
extension, each with its exits. `Update` is one run of the task.

### VersionLines

`Check` is `check.cr` for one resource: the end of the watcher's list (`Offered`,
at most `Window` versions), filtered by the line (`Matches` is
`SemanticVersionFilter#match`, prefix and length), without those below the *one*
version Concourse passes (`Unknown`). `published` is a sequence, because not all
watchers sort: httpd.cr and most others do, python.cr, rubygems.cr and dotnet.cr
return what the site lists, newest publication first, the other way round.
`sorts` tells which kind the dependency has, and `Before` is the order of the
list. `Store` is Concourse: a check without a new version changes nothing, after
another one the last version of its list (`last`) is what the next check is given.
`NewLineJob` is `create-new-version-line-story.rb`,
`AddLine` an edit of `dependency-builds.yml` that passes `LinesOverlap`. Line
patterns are digit sequences with dots and X, because prefix and length are what
the code compares; that is the one place where text is modelled as text.

### CnbUpdate

One dependency in the `buildpack.toml` of a cloud native buildpack. The functions
of `dependencies.go` are operators of the same names on sets of entries (the code
sorts every list it returns): `ExpandByStack`, `MergeWith`, `RemoveOldDeps`,
`CollapseByStack`, and `UpdateDependencies` for `Update`. `LoadDependencies` is
what the metadata files of a version say of the configured stacks, where a file
of a copy stack overwrites the one for any stack. `UpdateToml` is one run of
`update-cnb-dependency` followed by `update-stacks`. `Update` opens a pull
request with `main` as it was (`base`) and as it should be (`head`). Nobody merges
it automatically, so up to `MaxOpen` wait; `Merge` applies the difference to
`main` if git can (`Applies`: what is removed is there, the two sides did not add
entries for the same version and stack next to each other, and the line of the
order was changed on one side only), `Close` gives up. A buildpack with no order
group for the dependency has none to change (`UpdateOrders` of the empty set);
both kinds of buildpack are initial states. `Build` and `Copy` are the
metadata written by the jobs before, `Configure` an edit of the stacks.
`offered` is a history variable.

### DotnetTable

`update-dotnet-sdks-and-compat-table`, which runs after the two tasks above for
`dotnet-sdk`. An SDK has a channel (2.1), a line in it (2.1.4X), a number in that
line and the runtime in it. `table` is `runtime-to-sdks`, as the set of the SDKs
in it, of which the row is the runtime; `deps` are the SDKs among the
dependencies. `AddToTable` is the path of a supported runtime: drop rows
(`Dropped`, by substring of the version: `OfChannel`), put the SDK in its row or
compare it with the one there (`Replaced` is `checkSDK`), and take the one version
that is remembered out of the dependencies (`LastOf`). `Refuse` is the other
path. Each line handles its SDKs in order; the lines go in any order. Entries of
`releases.json` may have no runtime (`PublishBare`): the second latest runtime is
that of the first entry which is not of the latest, so such an entry takes its
place and leaves one supported runtime (`hidden`) until two newer runtimes are out.

### ReleaseGate

Commits are numbered along develop, with what they change: code, version and
changelog only, or both. `BuildpackDevelop` and `NewVersion` are the resources
that ignore, or look for, the latter. `UnitSpecs` is one build of
`specs-unit-develop`. A build of an integration or brats job of a tier (edge,
lts) goes through `Start` (the inputs: the newest commit that passed the unit
specs, and for integration the newest of all as `repo`), `Claim`, and `Succeed` or
`BuildFails`; a failed edge build keeps its environment. `SetStatus` is
`set-status-success` on the newest commit that Concourse lets through (`Passed`).
The gate is two steps: `Approve` has looked at the statuses of the commit before
and at the files, `UpdateBranch` moves master or is never reached.

### DocPage, DocSearch, DocRanking

The script of depwatcher's API documentation. *DocPage* has the events: keys in
and outside the search box, the debounce timer, searches announced and waiting
for the index (`delayed`), an Enter that waits for a search, clicks, the modal,
the sidebar with its storage. Results are numbers of places in a list. *DocSearch*
is `CrystalDoc.search`. A result is known by its *place*, the number of its type
and its number in the lists of that type, which is the order in which `searchType`
pushes results. `Found` says at which places something matches and what matched;
`Rankings` how the sort may rank them (one way when the comparator is an order on
them, any when it is not); `Kept` is the cut after ranking and `Displayed` the
first `MAX_RESULTS_DISPLAY` of what is left. *DocRanking* is the comparator, rule
by rule. Texts are sequences of tokens, so that *contains* and *first occurrence* mean what
they do in the code. Assumed of the tokens is that `toLowerCase` done twice is
`toLowerCase` and leaves `:`, `#` and `.` alone, and of the index that a name is
not empty, has no `#` or `.`, and no colon at either end, as names in Crystal are.

## What the runs show

| Run | Instance | Result |
|---|---|---|
| DepBuildsNginx | 1.17.0, 1.19.0, 1.19.1 with two job lines, lines by parity, 1 re-trigger | types, accepted versions in every manifest, one version per line, the pipeline implements DependencyDelivery, every version is accepted in the end |
| DepBuildsStacks | two versions of a line and an old one of another, two build stacks, a copy stack, two buildpacks (symmetric), `keep_latest_released`, 1 failure, 1 re-trigger, 1 release | stacks agree, manifests name uploaded binaries, inputs present, nothing downgraded |
| ManifestUpdate | seven kinds of dependency, each with one or two stacks at first, four versions in any order | no stack is lost, one binary per stack, file order is irrelevant, named versions exist |
| ManifestUpdatePhp | PHP, a stack is added | violated: the default version ends up without an entry |
| VersionLines | three versions in any order, one with a fourth segment, one line and two to add, a window of two, a watcher that sorts and one that does not | reports ascend where the watcher sorts, one line per version, nothing unnoticed |
| CnbUpdate | three versions of two lines, two stacks, one of them a copy stack, any-stack binaries, 1 version to keep, 1 rebuild, 1 edit of the stacks, 2 open pull requests | types, offered versions are kept or superseded on every stack, one binary per stack, stacks listed |
| CnbUpdateOrder | three versions of one line, 2 to keep | violated: the order names a version that was not kept |
| DotnetTable | eight SDKs: three runtimes in two lines of one channel, two in another channel, one of which contains the name of the first; entries without a runtime anywhere; 2 re-runs | types, a supported SDK or a newer one of its runtime is offered in both places, one SDK per supported runtime |
| ReleaseGate | one tier with two jobs and two environments, 3 commits, 1 failure, 1 re-trigger | types, master is tested, the newest commit gets its status or a build failed on it |
| ReleaseGateStatus | the same, 2 commits, nothing fails | violated: a status on a commit that did not pass the integration specs |
| DocPage | three queries with two, one and no results, 2 waiting searches, 1 waiting Enter | shown, highlighted and stored is what was typed; a text that stays is searched |
| DocSearch | eleven words, queries of up to three, three types with members | best matches shown, names found, case ignored, a further word takes nothing away, the comparator is consistent among types and among others |

A violated run checks one sentence of the code's own comments, messages or
tests; the findings in `PROJECT.json` quote it and describe the behaviour.

*Bounds.* Two versions of a line are what ordering, overtaking and removal need;
a second job line of the same entries (nginx) gives concurrent updates, a further
line shows that lines do not disturb each other. One failure and one re-trigger
together give every partial effect once and one repetition of it, with another
build in between. A second failure repeats the first, as a failed build leaves
nothing behind but what it put. `MaxFailures`, `MaxReruns` and `MaxShips` are the
only counters, and the theorems hold for all their values. In ManifestUpdate
nothing is cut but the number of versions. In VersionLines the window of two
versions out of three lets one version be pushed out, and two versions of a line
with one of a later line are what a list out of order needs. In CnbUpdate two open pull
requests are what overtaking needs, and with one version to keep each further
version removes one; two lines show that the removal stays in its line. In
DotnetTable three runtimes let one be dropped, and two lines of a channel meet in
each row. In ReleaseGate three commits let master move, and a push happen between
any two steps of a build; one failure uses up one of the two environments, so the
other one is all that is left. Two tiers share nothing but the commits, and the
theorems hold for any number of them. In DocPage a query with two results, one
and none are the cases `highlight` tells apart.

*Deadlock.* The pipelines stop when upstream publishes nothing and nobody starts
anything, the CNB update when an update changes nothing, the table when every SDK
is out, and the search when the words are used up, so these runs do not look for
deadlock. ManifestUpdate, VersionLines and DocPage run with the deadlock check on.

*Fairness.* In DependencyBuilds, weak fairness of every job of every version
without operators: Concourse starts what it triggers and takes a build to its
end. Not fair: publications, failures, re-triggers and releases, which nobody
promises. In VersionLines, `check_every: 1h` justifies weak fairness of every
check, and `trigger: true` of the new-line job; editing the lines is not fair. In
ReleaseGate, weak fairness of the builds that are triggered, of their ends and of
the status task. A claim has strong fairness, as the pool may be empty now and
then while a claim waits and `cf-pool` asks again until it gets an environment.
Pushes, failures, re-triggers and the gate are not fair. In DocPage, timers fire
and the index arrives; users need not do anything.

## What is proved

For every set of releases, stacks, buildpacks and bounds, each line type and
strategy, from the named assumptions in `Dependencies` and `DependencyBuilds`:

- `TypeCorrect`: Spec => []TypeOK
- `AcceptedVersionsAreOffered`: Spec => []AcceptedIsInEveryManifest
- `NothingIsDowngraded`: Spec => NoDowngrade
- `InputsAreThere`: Spec => []InputsArePresent
- `BinariesAreThere`: Spec => []ManifestBinaryIsUploaded
- `StacksStayTogether`: Spec => []StacksAgree
- `LinesAreKeptShort`: OldLinesAreShort => (Spec => []LinesStayShort)
- `PipelineDelivers`: Spec => Delivers

None of these properties is inductive. `Invariance` proves `IInv`:

1. `Ordered`: a job has only had versions that passed the jobs before it, and
   `RunsAlone`: concurrent updates of a buildpack belong to different job lines.
2. `RecordedStories`, `DescribedBuilds`, `DescribedCopies`, `OpenedFiles`: a file
   in the builds repository is overwritten but never removed, so it is there once
   the job that writes it has passed. With 1 this gives `InputsArePresent`.
3. `PullRequestsFit`: while an update runs, whatever it started from is still
   *covered* by develop (same stack, same line, not older), and its pull request
   only improves its line. How merges of other jobs are kept from spoiling this
   depends on the strategy. With `keep_latest_released` no other job touches the
   line (`JobLineAssumption`). Without, the entries the pull request adds are of
   its own version, they cover all it removes, and no other job adds entries of
   that version; this needs `VersionsOnce`, one entry per version and stack.
4. `MergedIsCarried`: what was merged stays carried, because covering is
   transitive; `AcceptedIsMerged` adds the stories. This gives
   `AcceptedIsInEveryManifest`, and `PullRequestsFit` gives `NoDowngrade`.

`DependenciesProofs` has the facts on `Switch` that step 3 uses: what it adds
(`SwitchAdds`, `SwitchAddsBuilt`, `SwitchRebuilds`), that it removes an entry only
for the built one, of the same line and not older (`SwitchRemoves`), and that the
built version is there afterwards or was not needed (`SwitchCarries`).

The other four theorems rest on `IInv` and on an invariant of their own each:

- `PipelineDelivers` is the refinement. `SeenOnly` says that develop, master and
  the pull requests have no version but reported and old ones, which the abstract
  `Update` demands. A step that merges a pull request maps to `Update` because of
  `PullRequestsFit`; one that accepts a story to `Accept` because the job has
  passed the update of every buildpack.
- `BinariesAreThere`: a failed build may leave metadata of a binary that was never
  uploaded. `PassedIsFinished` says that the metadata of a version that passed the
  build job is of a build that put all its binaries (`Finished`), or of a later one
  than such a build: the job passes only with a build that put everything, and
  after that only a further build of the same version can overwrite the metadata.
  The entries of manifests and pull requests inherit that (`ManifestsNameFinished`),
  because an update starts only with a version that passed. `BinariesFit` adds
  what a build that is neither running nor failed has put. So versions whose first
  builds fail are covered; the exception that the property names is a version that
  was built in full before and whose build job runs again or has failed since.
- `StacksStayTogether`: develop, master and what the pull requests were made from
  and lead to have the same versions on every stack (`ManifestsAgree`). That an
  update keeps this is `SwitchVersions`: what `switch` does to the versions of one
  stack depends on nothing but versions (`VersionsAfter`). That a merge keeps it
  needs one entry per version and stack in what the pull request was made from
  (`BasesOnce`).
- `LinesAreKeptShort`: develop, and both sides of every pull request, are short
  already (`ManifestsAreShort`). A merge into a develop that has moved applies only
  if the entries to be removed are there, and as the line is short these are all
  it has. A pull request that removes nothing does not conflict: under
  `remove_all` two job lines that fill the same empty line would leave two
  versions. `OldLinesAreShort` excludes that, and manifests too long from the
  start. In `dependency-builds.yml` only nginx has several job lines per line under
  `remove_all`, and its buildpack has a stable and a mainline version from the
  start, as its `version_lines` names both; MCDependencyBuilds has TLC check the
  premise for its instances.

ManifestUpdateProofs, for any configurations, versions, stacks, copy stacks and
orders of the files:

- `UpdateTypeCorrect`: Spec => []TypeOK
- `OneBinaryRemains`: Spec => []OneBinaryPerStack
- `StacksAreKept`: Spec => StacksAreNeverLost
- `OrderNeverMatters`: Spec => []OrderIsIrrelevant
- `NamesStayInManifest`: PhpSetupsFit gives Spec => []NamedVersionsAreInManifest
- `NginxLinesAreNewest`: NginxSetupsFit gives Spec => []VersionLinesAreNewest

What is true of the loop of `run.rb` is shown once, in `LoopStaysIn` and
`LoopKeeps`: a *set* of accumulators that has the first one and that no turn leaves
has the last one, whatever the order. The set is a bound variable, so this
induction can be cited like any lemma; it comes from `Counting`, and that from the
well-foundedness of the numbers. `IInv` says that entries fit the build stacks,
that the manifest covers the released one (each released entry has one in the
manifest of its line, for its stacks, that is not older), and that a stack has one
binary per version. Covering is what makes the entries that
`keep_latest_released` brings back older than the one just added.

For `OrderNeverMatters` the invariant `KeepsNewest` is needed as well: the newest
released entry of each line and stack is in the manifest already, so bringing it
back does not depend on which file comes first. Then every turn changes the
entries of its own stack only (`SwitchIsLocal`), and the accumulator is known from
the set of files that are done (`SplitAt`, `LoopIsSplit`). For the last two
theorems `Even` says that, until a stack is added, all stacks have the same
versions; an update then does to them what `VersionsAfter` says (`LoopVersions`).
`PhpNames` and `NginxLines` are the properties on versions, with the lines that the
named versions stand for. Their premises are about the configuration:
`PhpSetupsFit` (PHP's lines are minor ones and the default line exists) and
`NginxSetupsFit` (nginx has nginx's lines, one major version, and is not kept with
`keep_all`) hold in `dependency-builds.yml`, and TLC checks them for the instances in MCManifestUpdate.

VersionLinesProofs, for any versions, lines and windows:

- `LinesTypeCorrect`: Spec => []TypeOK
- `ReportsAscend`: Spec => ReportedInOrder. `check.cr` compares with one version
  only, so the strengthening is that, where the watcher sorts, this version is the
  newest the resource ever reported (`LastIsNewest`). It is kept because the last
  of a sorted list is not below any other of it, and the order of versions is
  transitive (`LessIsTransitive`) and total (`LessIsTotal`), also on suffixes of any
  length: `check.cr` drops what is below the version it is given, not what is equal.
- `LinesStayApart`: LinesStandApart gives Spec => []OneLinePerVersion. The
  invariant is that a resource has reported what its filter lets through and that
  the lines pass `LinesOverlap`. The premise is needed because
  `check_for_lines_overlap` compares only lines with different numbers of
  wildcards, by their first characters: 2.1.X and 2.1.4X, or a line that starts
  with X, would pass. All lines of `dependency-builds.yml` satisfy it.

ReleaseGateProofs, for any tiers, pools, bounds, with and without brats:

- `TypeCorrect`: Spec => []TypeOK, in which no more environments are claimed than
  there are.
- `MasterTested`: Spec => []MasterIsTested. The strengthening follows a commit
  through the jobs: a running build has a commit that passed the unit specs
  (`BuildsFollowUnit`); one that `passed` lets through a job was tested by it or,
  for integration, came as `repo` with one that is not newer
  (`PassedFollowsTested`); a status is on a commit that every job let through
  (`StatusesFollowPassed`); and what the gate has approved is `release` on a
  commit with all its statuses (`Approved`), which later pushes, failures and
  re-triggers do not change.

CnbUpdateProofs, for any versions, stacks, number of versions to keep and open
pull requests:

- `TomlTypeCorrect`: Spec => []TypeOK
- `OneBinaryStays`: Spec => []OneBinaryPerStack
- `StacksStayListed`: Spec => []StacksAreListed
- `OfferedStaysKept`: Spec => []OfferedIsKept

Step by step the functions of `dependencies.go` lose no version of a stack but
those that enough newer ones replace (`ExpandIs`, `MergeWithIs`, `RemoveOldIs`,
`CollapseIs`, together `UpdateDependenciesIs`), so a pull request *improves* what
main once was: that, and that all of the latter has been offered, is
`PullRequestsFit`, the strengthening. A merge then needs an argument of its own,
as the newer versions that justify a removal may be gone from main by then:
`EnoughAreLeft` looks at the newest version for which that goes wrong, which is
where well-foundedness comes in. That the stacks stay listed follows from this,
because a stack that once had a version always has one (`SomeAreLeft`).

DotnetTableProofs, for any SDKs, mistakable versions and orders of the lines:
`TableTypeCorrect`, `SupportedStaysOffered` (SupportedSdkIsOffered) and
`OneSdkStays` (SupportedHasOneSdk). The strengthening is that there is one row per
runtime (`OneRow`) and that, of the SDKs the properties are about, the table and
the dependencies have the same (`BothOrNone`); this is what makes it enough to
remember one version to remove. A release never makes a runtime supported again
(`SupportedBefore`), not even where a new runtime follows on an entry without one.

DocPageProofs, for any queries, results, types and bounds: `PageTypeCorrect`,
`ListIsTheTyped` (ListedIsTyped), `TextIsSaved` (SavedIsTyped),
`HighlightStaysListed` (HighlightIsListed), `OpenTypesStay` (RememberedIsOpen).
Searches that wait for the index are run in order, so the last one is of the
newest text: that is the strengthening.
The same module has the theorems about DocSearch, for any index, any words and any
number of results that are displayed. Their invariant, `SearchInv`, is that what
is found is what the words searched last find, and that those are still in the
box.

- `SwappedComparison`: SearchSpec => []ComparedEitherWay. `ComparisonTurns` proves it
  of the comparator, for any two results of the right shape, query and order of
  names; `ShapeIs` that what is found has that shape.
- `MostMatchesStay`: SearchSpec => []MostMatchesAreShown. Nothing is assumed of the
  ranking but that no two results share a rank (`SortRanks`), which is all that is
  left when the comparator is no order. `FirstOnes` counts: in a ranked set exactly
  n have fewer than n before them.
- `NamesAreFound`: SearchSpec => []NamedIsFound, by what the three matchers do with
  a name, alone (`NamedTypeMatches`, `PlainMethodMatches`) or after a sign and the
  name of a type (`SignedMethodMatches`).
- `CapitalsFindTheSame`: SearchSpec => []CaseIsIgnored, as lower case has no effect on
  a text that has it, nor on what is a term.
- `WordsOnlyAdd`: SearchSpec => FoundGrows, because every matcher is a filter on the
  terms (`ResultGrows`).

Only model-checked: the liveness properties EveryVersionIsAccepted,
EveryVersionIsNoticed, NewestIsTested and SearchIsShown, as fairness is out of the
prover's reach. Every invariant and every action property of a passing run is a
theorem, four of them under a premise about the configuration
(`OldLinesAreShort`, `PhpSetupsFit` and `NginxSetupsFit`, `LinesStandApart`, as
said above).

## What is not modelled

- `monitored_deps`: R is rebuilt for versions of its packages too; the `passed`
  constraint then ties pairs of versions together.
- Child CNBs whose stories are born accepted. In CnbUpdate: mixins, deprecation
  dates and stacks, the commit message, and that `compareStacks` is no order,
  which decides about the layout of the file only.
- `run.rb`: PHP module lists, JRuby Gemfiles, R sub-dependencies, deprecation
  dates, windows stacks (hwc), the commit message. None of them decides what
  entries the manifest has.
- DotnetTable: pull requests that overlap (CnbUpdate shows what they do to
  entries), and `versions_to_keep: 99`. When several rows are dropped at once the
  SDKs of all but the last stay among the dependencies; the properties are about
  supported runtimes and say nothing of those.
- ReleaseGate: tags, finalizing and publishing after master has moved, pushes by
  force, and the live run of two tiers.
- Version texts of other shapes than three numbers and a suffix, pre-releases, a
  leading `v`.
- Dependencies hosted by third parties have no bucket; `PutArtifact` is then an
  effect nobody looks at.
- DocPage: scrolling, the markup of a result, highlighting of terms.
- The scraping in depwatcher and the recipes of the binary builder.
- CVE notification, the new releases detector and the security notice stories: no
  pipeline of this repository runs them, and what matters about them is what
  happens to their files when they fail.
- The remaining components with status `not_modelled` in `PROJECT.json`, for the
  reasons there.

Some behaviours that the models have are not claimed to be right, as they are
not: a create build that is started again makes a second story; while the build job
of a version that passed runs again, and after that has failed, an update may take
metadata that names a binary which is not there; a watcher that does not sort
reports versions out of order, and rejects those below the last of its list; an
entry of `releases.json` without a runtime makes the table task treat the second
latest runtime as unsupported; a release between
the fetch of an update and its merge lets `keep_latest_released` drop the version
just released; two lines with one wildcard each (2.1.X, 2.1.4X) pass the overlap
check; an Enter during the delay of a search that is never performed waits for
ever, and after a search without results it opens one of the search before; with
three terms, results with one term less than the best are shown; the default
version of nginx in the PHP buildpack is never updated, as `update_defaults` looks
for nginx-static, its name in the configuration, where the manifest calls it
nginx. The hazards say where.

## How it was planned, and what is left

The order was: the pipeline of a dependency and its update task; the version
lines; the page; the CNB updates and the table; the gate; then the refinement and
the proofs. Left:

1. The buildpackapplifecycle pipeline, in the shape of ReleaseGate, with what is
   deployed in its one environment.
2. DotnetTable on top of CnbUpdate's pull requests.
