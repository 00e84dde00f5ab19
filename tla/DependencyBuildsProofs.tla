----------------------- MODULE DependencyBuildsProofs -----------------------
(***************************************************************************)
(* Theorems of DependencyBuilds, for every set of releases, stacks and     *)
(* buildpacks, every line type and strategy and every bound.               *)
(***************************************************************************)
EXTENDS DependencyBuilds, DependenciesProofs, FiniteSetTheorems

\* The entries of the line of v.
OnLine(deps, v) == {d \in deps : SameVersionLine(d.version, v)}

\* deps offers v, or a newer version of its line, on every build stack.
Carries(deps, v) ==
  \A s \in BuildStacks :
    \E e \in deps : /\ e.stacks = {s}
                    /\ SameVersionLine(e.version, v)
                    /\ ~Newer(v, e.version)

\* new differs from deps in the line of v only, and no entry gets worse.
Improves(v, deps, new) ==
  /\ deps \ new \subseteq OnLine(deps, v)
  /\ new \ deps \subseteq OnLine(new, v)
  /\ \A d \in deps : \E e \in new : Covers(e, d)

\* On every build stack new has the entry just built, or deps had one that
\* carries v and new keeps it.
BuiltOrCarried(v, deps, new) ==
  \A s \in BuildStacks :
    \/ BuiltEntry(v, s) \in new
    \/ \E e \in deps \cap new : /\ e.stacks = {s}
                              /\ SameVersionLine(e.version, v)
                              /\ ~Newer(v, e.version)

\* The entries that head adds are the ones just built of v, one per stack.  Each
\* takes the place of what base had of v there, and what head removes is covered
\* by one of them.
Replaces(v, base, head) ==
  /\ \A e \in head \ base : e.version = v
  /\ \A d \in base \ head : \E e \in head \ base : Covers(e, d)
  /\ \A e \in head \ base : \A d \in base \cap head :
       d.stacks = e.stacks => d.version # v
  /\ \A e, f \in head \ base : e.stacks = f.stacks => e = f

VersionsOnceIn(deps) ==
  \A d, e \in deps : d.version = e.version /\ d.stacks = e.stacks => d = e

\* A job has only had versions that passed the jobs before it.
Ordered == \A j \in Jobs : \A u \in Upstream(j) : Used(j) \subseteq passed[u]

\* `serial`: the update builds that run together for a buildpack are builds of
\* different jobs.
RunsAlone ==
  \A b \in Buildpacks : \A v, w \in running[b] : v # w => ~SameJobs(v, w)

\* The story of a version is recorded once its create job has passed.
RecordedStories == \A v \in passed["create"] : storyOf[v] # 0

\* The metadata of every build stack is there once the build job has passed.
DescribedBuilds ==
  \A v \in Releases :
    /\ v \in running["build"] => builds[v] # 0
    /\ \A s \in BuildStacks : <<s, "metadata">> \in puts[v] => meta[v][s] # 0
    /\ v \in passed["build"] => \A s \in BuildStacks : meta[v][s] # 0

\* So is the metadata of a copy stack once its copy job has passed.
DescribedCopies ==
  \A c \in CopyStacks : \A v \in passed[c] : meta[v][c] # 0

\* The jobs of v handle every release of its line.
OneJob(v) == \A w \in Releases : SameVersionLine(v, w) => SameJobs(v, w)

\* While an update of v runs, the jobs of other lines may change the very line of
\* v on develop, but all the update started from is still covered there.  Its
\* pull request changes nothing but that line, for the better.  A line that has
\* one job stays as the update found it.  Without keep_latest_released nobody
\* else adds entries of v.
PullRequestsFit ==
  \A b \in Buildpacks : \A v \in running[b] :
    LET base == pr[b][v].base
        head == pr[b][v].head
    IN  /\ Improves(v, base, head)
        /\ Carries(head, v)
        /\ \A d \in base : \E e \in develop[b] : Covers(e, d)
        /\ OneJob(v) => OnLine(base, v) = OnLine(develop[b], v)
        /\ Strategy # "keep_latest_released" =>
             /\ Replaces(v, base, head)
             /\ \A d \in develop[b] : d.version = v => d \in base

\* develop has one entry per version and stack.
VersionsOnce ==
  Strategy # "keep_latest_released" =>
    \A b \in Buildpacks : VersionsOnceIn(develop[b])

\* What has been merged is still carried by develop.
MergedIsCarried ==
  \A b \in Buildpacks : \A v \in passed[b] : Carries(develop[b], v)

\* A story is accepted after the updates of its version.
AcceptedIsMerged ==
  \A story \in accepted : \A b \in Buildpacks : story[1] \in passed[b]

\* The files a running build has opened were there.
OpenedFiles == \A v \in running["accept"] : accepting[v] # 0

IInv ==
  /\ TypeOK
  /\ Ordered
  /\ RunsAlone
  /\ RecordedStories
  /\ DescribedBuilds
  /\ DescribedCopies
  /\ PullRequestsFit
  /\ VersionsOnce
  /\ MergedIsCarried
  /\ AcceptedIsMerged
  /\ OpenedFiles

-----------------------------------------------------------------------------
(***************************************************************************)
(* Type correctness.                                                       *)
(***************************************************************************)

\* Every job has at least one attempt per version (the bound on reruns).
LEMMA MaxAttemptsType == MaxAttempts \in Nat /\ MaxAttempts >= 1
BY BoundAssumption DEF MaxAttempts

\* run.rb writes entries of known versions, one stack each.
LEMMA SwitchedType ==
  ASSUME TypeOK, NEW v \in Releases, NEW deps \in SUBSET Entries,
         NEW rel \in SUBSET Entries
  PROVE  Switched(v, deps, rel) \in SUBSET Entries
<1>1. ASSUME NEW s \in BuildStacks
      PROVE  BuiltEntry(v, s) \in Entries
  BY DEF TypeOK, BuiltEntry, Entries
<1>2. ASSUME NEW s \in BuildStacks
      PROVE  Switch(LineType, Strategy, BuiltEntry(v, s), OnStack(deps, s),
                    OnStack(rel, s)) \subseteq Entries
  <2>1. Switch(LineType, Strategy, BuiltEntry(v, s), OnStack(deps, s), OnStack(rel, s))
          \subseteq OnStack(deps, s) \cup {BuiltEntry(v, s)}
                    \cup Matching(LineType, BuiltEntry(v, s), OnStack(rel, s))
    BY SwitchAdds
  <2> QED
    BY <2>1, <1>1 DEF OnStack, Matching
<1>3. ASSUME NEW s \in BuildStacks
      PROVE  OnStack(deps, s) \subseteq Entries
  BY DEF OnStack
<1> QED
  BY <1>2, <1>3 DEF Switched

\* run.rb leaves a manifest of such entries, also when it skips.
LEMMA UpdatedManifestType ==
  ASSUME TypeOK, NEW v \in Releases, NEW deps \in SUBSET Entries,
         NEW rel \in SUBSET Entries
  PROVE  UpdatedManifest(v, deps, rel) \in SUBSET Entries
BY SwitchedType DEF UpdatedManifest

\* What the template instantiates per stack and per buildpack are jobs.
LEMMA JobNames ==
  /\ "create" \in Jobs /\ "build" \in Jobs /\ "accept" \in Jobs
  /\ CopyStacks \subseteq Jobs
  /\ Buildpacks \subseteq Jobs
BY DEF Jobs

\* Succeed and Break keep the types of Concourse's variables.
LEMMA EndType ==
  ASSUME TypeOK, NEW j \in Jobs, NEW v \in Releases, End(j, v)
  PROVE  /\ known' = known
         /\ running' \in [Jobs -> SUBSET Releases]
         /\ passed' \in [Jobs -> SUBSET Releases]
         /\ failed' \in [Jobs -> SUBSET Releases]
         /\ failures' \in 0..MaxFailures
         /\ reruns' = reruns /\ ships' = ships
<1>1. failures' \in 0..MaxFailures
  BY BoundAssumption DEF TypeOK, End, Succeed, Break
<1>2. /\ running \in [Jobs -> SUBSET Releases]
      /\ passed \in [Jobs -> SUBSET Releases]
      /\ failed \in [Jobs -> SUBSET Releases]
  BY DEF TypeOK
<1>3. CASE Succeed(j, v)
  BY <1>1, <1>2, <1>3 DEF End, Succeed
<1>4. CASE Break(j, v)
  BY <1>1, <1>2, <1>4 DEF End, Break
<1> QED
  BY <1>3, <1>4 DEF End

\* Starting a build keeps Concourse's state in type.
LEMMA StartType ==
  ASSUME TypeOK, NEW j \in Jobs, NEW v \in Releases, Start(j, v)
  PROVE  /\ running' \in [Jobs -> SUBSET Releases]
         /\ reruns' \in 0..MaxReruns
         /\ UNCHANGED <<known, passed, failed, failures, ships>>
BY BoundAssumption DEF TypeOK, Start, Triggered, Retriggered

\* The types hold before depwatcher reports anything.
LEMMA TypeInit == Init => TypeOK
<1> SUFFICES ASSUME Init PROVE TypeOK
  OBVIOUS
<1>1. OldEntries \subseteq Entries
  BY MaxAttemptsType DEF OldEntries, Entries
<1>2. NoPullRequest \in [base : SUBSET Entries, head : SUBSET Entries]
  BY DEF NoPullRequest
<1> QED
  BY <1>1, <1>2, MaxAttemptsType, BoundAssumption DEF Init, TypeOK

\* Every step of every job keeps the types.
LEMMA TypeNext == TypeOK /\ [Next]_vars => TypeOK'
<1> SUFFICES ASSUME TypeOK, [Next]_vars PROVE TypeOK'
  OBVIOUS
<1> USE JobNames, MaxAttemptsType
    DEF concourse, tracker, repo, bucket, manifests, locals, bounds
<1>1. ASSUME NEW v \in Releases, Discover(v) PROVE TypeOK'
  BY <1>1 DEF TypeOK, Discover
<1>2. ASSUME NEW v \in Releases, StartCreate(v) PROVE TypeOK'
  BY <1>2, StartType DEF TypeOK, StartCreate
<1>3. ASSUME NEW v \in Releases, CreateStory(v) PROVE TypeOK'
  <2>1. stories' \in [Releases -> 0..MaxAttempts]
    BY <1>3 DEF TypeOK, CreateStory
  <2>2. newStory' \in [Releases -> 0..MaxAttempts]
    BY <1>3 DEF TypeOK, CreateStory
  <2> QED
    BY <1>3, <2>1, <2>2 DEF TypeOK, CreateStory
<1>4. ASSUME NEW v \in Releases, RecordStory(v) PROVE TypeOK'
  <2>1. /\ storyOf' \in [Releases -> 0..MaxAttempts]
        /\ newStory' \in [Releases -> 0..MaxAttempts]
    BY <1>4 DEF TypeOK, RecordStory
  <2>2. End("create", v)
    BY <1>4 DEF RecordStory
  <2> QED
    BY <1>4, <2>1, <2>2, EndType DEF TypeOK, RecordStory
<1>5. ASSUME NEW v \in Releases, StartBuild(v) PROVE TypeOK'
  <2>1. builds' \in [Releases -> 0..MaxAttempts]
    BY <1>5 DEF TypeOK, StartBuild
  <2>2. Start("build", v)
    BY <1>5 DEF StartBuild
  <2> QED
    BY <1>5, <2>1, <2>2, StartType DEF TypeOK, StartBuild
<1>6. ASSUME NEW v \in Releases, NEW s \in BuildStacks, PutArtifact(v, s)
      PROVE  TypeOK'
  <2>1. puts' \in [Releases -> SUBSET (BuildStacks \X {"bucket", "metadata"})]
    BY <1>6 DEF TypeOK, PutArtifact
  <2>2. uploaded' \in [Releases -> SUBSET (BuildStacks \X (0..MaxAttempts))]
    BY <1>6 DEF TypeOK, PutArtifact
  <2> QED
    BY <1>6, <2>1, <2>2 DEF TypeOK, PutArtifact
<1>7. ASSUME NEW v \in Releases, NEW s \in BuildStacks, PutMetadata(v, s)
      PROVE  TypeOK'
  <2>1. puts' \in [Releases -> SUBSET (BuildStacks \X {"bucket", "metadata"})]
    BY <1>7 DEF TypeOK, PutMetadata
  <2>2. meta' \in [Releases -> [BuildStacks \cup CopyStacks -> 0..MaxAttempts]]
    BY <1>7 DEF TypeOK, PutMetadata
  <2> QED
    BY <1>7, <2>1, <2>2 DEF TypeOK, PutMetadata
<1>8. ASSUME NEW v \in Releases, FinishBuild(v) PROVE TypeOK'
  BY <1>8, EndType DEF TypeOK, FinishBuild
<1>9. ASSUME NEW c \in CopyStacks, NEW v \in Releases, StartCopy(c, v)
      PROVE  TypeOK'
  <2>1. meta[v][CopySource] \in 0..MaxAttempts
    BY StackAssumption DEF TypeOK
  <2> QED
    BY <1>9, <2>1, StartType DEF TypeOK, StartCopy
<1>10. ASSUME NEW c \in CopyStacks, NEW v \in Releases, PutCopy(c, v)
       PROVE  TypeOK'
  <2>1. meta' \in [Releases -> [BuildStacks \cup CopyStacks -> 0..MaxAttempts]]
    <3>1. meta' = [meta EXCEPT ![v] = [meta[v] EXCEPT ![c] = copied[c][v]]]
      BY <1>10 DEF PutCopy
    <3>2. copied[c][v] \in 0..MaxAttempts
      BY DEF TypeOK
    <3>3. [meta[v] EXCEPT ![c] = copied[c][v]]
            \in [BuildStacks \cup CopyStacks -> 0..MaxAttempts]
      BY <3>2 DEF TypeOK
    <3> QED
      BY <3>1, <3>3 DEF TypeOK
  <2>2. copied' \in [CopyStacks -> [Releases -> 0..MaxAttempts]]
    <3>1. copied' = [copied EXCEPT ![c] = [copied[c] EXCEPT ![v] = 0]]
      BY <1>10 DEF PutCopy
    <3>2. [copied[c] EXCEPT ![v] = 0] \in [Releases -> 0..MaxAttempts]
      BY DEF TypeOK
    <3> QED
      BY <3>1, <3>2 DEF TypeOK
  <2>3. End(c, v)
    BY <1>10 DEF PutCopy
  <2> QED
    BY <1>10, <2>1, <2>2, <2>3, EndType DEF TypeOK, PutCopy
<1>11. ASSUME NEW b \in Buildpacks, NEW v \in Releases, StartUpdate(b, v)
       PROVE  TypeOK'
  <2>1. /\ develop[b] \in SUBSET Entries
        /\ UpdatedManifest(v, develop[b], released[b]) \in SUBSET Entries
    BY UpdatedManifestType DEF TypeOK
  <2>2. pr' \in [Buildpacks -> [Releases -> [base : SUBSET Entries,
                                            head : SUBSET Entries]]]
    BY <1>11, <2>1 DEF TypeOK, StartUpdate
  <2> QED
    BY <1>11, <2>2, StartType DEF TypeOK, StartUpdate
<1>12. NoPullRequest \in [base : SUBSET Entries, head : SUBSET Entries]
  BY DEF NoPullRequest
<1>13. ASSUME NEW b \in Buildpacks, NEW v \in Releases, MergePullRequest(b, v)
       PROVE  TypeOK'
  <2>1. Merged(b, v) \in SUBSET Entries
    BY DEF TypeOK, Merged
  <2> QED
    BY <1>12, <1>13, <2>1, EndType DEF TypeOK, MergePullRequest
<1>14. ASSUME NEW b \in Buildpacks, NEW v \in Releases, ConflictPullRequest(b, v)
       PROVE  TypeOK'
  BY <1>12, <1>14 DEF TypeOK, ConflictPullRequest
<1>15. ASSUME NEW b \in Buildpacks, ShipBuildpack(b) PROVE TypeOK'
  <2>1. ships' \in 0..MaxShips
    BY <1>15, BoundAssumption DEF TypeOK, ShipBuildpack
  <2>2. released' \in [Buildpacks -> SUBSET Entries]
    BY <1>15 DEF TypeOK, ShipBuildpack
  <2> QED
    BY <1>15, <2>1, <2>2 DEF TypeOK, ShipBuildpack
<1>16. ASSUME NEW v \in Releases, StartAccept(v) PROVE TypeOK'
  BY <1>16, StartType DEF TypeOK, StartAccept
<1>17. ASSUME NEW v \in Releases, AcceptStory(v) PROVE TypeOK'
  <2>1. accepted' \subseteq Releases \X Ids
    BY <1>17 DEF TypeOK, AcceptStory, Ids
  <2>2. accepting' \in [Releases -> 0..MaxAttempts]
    BY <1>17 DEF TypeOK, AcceptStory
  <2>3. End("accept", v)
    BY <1>17 DEF AcceptStory
  <2> QED
    BY <1>17, <2>1, <2>2, <2>3, EndType DEF TypeOK, AcceptStory
<1>18. ASSUME NEW j \in Jobs, NEW v \in Releases, Fail(j, v) PROVE TypeOK'
  <2>1. Break(j, v) /\ UNCHANGED <<reruns, ships>>
    BY <1>18 DEF Fail
  <2>2. End(j, v)
    BY <2>1 DEF End
  <2> QED
    <3>1. /\ newStory' \in [Releases -> 0..MaxAttempts]
          /\ accepting' \in [Releases -> 0..MaxAttempts]
      BY <1>18 DEF TypeOK, Fail
    <3>2. puts' \in [Releases -> SUBSET (BuildStacks \X {"bucket", "metadata"})]
      BY <1>18 DEF TypeOK, Fail
    <3>3. copied' \in [CopyStacks -> [Releases -> 0..MaxAttempts]]
      BY <1>18 DEF TypeOK, Fail
    <3>4. pr' \in [Buildpacks -> [Releases -> [base : SUBSET Entries,
                                              head : SUBSET Entries]]]
      BY <1>12, <1>18 DEF TypeOK, Fail
    <3> QED
      BY <1>18, <2>2, <3>1, <3>2, <3>3, <3>4, EndType DEF TypeOK, Fail
<1>19. CASE UNCHANGED vars
  BY <1>19 DEF TypeOK, vars
<1> QED
  BY <1>1, <1>2, <1>3, <1>4, <1>5, <1>6, <1>7, <1>8, <1>9, <1>10, <1>11, <1>13,
     <1>14, <1>15, <1>16, <1>17, <1>18, <1>19
  DEF Next, CreateJob, BuildJob, CopyJob, UpdateJob, AcceptJob

\* Every variable keeps its type: builds, stories and re-triggers stay within
\* their numbers, manifests hold one entry per known version, stack and binary.
THEOREM TypeCorrect == Spec => []TypeOK
BY TypeInit, TypeNext, PTL DEF Spec

-----------------------------------------------------------------------------
(***************************************************************************)
(* What a step of one job leaves alone.                                    *)
(***************************************************************************)

\* The steps of job j.
StepOf(j) ==
  \E v \in Releases :
    \/ j = "create" /\ CreateJob(v)
    \/ j = "build" /\ BuildJob(v)
    \/ j \in CopyStacks /\ CopyJob(j, v)
    \/ j \in Buildpacks /\ UpdateJob(j, v)
    \/ j = "accept" /\ AcceptJob(v)
    \/ Fail(j, v)

\* A new upstream version, a buildpack release, or nothing at all.
Environment ==
  UNCHANGED <<running, passed, failed, tracker, repo, bucket, develop, locals>>

\* A step is one of a job, of the environment, or a stutter.
LEMMA StepCases == [Next]_vars => Environment \/ \E j \in Jobs : StepOf(j)
<1> SUFFICES ASSUME [Next]_vars PROVE Environment \/ \E j \in Jobs : StepOf(j)
  OBVIOUS
<1>1. ASSUME NEW v \in Releases, Discover(v) PROVE Environment
  BY <1>1 DEF Discover, Environment, manifests
<1>2. ASSUME NEW b \in Buildpacks, ShipBuildpack(b) PROVE Environment
  BY <1>2 DEF ShipBuildpack, Environment, concourse
<1>3. CASE UNCHANGED vars
  BY <1>3 DEF vars, Environment, concourse, manifests
<1> QED
  BY <1>1, <1>2, <1>3, JobNames DEF Next, StepOf

\* The names of the jobs are distinct.
LEMMA DistinctJobs ==
  /\ "create" \notin CopyStacks \cup Buildpacks
  /\ "build" \notin CopyStacks \cup Buildpacks
  /\ "accept" \notin CopyStacks \cup Buildpacks
  /\ \A c \in CopyStacks : c \notin Buildpacks
BY JobNamesAssumption

\* What Concourse does in a step of job j.
ConcourseStep(j, v) ==
  \/ Start(j, v)
  \/ /\ v \in running[j]
     /\ running' = [running EXCEPT ![j] = @ \ {v}]
     /\ \/ passed' = [passed EXCEPT ![j] = @ \cup {v}] /\ failed' = failed
        \/ failed' = [failed EXCEPT ![j] = @ \cup {v}] /\ passed' = passed
  \/ UNCHANGED <<running, passed, failed>>

\* Ending a build moves a version from running to passed or failed.
LEMMA EndIsConcourseStep ==
  ASSUME NEW j, NEW v, v \in running[j], End(j, v) \/ Break(j, v)
  PROVE  ConcourseStep(j, v)
BY DEF End, Succeed, Break, ConcourseStep

\* Every step of a job moves versions of that job only.
LEMMA StepIsConcourseStep ==
  ASSUME NEW j \in Jobs, StepOf(j)
  PROVE  \E v \in Releases : ConcourseStep(j, v)
<1>1. PICK v \in Releases :
        \/ j = "create" /\ CreateJob(v)
        \/ j = "build" /\ BuildJob(v)
        \/ j \in CopyStacks /\ CopyJob(j, v)
        \/ j \in Buildpacks /\ UpdateJob(j, v)
        \/ j = "accept" /\ AcceptJob(v)
        \/ Fail(j, v)
  BY DEF StepOf
<1>2. CASE j = "create" /\ CreateJob(v)
  BY <1>2, EndIsConcourseStep
  DEF CreateJob, StartCreate, CreateStory, RecordStory, ConcourseStep, concourse
<1>3. CASE j = "build" /\ BuildJob(v)
  BY <1>3, EndIsConcourseStep
  DEF BuildJob, StartBuild, PutArtifact, PutMetadata, FinishBuild, ConcourseStep,
      concourse
<1>4. CASE j \in CopyStacks /\ CopyJob(j, v)
  BY <1>4, EndIsConcourseStep DEF CopyJob, StartCopy, PutCopy, ConcourseStep
<1>5. CASE j \in Buildpacks /\ UpdateJob(j, v)
  BY <1>5, EndIsConcourseStep
  DEF UpdateJob, StartUpdate, MergePullRequest, ConflictPullRequest, ConcourseStep
<1>6. CASE j = "accept" /\ AcceptJob(v)
  BY <1>6, EndIsConcourseStep DEF AcceptJob, StartAccept, AcceptStory, ConcourseStep
<1>7. CASE Fail(j, v)
  BY <1>7, EndIsConcourseStep DEF Fail
<1> QED
  BY <1>1, <1>2, <1>3, <1>4, <1>5, <1>6, <1>7

\* The other jobs' builds are untouched.
LEMMA OtherJobs ==
  ASSUME TypeOK, NEW j \in Jobs, NEW i \in Jobs, i # j, StepOf(j)
  PROVE  UNCHANGED <<running[i], passed[i], failed[i]>>
<1>1. PICK v \in Releases : ConcourseStep(j, v)
  BY StepIsConcourseStep
<1>2. /\ running \in [Jobs -> SUBSET Releases]
      /\ passed \in [Jobs -> SUBSET Releases]
      /\ failed \in [Jobs -> SUBSET Releases]
  BY DEF TypeOK
<1> QED
  BY <1>1, <1>2 DEF ConcourseStep, Start

\* The state only one job writes.
LEMMA OtherState ==
  ASSUME TypeOK, NEW j \in Jobs, StepOf(j)
  PROVE  /\ j # "create" => UNCHANGED <<storyOf, newStory>>
         /\ j # "build" => UNCHANGED <<builds, puts, uploaded>>
         /\ j \notin {"build"} \cup CopyStacks => UNCHANGED meta
         /\ j \notin CopyStacks => UNCHANGED copied
         /\ j # "accept" => UNCHANGED <<accepted, accepting>>
         /\ \A b \in Buildpacks \ {j} : UNCHANGED <<develop[b], pr[b]>>
<1> USE DistinctJobs
    DEF concourse, tracker, repo, bucket, manifests, locals, bounds
<1>1. PICK v \in Releases :
        \/ j = "create" /\ CreateJob(v)
        \/ j = "build" /\ BuildJob(v)
        \/ j \in CopyStacks /\ CopyJob(j, v)
        \/ j \in Buildpacks /\ UpdateJob(j, v)
        \/ j = "accept" /\ AcceptJob(v)
        \/ Fail(j, v)
  BY DEF StepOf
<1>2. CASE j = "create" /\ CreateJob(v)
  BY <1>2 DEF CreateJob, StartCreate, CreateStory, RecordStory
<1>3. CASE j = "build" /\ BuildJob(v)
  BY <1>3 DEF BuildJob, StartBuild, PutArtifact, PutMetadata, FinishBuild
<1>4. CASE j \in CopyStacks /\ CopyJob(j, v)
  BY <1>4 DEF CopyJob, StartCopy, PutCopy
<1>5. CASE j \in Buildpacks /\ UpdateJob(j, v)
  <2>1. UNCHANGED <<tracker, repo, bucket, newStory, puts, copied, accepting>>
    BY <1>5 DEF UpdateJob, StartUpdate, MergePullRequest, ConflictPullRequest
  <2>2. \A b \in Buildpacks \ {j} : UNCHANGED develop[b]
    BY <1>5
    DEF TypeOK, UpdateJob, StartUpdate, MergePullRequest, ConflictPullRequest
  <2>3. \A b \in Buildpacks \ {j} : UNCHANGED pr[b]
    BY <1>5
    DEF TypeOK, UpdateJob, StartUpdate, MergePullRequest, ConflictPullRequest
  <2> QED
    BY <1>5, <2>1, <2>2, <2>3
<1>6. CASE j = "accept" /\ AcceptJob(v)
  BY <1>6 DEF AcceptJob, StartAccept, AcceptStory
<1>7. CASE Fail(j, v)
  <2>1. \A b \in Buildpacks \ {j} : UNCHANGED pr[b]
    BY <1>7 DEF TypeOK, Fail
  <2> QED
    BY <1>7, <2>1 DEF Fail
<1> QED
  BY <1>1, <1>2, <1>3, <1>4, <1>5, <1>6, <1>7

-----------------------------------------------------------------------------
(***************************************************************************)
(* The order of the jobs.                                                  *)
(***************************************************************************)

\* `passed` constraints, spelled out.
LEMMA UpstreamOf ==
  /\ Upstream("create") = {}
  /\ Upstream("build") = {"create"}
  /\ \A c \in CopyStacks : Upstream(c) = {"build"}
  /\ \A b \in Buildpacks :
       Upstream(b) = IF CopyStacks = {} THEN {"build"} ELSE CopyStacks
  /\ Upstream("accept") = Buildpacks
BY DistinctJobs DEF Upstream

\* `passed` names jobs of the pipeline.
LEMMA UpstreamJobs == \A j \in Jobs : Upstream(j) \subseteq Jobs
BY UpstreamOf, JobNames DEF Jobs

\* `passed` constraints order the jobs, whatever fails or is re-triggered.
LEMMA OrderedNext == TypeOK /\ Ordered /\ [Next]_vars => Ordered'
<1> SUFFICES ASSUME TypeOK, Ordered, [Next]_vars PROVE Ordered'
  OBVIOUS
<1>1. CASE Environment
  BY <1>1 DEF Environment, Ordered, Used
<1>2. ASSUME NEW j \in Jobs, StepOf(j) PROVE Ordered'
  <2>1. PICK v \in Releases : ConcourseStep(j, v)
    BY <1>2, StepIsConcourseStep
  <2>2. /\ running \in [Jobs -> SUBSET Releases]
        /\ passed \in [Jobs -> SUBSET Releases]
        /\ failed \in [Jobs -> SUBSET Releases]
    BY DEF TypeOK
  <2>3. \A u \in Jobs : passed[u] \subseteq passed'[u]
    BY <2>1, <2>2 DEF ConcourseStep, Start
  <2>4. \A i \in Jobs \ {j} : Used(i)' = Used(i)
    BY <2>1, <2>2 DEF ConcourseStep, Start, Used
  <2>5. \A u \in Upstream(j) : Used(j)' \subseteq passed[u]
    <3>1. CASE Start(j, v)
      <4>1. Used(j)' = Used(j) \cup {v}
        BY <3>1, <2>2 DEF Start, Used
      <4>2. \A u \in Upstream(j) : v \in passed[u]
        BY <3>1 DEF Start, Triggered, Retriggered, Available, Ordered
      <4> QED
        BY <4>1, <4>2 DEF Ordered
    <3>2. CASE ~Start(j, v)
      BY <2>1, <2>2, <3>2 DEF ConcourseStep, Used, Ordered
    <3> QED
      BY <3>1, <3>2
  <2> QED
    BY <2>3, <2>4, <2>5, UpstreamJobs DEF Ordered
<1> QED
  BY <1>1, <1>2, StepCases

\* What the order says of updates and accepts.
LEMMA UpdatesFollowBuilds ==
  ASSUME Ordered, NEW b \in Buildpacks
  PROVE  Used(b) \subseteq passed["build"]
<1>1. CASE CopyStacks = {}
  BY <1>1, UpstreamOf, JobNames DEF Ordered
<1>2. CASE CopyStacks # {}
  <2>1. PICK c \in CopyStacks : TRUE
    BY <1>2
  <2>2. Used(b) \subseteq passed[c]
    BY <1>2, <2>1, UpstreamOf, JobNames DEF Ordered
  <2>3. Used(c) \subseteq passed["build"]
    BY <2>1, UpstreamOf, JobNames DEF Ordered
  <2> QED
    BY <2>2, <2>3 DEF Used
<1> QED
  BY <1>1, <1>2

\* A version in the accept job has passed the updates of every buildpack.
LEMMA AcceptsFollowUpdates ==
  ASSUME Ordered, NEW b \in Buildpacks
  PROVE  Used("accept") \subseteq passed[b]
BY UpstreamOf, JobNames DEF Ordered

\* A version in any later job has passed create.
LEMMA AllFollowCreate ==
  ASSUME Ordered, NEW j \in Jobs \ {"create"}
  PROVE  Used(j) \subseteq passed["create"]
<1>1. Used("build") \subseteq passed["create"]
  BY UpstreamOf, JobNames DEF Ordered
<1>2. \A c \in CopyStacks : Used(c) \subseteq passed["build"]
  BY UpstreamOf, JobNames DEF Ordered
<1>3. \A b \in Buildpacks : Used(b) \subseteq passed["create"]
  BY <1>1, UpdatesFollowBuilds DEF Used
<1>4. Used("accept") \subseteq passed["create"]
  BY <1>3, AcceptsFollowUpdates, BuildpackAssumption DEF Used
<1> QED
  BY <1>1, <1>2, <1>3, <1>4 DEF Jobs, Used

\* `serial: true`: one update job has one build at a time.
LEMMA RunsAloneNext == TypeOK /\ RunsAlone /\ [Next]_vars => RunsAlone'
<1> SUFFICES ASSUME TypeOK, RunsAlone, [Next]_vars PROVE RunsAlone'
  OBVIOUS
<1>1. CASE Environment
  BY <1>1 DEF Environment, RunsAlone
<1>2. ASSUME NEW j \in Jobs, StepOf(j) PROVE RunsAlone'
  <2>1. PICK v \in Releases : ConcourseStep(j, v)
    BY <1>2, StepIsConcourseStep
  <2>2. running \in [Jobs -> SUBSET Releases]
    BY DEF TypeOK
  <2>3. CASE Start(j, v)
    <3>1. j \in Buildpacks => \A w \in running[j] : ~SameJobs(v, w)
      BY <2>3, DistinctJobs DEF Start, Idle
    <3>2. \A w \in Releases : SameJobs(w, v) => SameJobs(v, w)
      BY DEF SameJobs
    <3> QED
      BY <2>2, <2>3, <3>1, <3>2, JobNames DEF Start, RunsAlone
  <2>4. CASE ~Start(j, v)
    BY <2>1, <2>2, <2>4, JobNames DEF ConcourseStep, RunsAlone
  <2> QED
    BY <2>3, <2>4
<1> QED
  BY <1>1, <1>2, StepCases

-----------------------------------------------------------------------------
(***************************************************************************)
(* The files of the builds repository.                                     *)
(***************************************************************************)

\* A recorded story is overwritten but never deleted (create.rb).
LEMMA RecordedStoriesNext ==
  TypeOK /\ RecordedStories /\ [Next]_vars => RecordedStories'
<1> SUFFICES ASSUME TypeOK, RecordedStories, [Next]_vars PROVE RecordedStories'
  OBVIOUS
<1>1. CASE Environment
  BY <1>1 DEF Environment, RecordedStories, repo
<1>2. ASSUME NEW j \in Jobs, StepOf(j), j # "create" PROVE RecordedStories'
  BY <1>2, OtherJobs, OtherState, JobNames DEF RecordedStories
<1>3. ASSUME NEW v \in Releases, CreateJob(v) PROVE RecordedStories'
  <2>1. CASE StartCreate(v) \/ CreateStory(v)
    BY <2>1
    DEF StartCreate, CreateStory, Start, RecordedStories, repo, concourse
  <2>2. CASE RecordStory(v)
    <3>1. passed["create"]' \subseteq passed["create"] \cup {v}
      BY <2>2, JobNames DEF RecordStory, End, Succeed, Break, TypeOK
    <3>2. /\ storyOf'[v] # 0
          /\ \A w \in Releases \ {v} : storyOf'[w] = storyOf[w]
      BY <2>2 DEF RecordStory, TypeOK
    <3>3. passed["create"] \subseteq Releases
      BY JobNames DEF TypeOK
    <3> QED
      BY <3>1, <3>2, <3>3 DEF RecordedStories
  <2> QED
    BY <1>3, <2>1, <2>2 DEF CreateJob
<1>4. ASSUME NEW v \in Releases, Fail("create", v) PROVE RecordedStories'
  BY <1>4 DEF Fail, Break, RecordedStories, repo
<1> QED
  BY <1>1, <1>2, <1>3, <1>4, StepCases, DistinctJobs DEF StepOf

\* The metadata of a build stack is the build job's.
LEMMA BuiltMetadata ==
  ASSUME TypeOK, NEW j \in Jobs, StepOf(j), j # "build"
  PROVE  \A w \in Releases, s \in BuildStacks : meta'[w][s] = meta[w][s]
<1>1. CASE j \notin CopyStacks
  BY <1>1, OtherState
<1>2. CASE j \in CopyStacks
  <2>1. j \notin BuildStacks
    BY <1>2, JobNamesAssumption
  <2>2. PICK v \in Releases : CopyJob(j, v) \/ Fail(j, v)
    BY <1>2, DistinctJobs DEF StepOf
  <2>3. meta \in [Releases -> [BuildStacks \cup CopyStacks -> 0..MaxAttempts]]
    BY DEF TypeOK
  <2> QED
    BY <1>2, <2>1, <2>2, <2>3 DEF CopyJob, StartCopy, PutCopy, Fail, repo
<1> QED
  BY <1>1, <1>2

\* Metadata, once pushed, is overwritten but never deleted (build job).
LEMMA DescribedBuildsNext ==
  TypeOK /\ DescribedBuilds /\ DescribedCopies /\ [Next]_vars => DescribedBuilds'
<1> SUFFICES ASSUME TypeOK, DescribedBuilds, DescribedCopies, [Next]_vars
             PROVE  DescribedBuilds'
  OBVIOUS
<1>0. /\ running \in [Jobs -> SUBSET Releases]
      /\ passed \in [Jobs -> SUBSET Releases]
      /\ builds \in [Releases -> 0..MaxAttempts]
      /\ puts \in [Releases -> SUBSET (BuildStacks \X {"bucket", "metadata"})]
      /\ meta \in [Releases -> [BuildStacks \cup CopyStacks -> 0..MaxAttempts]]
  BY DEF TypeOK
<1>1. CASE Environment
  BY <1>1 DEF Environment, DescribedBuilds, repo, bucket, locals
<1>2. ASSUME NEW j \in Jobs, StepOf(j), j # "build" PROVE DescribedBuilds'
  <2>1. UNCHANGED <<running["build"], passed["build"], builds, puts>>
    BY <1>2, OtherJobs, OtherState, JobNames
  <2> QED
    BY <1>2, <2>1, BuiltMetadata DEF DescribedBuilds
<1>4. ASSUME NEW v \in Releases, StartBuild(v) PROVE DescribedBuilds'
  <2>1. /\ builds'[v] # 0
        /\ \A w \in Releases \ {v} : builds'[w] = builds[w]
    BY <1>0, <1>4, MaxAttemptsType DEF StartBuild
  <2>2. running'["build"] = running["build"] \cup {v}
    BY <1>0, <1>4, JobNames DEF StartBuild, Start
  <2>3. UNCHANGED <<passed, puts, meta>>
    BY <1>4 DEF StartBuild, Start, repo, locals
  <2> QED
    BY <2>1, <2>2, <2>3 DEF DescribedBuilds
<1>5. ASSUME NEW v \in Releases, NEW s \in BuildStacks, PutArtifact(v, s)
      PROVE  DescribedBuilds'
  <2>1. UNCHANGED <<running, passed, builds, meta>>
    BY <1>5 DEF PutArtifact, concourse, repo
  <2>2. \A w \in Releases, t \in BuildStacks :
          <<t, "metadata">> \in puts'[w] => <<t, "metadata">> \in puts[w]
    BY <1>0, <1>5 DEF PutArtifact
  <2> QED
    BY <2>1, <2>2 DEF DescribedBuilds
<1>6. ASSUME NEW v \in Releases, NEW s \in BuildStacks, PutMetadata(v, s)
      PROVE  DescribedBuilds'
  <2>1. UNCHANGED <<running, passed, builds>>
    BY <1>6 DEF PutMetadata, concourse, bucket
  <2>2. \A w \in Releases, t \in BuildStacks :
          \/ w = v /\ t = s
          \/ /\ <<t, "metadata">> \in puts'[w] => <<t, "metadata">> \in puts[w]
             /\ meta'[w][t] = meta[w][t]
    BY <1>0, <1>6 DEF PutMetadata
  <2>3. meta'[v][s] # 0
    BY <1>0, <1>6 DEF PutMetadata, DescribedBuilds
  <2> QED
    BY <2>1, <2>2, <2>3 DEF DescribedBuilds
<1>7. ASSUME NEW v \in Releases, FinishBuild(v) PROVE DescribedBuilds'
  <2>1. UNCHANGED <<builds, meta>>
    BY <1>7 DEF FinishBuild, repo, bucket
  <2>2. /\ running'["build"] \subseteq running["build"]
        /\ passed'["build"] \subseteq passed["build"] \cup {v}
    BY <1>0, <1>7, JobNames DEF FinishBuild, End, Succeed, Break
  <2>3. /\ \A s \in BuildStacks : meta[v][s] # 0
        /\ \A w \in Releases : puts'[w] \subseteq puts[w]
    BY <1>0, <1>7 DEF FinishBuild, DescribedBuilds
  <2> QED
    BY <2>1, <2>2, <2>3 DEF DescribedBuilds
<1>8. ASSUME NEW v \in Releases, Fail("build", v) PROVE DescribedBuilds'
  <2>1. UNCHANGED <<builds, meta, passed>>
    BY <1>8 DEF Fail, Break, repo, bucket
  <2>2. running'["build"] \subseteq running["build"]
    BY <1>0, <1>8, JobNames DEF Fail, Break
  <2>3. \A w \in Releases : puts'[w] \subseteq puts[w]
    BY <1>0, <1>8 DEF Fail
  <2> QED
    BY <2>1, <2>2, <2>3 DEF DescribedBuilds
<1> QED
  BY <1>1, <1>2, <1>4, <1>5, <1>6, <1>7, <1>8, StepCases, DistinctJobs
  DEF StepOf, BuildJob

\* The same for the metadata of the copy jobs (repackage-dependency).
LEMMA DescribedCopiesNext ==
  TypeOK /\ DescribedBuilds /\ DescribedCopies /\ [Next]_vars => DescribedCopies'
<1> SUFFICES ASSUME TypeOK, DescribedBuilds, DescribedCopies, [Next]_vars
             PROVE  DescribedCopies'
  OBVIOUS
<1>0. /\ running \in [Jobs -> SUBSET Releases]
      /\ passed \in [Jobs -> SUBSET Releases]
      /\ meta \in [Releases -> [BuildStacks \cup CopyStacks -> 0..MaxAttempts]]
      /\ copied \in [CopyStacks -> [Releases -> 0..MaxAttempts]]
  BY DEF TypeOK
<1>1. CASE Environment
  BY <1>1 DEF Environment, DescribedCopies, repo
<1>2. ASSUME NEW j \in Jobs, StepOf(j), j # "build", j \notin CopyStacks
      PROVE  DescribedCopies'
  BY <1>2, OtherJobs, OtherState, JobNames DEF DescribedCopies
<1>3. ASSUME StepOf("build") PROVE DescribedCopies'
  <2>1. \A c \in CopyStacks : passed'[c] = passed[c]
    BY <1>3, OtherJobs, JobNames, DistinctJobs
  <2>2. \A w \in Releases, c \in CopyStacks : meta'[w][c] = meta[w][c]
    <3>1. PICK v \in Releases : BuildJob(v) \/ Fail("build", v)
      BY <1>3, DistinctJobs DEF StepOf
    <3>2. CASE \E s \in BuildStacks : PutMetadata(v, s)
      <4>1. PICK s \in BuildStacks : PutMetadata(v, s)
        BY <3>2
      <4>2. s \notin CopyStacks
        BY JobNamesAssumption
      <4> QED
        BY <1>0, <4>1, <4>2 DEF PutMetadata
    <3>3. CASE ~\E s \in BuildStacks : PutMetadata(v, s)
      BY <3>1, <3>3
      DEF BuildJob, StartBuild, PutArtifact, FinishBuild, Fail, repo
    <3> QED
      BY <3>2, <3>3
  <2>3. \A c \in CopyStacks : passed[c] \subseteq Releases
    BY <1>0, JobNames
  <2> QED
    BY <2>1, <2>2, <2>3 DEF DescribedCopies
<1>4. ASSUME NEW c \in CopyStacks, NEW v \in Releases, CopyJob(c, v) \/ Fail(c, v)
      PROVE  DescribedCopies'
  <2>1. CASE StartCopy(c, v) \/ Fail(c, v)
    BY <2>1 DEF StartCopy, Start, Fail, Break, DescribedCopies, repo
  <2>2. CASE PutCopy(c, v)
    <3>1. \A d \in CopyStacks, w \in Releases :
            \/ d = c /\ w = v /\ meta'[w][d] # 0
            \/ meta'[w][d] = meta[w][d]
      BY <1>0, <2>2 DEF PutCopy
    <3>2. \A d \in CopyStacks : passed'[d] \subseteq passed[d]
                                   \cup IF d = c THEN {v} ELSE {}
      BY <1>0, <2>2, JobNames DEF PutCopy, End, Succeed, Break
    <3>3. meta'[v][c] # 0
      BY <1>0, <2>2 DEF PutCopy
    <3>4. \A d \in CopyStacks : passed[d] \subseteq Releases
      BY <1>0, JobNames
    <3> QED
      BY <3>1, <3>2, <3>3, <3>4 DEF DescribedCopies
  <2> QED
    BY <1>4, <2>1, <2>2 DEF CopyJob
<1> QED
  BY <1>1, <1>2, <1>3, <1>4, StepCases, DistinctJobs DEF StepOf

\* An accept build has read a recorded story (accept.rb).
LEMMA OpenedFilesNext ==
  TypeOK /\ Ordered /\ RecordedStories /\ OpenedFiles /\ [Next]_vars
    => OpenedFiles'
<1> SUFFICES ASSUME TypeOK, Ordered, RecordedStories, OpenedFiles, [Next]_vars
             PROVE  OpenedFiles'
  OBVIOUS
<1>0. /\ running \in [Jobs -> SUBSET Releases]
      /\ accepting \in [Releases -> 0..MaxAttempts]
  BY DEF TypeOK
<1>1. CASE Environment
  BY <1>1 DEF Environment, OpenedFiles, locals
<1>2. ASSUME NEW j \in Jobs, StepOf(j), j # "accept" PROVE OpenedFiles'
  BY <1>2, OtherJobs, OtherState, JobNames DEF OpenedFiles
<1>3. ASSUME NEW v \in Releases, StartAccept(v) PROVE OpenedFiles'
  <2>1. running'["accept"] = running["accept"] \cup {v}
    BY <1>0, <1>3, JobNames DEF StartAccept, Start
  <2>2. v \in passed["create"]
    <3>1. v \in Used("accept") \/ v \in Available("accept")
      BY <1>3 DEF StartAccept, Start, Triggered, Retriggered
    <3>2. \A b \in Buildpacks : v \in passed[b]
      BY <3>1, AcceptsFollowUpdates, UpstreamOf DEF Available
    <3>3. \A b \in Buildpacks : passed[b] \subseteq passed["create"]
      BY AllFollowCreate, JobNames, DistinctJobs DEF Used
    <3> QED
      BY <3>2, <3>3, BuildpackAssumption
  <2>3. accepting' = [accepting EXCEPT ![v] = storyOf[v]]
    BY <1>3 DEF StartAccept
  <2> QED
    BY <1>0, <2>1, <2>2, <2>3, JobNames DEF OpenedFiles, RecordedStories
<1>4. ASSUME NEW v \in Releases, AcceptStory(v) \/ Fail("accept", v)
      PROVE  OpenedFiles'
  <2>1. running'["accept"] = running["accept"] \ {v}
    BY <1>0, <1>4, JobNames DEF AcceptStory, End, Succeed, Fail, Break
  <2>2. accepting' = [accepting EXCEPT ![v] = 0]
    BY <1>4 DEF AcceptStory, Fail
  <2> QED
    BY <1>0, <2>1, <2>2, JobNames DEF OpenedFiles
<1> QED
  BY <1>1, <1>2, <1>3, <1>4, StepCases, DistinctJobs DEF StepOf, AcceptJob

\* accept.rb runs for versions that every update job has passed.
LEMMA AcceptedIsMergedNext ==
  TypeOK /\ Ordered /\ AcceptedIsMerged /\ [Next]_vars => AcceptedIsMerged'
<1> SUFFICES ASSUME TypeOK, Ordered, AcceptedIsMerged, [Next]_vars
             PROVE  AcceptedIsMerged'
  OBVIOUS
<1>1. CASE Environment
  BY <1>1 DEF Environment, AcceptedIsMerged, tracker
<1>2. ASSUME NEW j \in Jobs, StepOf(j) PROVE AcceptedIsMerged'
  <2>1. \A b \in Buildpacks : passed[b] \subseteq passed'[b]
    <3>1. PICK v \in Releases : ConcourseStep(j, v)
      BY <1>2, StepIsConcourseStep
    <3> QED
      BY <3>1, JobNames DEF ConcourseStep, Start, TypeOK
  <2>2. CASE j # "accept"
    BY <1>2, <2>1, <2>2, OtherState DEF AcceptedIsMerged
  <2>3. CASE j = "accept"
    <3>1. PICK v \in Releases : AcceptJob(v) \/ Fail("accept", v)
      BY <1>2, <2>3, DistinctJobs DEF StepOf
    <3>2. CASE StartAccept(v) \/ Fail("accept", v)
      BY <2>1, <3>2 DEF StartAccept, Fail, AcceptedIsMerged, tracker
    <3>3. CASE AcceptStory(v)
      <4>1. \A b \in Buildpacks : v \in passed[b]
        BY <3>3, AcceptsFollowUpdates DEF AcceptStory, Used
      <4>2. \A story \in accepted' : story \in accepted \/ story[1] = v
        BY <3>3 DEF AcceptStory
      <4> QED
        BY <2>1, <4>1, <4>2 DEF AcceptedIsMerged
    <3> QED
      BY <3>1, <3>2, <3>3 DEF AcceptJob
  <2> QED
    BY <2>2, <2>3
<1> QED
  BY <1>1, <1>2, StepCases

-----------------------------------------------------------------------------
(***************************************************************************)
(* What an update does to a manifest.                                      *)
(***************************************************************************)

\* An entry has a version of the order's domain and serves one build stack.
LEMMA EntryTypes ==
  ASSUME NEW d \in Entries
  PROVE  /\ d.version \in VersionRecords
         /\ \E s \in BuildStacks : d.stacks = {s}
BY VersionAssumption DEF Entries

\* Sharing a line (same_dependency_line?) is an equivalence on versions.
LEMMA LineEquivalence ==
  /\ \A v : SameVersionLine(v, v)
  /\ \A v, w : SameVersionLine(v, w) => SameVersionLine(w, v)
  /\ \A u, v, w : SameVersionLine(u, v) /\ SameVersionLine(v, w)
                    => SameVersionLine(u, w)
BY SameLineEquivalence, VersionAssumption DEF SameVersionLine

\* Every entry covers itself.
LEMMA CoversItself ==
  ASSUME NEW d \in Entries
  PROVE  Covers(d, d)
BY EntryTypes, LineEquivalence, NewerOrder DEF Covers

\* Covering is transitive, so losses cannot add up over several merges.
LEMMA CoversTransitive ==
  ASSUME NEW d \in Entries, NEW e \in Entries, NEW f \in Entries,
         Covers(f, e), Covers(e, d)
  PROVE  Covers(f, d)
BY EntryTypes, LineEquivalence, NewerOrder DEF Covers

\* An entry that covers one that carries v carries v.
LEMMA CarriesKept ==
  ASSUME NEW deps \in SUBSET Entries, NEW new \in SUBSET Entries,
         NEW w \in Releases, Carries(deps, w),
         \A d \in deps : \E e \in new : Covers(e, d)
  PROVE  Carries(new, w)
<1> SUFFICES ASSUME NEW s \in BuildStacks
             PROVE  \E e \in new : /\ e.stacks = {s}
                                   /\ SameVersionLine(e.version, w)
                                   /\ ~Newer(w, e.version)
  BY DEF Carries
<1>1. PICK d \in deps : /\ d.stacks = {s}
                        /\ SameVersionLine(d.version, w)
                        /\ ~Newer(w, d.version)
  BY DEF Carries
<1>2. PICK e \in new : Covers(e, d)
  OBVIOUS
<1>3. e.stacks = {s} /\ SameVersionLine(e.version, w)
  BY <1>1, <1>2, LineEquivalence DEF Covers
<1>4. ~Newer(w, e.version)
  <2>1. /\ w \in VersionRecords /\ d.version \in VersionRecords
        /\ e.version \in VersionRecords
    BY EntryTypes, VersionAssumption
  <2> QED
    BY <1>1, <1>2, <2>1, NewerOrder DEF Covers
<1> QED
  BY <1>3, <1>4

\* The loop over the metadata files, all of them there: what it removes and
\* adds is of the line of v, nothing gets worse, v is carried, and without
\* keep_latest_released only the entries just built are added.
LEMMA SwitchedFits ==
  ASSUME TypeOK, NEW v \in Releases, BuiltStacks(v) = BuildStacks,
         NEW deps \in SUBSET Entries, NEW rel \in SUBSET Entries,
         NEW new, new = Switched(v, deps, rel)
  PROVE  /\ Improves(v, deps, new) /\ BuiltOrCarried(v, deps, new)
         /\ Strategy # "keep_latest_released" /\ VersionsOnceIn(deps)
              => Replaces(v, deps, new)
<1> DEFINE Turn(s) == Switch(LineType, Strategy, BuiltEntry(v, s),
                             OnStack(deps, s), OnStack(rel, s))
<1>1. new = UNION {Turn(s) : s \in BuildStacks}
  BY DEF Switched
<1>2. ASSUME NEW s \in BuildStacks
      PROVE  BuiltEntry(v, s).version = v /\ BuiltEntry(v, s).stacks = {s}
  BY DEF BuiltEntry
<1>3. ASSUME NEW s \in BuildStacks, NEW e \in Turn(s) \ OnStack(deps, s)
      PROVE  SameVersionLine(e.version, v)
  <2>1. \/ e = BuiltEntry(v, s)
        \/ e \in Matching(LineType, BuiltEntry(v, s), OnStack(rel, s))
    BY <1>3, SwitchAdds
  <2> QED
    BY <2>1, <1>2, LineEquivalence DEF Matching, SameDependencyLine, SameVersionLine
<1>4. ASSUME NEW s \in BuildStacks, NEW d \in OnStack(deps, s) \ Turn(s)
      PROVE  /\ SameVersionLine(d.version, v)
             /\ BuiltEntry(v, s) \in Turn(s)
             /\ Covers(BuiltEntry(v, s), d)
  <2>1. /\ d \in Matching(LineType, BuiltEntry(v, s), OnStack(deps, s))
        /\ BuiltEntry(v, s) \in Turn(s)
        /\ d.version = v \/ Newer(v, d.version)
    <3>1. /\ d \in Matching(LineType, BuiltEntry(v, s), OnStack(deps, s))
          /\ BuiltEntry(v, s) \in Turn(s)
          /\ \/ d.version = BuiltEntry(v, s).version
             \/ Newer(BuiltEntry(v, s).version, d.version)
      BY <1>4, SwitchRemoves
    <3> QED
      BY <3>1, <1>2
  <2>2. SameVersionLine(d.version, v) /\ d.stacks = {s}
    BY <2>1, <1>2
    DEF Matching, SameDependencyLine, SameVersionLine, OnStack
  <2>3. ~Newer(d.version, v)
    <3>1. d.version \in VersionRecords /\ v \in VersionRecords
      BY EntryTypes, VersionAssumption DEF OnStack
    <3> QED
      BY <2>1, <3>1, NewerOrder
  <2> QED
    BY <2>1, <2>2, <2>3, <1>2, LineEquivalence DEF Covers
<1>5. ASSUME NEW d \in deps
      PROVE  \E s \in BuildStacks : d \in OnStack(deps, s)
  BY EntryTypes DEF OnStack
<1>6. deps \ new \subseteq OnLine(deps, v)
  BY <1>1, <1>4, <1>5 DEF OnLine
<1>7. new \ deps \subseteq OnLine(new, v)
  <2> SUFFICES ASSUME NEW e \in new \ deps PROVE SameVersionLine(e.version, v)
    BY DEF OnLine
  <2>1. PICK s \in BuildStacks : e \in Turn(s)
    BY <1>1
  <2>2. e \notin OnStack(deps, s)
    BY DEF OnStack
  <2> QED
    BY <2>1, <2>2, <1>3
<1>8. ASSUME NEW d \in deps PROVE \E e \in new : Covers(e, d)
  <2>1. PICK s \in BuildStacks : d \in OnStack(deps, s)
    BY <1>5
  <2>2. CASE d \in Turn(s)
    BY <2>2, <1>1, CoversItself
  <2>3. CASE d \notin Turn(s)
    BY <2>1, <2>3, <1>1, <1>4
  <2> QED
    BY <2>2, <2>3
<1>9. ASSUME NEW s \in BuildStacks
      PROVE  \/ BuiltEntry(v, s) \in new
             \/ \E e \in deps \cap new : /\ e.stacks = {s}
                                       /\ SameVersionLine(e.version, v)
                                       /\ ~Newer(v, e.version)
  <2>1. CASE BuiltEntry(v, s) \in Turn(s)
    BY <1>1, <2>1
  <2>2. CASE BuiltEntry(v, s) \notin Turn(s)
    <3>1. /\ Turn(s) = OnStack(deps, s)
          /\ \E d \in Matching(LineType, BuiltEntry(v, s), OnStack(deps, s)) :
               ~Newer(BuiltEntry(v, s).version, d.version)
      BY <2>2, SwitchCarries
    <3>2. PICK d \in OnStack(deps, s) :
            SameVersionLine(d.version, v) /\ ~Newer(v, d.version)
      BY <3>1, <1>2 DEF Matching, SameDependencyLine, SameVersionLine
    <3>3. d \in deps \cap new /\ d.stacks = {s}
      BY <3>1, <3>2, <1>1 DEF OnStack
    <3> QED
      BY <3>2, <3>3
  <2> QED
    BY <2>1, <2>2
<1>10. ASSUME Strategy # "keep_latest_released", VersionsOnceIn(deps)
       PROVE  Replaces(v, deps, new)
  <2>1. ASSUME NEW s \in BuildStacks, NEW e \in Turn(s)
        PROVE  e \in OnStack(deps, s) \/ e = BuiltEntry(v, s)
    BY <1>10, <2>1, SwitchAddsBuilt
  <2>2. ASSUME NEW s \in BuildStacks, NEW d \in OnStack(deps, s), d.version = v
        PROVE  /\ d # BuiltEntry(v, s) => d \notin Turn(s)
               /\ \A e \in OnStack(deps, s) \ Turn(s) : e.version = v
               /\ BuiltEntry(v, s) \in Turn(s)
    <3>1. d \in Matching(LineType, BuiltEntry(v, s), OnStack(deps, s))
      BY <1>2, <2>2, LineEquivalence
      DEF Matching, SameDependencyLine, SameVersionLine, OnStack
    <3>2. Turn(s) = (OnStack(deps, s)
                       \ {e \in Matching(LineType, BuiltEntry(v, s), OnStack(deps, s)) :
                            e.version = v}) \cup {BuiltEntry(v, s)}
      BY <1>2, <2>2, <3>1, SwitchRebuilds
    <3> QED
      BY <2>2, <3>1, <3>2
  <2>3. ASSUME NEW e \in new \ deps
        PROVE  \E s \in BuildStacks : e = BuiltEntry(v, s)
    <3>1. PICK s \in BuildStacks : e \in Turn(s)
      BY <1>1
    <3>2. e \notin OnStack(deps, s)
      BY DEF OnStack
    <3> QED
      BY <2>1, <3>1, <3>2
  <2>4. ASSUME NEW d \in deps \ new
        PROVE  \E e \in new \ deps : Covers(e, d)
    <3>1. PICK s \in BuildStacks : d \in OnStack(deps, s) \ Turn(s)
      BY <1>1, <1>5
    <3>2. BuiltEntry(v, s) \in new /\ Covers(BuiltEntry(v, s), d)
      BY <1>1, <1>4, <3>1
    <3>3. BuiltEntry(v, s) \notin deps
      <4> SUFFICES ASSUME BuiltEntry(v, s) \in deps PROVE FALSE
        OBVIOUS
      <4>1. BuiltEntry(v, s) \in OnStack(deps, s)
        BY <1>2 DEF OnStack
      <4>2. d.version = v /\ BuiltEntry(v, s) \in Turn(s)
        BY <1>2, <2>2, <3>1, <4>1
      <4>3. d = BuiltEntry(v, s)
        BY <1>2, <1>10, <3>1, <4>2 DEF VersionsOnceIn, OnStack
      <4> QED
        BY <3>1, <4>2, <4>3
    <3> QED
      BY <3>2, <3>3
  <2>5. ASSUME NEW e \in new \ deps, NEW d \in deps \cap new,
               d.stacks = e.stacks, d.version = v
        PROVE  FALSE
    <3>1. PICK s \in BuildStacks : e = BuiltEntry(v, s)
      BY <2>3
    <3>2. d \in OnStack(deps, s) /\ d # e
      BY <1>2, <2>5, <3>1 DEF OnStack
    <3>3. d \notin Turn(s)
      BY <2>2, <2>5, <3>1, <3>2
    <3>4. PICK t \in BuildStacks : d \in Turn(t)
      BY <1>1
    <3>5. d.stacks = {t}
      BY <1>2, <2>1, <3>4 DEF OnStack
    <3> QED
      BY <1>2, <2>5, <3>1, <3>3, <3>4, <3>5
  <2>6. ASSUME NEW e \in new \ deps, NEW f \in new \ deps, e.stacks = f.stacks
        PROVE  e = f
    <3>1. PICK s \in BuildStacks : e = BuiltEntry(v, s)
      BY <2>3
    <3>2. PICK t \in BuildStacks : f = BuiltEntry(v, t)
      BY <2>3
    <3> QED
      BY <1>2, <2>6, <3>1, <3>2
  <2>7. \A e \in new \ deps : e.version = v
    BY <1>2, <2>3
  <2> QED
    BY <2>4, <2>5, <2>6, <2>7 DEF Replaces
<1> QED
  BY <1>6, <1>7, <1>8, <1>9, <1>10 DEF Improves, BuiltOrCarried

\* The same of what the task writes, whether it skips the buildpack or not.
LEMMA UpdatedManifestFits ==
  ASSUME TypeOK, NEW v \in Releases, BuiltStacks(v) = BuildStacks,
         NEW deps \in SUBSET Entries, NEW rel \in SUBSET Entries,
         NEW head, head = UpdatedManifest(v, deps, rel)
  PROVE  /\ Improves(v, deps, head) /\ Carries(head, v)
         /\ Strategy # "keep_latest_released" /\ VersionsOnceIn(deps)
              => Replaces(v, deps, head)
<1>0. PICK new : new = Switched(v, deps, rel)
  OBVIOUS
<1>1. /\ Improves(v, deps, new) /\ BuiltOrCarried(v, deps, new)
      /\ Strategy # "keep_latest_released" /\ VersionsOnceIn(deps)
           => Replaces(v, deps, new)
  BY <1>0, SwitchedFits
<1>2. \A s \in BuildStacks :
        /\ BuiltEntry(v, s).version = v /\ BuiltEntry(v, s).stacks = {s}
        /\ SameVersionLine(v, v) /\ ~Newer(v, v)
  BY LineEquivalence, NewerOrder, VersionAssumption DEF BuiltEntry
<1>3. CASE head = new
  <2>1. Carries(head, v)
    BY <1>1, <1>2, <1>3 DEF Carries, BuiltOrCarried
  <2> QED
    BY <1>1, <1>3, <2>1
<1>4. CASE head # new
  <2>1. /\ head = deps
        /\ EntryVersions(new) \ EntryVersions(deps) = {}
        /\ v \notin EntryVersions(deps)
    BY <1>0, <1>4 DEF UpdatedManifest, Rebuilt
  <2>2. \A s \in BuildStacks : BuiltEntry(v, s) \notin new
    BY <2>1, <1>2 DEF EntryVersions
  <2>3. Carries(head, v)
    BY <1>1, <2>1, <2>2 DEF Carries, BuiltOrCarried
  <2> QED
    BY <2>1, <2>3, CoversItself DEF Improves, Replaces
<1> QED
  BY <1>3, <1>4

-----------------------------------------------------------------------------
(***************************************************************************)
(* The pull requests.                                                      *)
(***************************************************************************)

\* keep_latest_released is only used for lines that have one job.
LEMMA KeptLinesHaveOneJob ==
  ASSUME Strategy = "keep_latest_released", NEW v \in Releases
  PROVE  OneJob(v)
BY JobLineAssumption DEF OneJob, SameJobs, SameVersionLine

\* Merging the pull request of v changes the line of v only, no entry gets worse,
\* and v is carried afterwards.
LEMMA MergeFits ==
  ASSUME TypeOK, PullRequestsFit, NEW b \in Buildpacks, NEW v \in running[b],
         pr[b][v].base \ pr[b][v].head \subseteq develop[b]
  PROVE  /\ \A d : ~SameVersionLine(d.version, v)
                   => (d \in Merged(b, v) <=> d \in develop[b])
         /\ \A d \in develop[b] : \E e \in Merged(b, v) : Covers(e, d)
         /\ Carries(Merged(b, v), v)
<1>0. PICK base, head : base = pr[b][v].base /\ head = pr[b][v].head
  OBVIOUS
<1>t. /\ v \in Releases
      /\ base \in SUBSET Entries /\ head \in SUBSET Entries
      /\ develop[b] \in SUBSET Entries
  BY <1>0, JobNames DEF TypeOK
<1>1. /\ Improves(v, base, head)
      /\ Carries(head, v)
      /\ \A d \in base : \E e \in develop[b] : Covers(e, d)
  BY <1>0 DEF PullRequestsFit
<1>2. Merged(b, v) = (develop[b] \ (base \ head)) \cup (head \ base)
  BY <1>0 DEF Merged
<1>3. ASSUME NEW d, ~SameVersionLine(d.version, v)
      PROVE  d \in Merged(b, v) <=> d \in develop[b]
  BY <1>1, <1>2, <1>3 DEF Improves, OnLine
<1>4. ASSUME NEW d \in develop[b] PROVE \E e \in Merged(b, v) : Covers(e, d)
  <2>1. CASE d \notin base \ head
    BY <1>2, <1>t, <2>1, CoversItself
  <2>2. CASE d \in base \ head /\ Strategy # "keep_latest_released"
    BY <1>0, <1>2, <2>2 DEF PullRequestsFit, Replaces
  <2>3. CASE d \in base \ head /\ Strategy = "keep_latest_released"
    <3>1. OnLine(base, v) = OnLine(develop[b], v)
      BY <1>0, <1>t, <2>3, KeptLinesHaveOneJob DEF PullRequestsFit
    <3>2. PICK e \in head : Covers(e, d)
      BY <1>1, <2>3 DEF Improves
    <3>3. SameVersionLine(e.version, v)
      BY <1>1, <2>3, <3>2, LineEquivalence DEF Covers, Improves, OnLine
    <3>4. e \in Merged(b, v)
      BY <1>2, <3>1, <3>2, <3>3 DEF OnLine
    <3> QED
      BY <3>2, <3>4
  <2> QED
    BY <2>1, <2>2, <2>3
<1>5. Carries(Merged(b, v), v)
  <2>1. Merged(b, v) \in SUBSET Entries
    BY <1>2, <1>t
  <2>2. ASSUME NEW d \in head PROVE \E e \in Merged(b, v) : Covers(e, d)
    <3>1. CASE d \notin base
      BY <1>2, <1>t, <3>1, CoversItself
    <3>2. CASE d \in base
      <4>1. PICK e \in develop[b] : Covers(e, d)
        BY <1>1, <3>2
      <4>2. PICK f \in Merged(b, v) : Covers(f, e)
        BY <1>4
      <4>3. Covers(f, d)
        BY <1>t, <2>1, <4>1, <4>2, CoversTransitive
      <4> QED
        BY <4>3
    <3> QED
      BY <3>1, <3>2
  <2> QED
    BY <1>1, <1>t, <2>1, <2>2, CarriesKept
<1> QED
  BY <1>3, <1>4, <1>5

\* An update gets versions that passed the build job.
LEMMA UpdatesGetBuilt ==
  ASSUME Ordered, NEW b \in Buildpacks, NEW v \in Releases, Start(b, v)
  PROVE  v \in passed["build"]
<1>1. v \in Used(b) \/ v \in Available(b)
  BY DEF Start, Triggered, Retriggered
<1>2. CASE v \in Used(b)
  BY <1>2, UpdatesFollowBuilds
<1>3. CASE v \in Available(b)
  <2>1. CASE CopyStacks = {}
    BY <1>3, <2>1, UpstreamOf DEF Available
  <2>2. CASE CopyStacks # {}
    <3>1. PICK c \in CopyStacks : v \in passed[c]
      BY <1>3, <2>2, UpstreamOf DEF Available
    <3>2. Used(c) \subseteq passed["build"]
      BY UpstreamOf, JobNames DEF Ordered
    <3> QED
      BY <3>1, <3>2 DEF Used
  <2> QED
    BY <2>1, <2>2
<1> QED
  BY <1>1, <1>2, <1>3

\* The builds repository is complete when an update starts.
LEMMA UpdatesFindBuilds ==
  ASSUME Ordered, DescribedBuilds, NEW b \in Buildpacks, NEW v \in Releases,
         Start(b, v)
  PROVE  BuiltStacks(v) = BuildStacks
BY UpdatesGetBuilt DEF DescribedBuilds, BuiltStacks

\* What PullRequestsFit says of one build, with the state given.
Fits(v, base, head, deps) ==
  /\ Improves(v, base, head)
  /\ Carries(head, v)
  /\ \A d \in base : \E e \in deps : Covers(e, d)
  /\ OneJob(v) => OnLine(base, v) = OnLine(deps, v)
  /\ Strategy # "keep_latest_released" =>
       /\ Replaces(v, base, head)
       /\ \A d \in deps : d.version = v => d \in base

\* Pull requests fit develop in every step, merges of other jobs included.
LEMMA PullRequestsFitNext ==
  TypeOK /\ Ordered /\ RunsAlone /\ DescribedBuilds /\ VersionsOnce
    /\ PullRequestsFit /\ [Next]_vars => PullRequestsFit'
<1> SUFFICES ASSUME TypeOK, Ordered, RunsAlone, DescribedBuilds, VersionsOnce,
                    PullRequestsFit, [Next]_vars,
                    NEW b \in Buildpacks, NEW w \in running'[b]
             PROVE  Fits(w, pr'[b][w].base, pr'[b][w].head, develop'[b])
  BY DEF PullRequestsFit, Fits, OnLine, Improves, Replaces, Carries, Covers,
         SameVersionLine
<1>0. /\ running \in [Jobs -> SUBSET Releases]
      /\ develop \in [Buildpacks -> SUBSET Entries]
      /\ released \in [Buildpacks -> SUBSET Entries]
      /\ pr \in [Buildpacks -> [Releases -> [base : SUBSET Entries,
                                            head : SUBSET Entries]]]
  BY DEF TypeOK
<1>1. ASSUME w \in running[b], develop'[b] = develop[b], pr'[b][w] = pr[b][w]
      PROVE  Fits(w, pr'[b][w].base, pr'[b][w].head, develop'[b])
  BY <1>1 DEF PullRequestsFit, Fits
<1>2. CASE Environment
  BY <1>1, <1>2 DEF Environment, locals
<1>3. ASSUME NEW j \in Jobs, StepOf(j), j # b
      PROVE  w \in running[b] /\ develop'[b] = develop[b] /\ pr'[b][w] = pr[b][w]
  BY <1>3, OtherJobs, OtherState, JobNames
<1>4. ASSUME NEW v \in Releases, StartUpdate(b, v)
      PROVE  Fits(w, pr'[b][w].base, pr'[b][w].head, develop'[b])
  <2>1. Start(b, v) /\ develop' = develop
    BY <1>4 DEF StartUpdate, manifests
  <2>2. w = v \/ w \in running[b]
    BY <1>0, <2>1, JobNames DEF Start
  <2>3. CASE w = v
    <3>1. /\ pr'[b][w].base = develop[b]
          /\ pr'[b][w].head = UpdatedManifest(v, develop[b], released[b])
      BY <1>0, <1>4, <2>3 DEF StartUpdate
    <3>2. develop[b] \in SUBSET Entries /\ released[b] \in SUBSET Entries
      BY <1>0
    <3>3. BuiltStacks(v) = BuildStacks
      BY <2>1, UpdatesFindBuilds
    <3>4. /\ Improves(v, develop[b], pr'[b][w].head)
          /\ Carries(pr'[b][w].head, v)
          /\ Strategy # "keep_latest_released" /\ VersionsOnceIn(develop[b])
               => Replaces(v, develop[b], pr'[b][w].head)
      BY <3>1, <3>2, <3>3, UpdatedManifestFits
    <3>5. \A d \in develop[b] : \E e \in develop[b] : Covers(e, d)
      BY <3>2, CoversItself
    <3> QED
      BY <2>1, <2>3, <3>1, <3>4, <3>5 DEF Fits, VersionsOnce
  <2>4. CASE w # v
    <3>1. pr'[b][w] = pr[b][w]
      BY <1>0, <1>4, <2>4 DEF StartUpdate
    <3> QED
      BY <1>1, <2>1, <2>2, <2>4, <3>1
  <2> QED
    BY <2>3, <2>4
<1>5. ASSUME NEW v \in Releases, MergePullRequest(b, v)
      PROVE  Fits(w, pr'[b][w].base, pr'[b][w].head, develop'[b])
  <2>1. w \in running[b] /\ w # v /\ v \in running[b]
    BY <1>0, <1>5, JobNames DEF MergePullRequest, End, Succeed, Break
  <2>2. /\ pr'[b][w] = pr[b][w] /\ develop'[b] = Merged(b, v)
        /\ pr[b][v].base \ pr[b][v].head \subseteq develop[b]
    BY <1>0, <1>5, <2>1 DEF MergePullRequest
  <2>3. PICK base, head : base = pr[b][w].base /\ head = pr[b][w].head
    OBVIOUS
  <2>4. Fits(w, base, head, develop[b])
    BY <2>1, <2>3 DEF PullRequestsFit, Fits
  <2>5. /\ w \in Releases /\ base \in SUBSET Entries
        /\ develop[b] \in SUBSET Entries /\ develop'[b] \in SUBSET Entries
    <3>1. w \in Releases /\ base \in SUBSET Entries /\ develop[b] \in SUBSET Entries
      BY <1>0, <2>1, <2>3, JobNames
    <3>2. develop' \in [Buildpacks -> SUBSET Entries]
      BY TypeNext DEF TypeOK
    <3> QED
      BY <3>1, <3>2
  <2>6. ASSUME NEW d \in base PROVE \E e \in develop'[b] : Covers(e, d)
    <3>1. PICK e \in develop[b] : Covers(e, d)
      BY <2>4 DEF Fits
    <3>2. PICK f \in develop'[b] : Covers(f, e)
      BY <2>1, <2>2, MergeFits
    <3> QED
      BY <2>5, <3>1, <3>2, CoversTransitive
  <2>7. ASSUME OneJob(w)
        PROVE  OnLine(base, w) = OnLine(develop'[b], w)
    <3>1. ~SameVersionLine(w, v)
      BY <2>1, <2>5, <2>7, <1>5 DEF RunsAlone, SameJobs, OneJob
    <3>2. \A d : SameVersionLine(d.version, w) => ~SameVersionLine(d.version, v)
      BY <3>1, LineEquivalence
    <3>3. OnLine(develop'[b], w) = OnLine(develop[b], w)
      BY <2>1, <2>2, <3>2, MergeFits DEF OnLine
    <3> QED
      BY <2>4, <2>7, <3>3 DEF Fits
  <2>8. ASSUME Strategy # "keep_latest_released",
               NEW d \in develop'[b], d.version = w
        PROVE  d \in base
    <3>1. \A e \in pr[b][v].head \ pr[b][v].base : e.version = v
      BY <2>1, <2>8 DEF PullRequestsFit, Replaces
    <3>2. d \in develop[b]
      BY <2>1, <2>2, <2>8, <3>1 DEF Merged
    <3> QED
      BY <2>4, <2>8, <3>2 DEF Fits
  <2> QED
    BY <2>2, <2>3, <2>4, <2>6, <2>7, <2>8 DEF Fits
<1>6. ASSUME NEW v \in Releases, ConflictPullRequest(b, v) \/ Fail(b, v)
      PROVE  w \in running[b] /\ develop'[b] = develop[b] /\ pr'[b][w] = pr[b][w]
  <2>1. w \in running[b] /\ w # v
    BY <1>0, <1>6, JobNames DEF ConflictPullRequest, Fail, Break
  <2>2. pr' = [pr EXCEPT ![b][v] = NoPullRequest] /\ develop' = develop
    BY <1>6 DEF ConflictPullRequest, Fail, manifests
  <2> QED
    BY <1>0, <2>1, <2>2
<1> QED
  BY <1>1, <1>2, <1>3, <1>4, <1>5, <1>6, StepCases, DistinctJobs
  DEF StepOf, UpdateJob

\* Only the merge of a pull request changes a develop branch.
LEMMA DevelopStep ==
  ASSUME TypeOK, PullRequestsFit, [Next]_vars, NEW b \in Buildpacks
  PROVE  \/ develop'[b] = develop[b]
         \/ \E v \in running[b] : MergePullRequest(b, v)
<1>1. CASE Environment
  BY <1>1 DEF Environment
<1>2. ASSUME NEW j \in Jobs, StepOf(j), j # b
      PROVE  develop'[b] = develop[b]
  BY <1>2, OtherState
<1>3. ASSUME NEW v \in Releases, UpdateJob(b, v) \/ Fail(b, v)
      PROVE  develop'[b] = develop[b] \/ (v \in running[b] /\ MergePullRequest(b, v))
  BY <1>3
  DEF UpdateJob, StartUpdate, MergePullRequest, ConflictPullRequest, Fail, manifests
<1> QED
  BY <1>1, <1>2, <1>3, StepCases, DistinctJobs DEF StepOf, MergePullRequest

\* Whatever develop has is covered after a step: a merge, or nothing changed.
LEMMA NoEntryGetsWorse ==
  ASSUME TypeOK, PullRequestsFit, [Next]_vars, NEW b \in Buildpacks
  PROVE  \A d \in develop[b] : \E e \in develop'[b] : Covers(e, d)
<1>1. CASE develop'[b] = develop[b]
  BY <1>1, CoversItself DEF TypeOK
<1>2. ASSUME NEW v \in running[b], MergePullRequest(b, v)
      PROVE  \A d \in develop[b] : \E e \in develop'[b] : Covers(e, d)
  <2>1. /\ develop'[b] = Merged(b, v)
        /\ pr[b][v].base \ pr[b][v].head \subseteq develop[b]
    BY <1>2 DEF MergePullRequest, TypeOK
  <2> QED
    BY <2>1, MergeFits
<1> QED
  BY <1>1, <1>2, DevelopStep

\* A merge never leaves two entries of a version on one stack.
LEMMA VersionsOnceNext ==
  TypeOK /\ PullRequestsFit /\ VersionsOnce /\ [Next]_vars => VersionsOnce'
<1> SUFFICES ASSUME TypeOK, PullRequestsFit, VersionsOnce, [Next]_vars,
                    Strategy # "keep_latest_released", NEW b \in Buildpacks,
                    NEW d \in develop'[b], NEW e \in develop'[b],
                    d.version = e.version, d.stacks = e.stacks
             PROVE  d = e
  BY DEF VersionsOnce, VersionsOnceIn
<1>1. CASE develop'[b] = develop[b]
  BY <1>1 DEF VersionsOnce, VersionsOnceIn
<1>2. ASSUME NEW v \in running[b], MergePullRequest(b, v)
      PROVE  d = e
  <2>1. PICK base, head : base = pr[b][v].base /\ head = pr[b][v].head
    OBVIOUS
  <2>2. develop'[b] = (develop[b] \ (base \ head)) \cup (head \ base)
    BY <1>2, <2>1 DEF MergePullRequest, TypeOK, Merged
  <2>3. Replaces(v, base, head) /\ \A f \in develop[b] : f.version = v => f \in base
    BY <2>1 DEF PullRequestsFit
  <2>4. ASSUME NEW f \in head \ base, NEW g \in develop[b] \ (base \ head),
               f.version = g.version, f.stacks = g.stacks
        PROVE  FALSE
    <3>1. f.version = v /\ g \in base \cap head
      BY <2>3, <2>4 DEF Replaces
    <3> QED
      BY <2>3, <2>4, <3>1 DEF Replaces
  <2>5. CASE d \in develop[b] /\ e \in develop[b]
    BY <2>5 DEF VersionsOnce, VersionsOnceIn
  <2>6. CASE d \in head \ base /\ e \in head \ base
    BY <2>3, <2>6 DEF Replaces
  <2> QED
    BY <2>2, <2>4, <2>5, <2>6
<1> QED
  BY <1>1, <1>2, DevelopStep

\* What a merged update carries stays carried by later merges.
LEMMA MergedIsCarriedNext ==
  TypeOK /\ PullRequestsFit /\ MergedIsCarried /\ [Next]_vars => MergedIsCarried'
<1> SUFFICES ASSUME TypeOK, PullRequestsFit, MergedIsCarried, [Next]_vars,
                    NEW b \in Buildpacks, NEW w \in passed'[b]
             PROVE  Carries(develop'[b], w)
  BY DEF MergedIsCarried, Carries
<1>0. /\ running \in [Jobs -> SUBSET Releases]
      /\ passed \in [Jobs -> SUBSET Releases]
      /\ develop \in [Buildpacks -> SUBSET Entries]
      /\ develop' \in [Buildpacks -> SUBSET Entries]
  BY TypeNext DEF TypeOK
<1>1. CASE w \in passed[b]
  <2>1. w \in Releases /\ Carries(develop[b], w)
    BY <1>0, <1>1, JobNames DEF MergedIsCarried
  <2>2. /\ develop[b] \in SUBSET Entries /\ develop'[b] \in SUBSET Entries
        /\ \A d \in develop[b] : \E e \in develop'[b] : Covers(e, d)
    BY <1>0, NoEntryGetsWorse
  <2> QED
    BY <2>1, <2>2, CarriesKept
<1>2. CASE w \notin passed[b]
  <2>1. ~Environment
    BY <1>2 DEF Environment
  <2>2. StepOf(b)
    BY <1>2, <2>1, StepCases, OtherJobs, JobNames
  <2>3. PICK v \in Releases : UpdateJob(b, v) \/ Fail(b, v)
    BY <2>2, DistinctJobs DEF StepOf
  <2>4. MergePullRequest(b, v) /\ w = v
    BY <1>0, <1>2, <2>3, JobNames
    DEF UpdateJob, StartUpdate, Start, MergePullRequest, ConflictPullRequest, Fail,
        End, Succeed, Break
  <2>5. /\ v \in running[b] /\ develop'[b] = Merged(b, v)
        /\ pr[b][v].base \ pr[b][v].head \subseteq develop[b]
    BY <1>0, <2>4 DEF MergePullRequest
  <2> QED
    BY <2>4, <2>5, MergeFits
<1> QED
  BY <1>1, <1>2

-----------------------------------------------------------------------------
(***************************************************************************)
(* The invariant and what follows from it.                                 *)
(***************************************************************************)

\* The inductive invariant holds initially.
LEMMA IInvInit == Init => IInv
<1> SUFFICES ASSUME Init PROVE IInv
  OBVIOUS
<1>1. TypeOK
  BY TypeInit
<1>2. Ordered /\ RunsAlone /\ RecordedStories /\ OpenedFiles
  BY JobNames, UpstreamJobs
  DEF Init, Ordered, RunsAlone, RecordedStories, OpenedFiles, Used
<1>3. DescribedBuilds /\ DescribedCopies
  BY JobNames DEF Init, DescribedBuilds, DescribedCopies
<1>4. PullRequestsFit /\ MergedIsCarried /\ AcceptedIsMerged
  BY JobNames DEF Init, PullRequestsFit, MergedIsCarried, AcceptedIsMerged
<1>5. VersionsOnce
  BY DEF Init, OldEntries, VersionsOnce, VersionsOnceIn
<1> QED
  BY <1>1, <1>2, <1>3, <1>4, <1>5 DEF IInv

\* Every step keeps the inductive invariant.
LEMMA IInvNext == IInv /\ [Next]_vars => IInv'
BY TypeNext, OrderedNext, RunsAloneNext, RecordedStoriesNext, DescribedBuildsNext,
   DescribedCopiesNext, PullRequestsFitNext, VersionsOnceNext,
   MergedIsCarriedNext, AcceptedIsMergedNext, OpenedFilesNext
DEF IInv

\* The invariant that the theorems below rest on: jobs follow one another, the
\* builds repository is complete, and every open pull request fits develop.
THEOREM Invariance == Spec => []IInv
BY IInvInit, IInvNext, PTL DEF Spec

\* A story is accepted only when every develop branch of the line offers its
\* version or a newer one on every build stack, whatever the number of lines,
\* releases and buildpacks, and whatever fails or is triggered again.
THEOREM AcceptedVersionsAreOffered == Spec => []AcceptedIsInEveryManifest
<1>1. IInv => AcceptedIsInEveryManifest
  BY DEF IInv, AcceptedIsMerged, MergedIsCarried, Carries, AcceptedIsInEveryManifest
<1> QED
  BY <1>1, Invariance, PTL

\* No merged pull request takes the newest version of a line off develop.
THEOREM NothingIsDowngraded == Spec => NoDowngrade
<1>1. IInv /\ [Next]_vars
        => [\A b \in Buildpacks : \A d \in develop[b] :
              \E e \in develop'[b] : Covers(e, d)]_vars
  BY NoEntryGetsWorse DEF IInv
<1> QED
  BY <1>1, Invariance, PTL DEF Spec, NoDowngrade

\* The files that a task opens in the builds repository are there, although no
\* `passed` constraint ties that repository to the version being handled.
THEOREM InputsAreThere == Spec => []InputsArePresent
<1>1. IInv => InputsArePresent
  <2> SUFFICES ASSUME IInv, NEW v \in Releases
               PROVE  /\ (\E j \in Jobs \ {"create"} : v \in running[j])
                           => storyOf[v] # 0
                      /\ v \in running["accept"] => accepting[v] # 0
                      /\ \A j \in CopyStacks \cup Buildpacks :
                           v \in running[j] => BuiltStacks(v) = BuildStacks
                      /\ \A b \in Buildpacks, c \in CopyStacks :
                           v \in running[b] => meta[v][c] # 0
    BY DEF InputsArePresent
  <2> USE DEF IInv
  <2>1. ASSUME NEW j \in Jobs \ {"create"}, v \in running[j]
        PROVE  storyOf[v] # 0
    BY <2>1, AllFollowCreate DEF Used, RecordedStories
  <2>2. v \in running["accept"] => accepting[v] # 0
    BY DEF OpenedFiles
  <2>3. ASSUME NEW j \in CopyStacks \cup Buildpacks, v \in running[j]
        PROVE  BuiltStacks(v) = BuildStacks
    <3>1. v \in passed["build"]
      <4>1. j \in CopyStacks => Used(j) \subseteq passed["build"]
        BY UpstreamOf, JobNames DEF Ordered
      <4>2. j \in Buildpacks => Used(j) \subseteq passed["build"]
        BY UpdatesFollowBuilds
      <4> QED
        BY <2>3, <4>1, <4>2 DEF Used
    <3> QED
      BY <3>1 DEF DescribedBuilds, BuiltStacks
  <2>4. ASSUME NEW b \in Buildpacks, NEW c \in CopyStacks, v \in running[b]
        PROVE  meta[v][c] # 0
    <3>1. Used(b) \subseteq passed[c]
      BY UpstreamOf, JobNames DEF Ordered
    <3> QED
      BY <2>4, <3>1 DEF Used, DescribedCopies
  <2> QED
    BY <2>1, <2>2, <2>3, <2>4
<1> QED
  BY <1>1, Invariance, PTL

-----------------------------------------------------------------------------
(***************************************************************************)
(* The pipeline implements DependencyDelivery: initial states map to       *)
(* initial states, and every step of a job maps to a step of the promise   *)
(* or to none.                                                             *)
(***************************************************************************)

\* Versions that depwatcher has reported, or that the manifests began with.
Seen == known \cup OldVersions

\* Nothing is built or offered that was not reported, nor about to be.
SeenOnly ==
  /\ \A j \in Jobs : Used(j) \subseteq known
  /\ \A b \in Buildpacks :
       /\ EntryVersions(develop[b]) \subseteq Seen
       /\ EntryVersions(released[b]) \subseteq Seen
       /\ \A v \in running[b] : EntryVersions(pr[b][v].head) \subseteq Seen

-----------------------------------------------------------------------------
(***************************************************************************)
(* The versions that are about.                                            *)
(***************************************************************************)

\* Only depwatcher reports versions, and nothing else happens when it does.
LEMMA KnownStep ==
  ASSUME [Next]_vars
  PROVE  \/ known' = known
         \/ \E v \in Releases : known' = known \cup {v} /\ Discover(v)
<1> USE DEF concourse
<1>1. ASSUME NEW v \in Releases, CreateJob(v) PROVE known' = known
  BY <1>1 DEF CreateJob, StartCreate, CreateStory, RecordStory, Start, End, Succeed,
              Break
<1>2. ASSUME NEW v \in Releases, BuildJob(v) PROVE known' = known
  BY <1>2 DEF BuildJob, StartBuild, PutArtifact, PutMetadata, FinishBuild, Start, End,
              Succeed, Break
<1>3. ASSUME NEW v \in Releases, AcceptJob(v) PROVE known' = known
  BY <1>3 DEF AcceptJob, StartAccept, AcceptStory, Start, End, Succeed, Break
<1>4. ASSUME NEW c \in CopyStacks, NEW v \in Releases, CopyJob(c, v)
      PROVE  known' = known
  BY <1>4 DEF CopyJob, StartCopy, PutCopy, Start, End, Succeed, Break
<1>5. ASSUME NEW b \in Buildpacks, NEW v \in Releases, UpdateJob(b, v)
      PROVE  known' = known
  BY <1>5 DEF UpdateJob, StartUpdate, MergePullRequest, ConflictPullRequest, Start,
              End, Succeed, Break
<1>6. ASSUME NEW j \in Jobs, NEW v \in Releases, Fail(j, v) PROVE known' = known
  BY <1>6 DEF Fail, Break
<1>7. ASSUME NEW b \in Buildpacks, ShipBuildpack(b) PROVE known' = known
  BY <1>7 DEF ShipBuildpack
<1>8. ASSUME NEW v \in Releases, Discover(v) PROVE known' = known \cup {v}
  BY <1>8 DEF Discover
<1>9. CASE UNCHANGED vars
  BY <1>9 DEF vars
<1> QED
  BY <1>1, <1>2, <1>3, <1>4, <1>5, <1>6, <1>7, <1>8, <1>9 DEF Next

\* The master branch moves to develop or stays.
LEMMA ReleasedStep ==
  ASSUME TypeOK, [Next]_vars, NEW b \in Buildpacks
  PROVE  released'[b] = released[b] \/ released'[b] = develop[b]
<1> USE DEF manifests
<1>1. ASSUME NEW v \in Releases, Discover(v) \/ CreateJob(v) \/ BuildJob(v) \/ AcceptJob(v)
      PROVE  released' = released
  BY <1>1 DEF Discover, CreateJob, StartCreate, CreateStory, RecordStory, BuildJob,
              StartBuild, PutArtifact, PutMetadata, FinishBuild, AcceptJob,
              StartAccept, AcceptStory
<1>2. ASSUME NEW c \in CopyStacks, NEW v \in Releases, CopyJob(c, v)
      PROVE  released' = released
  BY <1>2 DEF CopyJob, StartCopy, PutCopy
<1>3. ASSUME NEW a \in Buildpacks, NEW v \in Releases, UpdateJob(a, v)
      PROVE  released' = released
  BY <1>3 DEF UpdateJob, StartUpdate, MergePullRequest, ConflictPullRequest
<1>4. ASSUME NEW j \in Jobs, NEW v \in Releases, Fail(j, v)
      PROVE  released' = released
  BY <1>4 DEF Fail
<1>5. ASSUME NEW a \in Buildpacks, ShipBuildpack(a)
      PROVE  released'[b] = released[b] \/ released'[b] = develop[b]
  BY <1>5 DEF ShipBuildpack, TypeOK
<1>6. CASE UNCHANGED vars
  BY <1>6 DEF vars
<1> QED
  BY <1>1, <1>2, <1>3, <1>4, <1>5, <1>6 DEF Next

\* A pull request is as it was, or made from develop and master as they are.
LEMMA RequestStep ==
  ASSUME TypeOK, [Next]_vars, NEW b \in Buildpacks, NEW w \in running'[b]
  PROVE  \/ w \in running[b] /\ pr'[b][w] = pr[b][w]
         \/ /\ Start(b, w)
            /\ pr'[b][w] = [base |-> develop[b],
                            head |-> UpdatedManifest(w, develop[b], released[b])]
<1>0. /\ running \in [Jobs -> SUBSET Releases] /\ b \in Jobs
      /\ pr \in [Buildpacks -> [Releases -> [base : SUBSET Entries,
                                            head : SUBSET Entries]]]
  BY JobNames DEF TypeOK
<1>1. CASE Environment
  BY <1>1 DEF Environment, locals
<1>2. ASSUME NEW j \in Jobs, StepOf(j), j # b
      PROVE  w \in running[b] /\ pr'[b][w] = pr[b][w]
  BY <1>0, <1>2, OtherJobs, OtherState
<1>3. ASSUME NEW v \in Releases, StartUpdate(b, v)
      PROVE  \/ w \in running[b] /\ pr'[b][w] = pr[b][w]
             \/ /\ Start(b, w)
                /\ pr'[b][w] = [base |-> develop[b],
                                head |-> UpdatedManifest(w, develop[b], released[b])]
  <2>1. w \in running[b] \cup {v}
    BY <1>0, <1>3 DEF StartUpdate, Start
  <2>2. CASE w = v
    BY <1>0, <1>3, <2>2 DEF StartUpdate
  <2>3. CASE w # v
    BY <1>0, <1>3, <2>1, <2>3 DEF StartUpdate
  <2> QED
    BY <2>2, <2>3
<1>4. ASSUME NEW v \in Releases,
             MergePullRequest(b, v) \/ ConflictPullRequest(b, v) \/ Fail(b, v)
      PROVE  w \in running[b] /\ pr'[b][w] = pr[b][w]
  <2>1. /\ running'[b] = running[b] \ {v}
        /\ \A u \in Releases \ {v} : pr'[b][u] = pr[b][u]
    BY <1>0, <1>4 DEF MergePullRequest, ConflictPullRequest, Fail, End, Succeed, Break
  <2> QED
    BY <1>0, <2>1
<1> QED
  BY <1>1, <1>2, <1>3, <1>4, StepCases, DistinctJobs DEF StepOf, UpdateJob

\* run.rb writes entries of the manifests it read and the ones just built.
LEMMA UpdatedEntries ==
  ASSUME NEW v, NEW deps, NEW rel
  PROVE  UpdatedManifest(v, deps, rel)
           \subseteq deps \cup rel \cup {BuiltEntry(v, s) : s \in BuildStacks}
<1>1. ASSUME NEW s \in BuildStacks
      PROVE  Switch(LineType, Strategy, BuiltEntry(v, s), OnStack(deps, s),
                    OnStack(rel, s)) \subseteq deps \cup {BuiltEntry(v, s)} \cup rel
  BY SwitchAdds DEF OnStack, Matching
<1>2. Switched(v, deps, rel)
        \subseteq deps \cup {BuiltEntry(v, s) : s \in BuildStacks} \cup rel
  BY <1>1 DEF Switched, OnStack
<1> QED
  BY <1>2 DEF UpdatedManifest

\* Their versions are those of the manifests and the one it was built for.
LEMMA UpdatedVersions ==
  ASSUME NEW v, NEW deps, NEW rel
  PROVE  EntryVersions(UpdatedManifest(v, deps, rel))
           \subseteq EntryVersions(deps) \cup EntryVersions(rel) \cup {v}
<1>1. \A s \in BuildStacks : BuiltEntry(v, s).version = v
  BY DEF BuiltEntry
<1> QED
  BY <1>1, UpdatedEntries DEF EntryVersions

\* A build starts for a version that is reported, and stays there.
LEMMA UsedIsKnownNext ==
  ASSUME TypeOK, SeenOnly, [Next]_vars
  PROVE  \A j \in Jobs : Used(j)' \subseteq known'
<1>1. known \subseteq known'
  BY KnownStep
<1>2. CASE Environment
  BY <1>1, <1>2 DEF Environment, Used, SeenOnly
<1>3. ASSUME NEW j \in Jobs, StepOf(j) PROVE \A i \in Jobs : Used(i)' \subseteq known'
  <2>1. PICK v \in Releases : ConcourseStep(j, v)
    BY <1>3, StepIsConcourseStep
  <2>2. /\ running \in [Jobs -> SUBSET Releases]
        /\ passed \in [Jobs -> SUBSET Releases]
        /\ failed \in [Jobs -> SUBSET Releases]
    BY DEF TypeOK
  <2>3. ASSUME NEW i \in Jobs, i # j PROVE Used(i)' = Used(i)
    BY <1>3, <2>3, OtherJobs DEF Used
  <2>4. Used(j)' \subseteq Used(j) \cup {v}
    BY <2>1, <2>2 DEF ConcourseStep, Start, Used
  <2>5. Start(j, v) => v \in known
    BY DEF Start, Triggered, Retriggered, Available, SeenOnly
  <2>6. ~Start(j, v) => Used(j)' \subseteq Used(j)
    BY <2>1, <2>2 DEF ConcourseStep, Used
  <2> QED
    BY <1>1, <2>3, <2>4, <2>5, <2>6 DEF SeenOnly
<1> QED
  BY <1>2, <1>3, StepCases

\* develop gets what a pull request brings, and nothing else.
LEMMA OfferedIsSeenNext ==
  ASSUME TypeOK, PullRequestsFit, SeenOnly, [Next]_vars, NEW b \in Buildpacks
  PROVE  EntryVersions(develop'[b]) \subseteq Seen'
<1>1. Seen \subseteq Seen'
  BY KnownStep DEF Seen
<1>2. CASE develop'[b] = develop[b]
  BY <1>1, <1>2 DEF SeenOnly
<1>3. ASSUME NEW v \in running[b], MergePullRequest(b, v)
      PROVE  EntryVersions(develop'[b]) \subseteq Seen
  <2>1. develop'[b] \subseteq develop[b] \cup pr[b][v].head
    BY <1>3 DEF MergePullRequest, Merged, TypeOK
  <2>2. EntryVersions(pr[b][v].head) \subseteq Seen
    BY DEF SeenOnly
  <2> QED
    BY <2>1, <2>2 DEF SeenOnly, EntryVersions
<1> QED
  BY <1>1, <1>2, <1>3, DevelopStep

\* So does a pull request get what the task read and the version it is for.
LEMMA RequestedIsSeenNext ==
  ASSUME TypeOK, SeenOnly, [Next]_vars, NEW b \in Buildpacks, NEW w \in running'[b]
  PROVE  EntryVersions(pr'[b][w].head) \subseteq Seen'
<1>1. Seen \subseteq Seen'
  BY KnownStep DEF Seen
<1>2. CASE w \in running[b] /\ pr'[b][w] = pr[b][w]
  BY <1>1, <1>2 DEF SeenOnly
<1>3. CASE /\ Start(b, w)
           /\ pr'[b][w] = [base |-> develop[b],
                           head |-> UpdatedManifest(w, develop[b], released[b])]
  <2>1. /\ EntryVersions(develop[b]) \subseteq Seen
        /\ EntryVersions(released[b]) \subseteq Seen
    BY DEF SeenOnly
  <2>2. w \in Seen
    BY <1>3, JobNames DEF Start, Triggered, Retriggered, Available, SeenOnly, Seen
  <2>3. pr'[b][w].head = UpdatedManifest(w, develop[b], released[b])
    BY <1>3
  <2> QED
    BY <1>1, <2>1, <2>2, <2>3, UpdatedVersions
<1> QED
  BY <1>2, <1>3, RequestStep

\* Every step keeps the versions within those seen.
LEMMA SeenOnlyNext ==
  TypeOK /\ PullRequestsFit /\ SeenOnly /\ [Next]_vars => SeenOnly'
<1> SUFFICES ASSUME TypeOK, PullRequestsFit, SeenOnly, [Next]_vars PROVE SeenOnly'
  OBVIOUS
<1>1. ASSUME NEW b \in Buildpacks
      PROVE  EntryVersions(released'[b]) \subseteq Seen'
  <2>1. Seen \subseteq Seen'
    BY KnownStep DEF Seen
  <2> QED
    BY <2>1, ReleasedStep DEF SeenOnly
<1>2. \A b \in Buildpacks : /\ EntryVersions(develop'[b]) \subseteq Seen'
                            /\ EntryVersions(released'[b]) \subseteq Seen'
                            /\ \A v \in running'[b] :
                                 EntryVersions(pr'[b][v].head) \subseteq Seen'
  BY <1>1, OfferedIsSeenNext, RequestedIsSeenNext
<1>3. \A j \in Jobs : Used(j)' \subseteq known'
  BY UsedIsKnownNext
<1> QED
  BY <1>2, <1>3 DEF SeenOnly, EntryVersions

\* The manifests begin with the versions they began with.
LEMMA SeenOnlyInit == Init => SeenOnly
BY JobNames DEF Init, SeenOnly, Seen, Used, EntryVersions, OldEntries

-----------------------------------------------------------------------------
(***************************************************************************)
(* The refinement.                                                         *)
(***************************************************************************)

\* The manifests begin with the old versions on every stack.
LEMMA OldVersionsOnStack ==
  ASSUME NEW s \in BuildStacks
  PROVE  EntryVersions(OnStack(OldEntries, s)) = OldVersions
<1>1. ASSUME NEW v \in OldVersions
      PROVE  v \in EntryVersions(OnStack(OldEntries, s))
  <2>1. PICK d : d = [version |-> v, stacks |-> {s}, sha |-> 0]
    OBVIOUS
  <2>2. d \in OnStack(OldEntries, s)
    BY <2>1 DEF OldEntries, OnStack
  <2>3. d.version = v
    BY <2>1
  <2> QED
    BY <2>2, <2>3 DEF EntryVersions
<1>2. \A d \in OnStack(OldEntries, s) : d.version \in OldVersions
  BY DEF OldEntries, OnStack
<1> QED
  BY <1>1, <1>2 DEF EntryVersions

\* Before anything is reported every manifest offers the old versions.
LEMMA DeliveryInit == Init => Delivery!Init
<1> SUFFICES ASSUME Init PROVE Delivery!Init
  OBVIOUS
<1>1. ASSUME NEW b \in Buildpacks, NEW s \in BuildStacks
      PROVE  EntryVersions(OnStack(develop[b], s)) = OldVersions
  BY OldVersionsOnStack DEF Init
<1>2. OfferedVersions = [b \in Buildpacks |-> [s \in BuildStacks |-> OldVersions]]
  BY <1>1 DEF OfferedVersions
<1>3. known = {} /\ {story[1] : story \in accepted} = {}
  BY DEF Init
<1> QED
  BY <1>2, <1>3 DEF Delivery!Init

\* A merge moves its manifest forward, and only that one.
LEMMA MergeDelivers ==
  ASSUME IInv, SeenOnly, [Next]_vars, NEW b \in Buildpacks,
         \A a \in Buildpacks \ {b} : develop'[a] = develop[a],
         known' = known, accepted' = accepted
  PROVE  Delivery!Update(b)
<1> DEFINE versions == [s \in BuildStacks |-> EntryVersions(OnStack(develop'[b], s))]
<1>0. TypeOK /\ PullRequestsFit
  BY DEF IInv
<1>1. versions \in [BuildStacks -> SUBSET (known \cup OldVersions)]
  <2>1. EntryVersions(develop'[b]) \subseteq known \cup OldVersions
    BY <1>0, OfferedIsSeenNext DEF Seen
  <2> QED
    BY <2>1 DEF EntryVersions, OnStack
<1>2. ASSUME NEW s \in BuildStacks, NEW v \in OfferedVersions[b][s]
      PROVE  Delivery!Carries(versions[s], v)
  <2>1. PICK d \in develop[b] : d.stacks = {s} /\ d.version = v
    BY <1>2 DEF OfferedVersions, EntryVersions, OnStack
  <2>2. PICK e \in develop'[b] : Covers(e, d)
    BY <1>0, NoEntryGetsWorse
  <2>3. e.version \in versions[s] /\ NotOlder(e.version, v)
    BY <2>1, <2>2 DEF Covers, NotOlder, EntryVersions, OnStack
  <2> QED
    BY <2>3 DEF Delivery!Carries
<1>3. OfferedVersions' = [OfferedVersions EXCEPT ![b] = versions]
  BY DEF OfferedVersions
<1>4. UNCHANGED <<known, {story[1] : story \in accepted}>>
  OBVIOUS
<1> QED
  BY <1>1, <1>2, <1>3, <1>4 DEF Delivery!Update

\* accept.rb accepts a version that every develop branch carries.
LEMMA AcceptDelivers ==
  ASSUME IInv, SeenOnly, NEW v \in Releases, AcceptStory(v)
  PROVE  Delivery!Accept(v)
<1>1. v \in known
  BY JobNames DEF AcceptStory, SeenOnly, Used
<1>2. ASSUME NEW b \in Buildpacks, NEW s \in BuildStacks
      PROVE  Delivery!Carries(OfferedVersions[b][s], v)
  <2>1. Carries(develop[b], v)
    BY AcceptsFollowUpdates DEF AcceptStory, IInv, MergedIsCarried, Used
  <2>2. PICK e \in develop[b] : /\ e.stacks = {s}
                                /\ SameVersionLine(e.version, v)
                                /\ ~Newer(v, e.version)
    BY <2>1 DEF Carries
  <2>3. e.version \in OfferedVersions[b][s] /\ NotOlder(e.version, v)
    BY <2>2 DEF OfferedVersions, EntryVersions, OnStack, NotOlder
  <2> QED
    BY <2>3 DEF Delivery!Carries
<1>3. {story[1] : story \in accepted'} = {story[1] : story \in accepted} \cup {v}
  <2>1. PICK new : new = <<v, accepting[v]>>
    OBVIOUS
  <2>2. accepted' = accepted \cup {new} /\ new[1] = v
    BY <2>1 DEF AcceptStory
  <2> QED
    BY <2>2
<1>4. known' = known /\ OfferedVersions' = OfferedVersions
  BY DEF AcceptStory, End, Succeed, Break, manifests, OfferedVersions
<1> QED
  BY <1>1, <1>2, <1>3, <1>4 DEF Delivery!Accept

\* Every other step of the pipeline is none of the promise, but for the report of
\* a version.
LEMMA StepDelivers ==
  ASSUME IInv, SeenOnly, [Next]_vars
  PROVE  [Delivery!Next]_(Delivery!vars)
<1>0. TypeOK
  BY DEF IInv
<1>1. CASE UNCHANGED <<known, develop, accepted>>
  BY <1>1 DEF Delivery!vars, OfferedVersions
<1>2. ASSUME NEW v \in Releases, Discover(v) PROVE Delivery!Next
  <2>1. UNCHANGED <<develop, accepted>> /\ known' = known \cup {v}
    BY <1>2 DEF Discover, manifests, tracker
  <2>2. Delivery!Report(v)
    BY <2>1 DEF Delivery!Report, OfferedVersions
  <2> QED
    BY <2>2 DEF Delivery!Next
<1>3. CASE known' = known
  <2>1. CASE Environment
    BY <1>1, <1>3, <2>1 DEF Environment, tracker
  <2>2. ASSUME NEW b \in Buildpacks, StepOf(b) PROVE Delivery!Next
    <3>1. /\ accepted' = accepted
          /\ \A a \in Buildpacks \ {b} : develop'[a] = develop[a]
      BY <1>0, <2>2, OtherState, JobNames, DistinctJobs
    <3>2. Delivery!Update(b)
      BY <1>3, <3>1, MergeDelivers
    <3> QED
      BY <3>2 DEF Delivery!Next
  <2>3. ASSUME NEW j \in Jobs, StepOf(j), j \notin Buildpacks
        PROVE  [Delivery!Next]_(Delivery!vars)
    <3>1. \A b \in Buildpacks : develop'[b] = develop[b]
      BY <1>0, <2>3, OtherState
    <3>2. OfferedVersions' = OfferedVersions
      BY <3>1 DEF OfferedVersions
    <3>3. CASE accepted' = accepted
      BY <1>3, <3>2, <3>3 DEF Delivery!vars
    <3>4. CASE accepted' # accepted
      <4>1. j = "accept"
        BY <1>0, <2>3, <3>4, OtherState
      <4>2. PICK v \in Releases : AcceptJob(v) \/ Fail("accept", v)
        BY <2>3, <4>1, DistinctJobs DEF StepOf
      <4>3. AcceptStory(v)
        BY <3>4, <4>2 DEF AcceptJob, StartAccept, Fail, tracker
      <4> QED
        BY <4>3, AcceptDelivers DEF Delivery!Next
    <3> QED
      BY <3>3, <3>4
  <2> QED
    BY <2>1, <2>2, <2>3, StepCases
<1> QED
  BY <1>2, <1>3, KnownStep

\* The pipeline does what it promises, for every set of releases, stacks and
\* buildpacks, whatever fails, overtakes or is triggered again: what is reported
\* is offered and then accepted, and no manifest ever goes back.
THEOREM PipelineDelivers == Spec => Delivers
<1>1. Spec => [](TypeOK /\ PullRequestsFit)
  <2>1. IInv => TypeOK /\ PullRequestsFit
    BY DEF IInv
  <2> QED
    BY <2>1, Invariance, PTL
<1>2. Spec => []SeenOnly
  BY <1>1, SeenOnlyInit, SeenOnlyNext, PTL DEF Spec
<1>3. IInv /\ SeenOnly /\ [Next]_vars => [Delivery!Next]_(Delivery!vars)
  BY StepDelivers
<1> QED
  BY <1>2, <1>3, Invariance, DeliveryInit, PTL DEF Spec, Delivers, Delivery!Spec

-----------------------------------------------------------------------------
(***************************************************************************)
(* The binaries.                                                           *)
(***************************************************************************)

\* What the running build has put in the bucket is there, metadata is of builds
\* that were started, and only a build that runs or one of a version whose build
\* job failed has left binaries out.
BinariesFit ==
  \A v \in Releases :
    /\ IF v \in running["build"] THEN builds[v] # 0 ELSE puts[v] = {}
    /\ \A s \in BuildStacks :
         /\ <<s, "bucket">> \in puts[v] => <<s, builds[v]>> \in uploaded[v]
         /\ <<s, "metadata">> \in puts[v] => meta[v][s] = builds[v]
         /\ meta[v][s] <= builds[v]
    /\ v \notin failed["build"] =>
         \A s \in BuildStacks : \A n \in 1..builds[v] :
           \/ <<s, n>> \in uploaded[v]
           \/ n = builds[v] /\ v \in running["build"]

\* The entries of deps point to binaries of builds that were started.
NamesBuilds(deps, started) ==
  \A d \in deps :
    d.sha # 0 => d.version \in Releases /\ d.sha <= started[d.version]

\* So do the manifests and the pull requests that may change them.
ManifestsNameBuilds ==
  \A b \in Buildpacks :
    /\ NamesBuilds(develop[b], builds)
    /\ NamesBuilds(released[b], builds)
    /\ \A v \in running[b] : NamesBuilds(pr[b][v].head, builds)

\* Of the first k builds of a version, one has left a binary for every stack, when
\* put is what the version has in the bucket.
Finished(put, k) == \E n \in 1..k : BuildStacks \X {n} \subseteq put

\* The metadata of a version that passed is of no older build: what failed builds
\* described before is overwritten.
PassedIsFinished ==
  \A v \in passed["build"] : \A s \in BuildStacks : Finished(uploaded[v], meta[v][s])

NamesFinished(deps, put) ==
  \A d \in deps : d.sha # 0 => d.version \in Releases /\ Finished(put[d.version], d.sha)

\* Nor are the binaries that manifests and pull requests name.
ManifestsNameFinished ==
  \A b \in Buildpacks :
    /\ NamesFinished(develop[b], uploaded)
    /\ NamesFinished(released[b], uploaded)
    /\ \A v \in running[b] : NamesFinished(pr[b][v].head, uploaded)

\* The build job's own steps; nobody else writes the bucket.
LEMMA BinariesFitNext == TypeOK /\ BinariesFit /\ [Next]_vars => BinariesFit'
<1> SUFFICES ASSUME TypeOK, BinariesFit, [Next]_vars PROVE BinariesFit'
  OBVIOUS
<1>0. /\ running \in [Jobs -> SUBSET Releases]
      /\ failed \in [Jobs -> SUBSET Releases]
      /\ builds \in [Releases -> 0..MaxAttempts]
      /\ puts \in [Releases -> SUBSET (BuildStacks \X {"bucket", "metadata"})]
      /\ uploaded \in [Releases -> SUBSET (BuildStacks \X (0..MaxAttempts))]
      /\ meta \in [Releases -> [BuildStacks \cup CopyStacks -> 0..MaxAttempts]]
      /\ MaxAttempts \in Nat
      /\ "build" \in Jobs
  BY MaxAttemptsType, JobNames DEF TypeOK
<1>1. CASE Environment
  BY <1>1 DEF Environment, BinariesFit, repo, bucket, locals
<1>2. ASSUME NEW j \in Jobs, StepOf(j), j # "build" PROVE BinariesFit'
  <2>1. UNCHANGED <<running["build"], failed["build"], builds, puts, uploaded>>
    BY <1>0, <1>2, OtherJobs, OtherState
  <2> QED
    BY <1>2, <2>1, BuiltMetadata DEF BinariesFit
<1>3. ASSUME NEW v \in Releases, StartBuild(v) PROVE BinariesFit'
  <2>1. v \notin running["build"]
    BY <1>3, DistinctJobs DEF StartBuild, Start, Idle, SameJobs
  <2>2. /\ running'["build"] = running["build"] \cup {v}
        /\ UNCHANGED <<failed, puts, uploaded, meta>>
        /\ builds'[v] = builds[v] + 1
        /\ \A w \in Releases \ {v} : builds'[w] = builds[w]
    BY <1>0, <1>3 DEF StartBuild, Start, repo, locals
  <2>3. ASSUME NEW w \in Releases \ {v}
        PROVE  /\ w \in running'["build"] <=> w \in running["build"]
               /\ builds'[w] = builds[w]
    BY <2>2
  <2>4. ASSUME v \notin failed["build"], NEW s \in BuildStacks, NEW n \in 1..builds'[v]
        PROVE  <<s, n>> \in uploaded[v] \/ n = builds'[v]
    <3>1. n \in 1..builds[v] \/ n = builds'[v]
      BY <1>0, <2>2
    <3> QED
      BY <2>1, <2>4, <3>1 DEF BinariesFit
  <2>5. ASSUME NEW s \in BuildStacks PROVE meta[v][s] <= builds'[v]
    <3>1. meta[v][s] \in Nat /\ builds[v] \in Nat
      BY <1>0
    <3>2. meta[v][s] <= builds[v]
      BY DEF BinariesFit
    <3> QED
      BY <2>2, <3>1, <3>2
  <2>6. puts[v] = {} /\ v \in running'["build"] /\ builds'[v] # 0
    BY <1>0, <2>1, <2>2 DEF BinariesFit
  <2> QED
    BY <2>2, <2>3, <2>4, <2>5, <2>6 DEF BinariesFit
<1>4. ASSUME NEW v \in Releases, NEW s \in BuildStacks, PutArtifact(v, s)
      PROVE  BinariesFit'
  <2>1. UNCHANGED <<running, failed, builds, meta>> /\ v \in running["build"]
    BY <1>4 DEF PutArtifact, concourse, repo
  <2>2. /\ puts'[v] = puts[v] \cup {<<s, "bucket">>}
        /\ uploaded'[v] = uploaded[v] \cup {<<s, builds[v]>>}
        /\ \A w \in Releases \ {v} : UNCHANGED <<puts[w], uploaded[w]>>
    BY <1>0, <1>4 DEF PutArtifact
  <2>3. \A t \in BuildStacks :
          /\ <<t, "bucket">> \in puts'[v] => <<t, builds[v]>> \in uploaded'[v]
          /\ <<t, "metadata">> \in puts'[v] => <<t, "metadata">> \in puts[v]
    BY <2>2 DEF BinariesFit
  <2> QED
    BY <2>1, <2>2, <2>3 DEF BinariesFit
<1>5. ASSUME NEW v \in Releases, NEW s \in BuildStacks, PutMetadata(v, s)
      PROVE  BinariesFit'
  <2>1. UNCHANGED <<running, failed, builds, uploaded>> /\ v \in running["build"]
    BY <1>5 DEF PutMetadata, concourse, bucket
  <2>2. /\ \A w \in Releases \ {v} : UNCHANGED <<puts[w], meta[w]>>
        /\ \A t \in BuildStacks : <<t, "bucket">> \in puts'[v]
                                    => <<t, "bucket">> \in puts[v]
    BY <1>0, <1>5 DEF PutMetadata
  <2>3. \A t \in BuildStacks : meta'[v][t] = meta[v][t] \/ meta'[v][t] = builds[v]
    BY <1>0, <1>5 DEF PutMetadata
  <2>4. ASSUME NEW t \in BuildStacks PROVE meta'[v][t] <= builds[v]
    <3>1. builds[v] \in Nat
      BY <1>0
    <3>2. meta[v][t] <= builds[v]
      BY DEF BinariesFit
    <3> QED
      BY <2>3, <3>1, <3>2
  <2>5. ASSUME NEW t \in BuildStacks, <<t, "metadata">> \in puts'[v]
        PROVE  meta'[v][t] = builds[v]
    <3>1. t = s \/ <<t, "metadata">> \in puts[v]
      BY <1>0, <1>5, <2>5 DEF PutMetadata
    <3>2. meta'[v] = [meta[v] EXCEPT ![s] = builds[v]]
      BY <1>0, <1>5 DEF PutMetadata
    <3> QED
      BY <1>0, <2>3, <3>1, <3>2 DEF BinariesFit
  <2> QED
    BY <2>1, <2>2, <2>4, <2>5 DEF BinariesFit
<1>6. ASSUME NEW v \in Releases, FinishBuild(v) PROVE BinariesFit'
  <2>1. UNCHANGED <<builds, uploaded, meta>>
    BY <1>6 DEF FinishBuild, bucket, repo
  <2>2. /\ running'["build"] = running["build"] \ {v}
        /\ failed["build"] \subseteq failed'["build"]
        /\ puts'[v] = {}
        /\ \A w \in Releases \ {v} : puts'[w] = puts[w]
    BY <1>0, <1>6 DEF FinishBuild, End, Succeed, Break
  <2>3. \A s \in BuildStacks : <<s, builds[v]>> \in uploaded[v]
    BY <1>6 DEF FinishBuild, BinariesFit
  <2> QED
    BY <2>1, <2>2, <2>3 DEF BinariesFit
<1>7. ASSUME NEW v \in Releases, Fail("build", v) PROVE BinariesFit'
  <2>1. UNCHANGED <<builds, uploaded, meta>>
    BY <1>7 DEF Fail, bucket, repo
  <2>2. /\ running'["build"] = running["build"] \ {v}
        /\ failed'["build"] = failed["build"] \cup {v}
        /\ puts'[v] = {}
        /\ \A w \in Releases \ {v} : puts'[w] = puts[w]
    BY <1>0, <1>7 DEF Fail, Break
  <2> QED
    BY <2>1, <2>2 DEF BinariesFit
<1> QED
  BY <1>1, <1>2, <1>3, <1>4, <1>5, <1>6, <1>7, StepCases, DistinctJobs
  DEF StepOf, BuildJob

\* Builds are counted up (the build job).
LEMMA BuildsStep ==
  ASSUME TypeOK, [Next]_vars, NEW v \in Releases
  PROVE  builds[v] <= builds'[v]
<1>0. builds \in [Releases -> 0..MaxAttempts] /\ builds[v] \in Nat
  BY MaxAttemptsType DEF TypeOK
<1>1. CASE Environment
  BY <1>0, <1>1 DEF Environment, bucket
<1>2. ASSUME NEW j \in Jobs, StepOf(j), j # "build" PROVE builds[v] <= builds'[v]
  BY <1>0, <1>2, OtherState
<1>3. ASSUME NEW w \in Releases, BuildJob(w) \/ Fail("build", w)
      PROVE  builds[v] <= builds'[v]
  <2>1. builds' = builds \/ builds' = [builds EXCEPT ![w] = @ + 1]
    BY <1>3
    DEF BuildJob, StartBuild, PutArtifact, PutMetadata, FinishBuild, Fail, bucket
  <2>2. builds'[v] = builds[v] \/ builds'[v] = builds[v] + 1
    BY <1>0, <2>1
  <2> QED
    BY <1>0, <2>2
<1> QED
  BY <1>1, <1>2, <1>3, StepCases, DistinctJobs DEF StepOf

\* Names of builds stay names of builds when more of them start.
LEMMA NamesStay ==
  ASSUME TypeOK, [Next]_vars, NEW deps \in SUBSET Entries, NamesBuilds(deps, builds)
  PROVE  NamesBuilds(deps, builds')
<1> SUFFICES ASSUME NEW d \in deps, d.sha # 0
             PROVE  d.version \in Releases /\ d.sha <= builds'[d.version]
  BY DEF NamesBuilds
<1>1. d.version \in Releases /\ d.sha <= builds[d.version]
  BY DEF NamesBuilds
<1>2. PICK v \in Releases : v = d.version
  BY <1>1
<1>3. builds[v] <= builds'[v]
  BY BuildsStep
<1>4. d.sha \in Nat /\ builds[v] \in Nat /\ builds'[v] \in Nat
  <2>1. d.sha \in 0..MaxAttempts
    BY DEF Entries
  <2>2. builds[v] \in 0..MaxAttempts
    BY DEF TypeOK
  <2>3. builds'[v] \in 0..MaxAttempts
    BY TypeNext DEF TypeOK
  <2> QED
    BY <2>1, <2>2, <2>3, MaxAttemptsType
<1>5. d.sha <= builds[v]
  BY <1>1, <1>2
<1>6. d.sha <= builds'[v]
  BY <1>3, <1>4, <1>5
<1> QED
  BY <1>2, <1>6

\* A manifest gets entries from metadata files and other manifests only (run.rb).
LEMMA ManifestsNameBuildsNext ==
  TypeOK /\ PullRequestsFit /\ BinariesFit /\ ManifestsNameBuilds /\ [Next]_vars
    => ManifestsNameBuilds'
<1> SUFFICES ASSUME TypeOK, PullRequestsFit, BinariesFit, ManifestsNameBuilds,
                    [Next]_vars, NEW b \in Buildpacks
             PROVE  /\ NamesBuilds(develop'[b], builds')
                    /\ NamesBuilds(released'[b], builds')
                    /\ \A v \in running'[b] : NamesBuilds(pr'[b][v].head, builds')
  BY DEF ManifestsNameBuilds, NamesBuilds
<1>0. /\ develop[b] \in SUBSET Entries /\ released[b] \in SUBSET Entries
      /\ running[b] \subseteq Releases /\ running'[b] \subseteq Releases
      /\ \A v \in Releases : pr[b][v].head \in SUBSET Entries
  <2>1. running' \in [Jobs -> SUBSET Releases]
    BY TypeNext DEF TypeOK
  <2> QED
    BY <2>1, JobNames DEF TypeOK
<1>1. NamesBuilds(develop[b], builds') /\ NamesBuilds(released[b], builds')
  BY <1>0, NamesStay DEF ManifestsNameBuilds
<1>2. \A v \in running[b] : NamesBuilds(pr[b][v].head, builds')
  BY <1>0, NamesStay DEF ManifestsNameBuilds
<1>3. NamesBuilds(develop'[b], builds')
  <2>1. CASE develop'[b] = develop[b]
    BY <1>1, <2>1
  <2>2. ASSUME NEW v \in running[b], MergePullRequest(b, v)
        PROVE  NamesBuilds(develop'[b], builds')
    <3>1. develop'[b] \subseteq develop[b] \cup pr[b][v].head
      BY <2>2 DEF MergePullRequest, Merged, TypeOK
    <3> QED
      BY <1>1, <1>2, <3>1 DEF NamesBuilds
  <2> QED
    BY <2>1, <2>2, DevelopStep
<1>4. NamesBuilds(released'[b], builds')
  BY <1>1, ReleasedStep
<1>5. ASSUME NEW v \in running'[b] PROVE NamesBuilds(pr'[b][v].head, builds')
  <2>1. CASE v \in running[b] /\ pr'[b][v] = pr[b][v]
    BY <1>2, <2>1
  <2>2. CASE pr'[b][v] = [base |-> develop[b],
                          head |-> UpdatedManifest(v, develop[b], released[b])]
    <3>1. NamesBuilds({BuiltEntry(v, s) : s \in BuildStacks}, builds')
      <4>1. ASSUME NEW s \in BuildStacks PROVE meta[v][s] <= builds'[v]
        <5>1. meta[v][s] <= builds[v] /\ builds[v] <= builds'[v]
          BY <1>0, BuildsStep DEF BinariesFit
        <5>2. meta[v][s] \in 0..MaxAttempts /\ builds[v] \in 0..MaxAttempts
          BY <1>0 DEF TypeOK
        <5>3. builds'[v] \in 0..MaxAttempts
          BY <1>0, TypeNext DEF TypeOK
        <5> QED
          BY <5>1, <5>2, <5>3, MaxAttemptsType
      <4> QED
        BY <1>0, <4>1 DEF BuiltEntry, NamesBuilds
    <3>2. pr'[b][v].head = UpdatedManifest(v, develop[b], released[b])
      BY <2>2
    <3> QED
      BY <1>1, <3>1, <3>2, UpdatedEntries DEF NamesBuilds
  <2> QED
    BY <2>1, <2>2, RequestStep
<1> QED
  BY <1>3, <1>4, <1>5

\* Nothing is taken out of the bucket.
LEMMA UploadedStays ==
  ASSUME TypeOK, [Next]_vars, NEW v \in Releases
  PROVE  uploaded[v] \subseteq uploaded'[v]
<1>0. uploaded \in [Releases -> SUBSET (BuildStacks \X (0..MaxAttempts))]
  BY DEF TypeOK
<1>1. CASE Environment
  BY <1>1 DEF Environment, bucket
<1>2. ASSUME NEW j \in Jobs, StepOf(j), j # "build"
      PROVE  uploaded[v] \subseteq uploaded'[v]
  BY <1>2, OtherState
<1>3. ASSUME NEW w \in Releases, BuildJob(w) \/ Fail("build", w)
      PROVE  uploaded[v] \subseteq uploaded'[v]
  <2>1. \/ uploaded' = uploaded
        \/ \E s \in BuildStacks :
             uploaded' = [uploaded EXCEPT ![w] = @ \cup {<<s, builds[w]>>}]
    BY <1>3
    DEF BuildJob, StartBuild, PutArtifact, PutMetadata, FinishBuild, Fail, bucket
  <2> QED
    BY <1>0, <2>1
<1> QED
  BY <1>1, <1>2, <1>3, StepCases, DistinctJobs DEF StepOf

\* More binaries and more builds leave Finished true.
LEMMA FinishedStays ==
  ASSUME NEW put, NEW more, put \subseteq more, NEW k \in Nat, NEW l \in Nat, k <= l,
         Finished(put, k)
  PROVE  Finished(more, l)
<1>1. PICK n \in 1..k : BuildStacks \X {n} \subseteq put
  BY DEF Finished
<1>2. n \in 1..l
  OBVIOUS
<1> QED
  BY <1>1, <1>2 DEF Finished

\* A build passes when it has put everything; one that runs again describes newer
\* binaries, which may not be there yet.
LEMMA PassedIsFinishedNext ==
  TypeOK /\ BinariesFit /\ PassedIsFinished /\ [Next]_vars => PassedIsFinished'
<1> SUFFICES ASSUME TypeOK, BinariesFit, PassedIsFinished, [Next]_vars,
                    NEW v \in passed'["build"], NEW s \in BuildStacks
             PROVE  Finished(uploaded'[v], meta'[v][s])
  BY DEF PassedIsFinished
<1>0. /\ running \in [Jobs -> SUBSET Releases] /\ passed \in [Jobs -> SUBSET Releases]
      /\ builds \in [Releases -> 0..MaxAttempts]
      /\ meta \in [Releases -> [BuildStacks \cup CopyStacks -> 0..MaxAttempts]]
      /\ MaxAttempts \in Nat /\ "build" \in Jobs
  BY MaxAttemptsType, JobNames DEF TypeOK
<1>1. v \in Releases
  BY TypeNext, <1>0 DEF TypeOK
<1>2. meta[v][s] \in Nat /\ builds[v] \in Nat
  BY <1>0, <1>1
<1>3. uploaded[v] \subseteq uploaded'[v]
  BY <1>1, UploadedStays
<1>4. ASSUME v \in passed["build"], meta'[v][s] = meta[v][s]
      PROVE  Finished(uploaded'[v], meta'[v][s])
  <2>1. Finished(uploaded[v], meta[v][s])
    BY <1>4 DEF PassedIsFinished
  <2>2. meta[v][s] <= meta[v][s]
    BY <1>2
  <2> QED
    BY <1>2, <1>3, <1>4, <2>1, <2>2, FinishedStays
<1>5. CASE Environment
  BY <1>4, <1>5 DEF Environment, repo
<1>6. ASSUME NEW j \in Jobs, StepOf(j), j # "build"
      PROVE  Finished(uploaded'[v], meta'[v][s])
  <2>1. passed'["build"] = passed["build"]
    BY <1>0, <1>6, OtherJobs
  <2>2. meta'[v][s] = meta[v][s]
    BY <1>1, <1>6, BuiltMetadata
  <2> QED
    BY <1>4, <2>1, <2>2
<1>7. ASSUME NEW w \in Releases, StartBuild(w) \/ Fail("build", w)
                                   \/ \E t \in BuildStacks : PutArtifact(w, t)
      PROVE  Finished(uploaded'[v], meta'[v][s])
  <2>1. passed' = passed /\ meta' = meta
    BY <1>7 DEF StartBuild, Start, Fail, Break, PutArtifact, concourse, repo
  <2> QED
    BY <1>4, <2>1
<1>8. ASSUME NEW w \in Releases, NEW t \in BuildStacks, PutMetadata(w, t)
      PROVE  Finished(uploaded'[v], meta'[v][s])
  <2>1. passed' = passed /\ meta' = [meta EXCEPT ![w][t] = builds[w]]
    BY <1>8 DEF PutMetadata, concourse
  <2>2. CASE w = v /\ t = s
    <3>1. meta'[v][s] = builds[v]
      BY <1>0, <1>1, <2>1, <2>2
    <3>2. meta[v][s] <= builds[v]
      BY <1>1 DEF BinariesFit
    <3>3. Finished(uploaded[v], meta[v][s])
      BY <2>1 DEF PassedIsFinished
    <3> QED
      BY <1>2, <1>3, <3>1, <3>2, <3>3, FinishedStays
  <2>3. CASE ~(w = v /\ t = s)
    <3>1. meta'[v][s] = meta[v][s]
      BY <1>0, <1>1, <2>1, <2>3
    <3> QED
      BY <1>4, <2>1, <3>1
  <2> QED
    BY <2>2, <2>3
<1>9. ASSUME NEW w \in Releases, FinishBuild(w)
      PROVE  Finished(uploaded'[v], meta'[v][s])
  <2>1. UNCHANGED <<uploaded, meta>>
    BY <1>9 DEF FinishBuild, bucket, repo
  <2>2. passed'["build"] \subseteq passed["build"] \cup {w}
    BY <1>0, <1>9 DEF FinishBuild, End, Succeed, Break
  <2>3. CASE w = v
    <3>1. /\ puts[v] = BuildStacks \X {"bucket", "metadata"} /\ v \in running["build"]
      BY <1>9, <2>3 DEF FinishBuild
    <3>2. /\ <<s, "metadata">> \in puts[v]
          /\ \A t \in BuildStacks : <<t, "bucket">> \in puts[v]
      BY <3>1
    <3>3. meta[v][s] = builds[v]
      BY <1>1, <3>2 DEF BinariesFit
    <3>4. \A t \in BuildStacks : <<t, builds[v]>> \in uploaded[v]
      BY <1>1, <3>2 DEF BinariesFit
    <3>5. BuildStacks \X {builds[v]} \subseteq uploaded[v]
      BY <3>4
    <3>6. builds[v] \in 1..builds[v]
      BY <1>1, <1>2, <3>1 DEF BinariesFit
    <3> QED
      BY <2>1, <3>3, <3>5, <3>6 DEF Finished
  <2>4. CASE w # v
    BY <1>4, <2>1, <2>2, <2>4
  <2> QED
    BY <2>3, <2>4
<1> QED
  BY <1>5, <1>6, <1>7, <1>8, <1>9, StepCases, DistinctJobs DEF StepOf, BuildJob

\* Names of finished builds stay such.
LEMMA NamesStayFinished ==
  ASSUME TypeOK, [Next]_vars, NEW deps \in SUBSET Entries,
         NamesFinished(deps, uploaded)
  PROVE  NamesFinished(deps, uploaded')
<1> SUFFICES ASSUME NEW d \in deps, d.sha # 0
             PROVE  d.version \in Releases /\ Finished(uploaded'[d.version], d.sha)
  BY DEF NamesFinished
<1>1. d.version \in Releases /\ Finished(uploaded[d.version], d.sha)
  BY DEF NamesFinished
<1>2. d.sha \in Nat /\ d.sha <= d.sha
  <2>1. d.sha \in 0..MaxAttempts
    BY DEF Entries
  <2> QED
    BY <2>1, MaxAttemptsType
<1>3. uploaded[d.version] \subseteq uploaded'[d.version]
  BY <1>1, UploadedStays
<1> QED
  BY <1>1, <1>2, <1>3, FinishedStays

\* An update takes its binaries from the metadata of a version that passed (run.rb).
LEMMA ManifestsNameFinishedNext ==
  IInv /\ PassedIsFinished /\ ManifestsNameFinished /\ [Next]_vars
    => ManifestsNameFinished'
<1> SUFFICES ASSUME IInv, PassedIsFinished, ManifestsNameFinished, [Next]_vars,
                    NEW b \in Buildpacks
             PROVE  /\ NamesFinished(develop'[b], uploaded')
                    /\ NamesFinished(released'[b], uploaded')
                    /\ \A v \in running'[b] : NamesFinished(pr'[b][v].head, uploaded')
  BY DEF ManifestsNameFinished, NamesFinished
<1>t. TypeOK /\ PullRequestsFit /\ Ordered
  BY DEF IInv
<1>0. /\ develop[b] \in SUBSET Entries /\ released[b] \in SUBSET Entries
      /\ running[b] \subseteq Releases /\ running'[b] \subseteq Releases
      /\ \A v \in Releases : pr[b][v].head \in SUBSET Entries
  <2>1. running' \in [Jobs -> SUBSET Releases]
    BY <1>t, TypeNext DEF TypeOK
  <2> QED
    BY <1>t, <2>1, JobNames DEF TypeOK
<1>1. NamesFinished(develop[b], uploaded') /\ NamesFinished(released[b], uploaded')
  BY <1>t, <1>0, NamesStayFinished DEF ManifestsNameFinished
<1>2. \A v \in running[b] : NamesFinished(pr[b][v].head, uploaded')
  BY <1>t, <1>0, NamesStayFinished DEF ManifestsNameFinished
<1>3. NamesFinished(develop'[b], uploaded')
  <2>1. CASE develop'[b] = develop[b]
    BY <1>1, <2>1
  <2>2. ASSUME NEW v \in running[b], MergePullRequest(b, v)
        PROVE  NamesFinished(develop'[b], uploaded')
    <3>1. develop'[b] \subseteq develop[b] \cup pr[b][v].head
      BY <1>t, <2>2 DEF MergePullRequest, Merged, TypeOK
    <3> QED
      BY <1>1, <1>2, <3>1 DEF NamesFinished
  <2> QED
    BY <1>t, <2>1, <2>2, DevelopStep
<1>4. NamesFinished(released'[b], uploaded')
  BY <1>t, <1>1, ReleasedStep
<1>5. ASSUME NEW v \in running'[b]
      PROVE  NamesFinished(pr'[b][v].head, uploaded')
  <2>1. CASE v \in running[b] /\ pr'[b][v] = pr[b][v]
    BY <1>2, <2>1
  <2>2. ASSUME Start(b, v),
               pr'[b][v] = [base |-> develop[b],
                            head |-> UpdatedManifest(v, develop[b], released[b])]
        PROVE  NamesFinished(pr'[b][v].head, uploaded')
    <3>1. v \in Releases /\ v \in passed["build"]
      BY <1>t, <1>0, <2>2, UpdatesGetBuilt
    <3>2. ASSUME NEW s \in BuildStacks
          PROVE  Finished(uploaded'[v], meta[v][s])
      <4>1. meta[v][s] \in Nat /\ meta[v][s] <= meta[v][s]
        <5>1. meta[v][s] \in 0..MaxAttempts
          BY <1>t, <3>1 DEF TypeOK
        <5> QED
          BY <5>1, MaxAttemptsType
      <4>2. Finished(uploaded[v], meta[v][s])
        BY <3>1 DEF PassedIsFinished
      <4>3. uploaded[v] \subseteq uploaded'[v]
        BY <1>t, <3>1, UploadedStays
      <4> QED
        BY <4>1, <4>2, <4>3, FinishedStays
    <3>3. NamesFinished({BuiltEntry(v, s) : s \in BuildStacks}, uploaded')
      BY <3>1, <3>2 DEF BuiltEntry, NamesFinished
    <3>4. pr'[b][v].head = UpdatedManifest(v, develop[b], released[b])
      BY <2>2
    <3> QED
      BY <1>1, <3>3, <3>4, UpdatedEntries DEF NamesFinished
  <2> QED
    BY <1>t, <2>1, <2>2, RequestStep
<1> QED
  BY <1>3, <1>4, <1>5

\* Before anything is reported there are no binaries but the old ones.
LEMMA BinariesInit ==
  Init => /\ BinariesFit /\ ManifestsNameBuilds
          /\ PassedIsFinished /\ ManifestsNameFinished
<1> SUFFICES ASSUME Init PROVE /\ BinariesFit /\ ManifestsNameBuilds
                               /\ PassedIsFinished /\ ManifestsNameFinished
  OBVIOUS
<1>1. BinariesFit
  BY JobNames DEF Init, BinariesFit
<1>2. \A d \in OldEntries : d.sha = 0
  BY DEF OldEntries
<1>3. ManifestsNameBuilds
  BY <1>2, JobNames DEF Init, ManifestsNameBuilds, NamesBuilds
<1>4. PassedIsFinished
  BY JobNames DEF Init, PassedIsFinished
<1>5. ManifestsNameFinished
  BY <1>2, JobNames DEF Init, ManifestsNameFinished, NamesFinished
<1> QED
  BY <1>1, <1>3, <1>4, <1>5

\* A manifest points to binaries that are in the bucket, although metadata is
\* pushed beside them and not after, builds fail between the two and are started
\* again, and pull requests carry what an earlier build described: unless the
\* version had a complete build before, and its build job runs again or has failed.
THEOREM BinariesAreThere == Spec => []ManifestBinaryIsUploaded
<1>1. Spec => []BinariesFit
  BY BinariesInit, BinariesFitNext, TypeCorrect, PTL DEF Spec
<1>2. IInv => TypeOK /\ PullRequestsFit
  BY DEF IInv
<1>3. Spec => []ManifestsNameBuilds
  BY <1>1, <1>2, BinariesInit, ManifestsNameBuildsNext, Invariance, PTL DEF Spec
<1>4. Spec => []PassedIsFinished
  BY <1>1, BinariesInit, PassedIsFinishedNext, TypeCorrect, PTL DEF Spec
<1>5. Spec => []ManifestsNameFinished
  BY <1>4, BinariesInit, ManifestsNameFinishedNext, Invariance, PTL DEF Spec
<1>6. TypeOK /\ BinariesFit /\ ManifestsNameBuilds /\ ManifestsNameFinished
        => ManifestBinaryIsUploaded
  <2> SUFFICES ASSUME TypeOK, BinariesFit, ManifestsNameBuilds, ManifestsNameFinished,
                      NEW b \in Buildpacks, NEW d \in develop[b] \cup released[b],
                      NEW s \in d.stacks, d.sha # 0, <<s, d.sha>> \notin uploaded[d.version]
               PROVE  /\ d.version \in running["build"] \cup failed["build"]
                      /\ \E n \in 1..(d.sha - 1) :
                           BuildStacks \X {n} \subseteq uploaded[d.version]
    BY DEF ManifestBinaryIsUploaded
  <2>1. d \in Entries
    BY DEF TypeOK
  <2>2. s \in BuildStacks /\ d.sha \in 0..MaxAttempts
    BY <2>1 DEF Entries
  <2>3. d.version \in Releases /\ d.sha <= builds[d.version]
    BY DEF ManifestsNameBuilds, NamesBuilds
  <2>4. builds[d.version] \in 0..MaxAttempts
    BY <2>3 DEF TypeOK
  <2>5. d.sha \in 1..builds[d.version]
    BY <2>2, <2>3, <2>4, MaxAttemptsType
  <2>6. d.version \in running["build"] \cup failed["build"]
    BY <2>2, <2>3, <2>5 DEF BinariesFit
  <2>7. Finished(uploaded[d.version], d.sha)
    BY DEF ManifestsNameFinished, NamesFinished
  <2>8. PICK n \in 1..d.sha : BuildStacks \X {n} \subseteq uploaded[d.version]
    BY <2>7 DEF Finished
  <2>9. n # d.sha
    BY <2>2, <2>8
  <2>10. n \in 1..(d.sha - 1)
    BY <2>2, <2>9, MaxAttemptsType
  <2> QED
    BY <2>6, <2>8, <2>10
<1> QED
  BY <1>1, <1>3, <1>5, <1>6, TypeCorrect, PTL

-----------------------------------------------------------------------------
(***************************************************************************)
(* The stacks.                                                             *)
(***************************************************************************)

\* The versions that deps offers on stack s.
VersionsOn(deps, s) == EntryVersions(OnStack(deps, s))

\* deps offers the same versions on every stack.
Agrees(deps) == \A s, t \in BuildStacks : VersionsOn(deps, s) = VersionsOn(deps, t)

\* The manifests that an update reads agree, and so does what it makes of them.
ManifestsAgree ==
  \A b \in Buildpacks :
    /\ Agrees(develop[b])
    /\ Agrees(released[b])
    /\ \A v \in running[b] : Agrees(pr[b][v].base) /\ Agrees(pr[b][v].head)

\* What an update was made from had one entry per version and stack.
BasesOnce ==
  Strategy # "keep_latest_released" =>
    \A b \in Buildpacks : \A v \in running[b] : VersionsOnceIn(pr[b][v].base)

\* A version is offered by an entry.
LEMMA VersionOnStack ==
  ASSUME NEW deps, NEW s
  PROVE  \A w : w \in VersionsOn(deps, s)
                  <=> \E d \in deps : d.stacks = {s} /\ d.version = w
BY DEF VersionsOn, EntryVersions, OnStack

\* What one turn of the loop over the metadata files leaves on its stack.
LEMMA TurnOfStack ==
  ASSUME NEW v \in Releases, BuiltStacks(v) = BuildStacks,
         NEW deps \in SUBSET Entries, NEW rel \in SUBSET Entries,
         NEW s \in BuildStacks
  PROVE  OnStack(Switched(v, deps, rel), s)
           = Switch(LineType, Strategy, BuiltEntry(v, s), OnStack(deps, s),
                    OnStack(rel, s))
<1> DEFINE Turn(t) == Switch(LineType, Strategy, BuiltEntry(v, t),
                             OnStack(deps, t), OnStack(rel, t))
<1>1. Switched(v, deps, rel) = UNION {Turn(t) : t \in BuildStacks}
  BY DEF Switched
<1>2. ASSUME NEW t \in BuildStacks, NEW e \in Turn(t) PROVE e.stacks = {t}
  <2>1. e \in OnStack(deps, t) \cup {BuiltEntry(v, t)}
             \cup Matching(LineType, BuiltEntry(v, t), OnStack(rel, t))
    BY <1>2, SwitchAdds
  <2> QED
    BY <2>1 DEF OnStack, BuiltEntry, Matching
<1>3. \A t \in BuildStacks : {t} = {s} => t = s
  OBVIOUS
<1> HIDE DEF Turn
<1>4. OnStack(Switched(v, deps, rel), s) = Turn(s)
  BY <1>1, <1>2, <1>3 DEF OnStack
<1> QED
  BY <1>4 DEF Turn

\* The loop makes of stacks that agree stacks that agree: each turn depends on
\* the versions of its stack only, so it comes to the same on each.
LEMMA SwitchedAgrees ==
  ASSUME NEW v \in Releases, BuiltStacks(v) = BuildStacks,
         NEW deps \in SUBSET Entries, NEW rel \in SUBSET Entries,
         Agrees(deps), Agrees(rel)
  PROVE  Agrees(Switched(v, deps, rel))
<1>1. ASSUME NEW s \in BuildStacks
      PROVE  VersionsOn(Switched(v, deps, rel), s)
               = VersionsAfter(LineType, Strategy, v, VersionsOn(deps, s),
                               VersionsOn(rel, s))
  <2>1. /\ BuiltEntry(v, s).version = v /\ BuiltEntry(v, s).stacks = {s}
        /\ LineType \in LineTypes
    BY VersionAssumption DEF BuiltEntry
  <2>2. /\ \A d \in OnStack(deps, s) : d.stacks \subseteq {s}
        /\ \A d \in OnStack(rel, s) : d.stacks \subseteq {s}
                                      /\ d.version \in VersionRecords
    BY EntryTypes DEF OnStack
  <2>3. EntryVersions(Switch(LineType, Strategy, BuiltEntry(v, s), OnStack(deps, s),
                             OnStack(rel, s)))
          = VersionsAfter(LineType, Strategy, v, EntryVersions(OnStack(deps, s)),
                          EntryVersions(OnStack(rel, s)))
    <3> DEFINE dep == BuiltEntry(v, s)
               here == OnStack(deps, s)
               there == OnStack(rel, s)
    <3>1. /\ \A d \in here : d.stacks \subseteq dep.stacks
          /\ \A d \in there : d.stacks \subseteq dep.stacks /\ d.version \in VersionRecords
          /\ dep.version = v
      BY <2>1, <2>2
    <3> HIDE DEF dep, here, there
    <3>2. EntryVersions(Switch(LineType, Strategy, dep, here, there))
            = VersionsAfter(LineType, Strategy, dep.version, EntryVersions(here),
                            EntryVersions(there))
      BY <2>1, <3>1, SwitchVersions
    <3> QED
      BY <3>1, <3>2 DEF dep, here, there
  <2> QED
    BY <2>3, TurnOfStack DEF VersionsOn
<1> QED
  BY <1>1 DEF Agrees

\* So does the task, which may leave a manifest as it is.
LEMMA UpdatedAgrees ==
  ASSUME NEW v \in Releases, BuiltStacks(v) = BuildStacks,
         NEW deps \in SUBSET Entries, NEW rel \in SUBSET Entries,
         Agrees(deps), Agrees(rel)
  PROVE  Agrees(UpdatedManifest(v, deps, rel))
BY SwitchedAgrees DEF UpdatedManifest

\* Merging when nobody else works on the line: it becomes that of head.
LEMMA MergeOfOneJob ==
  ASSUME PullRequestsFit, NEW b \in Buildpacks, NEW v \in running[b], OneJob(v)
  PROVE  OnLine(Merged(b, v), v) = OnLine(pr[b][v].head, v)
BY DEF PullRequestsFit, Improves, Merged, OnLine

\* Merging leaves stacks that agree.  With other jobs at work on the line, git
\* may apply the same change to manifests that differ from the base: it is the
\* same difference on every stack.
LEMMA MergeAgrees ==
  ASSUME TypeOK, PullRequestsFit, VersionsOnce, BasesOnce, ManifestsAgree,
         NEW b \in Buildpacks, NEW v \in running[b],
         pr[b][v].base \ pr[b][v].head \subseteq develop[b]
  PROVE  Agrees(Merged(b, v))
<1>0. PICK base, head, deps, new :
        /\ base = pr[b][v].base /\ head = pr[b][v].head
        /\ deps = develop[b] /\ new = Merged(b, v)
  OBVIOUS
<1>1. /\ Agrees(base) /\ Agrees(head) /\ Agrees(deps)
      /\ base \ head \subseteq deps
      /\ new = (deps \ (base \ head)) \cup (head \ base)
      /\ v \in Releases
  BY <1>0, JobNames DEF ManifestsAgree, Merged, TypeOK
<1>2. CASE Strategy = "keep_latest_released"
  <2>1. /\ OnLine(new, v) = OnLine(head, v)
        /\ \A d : ~SameVersionLine(d.version, v) => (d \in new <=> d \in deps)
    <3>1. OneJob(v)
      BY <1>1, <1>2, KeptLinesHaveOneJob
    <3> QED
      BY <1>0, <3>1, MergeOfOneJob, MergeFits
  <2>2. ASSUME NEW w, NEW s \in BuildStacks
        PROVE  w \in VersionsOn(new, s)
                 <=> w \in VersionsOn(IF SameVersionLine(w, v) THEN head ELSE deps, s)
    <3>1. CASE SameVersionLine(w, v)
      <4>1. \A d : d.version = w => (d \in new <=> d \in head)
        BY <2>1, <3>1 DEF OnLine
      <4> QED
        BY <3>1, <4>1, VersionOnStack
    <3>2. CASE ~SameVersionLine(w, v)
      <4>1. \A d : d.version = w => (d \in new <=> d \in deps)
        BY <2>1, <3>2
      <4> QED
        BY <3>2, <4>1, VersionOnStack
    <3> QED
      BY <3>1, <3>2
  <2>3. ASSUME NEW w, NEW s \in BuildStacks, NEW t \in BuildStacks
        PROVE  w \in VersionsOn(new, s) <=> w \in VersionsOn(new, t)
    <3>1. /\ VersionsOn(head, s) = VersionsOn(head, t)
          /\ VersionsOn(deps, s) = VersionsOn(deps, t)
      BY <1>1 DEF Agrees
    <3> QED
      BY <2>2, <3>1
  <2>4. Agrees(new)
    BY <2>3 DEF Agrees, VersionsOn, EntryVersions
  <2> QED
    BY <1>0, <2>4
<1>3. CASE Strategy # "keep_latest_released"
  <2>1. /\ Replaces(v, base, head)
        /\ \A d \in deps : d.version = v => d \in base
        /\ VersionsOnceIn(deps) /\ VersionsOnceIn(base)
    BY <1>0, <1>3 DEF PullRequestsFit, VersionsOnce, BasesOnce
  <2>2. ASSUME NEW w, w # v, NEW s \in BuildStacks
        PROVE  w \in VersionsOn(new, s)
                 <=> /\ w \in VersionsOn(deps, s)
                     /\ w \in VersionsOn(base, s) => w \in VersionsOn(head, s)
    <3>1. ASSUME w \in VersionsOn(new, s)
          PROVE  /\ w \in VersionsOn(deps, s)
                 /\ w \in VersionsOn(base, s) => w \in VersionsOn(head, s)
      <4>1. PICK d \in new : d.stacks = {s} /\ d.version = w
        BY <3>1, VersionOnStack
      <4>2. d \in deps /\ d \notin base \ head
        BY <1>1, <2>1, <2>2, <4>1 DEF Replaces
      <4>3. ASSUME NEW c \in base, c.stacks = {s}, c.version = w PROVE c \in head
        BY <1>1, <2>1, <4>1, <4>2, <4>3 DEF VersionsOnceIn
      <4> QED
        BY <4>1, <4>2, <4>3, VersionOnStack
    <3>2. ASSUME w \in VersionsOn(deps, s),
                 w \in VersionsOn(base, s) => w \in VersionsOn(head, s)
          PROVE  w \in VersionsOn(new, s)
      <4>1. PICK d \in deps : d.stacks = {s} /\ d.version = w
        BY <3>2, VersionOnStack
      <4>2. ASSUME d \in base \ head PROVE FALSE
        <5>1. w \in VersionsOn(head, s)
          <6>1. w \in VersionsOn(base, s)
            BY <4>1, <4>2, VersionOnStack
          <6> QED
            BY <3>2, <6>1
        <5>2. PICK e \in head : e.stacks = {s} /\ e.version = w
          BY <5>1, VersionOnStack
        <5>3. e \in base
          BY <2>1, <2>2, <5>2 DEF Replaces
        <5> QED
          BY <2>1, <4>1, <4>2, <5>2, <5>3 DEF VersionsOnceIn
      <4> QED
        BY <1>1, <4>1, <4>2, VersionOnStack
    <3> QED
      BY <3>1, <3>2
  <2>3. CASE head \ base = {}
    <3>1. new = deps
      BY <1>1, <2>1, <2>3 DEF Replaces
    <3> QED
      BY <1>0, <1>1, <3>1
  <2>4. CASE head \ base # {}
    <3>1. PICK e \in head \ base : TRUE
      BY <2>4
    <3>2. PICK t \in BuildStacks : e.stacks = {t} /\ e.version = v
      <4>1. e \in Entries
        BY <1>0, <1>1, <3>1 DEF TypeOK
      <4> QED
        BY <2>1, <3>1, <4>1, EntryTypes DEF Replaces
    <3>3. ASSUME NEW s \in BuildStacks PROVE v \in VersionsOn(new, s)
      <4>1. v \in VersionsOn(head, t)
        BY <3>1, <3>2, VersionOnStack
      <4>2. v \in VersionsOn(head, s)
        BY <1>1, <4>1 DEF Agrees
      <4>3. PICK h \in head : h.stacks = {s} /\ h.version = v
        BY <4>2, VersionOnStack
      <4>4. CASE h \notin base
        BY <1>1, <4>3, <4>4, VersionOnStack
      <4>5. CASE h \in base
        <5>1. v \in VersionsOn(base, t)
          <6>1. v \in VersionsOn(base, s)
            BY <4>3, <4>5, VersionOnStack
          <6> QED
            BY <1>1, <6>1 DEF Agrees
        <5>2. PICK c \in base : c.stacks = {t} /\ c.version = v
          BY <5>1, VersionOnStack
        <5>3. c \notin head
          BY <2>1, <3>1, <3>2, <5>2 DEF Replaces
        <5>4. v \in VersionsOn(deps, t)
          BY <1>1, <5>2, <5>3, VersionOnStack
        <5>5. v \in VersionsOn(deps, s)
          BY <1>1, <5>4 DEF Agrees
        <5>6. PICK d \in deps : d.stacks = {s} /\ d.version = v
          BY <5>5, VersionOnStack
        <5>7. d = h
          BY <2>1, <4>3, <4>5, <5>6 DEF VersionsOnceIn
        <5> QED
          BY <1>1, <4>3, <5>6, <5>7, VersionOnStack
      <4> QED
        BY <4>4, <4>5
    <3>4. ASSUME NEW w, NEW s \in BuildStacks, NEW u \in BuildStacks
          PROVE  w \in VersionsOn(new, s) <=> w \in VersionsOn(new, u)
      <4>1. CASE w = v
        BY <3>3, <4>1
      <4>2. CASE w # v
        BY <1>1, <2>2, <4>2 DEF Agrees
      <4> QED
        BY <4>1, <4>2
    <3>5. Agrees(new)
      BY <3>4 DEF Agrees, VersionsOn, EntryVersions
    <3> QED
      BY <1>0, <3>5
  <2> QED
    BY <2>3, <2>4
<1> QED
  BY <1>2, <1>3

\* An update is made from develop, which has each version once.
LEMMA BasesOnceNext ==
  TypeOK /\ VersionsOnce /\ BasesOnce /\ [Next]_vars => BasesOnce'
<1> SUFFICES ASSUME TypeOK, VersionsOnce, BasesOnce, [Next]_vars,
                    Strategy # "keep_latest_released",
                    NEW b \in Buildpacks, NEW v \in running'[b]
             PROVE  VersionsOnceIn(pr'[b][v].base)
  BY DEF BasesOnce, VersionsOnceIn
<1>1. CASE v \in running[b] /\ pr'[b][v] = pr[b][v]
  BY <1>1 DEF BasesOnce
<1>2. CASE pr'[b][v] = [base |-> develop[b],
                        head |-> UpdatedManifest(v, develop[b], released[b])]
  <2>1. pr'[b][v].base = develop[b]
    BY <1>2
  <2> QED
    BY <2>1 DEF VersionsOnce
<1> QED
  BY <1>1, <1>2, RequestStep

\* Every step leaves manifests and pull requests that agree.
LEMMA ManifestsAgreeNext ==
  IInv /\ BasesOnce /\ ManifestsAgree /\ [Next]_vars => ManifestsAgree'
<1> SUFFICES ASSUME IInv, BasesOnce, ManifestsAgree, [Next]_vars,
                    NEW b \in Buildpacks
             PROVE  /\ Agrees(develop'[b])
                    /\ Agrees(released'[b])
                    /\ \A v \in running'[b] : /\ Agrees(pr'[b][v].base)
                                              /\ Agrees(pr'[b][v].head)
  BY DEF ManifestsAgree, Agrees, VersionsOn, EntryVersions, OnStack
<1>0. /\ TypeOK /\ Ordered /\ DescribedBuilds /\ PullRequestsFit /\ VersionsOnce
      /\ Agrees(develop[b]) /\ Agrees(released[b])
  BY DEF IInv, ManifestsAgree
<1>1. Agrees(develop'[b])
  <2>1. ASSUME NEW v \in running[b], MergePullRequest(b, v)
        PROVE  Agrees(develop'[b])
    <3>1. /\ develop'[b] = Merged(b, v)
          /\ pr[b][v].base \ pr[b][v].head \subseteq develop[b]
      BY <1>0, <2>1 DEF MergePullRequest, TypeOK
    <3> QED
      BY <1>0, <3>1, MergeAgrees
  <2> QED
    BY <1>0, <2>1, DevelopStep
<1>2. Agrees(released'[b])
  BY <1>0, ReleasedStep
<1>3. ASSUME NEW v \in running'[b]
      PROVE  Agrees(pr'[b][v].base) /\ Agrees(pr'[b][v].head)
  <2>1. CASE v \in running[b] /\ pr'[b][v] = pr[b][v]
    BY <2>1 DEF ManifestsAgree
  <2>2. CASE /\ Start(b, v)
             /\ pr'[b][v] = [base |-> develop[b],
                             head |-> UpdatedManifest(v, develop[b], released[b])]
    <3>1. v \in Releases /\ develop[b] \in SUBSET Entries /\ released[b] \in SUBSET Entries
      <4>1. running' \in [Jobs -> SUBSET Releases]
        BY <1>0, TypeNext DEF TypeOK
      <4> QED
        BY <1>0, <4>1, JobNames DEF TypeOK
    <3>2. BuiltStacks(v) = BuildStacks
      BY <1>0, <2>2, <3>1, UpdatesFindBuilds
    <3>3. Agrees(UpdatedManifest(v, develop[b], released[b]))
      BY <1>0, <3>1, <3>2, UpdatedAgrees
    <3> QED
      BY <1>0, <2>2, <3>3
  <2> QED
    BY <1>0, <2>1, <2>2, RequestStep
<1> QED
  BY <1>1, <1>2, <1>3

\* The old versions are there on every stack.
LEMMA ManifestsAgreeInit == Init => BasesOnce /\ ManifestsAgree
<1> SUFFICES ASSUME Init PROVE BasesOnce /\ ManifestsAgree
  OBVIOUS
<1>1. ASSUME NEW s \in BuildStacks PROVE VersionsOn(OldEntries, s) = OldVersions
  BY OldVersionsOnStack DEF VersionsOn
<1>2. Agrees(OldEntries)
  BY <1>1 DEF Agrees
<1> QED
  BY <1>2, JobNames DEF Init, BasesOnce, ManifestsAgree

\* A manifest never offers a version on one build stack and not on another,
\* although every stack has metadata of its own, a build fails between them, and
\* pull requests are merged into manifests that have moved.
THEOREM StacksStayTogether == Spec => []StacksAgree
<1>1. IInv => TypeOK /\ VersionsOnce
  BY DEF IInv
<1>2. Spec => []BasesOnce
  BY <1>1, ManifestsAgreeInit, BasesOnceNext, Invariance, PTL DEF Spec
<1>3. Spec => []ManifestsAgree
  BY <1>2, ManifestsAgreeInit, ManifestsAgreeNext, Invariance, PTL DEF Spec
<1>4. ManifestsAgree => StacksAgree
  BY DEF ManifestsAgree, Agrees, VersionsOn, StacksAgree
<1> QED
  BY <1>3, <1>4, PTL

-----------------------------------------------------------------------------
(***************************************************************************)
(* The lines.                                                              *)
(***************************************************************************)

\* No line of deps is longer, on any stack, than the strategy leaves it.
LinesAreShort(deps) ==
  \A s \in BuildStacks : IsShort(LineType, Strategy, OnStack(deps, s))

\* deps has an entry, on every stack, of every line that had one from the start.
LinesAreFilled(deps) ==
  \A u \in OldVersions, s \in BuildStacks :
    \E d \in deps : d.stacks = {s} /\ SameVersionLine(d.version, u)

\* The manifests that an update reads are short and filled, and so is what it
\* makes of them.
ManifestsAreShort ==
  \A b \in Buildpacks :
    /\ LinesAreShort(develop[b]) /\ LinesAreFilled(develop[b])
    /\ \A v \in running[b] :
         /\ LinesAreShort(pr[b][v].base) /\ LinesAreFilled(pr[b][v].base)
         /\ LinesAreShort(pr[b][v].head)

\* The loop over the metadata files leaves short lines short, and the task does.
LEMMA UpdatedIsShort ==
  ASSUME NEW v \in Releases, BuiltStacks(v) = BuildStacks,
         NEW deps \in SUBSET Entries, NEW rel \in SUBSET Entries,
         LinesAreShort(deps)
  PROVE  LinesAreShort(UpdatedManifest(v, deps, rel))
<1>1. ASSUME NEW s \in BuildStacks
      PROVE  IsShort(LineType, Strategy, OnStack(Switched(v, deps, rel), s))
  <2> DEFINE dep == BuiltEntry(v, s)
             here == OnStack(deps, s)
             there == OnStack(rel, s)
  <2>1. /\ \A d \in here : d.stacks \subseteq dep.stacks
        /\ IsShort(LineType, Strategy, here)
    BY DEF OnStack, BuiltEntry, LinesAreShort
  <2>2. OnStack(Switched(v, deps, rel), s)
          = Switch(LineType, Strategy, dep, here, there)
    BY TurnOfStack
  <2> HIDE DEF dep, here, there
  <2> QED
    BY <2>1, <2>2, SwitchKeepsShort
<1> QED
  BY <1>1 DEF UpdatedManifest, LinesAreShort

\* So does a merge.  Under remove_all another job may have changed the line of v
\* meanwhile: if the base had an entry of it, the two changes remove the same one
\* and cannot both be merged; if it had none, the line has no other job.
LEMMA MergeIsShort ==
  ASSUME TypeOK, PullRequestsFit, OldLinesAreShort, ManifestsAreShort,
         NEW b \in Buildpacks, NEW v \in running[b],
         pr[b][v].base \ pr[b][v].head \subseteq develop[b]
  PROVE  LinesAreShort(Merged(b, v))
<1>0. PICK base, head, deps, new :
        /\ base = pr[b][v].base /\ head = pr[b][v].head
        /\ deps = develop[b] /\ new = Merged(b, v)
  OBVIOUS
<1>1. /\ LinesAreShort(base) /\ LinesAreShort(head) /\ LinesAreShort(deps)
      /\ LinesAreFilled(base)
      /\ base \ head \subseteq deps
      /\ new = (deps \ (base \ head)) \cup (head \ base)
      /\ v \in Releases /\ LineType \in LineTypes
      /\ head \in SUBSET Entries /\ deps \in SUBSET Entries
  BY <1>0, JobNames, VersionAssumption DEF ManifestsAreShort, Merged, TypeOK
<1> SUFFICES ASSUME NEW s \in BuildStacks
             PROVE  IsShort(LineType, Strategy, OnStack(new, s))
  BY <1>0 DEF LinesAreShort
<1>2. ASSUME OneJob(v)
      PROVE  /\ \A d : SameVersionLine(d.version, v) => (d \in new <=> d \in head)
             /\ \A d : ~SameVersionLine(d.version, v) => (d \in new <=> d \in deps)
  <2>1. /\ OnLine(new, v) = OnLine(head, v)
        /\ \A d : ~SameVersionLine(d.version, v) => (d \in new <=> d \in deps)
    BY <1>0, <1>2, MergeOfOneJob, MergeFits
  <2> QED
    BY <2>1 DEF OnLine
<1>3. CASE Strategy = "keep_latest_released"
  <2>1. /\ \A d : SameVersionLine(d.version, v) => (d \in new <=> d \in head)
        /\ \A d : ~SameVersionLine(d.version, v) => (d \in new <=> d \in deps)
    BY <1>1, <1>2, <1>3, KeptLinesHaveOneJob
  <2>2. ASSUME NEW d \in OnStack(new, s), NEW e \in OnStack(new, s),
               NEW f \in OnStack(new, s),
               SameLine(LineType, d.version, e.version),
               SameLine(LineType, d.version, f.version)
        PROVE  d = e \/ d = f \/ e = f
    <3>1. CASE SameVersionLine(d.version, v)
      <4>1. SameVersionLine(e.version, v) /\ SameVersionLine(f.version, v)
        BY <2>2, <3>1, LineEquivalence DEF SameVersionLine
      <4>2. /\ d \in OnStack(head, s) /\ e \in OnStack(head, s)
            /\ f \in OnStack(head, s)
        BY <2>1, <3>1, <4>1 DEF OnStack
      <4> QED
        BY <1>1, <1>3, <2>2, <4>2 DEF LinesAreShort, IsShort
    <3>2. CASE ~SameVersionLine(d.version, v)
      <4>1. ~SameVersionLine(e.version, v) /\ ~SameVersionLine(f.version, v)
        BY <2>2, <3>2, LineEquivalence DEF SameVersionLine
      <4>2. /\ d \in OnStack(deps, s) /\ e \in OnStack(deps, s)
            /\ f \in OnStack(deps, s)
        BY <2>1, <3>2, <4>1 DEF OnStack
      <4> QED
        BY <1>1, <1>3, <2>2, <4>2 DEF LinesAreShort, IsShort
    <3> QED
      BY <3>1, <3>2
  <2> QED
    BY <1>3, <2>2 DEF IsShort
<1>4. CASE Strategy = "remove_all"
  <2>1. Replaces(v, base, head)
    BY <1>0, <1>4 DEF PullRequestsFit
  <2>2. /\ \A d, e \in OnStack(deps, s) :
             SameVersionLine(d.version, e.version) => d = e
        /\ \A d, e \in OnStack(head, s) :
             SameVersionLine(d.version, e.version) => d = e
    BY <1>1, <1>4 DEF LinesAreShort, IsShort, SameVersionLine
  <2>3. ASSUME NEW d \in OnStack(deps, s), d \notin base \ head,
               NEW e \in OnStack(head, s), e \notin base,
               SameVersionLine(d.version, e.version)
        PROVE  FALSE
    <3>1. e.version = v /\ SameVersionLine(d.version, v)
      BY <2>1, <2>3 DEF Replaces, OnStack
    <3>2. ASSUME NEW c \in OnStack(base, s), SameVersionLine(c.version, v)
          PROVE  FALSE
      <4>1. c \notin head
        BY <2>2, <2>3, <3>1, <3>2 DEF OnStack
      <4>2. c \in OnStack(deps, s)
        BY <1>1, <4>1 DEF OnStack
      <4>3. SameVersionLine(d.version, c.version)
        BY <3>1, <3>2, LineEquivalence
      <4>4. d = c
        BY <2>2, <4>2, <4>3
      <4> QED
        BY <2>3, <4>1, <4>4 DEF OnStack
    <3>3. ASSUME NEW u \in OldVersions, SameVersionLine(u, v) PROVE FALSE
      <4>1. PICK c \in base : c.stacks = {s} /\ SameVersionLine(c.version, u)
        BY <1>1 DEF LinesAreFilled
      <4> QED
        BY <3>2, <3>3, <4>1, LineEquivalence DEF OnStack
    <3>4. OneJob(v)
      BY <1>1, <1>4, <3>3, LineEquivalence DEF OldLinesAreShort, OneJob
    <3>5. OnLine(base, v) = OnLine(deps, v)
      BY <1>0, <3>4 DEF PullRequestsFit
    <3> QED
      BY <3>1, <3>2, <3>5 DEF OnLine, OnStack
  <2>4. ASSUME NEW d \in OnStack(new, s), NEW e \in OnStack(new, s),
               SameVersionLine(d.version, e.version)
        PROVE  d = e
    <3>1. CASE d \in head \ base /\ e \in head \ base
      BY <2>2, <2>4, <3>1 DEF OnStack
    <3>2. CASE d \notin head \ base /\ e \notin head \ base
      BY <1>1, <2>2, <2>4, <3>2 DEF OnStack
    <3>3. CASE d \notin head \ base /\ e \in head \ base
      BY <1>1, <2>3, <2>4, <3>3 DEF OnStack
    <3>4. CASE d \in head \ base /\ e \notin head \ base
      <4>1. SameVersionLine(e.version, d.version)
        BY <2>4, LineEquivalence
      <4> QED
        BY <1>1, <2>3, <3>4, <4>1 DEF OnStack
    <3> QED
      BY <3>1, <3>2, <3>3, <3>4
  <2> QED
    BY <1>4, <2>4 DEF IsShort, SameVersionLine
<1>5. CASE Strategy = "keep_all"
  BY <1>5 DEF IsShort
<1> QED
  BY <1>3, <1>4, <1>5, VersionAssumption DEF Strategies

\* Every step leaves the lines short and filled.
LEMMA ManifestsAreShortNext ==
  IInv /\ OldLinesAreShort /\ ManifestsAreShort /\ [Next]_vars => ManifestsAreShort'
<1> SUFFICES ASSUME IInv, OldLinesAreShort, ManifestsAreShort, [Next]_vars,
                    NEW b \in Buildpacks
             PROVE  /\ LinesAreShort(develop'[b]) /\ LinesAreFilled(develop'[b])
                    /\ \A v \in running'[b] :
                         /\ LinesAreShort(pr'[b][v].base)
                         /\ LinesAreFilled(pr'[b][v].base)
                         /\ LinesAreShort(pr'[b][v].head)
  BY DEF ManifestsAreShort, LinesAreShort, LinesAreFilled, SameVersionLine, OnStack
<1>0. /\ TypeOK /\ Ordered /\ DescribedBuilds /\ PullRequestsFit
      /\ LinesAreShort(develop[b]) /\ LinesAreFilled(develop[b])
  BY DEF IInv, ManifestsAreShort
<1>1. LinesAreShort(develop'[b])
  <2>1. ASSUME NEW v \in running[b], MergePullRequest(b, v)
        PROVE  LinesAreShort(develop'[b])
    <3>1. /\ develop'[b] = Merged(b, v)
          /\ pr[b][v].base \ pr[b][v].head \subseteq develop[b]
      BY <1>0, <2>1 DEF MergePullRequest, TypeOK
    <3> QED
      BY <1>0, <3>1, MergeIsShort
  <2> QED
    BY <1>0, <2>1, DevelopStep
<1>2. LinesAreFilled(develop'[b])
  <2> SUFFICES ASSUME NEW u \in OldVersions, NEW s \in BuildStacks
               PROVE  \E e \in develop'[b] : /\ e.stacks = {s}
                                             /\ SameVersionLine(e.version, u)
    BY DEF LinesAreFilled
  <2>1. PICK d \in develop[b] : d.stacks = {s} /\ SameVersionLine(d.version, u)
    BY <1>0 DEF LinesAreFilled
  <2>2. PICK e \in develop'[b] : Covers(e, d)
    BY <1>0, NoEntryGetsWorse
  <2> QED
    BY <2>1, <2>2, LineEquivalence DEF Covers
<1>3. ASSUME NEW v \in running'[b]
      PROVE  /\ LinesAreShort(pr'[b][v].base) /\ LinesAreFilled(pr'[b][v].base)
             /\ LinesAreShort(pr'[b][v].head)
  <2>1. CASE v \in running[b] /\ pr'[b][v] = pr[b][v]
    BY <2>1 DEF ManifestsAreShort
  <2>2. CASE /\ Start(b, v)
             /\ pr'[b][v] = [base |-> develop[b],
                             head |-> UpdatedManifest(v, develop[b], released[b])]
    <3>1. v \in Releases /\ develop[b] \in SUBSET Entries /\ released[b] \in SUBSET Entries
      <4>1. running' \in [Jobs -> SUBSET Releases]
        BY <1>0, TypeNext DEF TypeOK
      <4> QED
        BY <1>0, <4>1, JobNames DEF TypeOK
    <3>2. BuiltStacks(v) = BuildStacks
      BY <1>0, <2>2, <3>1, UpdatesFindBuilds
    <3>3. LinesAreShort(UpdatedManifest(v, develop[b], released[b]))
      BY <1>0, <3>1, <3>2, UpdatedIsShort
    <3> QED
      BY <1>0, <2>2, <3>3
  <2> QED
    BY <1>0, <2>1, <2>2, RequestStep
<1> QED
  BY <1>1, <1>2, <1>3

\* The old lines are short.
LEMMA ManifestsAreShortInit == OldLinesAreShort /\ Init => ManifestsAreShort
<1> SUFFICES ASSUME OldLinesAreShort, Init PROVE ManifestsAreShort
  OBVIOUS
<1>1. ASSUME NEW s \in BuildStacks
      PROVE  IsShort(LineType, Strategy, OnStack(OldEntries, s))
  <2>1. ASSUME NEW d \in OnStack(OldEntries, s), NEW e \in OnStack(OldEntries, s),
               d.version = e.version
        PROVE  d = e
    BY <2>1 DEF OnStack, OldEntries
  <2>2. \A d \in OnStack(OldEntries, s) : d.version \in OldVersions
    BY DEF OnStack, OldEntries
  <2> QED
    BY <2>1, <2>2 DEF IsShort, OldLinesAreShort, SameVersionLine
<1>2. LinesAreFilled(OldEntries)
  <2> SUFFICES ASSUME NEW u \in OldVersions, NEW s \in BuildStacks
               PROVE  \E d \in OldEntries : /\ d.stacks = {s}
                                            /\ SameVersionLine(d.version, u)
    BY DEF LinesAreFilled
  <2>1. PICK d \in OnStack(OldEntries, s) : d.version = u
    BY OldVersionsOnStack DEF EntryVersions
  <2> QED
    BY <2>1, LineEquivalence DEF OnStack
<1>3. LinesAreShort(OldEntries)
  BY <1>1 DEF LinesAreShort
<1> QED
  BY <1>2, <1>3, JobNames DEF Init, ManifestsAreShort

\* A set in which no two elements differ has at most one.
LEMMA AtMostOne ==
  ASSUME NEW S, \A x, y \in S : x = y
  PROVE  Cardinality(S) <= 1
<1>1. CASE S = {}
  BY <1>1, FS_EmptySet
<1>2. CASE S # {}
  <2>1. PICK x \in S : TRUE
    BY <1>2
  <2>2. S = {x}
    BY <2>1
  <2> QED
    BY <2>2, FS_Singleton
<1> QED
  BY <1>1, <1>2

\* A line of a manifest never gets longer than the removal strategy leaves it in
\* one run of the task, whatever is merged in between, provided the manifest was
\* not longer to begin with and no two jobs fill a line that was empty.
THEOREM LinesAreKeptShort == OldLinesAreShort => (Spec => []LinesStayShort)
<1> SUFFICES ASSUME OldLinesAreShort PROVE Spec => []LinesStayShort
  OBVIOUS
<1>1. Init => ManifestsAreShort
  BY ManifestsAreShortInit
<1>2. IInv /\ ManifestsAreShort /\ [Next]_vars => ManifestsAreShort'
  BY ManifestsAreShortNext
<1>3. Spec => []ManifestsAreShort
  BY <1>1, <1>2, Invariance, PTL DEF Spec
<1>4. TypeOK /\ ManifestsAreShort => LinesStayShort
  <2> SUFFICES ASSUME TypeOK, ManifestsAreShort,
                      NEW b \in Buildpacks, NEW d \in develop[b],
                      NEW others,
                      others = {e \in develop[b] \ {d} :
                                  /\ e.stacks = d.stacks
                                  /\ SameVersionLine(d.version, e.version)}
               PROVE  /\ Strategy = "remove_all" => others = {}
                      /\ Strategy = "keep_latest_released" => Cardinality(others) <= 1
    BY DEF LinesStayShort
  <2>1. PICK s \in BuildStacks : d.stacks = {s}
    BY EntryTypes DEF TypeOK
  <2>2. IsShort(LineType, Strategy, OnStack(develop[b], s))
    BY DEF ManifestsAreShort, LinesAreShort
  <2>3. /\ d \in OnStack(develop[b], s)
        /\ \A e \in others : /\ e \in OnStack(develop[b], s) /\ e # d
                             /\ SameLine(LineType, d.version, e.version)
    BY <2>1 DEF OnStack, SameVersionLine
  <2>4. Strategy = "remove_all" => others = {}
    BY <2>2, <2>3 DEF IsShort
  <2>5. Strategy = "keep_latest_released" => \A e, f \in others : e = f
    BY <2>2, <2>3 DEF IsShort
  <2> QED
    BY <2>4, <2>5, AtMostOne
<1> QED
  BY <1>3, <1>4, TypeCorrect, PTL

=============================================================================
