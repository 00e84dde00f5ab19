---------------------------- MODULE ReleaseGate ----------------------------
(***************************************************************************)
(* The way of a buildpack from its develop branch to its master branch:    *)
(* the jobs of pipelines/templates/buildpack.yml.erb that run the specs,   *)
(* the statuses they set on commits, and the task buildpack-to-master,     *)
(* which moves master to a commit that only writes the version and the     *)
(* changelog when the commit before has its statuses.                      *)
(*                                                                         *)
(* Commits are numbered along develop.  What Concourse does with a         *)
(* `passed` constraint is external: a version has passed a job when it was *)
(* an input of a successful build, under whichever name.                   *)
(***************************************************************************)
EXTENDS Integers, Sequences, FiniteSets

CONSTANTS
  Tiers,         \* "edge", and "lts" unless the buildpack is `non_lts`
  Brats,         \* FALSE for a buildpack with `skip_brats`
  Environments,  \* environments of the pool of each tier
  Kept,          \* tiers whose jobs keep the environment of a failed build
  MaxCommits,    \* bound: commits
  MaxFailures,   \* bound: builds that fail
  MaxReruns      \* bound: builds that people start

ASSUME TiersAssumption == Brats \in BOOLEAN /\ Kept \subseteq Tiers
ASSUME EnvironmentsAssumption == Environments \in [Tiers -> Nat]
ASSUME BoundsAssumption ==
  MaxCommits \in Nat \ {0} /\ MaxFailures \in Nat /\ MaxReruns \in Nat

VARIABLES
  develop,   \* the kinds of the commits of the develop branch
  unit,      \* commits that passed specs-unit-develop
  unitRun,   \* commits specs-unit-develop ran on
  builds,    \* the running build of each job of a tier
  tested,    \* commits that passed the specs of a job
  passed,    \* commits that `passed` constraints on a job let through
  run,       \* commits a job was started for
  free,      \* environments that can be claimed
  statuses,  \* statuses on commits: the contexts, by tier
  gate,      \* buildpack-to-master: the commit it made a status for, or none
  master,    \* the head of master; 0: the release before
  failed,    \* history: commits that were an input of a failed build
  failures, reruns

specVars == <<builds, tested, passed, run, free>>
boundVars == <<failed, failures, reruns>>
vars == <<develop, unit, unitRun, specVars, statuses, gate, master, boundVars>>

\* "release": the files are VERSION and CHANGELOG; "mixed": others as well.
Kinds == {"code", "release", "mixed"}

Commits == 1..MaxCommits

\* The jobs of a tier that claim an environment.
Jobs == {"integration"} \cup (IF Brats THEN {"brats"} ELSE {})

Idle == [phase |-> "idle", buildpack |-> 0, repo |-> 0]

TypeOK ==
  /\ develop \in Seq(Kinds) /\ Len(develop) <= MaxCommits
  /\ unit \subseteq Commits /\ unitRun \subseteq Commits
  /\ builds \in [Tiers -> [Jobs ->
       [phase : {"idle", "waiting", "running"},
        buildpack : 0..MaxCommits, repo : 0..MaxCommits]]]
  /\ tested \in [Tiers -> [Jobs -> SUBSET Commits]]
  /\ passed \in [Tiers -> [Jobs -> SUBSET Commits]]
  /\ run \in [Tiers -> [Jobs -> SUBSET Commits]]
  /\ free \in [Tiers -> Nat]
  /\ statuses \subseteq Tiers \X Commits
  /\ gate \in 0..MaxCommits
  /\ master \in 0..MaxCommits
  /\ failed \subseteq Commits
  /\ failures \in 0..MaxFailures /\ reruns \in 0..MaxReruns

-----------------------------------------------------------------------------
(***************************************************************************)
(* Resources                                                               *)
(***************************************************************************)

Newest(S) == CHOOSE c \in S : \A d \in S : d <= c

\* buildpack-develop: `ignore_paths` VERSION and CHANGELOG.
BuildpackDevelop == {c \in 1..Len(develop) : develop[c] # "release"}

\* buildpack-new-version: `paths` VERSION and CHANGELOG.
NewVersion == {c \in 1..Len(develop) : develop[c] # "code"}

Init ==
  /\ develop = <<"code">>
  /\ unit = {} /\ unitRun = {}
  /\ builds = [t \in Tiers |-> [j \in Jobs |-> Idle]]
  /\ tested = [t \in Tiers |-> [j \in Jobs |-> {}]]
  /\ passed = tested /\ run = tested
  /\ free = Environments
  /\ statuses = {}
  /\ gate = 0 /\ master = 0
  /\ failed = {} /\ failures = 0 /\ reruns = 0

\* Someone pushes to develop.
Push(kind) ==
  /\ Len(develop) < MaxCommits
  /\ develop' = Append(develop, kind)
  /\ UNCHANGED <<unit, unitRun, specVars, statuses, gate, master, boundVars>>

-----------------------------------------------------------------------------
(***************************************************************************)
(* Specs                                                                   *)
(***************************************************************************)

\* A build is triggered by an input the job was not started for before; people
\* can start one again.
Triggered(c, before) ==
  IF c \notin before THEN UNCHANGED reruns
  ELSE reruns < MaxReruns /\ reruns' = reruns + 1

Fail(c) ==
  /\ failures < MaxFailures
  /\ failures' = failures + 1
  /\ failed' = failed \cup {c}

\* specs-unit-develop runs on the newest commit.
UnitSpecs ==
  LET c == Newest(BuildpackDevelop)
  IN  /\ Triggered(c, unitRun)
      /\ unitRun' = unitRun \cup {c}
      /\ \/ unit' = unit \cup {c} /\ UNCHANGED <<failed, failures>>
         \/ Fail(c) /\ UNCHANGED unit
      /\ UNCHANGED <<develop, specVars, statuses, gate, master>>

\* A build of a job starts: it tests the newest commit that passed the unit
\* specs, and the integration jobs get the newest of all as `repo`.
Start(t, j) ==
  /\ unit # {}
  /\ builds[t][j] = Idle
  /\ LET c == Newest(unit)
     IN  /\ Triggered(c, run[t][j])
         /\ run' = [run EXCEPT ![t][j] = @ \cup {c}]
         /\ builds' = [builds EXCEPT ![t][j] =
              [phase |-> "waiting", buildpack |-> c,
               repo |-> IF j = "integration" THEN Newest(BuildpackDevelop)
                        ELSE c]]
  /\ UNCHANGED <<develop, unit, unitRun, tested, passed, free, statuses, gate,
                 master, failed, failures>>

\* Mutant: an environment that is in use is claimed.
ClaimUsed(t, j) ==
  /\ builds[t][j].phase = "waiting"
  /\ free' = [free EXCEPT ![t] = @ - 1]
  /\ builds' = [builds EXCEPT ![t][j].phase = "running"]
  /\ UNCHANGED <<develop, unit, unitRun, tested, passed, run, statuses, gate,
                 master, boundVars>>

\* `put: environment` with `action: claim`.
Claim(t, j) ==
  /\ builds[t][j].phase = "waiting"
  /\ free[t] > 0
  /\ free' = [free EXCEPT ![t] = @ - 1]
  /\ builds' = [builds EXCEPT ![t][j].phase = "running"]
  /\ UNCHANGED <<develop, unit, unitRun, tested, passed, run, statuses, gate,
                 master, boundVars>>

\* Mutant: there is no `on_success`.
SucceedAndKeep(t, j) ==
  /\ builds[t][j].phase = "running"
  /\ tested' = [tested EXCEPT ![t][j] = @ \cup {builds[t][j].buildpack}]
  /\ passed' = [passed EXCEPT ![t][j] =
       @ \cup {builds[t][j].buildpack, builds[t][j].repo}]
  /\ builds' = [builds EXCEPT ![t][j] = Idle]
  /\ UNCHANGED <<develop, unit, unitRun, run, free, statuses, gate, master,
                 boundVars>>

\* The specs pass, and the environment is given back.
Succeed(t, j) ==
  /\ builds[t][j].phase = "running"
  /\ tested' = [tested EXCEPT ![t][j] = @ \cup {builds[t][j].buildpack}]
  /\ passed' = [passed EXCEPT ![t][j] =
       @ \cup {builds[t][j].buildpack, builds[t][j].repo}]
  /\ free' = [free EXCEPT ![t] = @ + 1]
  /\ builds' = [builds EXCEPT ![t][j] = Idle]
  /\ UNCHANGED <<develop, unit, unitRun, run, statuses, gate, master, boundVars>>

\* The edge jobs give the environment back `on_success`, the others `ensure`.
BuildFails(t, j) ==
  /\ builds[t][j].phase = "running"
  /\ Fail(builds[t][j].buildpack)
  /\ free' = [free EXCEPT ![t] = IF t \in Kept THEN @ ELSE @ + 1]
  /\ builds' = [builds EXCEPT ![t][j] = Idle]
  /\ UNCHANGED <<develop, unit, unitRun, tested, passed, run, statuses, gate,
                 master, reruns>>

\* What the job that sets the status of the tier can get as `repo`.
Passed(t) == {c \in Commits : \A j \in Jobs : c \in passed[t][j]}

\* specs-edge-shared-develop, specs-lts-gcp-develop: set-status-success.
SetStatus(t) ==
  /\ Passed(t) # {}
  /\ statuses' = statuses \cup {<<t, Newest(Passed(t))>>}
  /\ UNCHANGED <<develop, unit, unitRun, specVars, gate, master, boundVars>>

-----------------------------------------------------------------------------
(***************************************************************************)
(* The gate                                                                *)
(***************************************************************************)

HasStatuses(c) == \A t \in Tiers : <<t, c>> \in statuses

\* Mutant: other files may change with the version.
VersionChanges(c) == c \in NewVersion

NoOtherChanges(c) == develop[c] = "release"

\* buildpack-to-master looks at the newest version, or, started again, at one
\* of an earlier build, and sets the status passed-dev-specs.
Approve(c) ==
  /\ gate = 0
  /\ HasStatuses(c - 1) /\ NoOtherChanges(c)
  /\ gate' = c
  /\ UNCHANGED <<develop, unit, unitRun, specVars, statuses, master, boundVars>>

\* update_branch, which is not forced; the build may also fail before it.
UpdateBranch ==
  /\ gate # 0
  /\ master' \in {master} \cup {c \in {gate} : c > master}
  /\ gate' = 0
  /\ UNCHANGED <<develop, unit, unitRun, specVars, statuses, boundVars>>

Next ==
  \/ \E kind \in Kinds : Push(kind)
  \/ UnitSpecs
  \/ \E t \in Tiers, j \in Jobs :
       Start(t, j) \/ Claim(t, j) \/ Succeed(t, j) \/ BuildFails(t, j)
  \/ \E t \in Tiers : SetStatus(t)
  \/ \E c \in NewVersion : Approve(c)
  \/ UpdateBranch

Spec == Init /\ [][Next]_vars

\* Concourse starts the builds that are triggered and the specs come to an end.
\* People need not push, start anything again, or release.
Fairness ==
  /\ WF_vars(UnitSpecs /\ Newest(BuildpackDevelop) \notin unitRun)
  /\ \A t \in Tiers :
       /\ \A j \in Jobs :
            /\ WF_vars(Start(t, j) /\ Newest(unit) \notin run[t][j])
            /\ SF_vars(Claim(t, j))
            /\ WF_vars(Succeed(t, j) \/ BuildFails(t, j))
       /\ WF_vars(SetStatus(t))

FairSpec == Spec /\ Fairness

-----------------------------------------------------------------------------
(***************************************************************************)
(* Properties                                                              *)
(***************************************************************************)

\* Master is at a commit that only writes version and changelog, on top of one
\* that passed the unit specs and brats of every tier; integration may have
\* passed on an earlier commit only (see StatusIsTested).
MasterIsTested ==
  master # 0 =>
    /\ develop[master] = "release"
    /\ \A t \in Tiers :
         /\ \E c \in tested[t]["integration"] : c \in unit /\ c < master
         /\ Brats => master - 1 \in unit \cap tested[t]["brats"]

\* The newest commit gets the status of every tier, unless a build failed on it
\* or a newer commit comes: environments do not run out, as long as a pool has
\* more of them than builds fail (the edge jobs lose one each time).
NewestIsTested ==
  \A c \in Commits, t \in Tiers :
    (c \in BuildpackDevelop /\ c = Newest(BuildpackDevelop))
      ~> (\/ <<t, c>> \in statuses
          \/ c \in failed
          \/ c # Newest(BuildpackDevelop))

\* A commit with the status of a tier passed the specs of the tier: "Buildpacks
\* CI edge develop spec passed".
StatusIsTested ==
  \A s \in statuses : \A j \in Jobs : s[2] \in tested[s[1]][j]

=============================================================================
