------------------------- MODULE ReleaseGateProofs -------------------------
(***************************************************************************)
(* Theorems of ReleaseGate, for every set of tiers, every pool of          *)
(* environments and every bound.                                           *)
(***************************************************************************)
EXTENDS ReleaseGate, WellFoundedInduction, TLAPS

\* "less than" on the naturals as a relation.
LEMMA LessIsWellFounded ==
  \E R : IsWellFoundedOn(R, Nat) /\ \A m, n \in Nat : m < n => <<m, n>> \in R
<1>1. \A m, n \in Nat : m < n => <<m, n>> \in OpToRel(<, Nat)
  BY DEF OpToRel
<1> QED
  BY <1>1, NatLessThanWellFounded

\* A set of commits that is not empty has a newest one.
LEMMA NewestIs ==
  ASSUME NEW n \in Nat, NEW S \in SUBSET (1..n), S # {}
  PROVE  Newest(S) \in S /\ \A d \in S : d <= Newest(S)
<1> DEFINE Left == {n - c : c \in S}
<1>1. Left \in SUBSET Nat /\ Left # {}
  <2>1. \A c \in S : n - c \in Nat
    OBVIOUS
  <2> QED
    BY <2>1
<1>2. PICK R : IsWellFoundedOn(R, Nat) /\ \A m, k \in Nat : m < k => <<m, k>> \in R
  BY LessIsWellFounded
<1>3. IsWellFoundedOn(R, Nat)
  BY <1>2
<1> HIDE DEF Left
<1>4. \E k \in Left : \A m \in Left : ~(<<m, k>> \in R)
  BY <1>1, <1>3, WFMin, Zenon
<1>5. PICK k \in Left : \A m \in Left : ~(<<m, k>> \in R)
  BY <1>4
<1>6. ASSUME NEW m \in Left
      PROVE  k <= m
  <2>1. m \in Nat /\ k \in Nat
    BY <1>1
  <2>2. ~(m < k)
    BY <1>2, <1>5, <2>1, Zenon
  <2> QED
    BY <2>1, <2>2
<1>7. PICK c \in S : k = n - c
  BY DEF Left
<1>8. \A d \in S : n - d \in Left
  BY DEF Left
<1>9. \A d \in S : d <= c
  BY <1>6, <1>7, <1>8
<1> QED
  BY <1>9 DEF Newest

\* Whatever is running tests a commit that passed the unit specs, and `repo` is
\* not older; where there is no `repo` it is the same.
BuildsFollowUnit ==
  \A t \in Tiers, j \in Jobs :
    builds[t][j].phase # "idle" =>
      /\ builds[t][j].buildpack \in unit
      /\ builds[t][j].repo \in BuildpackDevelop
      /\ builds[t][j].buildpack <= builds[t][j].repo
      /\ j # "integration" => builds[t][j].repo = builds[t][j].buildpack

\* What `passed` lets through was tested, or, for integration, one before it.
PassedFollowsTested ==
  \A t \in Tiers, j \in Jobs :
    /\ tested[t][j] \subseteq unit
    /\ passed[t][j] \subseteq BuildpackDevelop
    /\ \A c \in passed[t][j] :
         IF j = "integration" THEN \E d \in tested[t][j] : d <= c
         ELSE c \in tested[t][j]

\* What a status says about a commit, whatever it claims.
Vouched(t, c) ==
  /\ c \in BuildpackDevelop
  /\ \E d \in tested[t]["integration"] : d <= c
  /\ Brats => c \in tested[t]["brats"]

StatusesFollowPassed == \A s \in statuses : Vouched(s[1], s[2])

\* A commit the gate let through.
Approved(c) ==
  /\ c \in 1..Len(develop)
  /\ develop[c] = "release"
  /\ \A t \in Tiers : Vouched(t, c - 1)

\* The inductive invariant.
IInv ==
  /\ TypeOK
  /\ BuildpackDevelop # {}
  /\ unit \subseteq BuildpackDevelop
  /\ BuildsFollowUnit
  /\ PassedFollowsTested
  /\ StatusesFollowPassed
  /\ gate # 0 => Approved(gate)
  /\ master # 0 => Approved(master)

LEMMA InitHolds == Init => IInv
<1> SUFFICES ASSUME Init PROVE IInv
  OBVIOUS
<1>1. TypeOK
  <2>1. develop \in Seq(Kinds) /\ Len(develop) <= MaxCommits
    BY BoundsAssumption DEF Init, Kinds
  <2> QED
    BY <2>1, BoundsAssumption, EnvironmentsAssumption
       DEF Init, TypeOK, Commits, Idle
<1>2. BuildpackDevelop # {}
  <2>1. 1 \in BuildpackDevelop
    BY DEF Init, BuildpackDevelop
  <2> QED
    BY <2>1
<1> QED
  BY <1>1, <1>2 DEF Init, IInv, BuildsFollowUnit, PassedFollowsTested,
              StatusesFollowPassed, BuildpackDevelop, Idle


\* What was vouched for stays so: develop and the tested commits only grow.
LEMMA VouchedStays ==
  ASSUME \A c \in 1..Len(develop) :
           c \in 1..Len(develop') /\ develop'[c] = develop[c],
         \A t \in Tiers, j \in Jobs : tested[t][j] \subseteq tested'[t][j]
  PROVE  /\ BuildpackDevelop \subseteq BuildpackDevelop'
         /\ \A t \in Tiers, c \in Commits : Vouched(t, c) => Vouched(t, c)'
         /\ \A c : Approved(c) => Approved(c)'
<1>1. BuildpackDevelop \subseteq BuildpackDevelop'
  BY DEF BuildpackDevelop
<1>2. ASSUME NEW t \in Tiers, NEW c, Vouched(t, c)
      PROVE  Vouched(t, c)'
  <2>1. "integration" \in Jobs /\ (Brats => "brats" \in Jobs)
    BY DEF Jobs
  <2>2. /\ tested[t]["integration"] \subseteq tested'[t]["integration"]
        /\ Brats => tested[t]["brats"] \subseteq tested'[t]["brats"]
    BY <2>1
  <2> QED
    BY <1>1, <1>2, <2>2 DEF Vouched
<1>3. ASSUME NEW c, Approved(c)
      PROVE  Approved(c)'
  BY <1>2, <1>3 DEF Approved
<1> QED
  BY <1>1, <1>2, <1>3

LEMMA PushHolds ==
  ASSUME IInv, NEW kind \in Kinds, Push(kind)
  PROVE  IInv'
<1>1. /\ develop \in Seq(Kinds) /\ develop' \in Seq(Kinds)
      /\ Len(develop') = Len(develop) + 1 /\ Len(develop') <= MaxCommits
      /\ \A c \in 1..Len(develop) :
           c \in 1..Len(develop') /\ develop'[c] = develop[c]
  BY BoundsAssumption DEF IInv, TypeOK, Push
<1>2. UNCHANGED <<unit, unitRun, specVars, statuses, gate, master, boundVars>>
  BY DEF Push
<1>3. TypeOK'
  BY <1>1, <1>2 DEF IInv, TypeOK, specVars, boundVars
<1>4. /\ BuildpackDevelop \subseteq BuildpackDevelop'
      /\ \A t \in Tiers, c \in Commits : Vouched(t, c) => Vouched(t, c)'
      /\ \A c : Approved(c) => Approved(c)'
  BY <1>1, <1>2, VouchedStays DEF specVars
<1>5. unit' \subseteq BuildpackDevelop'
  BY <1>2, <1>4 DEF IInv
<1>6. BuildsFollowUnit'
  BY <1>2, <1>4 DEF IInv, BuildsFollowUnit, specVars
<1>7. PassedFollowsTested'
  BY <1>2, <1>4 DEF IInv, PassedFollowsTested, specVars
<1>8. StatusesFollowPassed'
  BY <1>2, <1>4 DEF IInv, StatusesFollowPassed, TypeOK
<1> QED
  BY <1>2, <1>3, <1>4, <1>5, <1>6, <1>7, <1>8 DEF IInv

\* Develop stays as it is.
LEMMA DevelopStays ==
  ASSUME develop' = develop
  PROVE  /\ BuildpackDevelop' = BuildpackDevelop
         /\ \A c \in 1..Len(develop) :
              c \in 1..Len(develop') /\ develop'[c] = develop[c]
BY DEF BuildpackDevelop

\* The newest commit without a release, and the commits there are.
LEMMA NewestIsThere ==
  ASSUME TypeOK, BuildpackDevelop # {}
  PROVE  /\ Newest(BuildpackDevelop) \in BuildpackDevelop
         /\ \A c \in BuildpackDevelop : c <= Newest(BuildpackDevelop)
<1>1. Len(develop) \in Nat /\ BuildpackDevelop \in SUBSET (1..Len(develop))
  BY DEF TypeOK, BuildpackDevelop
<1> QED
  BY <1>1, NewestIs

LEMMA DevelopIsCommits ==
  ASSUME TypeOK
  PROVE  BuildpackDevelop \subseteq Commits /\ 1..Len(develop) \subseteq Commits
<1>1. Len(develop) \in Nat /\ Len(develop) <= MaxCommits
  BY DEF TypeOK
<1> QED
  BY <1>1, BoundsAssumption DEF BuildpackDevelop, Commits

\* Counters stay within their bounds.
LEMMA RerunsFit ==
  ASSUME TypeOK, NEW c, NEW before, Triggered(c, before)
  PROVE  reruns' \in 0..MaxReruns
BY BoundsAssumption DEF TypeOK, Triggered

LEMMA FailuresFit ==
  ASSUME TypeOK, NEW c \in Commits, Fail(c)
  PROVE  failures' \in 0..MaxFailures /\ failed' \subseteq Commits
BY BoundsAssumption DEF TypeOK, Fail

LEMMA UnitSpecsHolds ==
  ASSUME IInv, UnitSpecs
  PROVE  IInv'
<1> DEFINE c == Newest(BuildpackDevelop)
<1>1. c \in BuildpackDevelop /\ c \in Commits
  BY NewestIsThere, DevelopIsCommits DEF IInv
<1>2. /\ Triggered(c, unitRun)
      /\ unitRun' = unitRun \cup {c}
      /\ \/ unit' = unit \cup {c} /\ UNCHANGED <<failed, failures>>
         \/ Fail(c) /\ UNCHANGED unit
      /\ UNCHANGED <<develop, specVars, statuses, gate, master>>
  BY DEF UnitSpecs
<1> HIDE DEF c
<1>3. unit' \subseteq unit \cup {c} /\ unit \subseteq unit'
  BY <1>2
<1>4. failures' \in 0..MaxFailures /\ failed' \subseteq Commits
  BY <1>1, <1>2, FailuresFit DEF IInv, TypeOK
<1>5. reruns' \in 0..MaxReruns
  BY <1>2, RerunsFit DEF IInv
<1>6. TypeOK'
  BY <1>1, <1>2, <1>3, <1>4, <1>5 DEF IInv, TypeOK, specVars
<1>7. /\ BuildpackDevelop' = BuildpackDevelop
      /\ \A t \in Tiers, d \in Commits : Vouched(t, d) => Vouched(t, d)'
      /\ \A d : Approved(d) => Approved(d)'
  BY <1>2, VouchedStays, DevelopStays DEF specVars
<1>8. unit' \subseteq BuildpackDevelop'
  BY <1>1, <1>3, <1>7 DEF IInv
<1>9. BuildsFollowUnit'
  BY <1>2, <1>3, <1>7 DEF IInv, BuildsFollowUnit, specVars
<1>10. PassedFollowsTested'
  BY <1>2, <1>3, <1>7 DEF IInv, PassedFollowsTested, specVars
<1>11. StatusesFollowPassed'
  BY <1>2, <1>7 DEF IInv, StatusesFollowPassed, TypeOK
<1> QED
  BY <1>2, <1>6, <1>7, <1>8, <1>9, <1>10, <1>11 DEF IInv

\* The inputs of a build that starts: `repo` is the newest commit of all, so the
\* one to test is not newer.
LEMMA StartHolds ==
  ASSUME IInv, NEW t \in Tiers, NEW j \in Jobs, Start(t, j)
  PROVE  IInv'
<1> DEFINE c == Newest(unit)
           r == IF j = "integration" THEN Newest(BuildpackDevelop) ELSE c
           build == [phase |-> "waiting", buildpack |-> c, repo |-> r]
<1>1. /\ Triggered(c, run[t][j])
      /\ run' = [run EXCEPT ![t][j] = @ \cup {c}]
      /\ builds' = [builds EXCEPT ![t][j] = build]
      /\ UNCHANGED <<develop, unit, unitRun, tested, passed, free, statuses,
                     gate, master, failed, failures>>
      /\ unit # {}
  BY DEF Start
<1>2. c \in unit
  <2>1. Len(develop) \in Nat /\ unit \in SUBSET (1..Len(develop))
    BY DEF IInv, TypeOK, BuildpackDevelop
  <2> QED
    BY <1>1, <2>1, NewestIs
<1>3. /\ c \in BuildpackDevelop /\ r \in BuildpackDevelop /\ c <= r
      /\ j # "integration" => r = c
  <2>1. c \in BuildpackDevelop
    BY <1>2 DEF IInv
  <2>2. c \in Nat
    BY <2>1, DevelopIsCommits DEF IInv, Commits
  <2>3. /\ Newest(BuildpackDevelop) \in BuildpackDevelop
        /\ c <= Newest(BuildpackDevelop)
    BY <2>1, NewestIsThere DEF IInv
  <2> HIDE DEF c
  <2> QED
    BY <2>1, <2>2, <2>3
<1> HIDE DEF c, r
<1>4. c \in Commits /\ r \in Commits
  BY <1>3, DevelopIsCommits DEF IInv
<1>5. reruns' \in 0..MaxReruns
  BY <1>1, RerunsFit DEF IInv
<1>6. TypeOK'
  <2>1. build \in [phase : {"idle", "waiting", "running"},
                   buildpack : 0..MaxCommits, repo : 0..MaxCommits]
    BY <1>4 DEF Commits
  <2> HIDE DEF build
  <2>2. builds' \in [Tiers -> [Jobs ->
           [phase : {"idle", "waiting", "running"},
            buildpack : 0..MaxCommits, repo : 0..MaxCommits]]]
    BY <1>1, <2>1 DEF IInv, TypeOK
  <2>3. run' \in [Tiers -> [Jobs -> SUBSET Commits]]
    BY <1>1, <1>4 DEF IInv, TypeOK
  <2> QED
    BY <1>1, <1>5, <2>2, <2>3 DEF IInv, TypeOK
<1>7. BuildpackDevelop' = BuildpackDevelop
  BY <1>1, DevelopStays
<1>8. BuildsFollowUnit'
  <2> SUFFICES ASSUME NEW u \in Tiers, NEW k \in Jobs,
                      builds'[u][k].phase # "idle"
               PROVE  /\ builds'[u][k].buildpack \in unit
                      /\ builds'[u][k].repo \in BuildpackDevelop
                      /\ builds'[u][k].buildpack <= builds'[u][k].repo
                      /\ k # "integration" =>
                           builds'[u][k].repo = builds'[u][k].buildpack
    BY <1>1, <1>7 DEF BuildsFollowUnit
  <2>1. CASE u = t /\ k = j
    <3>1. builds'[u][k] = build
      BY <1>1, <2>1 DEF IInv, TypeOK
    <3> QED
      BY <1>2, <1>3, <2>1, <3>1
  <2>2. CASE ~(u = t /\ k = j)
    <3>1. builds'[u][k] = builds[u][k]
      BY <1>1, <2>2 DEF IInv, TypeOK
    <3> QED
      BY <3>1 DEF IInv, BuildsFollowUnit
  <2> QED
    BY <2>1, <2>2
<1>9. /\ \A u \in Tiers, d \in Commits : Vouched(u, d) => Vouched(u, d)'
      /\ \A d : Approved(d) => Approved(d)'
  BY <1>1, VouchedStays, DevelopStays
<1>10. PassedFollowsTested'
  BY <1>1, <1>7 DEF IInv, PassedFollowsTested
<1>11. StatusesFollowPassed'
  BY <1>1, <1>9 DEF IInv, StatusesFollowPassed, TypeOK
<1> QED
  BY <1>1, <1>6, <1>7, <1>8, <1>9, <1>10, <1>11 DEF IInv

\* A running build gets another phase, or none: its inputs stay or go.
LEMMA BuildsStay ==
  ASSUME IInv, NEW t \in Tiers, NEW j \in Jobs, NEW build,
         builds' = [builds EXCEPT ![t][j] = build],
         build = Idle \/ (/\ build.buildpack = builds[t][j].buildpack
                          /\ build.repo = builds[t][j].repo
                          /\ builds[t][j].phase # "idle"),
         unit' = unit, develop' = develop
  PROVE  BuildsFollowUnit'
<1>1. BuildpackDevelop' = BuildpackDevelop
  BY DevelopStays
<1> SUFFICES ASSUME NEW u \in Tiers, NEW k \in Jobs,
                    builds'[u][k].phase # "idle"
             PROVE  /\ builds'[u][k].buildpack \in unit
                    /\ builds'[u][k].repo \in BuildpackDevelop
                    /\ builds'[u][k].buildpack <= builds'[u][k].repo
                    /\ k # "integration" =>
                         builds'[u][k].repo = builds'[u][k].buildpack
  BY <1>1 DEF BuildsFollowUnit
<1>2. CASE u = t /\ k = j
  <2>1. builds'[u][k] = build
    BY <1>2 DEF IInv, TypeOK
  <2> QED
    BY <1>2, <2>1 DEF IInv, BuildsFollowUnit, Idle
<1>3. CASE ~(u = t /\ k = j)
  <2>1. builds'[u][k] = builds[u][k]
    BY <1>3 DEF IInv, TypeOK
  <2> QED
    BY <2>1 DEF IInv, BuildsFollowUnit
<1> QED
  BY <1>2, <1>3

LEMMA ClaimHolds ==
  ASSUME IInv, NEW t \in Tiers, NEW j \in Jobs, Claim(t, j)
  PROVE  IInv'
<1> DEFINE build == [builds[t][j] EXCEPT !.phase = "running"]
<1>1. /\ builds[t][j].phase = "waiting"
      /\ free[t] > 0
      /\ free' = [free EXCEPT ![t] = @ - 1]
      /\ UNCHANGED <<develop, unit, unitRun, tested, passed, run, statuses,
                     gate, master, boundVars>>
  BY DEF Claim
<1>2. builds' = [builds EXCEPT ![t][j] = build]
  BY DEF Claim, IInv, TypeOK
<1>3. builds[t][j] \in [phase : {"idle", "waiting", "running"},
                        buildpack : 0..MaxCommits, repo : 0..MaxCommits]
  BY DEF IInv, TypeOK
<1>4. /\ build \in [phase : {"idle", "waiting", "running"},
                    buildpack : 0..MaxCommits, repo : 0..MaxCommits]
      /\ build.buildpack = builds[t][j].buildpack
      /\ build.repo = builds[t][j].repo
  BY <1>3
<1> HIDE DEF build
<1>5. TypeOK'
  <2>1. builds' \in [Tiers -> [Jobs ->
           [phase : {"idle", "waiting", "running"},
            buildpack : 0..MaxCommits, repo : 0..MaxCommits]]]
    BY <1>2, <1>4 DEF IInv, TypeOK
  <2>2. free' \in [Tiers -> Nat]
    BY <1>1 DEF IInv, TypeOK
  <2> QED
    BY <1>1, <2>1, <2>2 DEF IInv, TypeOK, boundVars
<1>6. BuildpackDevelop' = BuildpackDevelop
  BY <1>1, DevelopStays
<1>7. BuildsFollowUnit'
  BY <1>1, <1>2, <1>4, BuildsStay
<1>8. /\ \A u \in Tiers, d \in Commits : Vouched(u, d) => Vouched(u, d)'
      /\ \A d : Approved(d) => Approved(d)'
  BY <1>1, VouchedStays, DevelopStays
<1>9. PassedFollowsTested'
  BY <1>1, <1>6 DEF IInv, PassedFollowsTested
<1>10. StatusesFollowPassed'
  BY <1>1, <1>8 DEF IInv, StatusesFollowPassed, TypeOK
<1> QED
  BY <1>1, <1>5, <1>6, <1>7, <1>8, <1>9, <1>10 DEF IInv

LEMMA SucceedHolds ==
  ASSUME IInv, NEW t \in Tiers, NEW j \in Jobs, Succeed(t, j)
  PROVE  IInv'
<1> DEFINE c == builds[t][j].buildpack
           r == builds[t][j].repo
<1>1. /\ builds[t][j].phase = "running"
      /\ tested' = [tested EXCEPT ![t][j] = @ \cup {c}]
      /\ passed' = [passed EXCEPT ![t][j] = @ \cup {c, r}]
      /\ free' = [free EXCEPT ![t] = @ + 1]
      /\ builds' = [builds EXCEPT ![t][j] = Idle]
      /\ UNCHANGED <<develop, unit, unitRun, run, statuses, gate, master,
                     boundVars>>
  BY DEF Succeed
<1>2. /\ c \in unit /\ c \in BuildpackDevelop
      /\ r \in BuildpackDevelop /\ c <= r
      /\ j # "integration" => r = c
  BY <1>1 DEF IInv, BuildsFollowUnit
<1> HIDE DEF c, r
<1>3. c \in Commits /\ r \in Commits
  BY <1>2, DevelopIsCommits DEF IInv
<1>4. TypeOK'
  <2>1. builds' \in [Tiers -> [Jobs ->
           [phase : {"idle", "waiting", "running"},
            buildpack : 0..MaxCommits, repo : 0..MaxCommits]]]
    BY <1>1, BoundsAssumption DEF IInv, TypeOK, Idle
  <2>2. free' \in [Tiers -> Nat]
    BY <1>1 DEF IInv, TypeOK
  <2>3. tested' \in [Tiers -> [Jobs -> SUBSET Commits]]
    BY <1>1, <1>3 DEF IInv, TypeOK
  <2>4. passed' \in [Tiers -> [Jobs -> SUBSET Commits]]
    BY <1>1, <1>3 DEF IInv, TypeOK
  <2> QED
    BY <1>1, <2>1, <2>2, <2>3, <2>4 DEF IInv, TypeOK, boundVars
<1>5. BuildpackDevelop' = BuildpackDevelop
  BY <1>1, DevelopStays
<1>6. BuildsFollowUnit'
  BY <1>1, BuildsStay
<1>7. ASSUME NEW u \in Tiers, NEW k \in Jobs
      PROVE  \/ /\ u = t /\ k = j
                /\ tested'[u][k] = tested[u][k] \cup {c}
                /\ passed'[u][k] = passed[u][k] \cup {c, r}
             \/ /\ tested'[u][k] = tested[u][k]
                /\ passed'[u][k] = passed[u][k]
  BY <1>1 DEF IInv, TypeOK
<1>8. /\ \A u \in Tiers, d \in Commits : Vouched(u, d) => Vouched(u, d)'
      /\ \A d : Approved(d) => Approved(d)'
  <2>1. \A u \in Tiers, k \in Jobs : tested[u][k] \subseteq tested'[u][k]
    BY <1>7
  <2> QED
    BY <1>1, <2>1, VouchedStays, DevelopStays
<1>9. PassedFollowsTested'
  <2> SUFFICES ASSUME NEW u \in Tiers, NEW k \in Jobs
               PROVE  /\ tested'[u][k] \subseteq unit
                      /\ passed'[u][k] \subseteq BuildpackDevelop
                      /\ \A d \in passed'[u][k] :
                           IF k = "integration"
                           THEN \E e \in tested'[u][k] : e <= d
                           ELSE d \in tested'[u][k]
    BY <1>1, <1>5 DEF PassedFollowsTested
  <2>1. /\ tested[u][k] \subseteq unit
        /\ passed[u][k] \subseteq BuildpackDevelop
        /\ \A d \in passed[u][k] :
             IF k = "integration" THEN \E e \in tested[u][k] : e <= d
             ELSE d \in tested[u][k]
    BY DEF IInv, PassedFollowsTested
  <2>2. c <= c
    BY <1>3 DEF Commits
  <2> QED
    BY <1>2, <1>7, <2>1, <2>2
<1>10. StatusesFollowPassed'
  BY <1>1, <1>8 DEF IInv, StatusesFollowPassed, TypeOK
<1> QED
  BY <1>1, <1>4, <1>5, <1>6, <1>8, <1>9, <1>10 DEF IInv

LEMMA BuildFailsHolds ==
  ASSUME IInv, NEW t \in Tiers, NEW j \in Jobs, BuildFails(t, j)
  PROVE  IInv'
<1>1. /\ builds[t][j].phase = "running"
      /\ Fail(builds[t][j].buildpack)
      /\ free' = [free EXCEPT ![t] = IF t \in Kept THEN @ ELSE @ + 1]
      /\ builds' = [builds EXCEPT ![t][j] = Idle]
      /\ UNCHANGED <<develop, unit, unitRun, tested, passed, run, statuses,
                     gate, master, reruns>>
  BY DEF BuildFails
<1>2. builds[t][j].buildpack \in Commits
  BY <1>1, DevelopIsCommits DEF IInv, BuildsFollowUnit
<1>3. TypeOK'
  <2>1. builds' \in [Tiers -> [Jobs ->
           [phase : {"idle", "waiting", "running"},
            buildpack : 0..MaxCommits, repo : 0..MaxCommits]]]
    BY <1>1, BoundsAssumption DEF IInv, TypeOK, Idle
  <2>2. free' \in [Tiers -> Nat]
    BY <1>1 DEF IInv, TypeOK
  <2>3. failures' \in 0..MaxFailures /\ failed' \subseteq Commits
    BY <1>1, <1>2, FailuresFit DEF IInv
  <2> QED
    BY <1>1, <2>1, <2>2, <2>3 DEF IInv, TypeOK
<1>4. BuildpackDevelop' = BuildpackDevelop
  BY <1>1, DevelopStays
<1>5. BuildsFollowUnit'
  BY <1>1, BuildsStay
<1>6. /\ \A u \in Tiers, d \in Commits : Vouched(u, d) => Vouched(u, d)'
      /\ \A d : Approved(d) => Approved(d)'
  BY <1>1, VouchedStays, DevelopStays
<1>7. PassedFollowsTested'
  BY <1>1, <1>4 DEF IInv, PassedFollowsTested
<1>8. StatusesFollowPassed'
  BY <1>1, <1>6 DEF IInv, StatusesFollowPassed, TypeOK
<1> QED
  BY <1>1, <1>3, <1>4, <1>5, <1>6, <1>7, <1>8 DEF IInv

\* What the status job gets has passed every job of the tier.
LEMMA PassedIsVouched ==
  ASSUME IInv, NEW t \in Tiers, NEW c \in Passed(t)
  PROVE  Vouched(t, c)
<1>1. "integration" \in Jobs /\ (Brats => "brats" \in Jobs)
  BY DEF Jobs
<1>2. c \in passed[t]["integration"] /\ (Brats => c \in passed[t]["brats"])
  BY <1>1 DEF Passed
<1> QED
  BY <1>1, <1>2 DEF IInv, PassedFollowsTested, Vouched

LEMMA SetStatusHolds ==
  ASSUME IInv, NEW t \in Tiers, SetStatus(t)
  PROVE  IInv'
<1> DEFINE c == Newest(Passed(t))
<1>1. /\ statuses' = statuses \cup {<<t, c>>}
      /\ UNCHANGED <<develop, unit, unitRun, specVars, gate, master, boundVars>>
      /\ Passed(t) # {}
  BY DEF SetStatus
<1>2. c \in Passed(t)
  <2>1. MaxCommits \in Nat /\ Passed(t) \in SUBSET (1..MaxCommits)
    BY BoundsAssumption DEF Passed, Commits
  <2> QED
    BY <1>1, <2>1, NewestIs
<1> HIDE DEF c
<1>3. c \in Commits /\ Vouched(t, c)
  BY <1>2, PassedIsVouched DEF Passed
<1>4. TypeOK'
  BY <1>1, <1>3 DEF IInv, TypeOK, specVars, boundVars
<1>5. BuildpackDevelop' = BuildpackDevelop
  BY <1>1, DevelopStays
<1>6. /\ \A u \in Tiers, d \in Commits : Vouched(u, d) => Vouched(u, d)'
      /\ \A d : Approved(d) => Approved(d)'
  BY <1>1, VouchedStays, DevelopStays DEF specVars
<1>7. BuildsFollowUnit'
  BY <1>1, <1>5 DEF IInv, BuildsFollowUnit, specVars
<1>8. PassedFollowsTested'
  BY <1>1, <1>5 DEF IInv, PassedFollowsTested, specVars
<1>9. StatusesFollowPassed'
  <2> SUFFICES ASSUME NEW s \in statuses' PROVE Vouched(s[1], s[2])'
    BY DEF StatusesFollowPassed
  <2>1. CASE s \in statuses
    BY <1>6, <2>1 DEF IInv, StatusesFollowPassed, TypeOK
  <2>2. CASE s = <<t, c>>
    BY <1>3, <1>6, <2>2
  <2> QED
    BY <1>1, <2>1, <2>2
<1> QED
  BY <1>1, <1>4, <1>5, <1>6, <1>7, <1>8, <1>9 DEF IInv

\* Where nothing happens to develop and the specs, the rest of the invariant
\* does not change.
LEMMA SpecsStay ==
  ASSUME IInv, UNCHANGED <<develop, unit, specVars, statuses>>
  PROVE  /\ BuildpackDevelop' = BuildpackDevelop
         /\ BuildsFollowUnit' /\ PassedFollowsTested' /\ StatusesFollowPassed'
         /\ \A c : Approved(c) => Approved(c)'
<1>1. BuildpackDevelop' = BuildpackDevelop
  BY DevelopStays
<1>2. /\ \A u \in Tiers, d \in Commits : Vouched(u, d) => Vouched(u, d)'
      /\ \A d : Approved(d) => Approved(d)'
  BY VouchedStays, DevelopStays DEF specVars
<1>3. BuildsFollowUnit'
  BY <1>1 DEF IInv, BuildsFollowUnit, specVars
<1>4. PassedFollowsTested'
  BY <1>1 DEF IInv, PassedFollowsTested, specVars
<1>5. StatusesFollowPassed'
  BY <1>2 DEF IInv, StatusesFollowPassed, TypeOK
<1> QED
  BY <1>1, <1>2, <1>3, <1>4, <1>5

LEMMA ApproveHolds ==
  ASSUME IInv, NEW c \in NewVersion, Approve(c)
  PROVE  IInv'
<1>1. /\ HasStatuses(c - 1) /\ NoOtherChanges(c)
      /\ gate' = c
      /\ UNCHANGED <<develop, unit, unitRun, specVars, statuses, master,
                     boundVars>>
  BY DEF Approve
<1>2. c \in 1..Len(develop) /\ c \in Commits
  BY DevelopIsCommits DEF IInv, NewVersion
<1>3. ASSUME NEW t \in Tiers
      PROVE  Vouched(t, c - 1)
  <2>1. <<t, c - 1>> \in statuses
    BY <1>1 DEF HasStatuses
  <2> QED
    BY <2>1 DEF IInv, StatusesFollowPassed
<1>4. Approved(c)
  BY <1>1, <1>2, <1>3 DEF Approved, NoOtherChanges
<1>5. TypeOK'
  BY <1>1, <1>2 DEF IInv, TypeOK, specVars, boundVars, Commits
<1> QED
  BY <1>1, <1>4, <1>5, SpecsStay DEF IInv

LEMMA UpdateBranchHolds ==
  ASSUME IInv, UpdateBranch
  PROVE  IInv'
<1>1. /\ gate # 0
      /\ master' = master \/ master' = gate
      /\ gate' = 0
      /\ UNCHANGED <<develop, unit, unitRun, specVars, statuses, boundVars>>
  BY DEF UpdateBranch
<1>2. TypeOK'
  BY <1>1, BoundsAssumption DEF IInv, TypeOK, specVars, boundVars
<1> QED
  BY <1>1, <1>2, SpecsStay DEF IInv

LEMMA NextHolds == IInv /\ [Next]_vars => IInv'
<1> SUFFICES ASSUME IInv, [Next]_vars PROVE IInv'
  OBVIOUS
<1>1. CASE \E kind \in Kinds : Push(kind)
  BY <1>1, PushHolds
<1>2. CASE UnitSpecs
  BY <1>2, UnitSpecsHolds
<1>3. ASSUME NEW t \in Tiers, NEW j \in Jobs,
             Start(t, j) \/ Claim(t, j) \/ Succeed(t, j) \/ BuildFails(t, j)
      PROVE  IInv'
  BY <1>3, StartHolds, ClaimHolds, SucceedHolds, BuildFailsHolds
<1>4. CASE \E t \in Tiers : SetStatus(t)
  BY <1>4, SetStatusHolds
<1>5. CASE \E c \in NewVersion : Approve(c)
  BY <1>5, ApproveHolds
<1>6. CASE UpdateBranch
  BY <1>6, UpdateBranchHolds
<1>7. CASE UNCHANGED vars
  <2>1. TypeOK'
    BY <1>7 DEF IInv, TypeOK, vars, specVars, boundVars
  <2> QED
    BY <1>7, <2>1, SpecsStay DEF IInv, vars
<1> QED
  BY <1>1, <1>2, <1>3, <1>4, <1>5, <1>6, <1>7 DEF Next

LEMMA IInvHolds == Spec => []IInv
BY InitHolds, NextHolds, PTL DEF Spec

\* Type correctness: no more environments are claimed than a pool has.
THEOREM TypeCorrect == Spec => []TypeOK
<1>1. IInv => TypeOK
  BY DEF IInv
<1> QED
  BY <1>1, IInvHolds, PTL

\* Whatever is on master is a version on top of a commit that passed the unit
\* specs and brats of every tier, and of which integration passed at least on
\* an ancestor.
THEOREM MasterTested == Spec => []MasterIsTested
<1>1. IInv => MasterIsTested
  <2> SUFFICES ASSUME IInv, master # 0 PROVE MasterIsTested
    BY DEF MasterIsTested
  <2>0. Approved(master)
    BY DEF IInv
  <2> SUFFICES ASSUME NEW t \in Tiers
               PROVE  /\ \E c \in tested[t]["integration"] : c \in unit /\ c < master
                      /\ Brats => master - 1 \in unit \cap tested[t]["brats"]
    BY <2>0 DEF MasterIsTested, Approved
  <2>1. /\ master \in 1..Len(develop) /\ develop[master] = "release"
        /\ Vouched(t, master - 1)
    BY <2>0 DEF Approved
  <2>2. "integration" \in Jobs /\ (Brats => "brats" \in Jobs)
    BY DEF Jobs
  <2>3. PICK c \in tested[t]["integration"] : c <= master - 1
    BY <2>1 DEF Vouched
  <2>4. /\ tested[t]["integration"] \subseteq unit
        /\ Brats => tested[t]["brats"] \subseteq unit
    BY <2>2 DEF IInv, PassedFollowsTested
  <2>5. unit \subseteq Commits /\ master \in Nat
    BY BoundsAssumption DEF IInv, TypeOK
  <2>6. c \in unit /\ c < master
    <3>1. c \in unit
      BY <2>3, <2>4
    <3>2. c \in Nat
      BY <2>5, <3>1 DEF Commits
    <3> QED
      BY <2>3, <2>5, <3>1, <3>2
  <2>7. Brats => master - 1 \in unit \cap tested[t]["brats"]
    BY <2>1, <2>4 DEF Vouched
  <2> QED
    BY <2>1, <2>3, <2>6, <2>7
<1> QED
  BY <1>1, IInvHolds, PTL

=============================================================================
