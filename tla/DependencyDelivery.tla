------------------------- MODULE DependencyDelivery -------------------------
(***************************************************************************)
(* What the dependency-builds pipeline promises for one dependency, with   *)
(* nothing of how it does it: a version that was reported upstream is      *)
(* offered by the buildpacks and then its story is accepted.               *)
(* DependencyBuilds implements it: there are no jobs, builds, files, pull  *)
(* requests, failures or operators here.                                   *)
(***************************************************************************)
CONSTANTS
  Releases,       \* versions upstream may release
  OldVersions,    \* versions every manifest offers from the start
  Buildpacks,
  Stacks,         \* the stacks the dependency is built for
  AtLeast(_, _)   \* the first version does for a line what the second one did

VARIABLES
  known,    \* versions reported so far
  offered,  \* [Buildpacks -> [Stacks -> versions in the manifest]]
  accepted  \* versions whose story is accepted

vars == <<known, offered, accepted>>

Carries(versions, v) == \E w \in versions : AtLeast(w, v)

Init ==
  /\ known = {}
  /\ offered = [b \in Buildpacks |-> [s \in Stacks |-> OldVersions]]
  /\ accepted = {}

Report(v) ==
  /\ known' = known \cup {v}
  /\ UNCHANGED <<offered, accepted>>

\* A manifest may lose a version only when one of its line that is not older
\* takes its place, and gets none that upstream did not release.
Update(b) ==
  \E versions \in [Stacks -> SUBSET (known \cup OldVersions)] :
    /\ \A s \in Stacks : \A v \in offered[b][s] : Carries(versions[s], v)
    /\ offered' = [offered EXCEPT ![b] = versions]
    /\ UNCHANGED <<known, accepted>>

\* A story is accepted when every buildpack carries its version on every stack.
Accept(v) ==
  /\ v \in known
  /\ \A b \in Buildpacks, s \in Stacks : Carries(offered[b][s], v)
  /\ accepted' = accepted \cup {v}
  /\ UNCHANGED <<known, offered>>

Next ==
  \/ \E v \in Releases : Report(v) \/ Accept(v)
  \/ \E b \in Buildpacks : Update(b)

Spec == Init /\ [][Next]_vars

=============================================================================
