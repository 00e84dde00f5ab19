------------------------- MODULE MCDependencyBuilds -------------------------
(* Small instances of DependencyBuilds for TLC. *)
EXTENDS DependencyBuilds, TLC

V(major, minor) == [major |-> major, minor |-> minor, patch |-> 0]

\* Two releases of one line, with the jobs of line 1.X.X.
OneLine == {V(1, 1), V(1, 2)}
OneLineJobs == [v \in OneLine |-> v.major]
Old == {V(1, 0), V(2, 0)}

\* nginx: releases of 1.17.X and 1.19.X, each with jobs of its own, which are
\* switched as one line, mainline.  1.19.X has two, which the same jobs handle.
Nginx == {V(1, 17), V(1, 19), [V(1, 19) EXCEPT !.patch = 1]}
NginxJobs == [v \in Nginx |-> v.minor]
OldNginx == {V(1, 15), V(1, 16)}

\* Every buildpack runs the same jobs.
BuildpackSymmetry == Permutations(Buildpacks)

\* The instances are of the kind that the theorem on short lines is about.
ASSUME InstancesAreShort == OldLinesAreShort

=============================================================================
