-------------------------- MODULE MCManifestUpdate --------------------------
(* Small instances of ManifestUpdate for TLC. *)
EXTENDS ManifestUpdate

V(minor, patch) == [major |-> 1, minor |-> minor, patch |-> patch]

Setup(source, language, line, strategy, anyStack, stacks) ==
  [source |-> source, language |-> language, line |-> line,
   strategy |-> strategy, anyStack |-> anyStack, stacks |-> stacks]

\* Two lines that nginx counts as stable (1.2, 1.4) and one it counts as
\* mainline.
SomeVersions == {V(2, 1), V(2, 2), V(3, 1), V(4, 0)}
SomeOld == {V(2, 0), V(3, 0)}
SomeLines == {V(2, 0), V(3, 0)}
FirstLine == V(2, 0)

\* dependency-builds.yml: php, other dependencies of the PHP buildpack (composer,
\* AppDynamics, nginx-static), nginx of the nginx buildpack, and one dependency per
\* removal strategy.
SetupsOn(stacks) == {
  Setup("php", "php", "minor", "keep_latest_released", FALSE, stacks),
  Setup("composer", "php", "none", "remove_all", TRUE, stacks),
  Setup("appdynamics", "php", "none", "remove_all", TRUE, stacks),
  Setup("nginx-static", "php", "minor", "remove_all", FALSE, stacks),
  Setup("nginx", "nginx", "nginx", "remove_all", FALSE, stacks),
  Setup("node", "nodejs", "major", "keep_latest_released", FALSE, stacks),
  Setup("dotnet-sdk", "dotnet-core", "minor", "keep_all", TRUE, stacks)}

SomeSetups == SetupsOn({"cflinuxfs3"}) \cup SetupsOn({"cflinuxfs3", "cflinuxfs4"})

Php == {Setup("php", "php", "minor", "keep_latest_released", FALSE, {"cflinuxfs3"})}

\* The configurations are of the kind that the theorems on the named versions and
\* on version_lines are about.
ASSUME InstancesFit == PhpSetupsFit /\ NginxSetupsFit

=============================================================================
