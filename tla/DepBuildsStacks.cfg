SPECIFICATION Spec
CONSTANTS
  Releases <- OneLine
  OldVersions <- Old
  JobLine <- OneLineJobs
  LineType = "major"
  Strategy = "keep_latest_released"
  BuildStacks = {"cflinuxfs3", "cflinuxfs4"}
  CopyStacks = {"bionic"}
  CopySource = "cflinuxfs3"
  Buildpacks = {php, ruby}
  MaxFailures = 1
  MaxReruns = 1
  MaxShips = 1
INVARIANTS
  StacksAgree
  InputsArePresent
  ManifestBinaryIsUploaded
PROPERTY NoDowngrade
SYMMETRY BuildpackSymmetry
CHECK_DEADLOCK FALSE
