SPECIFICATION FairSpec
CONSTANTS
  Releases <- Nginx
  OldVersions <- OldNginx
  JobLine <- NginxJobs
  LineType = "nginx"
  Strategy = "remove_all"
  BuildStacks = {"cflinuxfs3"}
  CopyStacks = {}
  CopySource = "cflinuxfs3"
  Buildpacks = {nginx}
  MaxFailures = 0
  MaxReruns = 1
  MaxShips = 0
INVARIANTS
  TypeOK
  AcceptedIsInEveryManifest
  LinesStayShort
PROPERTIES
  Delivers
  EveryVersionIsAccepted
CHECK_DEADLOCK FALSE
