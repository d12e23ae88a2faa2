SPECIFICATION Spec
CONSTANTS
  Runs <- TwoRuns
  Local <- SameBuild
  VersionOf <- Versions
  ProtocolOf <- Versions
  Ours <- OursIsTwo
  Hosts <- TwoHosts
  Server = "server"
  Keys <- TwoKeys
  Starts <- OneDeployment
  MaxLosses = 0
  MaxKills = 0
  MaxShort = 0
INVARIANTS InPlaceIsWhole


