SPECIFICATION FairSpec
CONSTANTS
  Runs <- TwoRuns
  Local <- TwoBuilds
  VersionOf <- Versions
  ProtocolOf <- Versions
  Ours <- OursIsTwo
  Hosts <- TwoHosts
  Server = "server"
  Keys <- TwoKeys
  Starts <- AllStarts
  MaxLosses = 1
  MaxKills = 1
  MaxShort = 1
INVARIANTS NoUnseenKey OnlyItsOwnUnlessDisturbed NothingIsLeftOpen

PROPERTIES LinesStayWhole EveryRunEnds
