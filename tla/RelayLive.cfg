SPECIFICATION FairFaultySpec
CONSTANTS
  Names <- MCNames
  Devs <- MCDevs
  Hosts <- MCHosts
  Behind <- MCBehind
  Files <- OneFile
  Bouncing = {}
  Replaced = {"eth1"}
  MaxIdx = 3
  MaxLinkQueue = 2
  MaxNeighQueue = 1
INVARIANT InstalledWhenSettled
PROPERTIES LinkUpServed LeftoverRouteReaped
CHECK_DEADLOCK FALSE
