SPECIFICATION Spec
CONSTANTS
  Names <- MCNames
  Devs <- MCDevs
  Hosts <- MCHosts
  Behind <- MCBehind
  Files <- Shrinking
  Bouncing = {"eth1"}
  Replaced = {"eth1"}
  MaxIdx = 3
  MaxLinkQueue = 2
  MaxNeighQueue = 2
INVARIANTS SocketsCurrent LearnedThroughLifecycle NothingLeftBehind
CHECK_DEADLOCK FALSE
