SPECIFICATION FairSpec
CONSTANTS
  router = router
  ndp = ndp
  Slots = {router, ndp}
  Pinging = {ndp}
  Socks = {1, 2}
  Fds = {f1, f2, f3}
  None = None
  MaxQueue = 1
  MaxPosted = 1
INVARIANTS DescriptorsOwned RelayedFromOwnSocket OneLatePacket OnlySolicitations
PROPERTY LiveSocketRead
CHECK_DEADLOCK FALSE
