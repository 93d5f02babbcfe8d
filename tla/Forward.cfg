SPECIFICATION FairSpec
CONSTANTS
  Ifaces = {"wan", "lan1", "lan2"}
  Masters = {"wan"}
  Open = {"wan", "lan1", "lan2"}
  Unstable = {"lan1", "wan"}
  Adverts <- MCAdverts
  MaxHeard = 2
  MaxNews = 3
INVARIANT OwnMAC
PROPERTY SolicitationAnswered
CHECK_DEADLOCK FALSE
