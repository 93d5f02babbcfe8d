SPECIFICATION FairSpec
CONSTANTS
  wan = wan
  lan = lan
  lan2 = lan2
  Ifaces = {wan, lan, lan2}
  Masters = {wan}
  NoIface = NoIface
  Home = {wan, lan, lan2, NoIface}
  MaxTries = 2
  MaxNews = 2
  MaxFails = 2
PROPERTIES ProbesEnd TargetFound
CHECK_DEADLOCK FALSE
