SPECIFICATION FairSpec
CONSTANTS
  wan = wan
  lan = lan
  l1 = l1
  l2 = l2
  l3 = l3
  c1 = c1
  a2 = a2
  Names = {wan, lan}
  Links = {l1, l2, l3}
  LinkAddress <- MCLinkAddress
  Configs <- MCConfigs
  Clients = {c1}
  Outer <- MCOuter
  NoLink = NoLink
  NoAddr = NoAddr
  dhcpv6HopLimit = 2
  MaxSock = 2
  MaxPosted = 1
  MaxNet = 1
INVARIANTS HandledInRole ReplyGoesBack LoopsEnd
PROPERTY RequestRelayed
CHECK_DEADLOCK FALSE
