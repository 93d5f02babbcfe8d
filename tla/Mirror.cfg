SPECIFICATION FairSpec
CONSTANTS
  wan = wan
  lan = lan
  h1 = h1
  gua = gua
  ll = ll
  NoIdx = NoIdx
  NoAddr = NoAddr
  Idx = {wan, lan}
  Hosts = {h1}
  Own = {}
  LinkLocal = {}
  Special = {}
  MaxQueue = 2
  Behind <- OneHome
  Names <- TwoNames
  IdxOf <- TwoIdx
  Configs <- HostConfigs
INVARIANTS MirrorIntact NoLeak OneReconcile LearnedWhenDrained
PROPERTIES FlushHealed DepartedReaped
