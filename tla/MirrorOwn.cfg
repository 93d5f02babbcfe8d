SPECIFICATION Spec
CONSTANTS
  wan = wan
  lan = lan
  h1 = h1
  gua = gua
  ll = ll
  NoIdx = NoIdx
  NoAddr = NoAddr
  Idx = {wan, lan}
  Hosts = {}
  Own = {gua, ll}
  LinkLocal = {ll}
  Special = {}
  MaxQueue = 2
  Behind <- OwnHome
  Names <- TwoNames
  IdxOf <- TwoIdx
  Configs <- OwnConfigs
INVARIANTS TypeOK AddrViewFresh NoLeak
