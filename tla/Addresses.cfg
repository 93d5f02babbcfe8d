SPECIFICATION Spec
CONSTANTS
  ll = ll
  ga = ga
  gb = gb
  Addrs = {ll, ga, gb}
  LinkLocals = {ll}
  NoAddr = NoAddr
  Word = 7
  Lifetimes = {1, 6}
  MaxNow = 3
  MaxEvents = 1
INVARIANTS PicksAsDocumented SourceAssigned
CHECK_DEADLOCK FALSE
