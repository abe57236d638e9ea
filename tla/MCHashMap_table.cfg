\* Four colliding keys, put and removed, with memory for two doublings.
SPECIFICATION Spec
CONSTANTS
  ka = ka
  kb = kb
  kc = kc
  kd = kd
  Keys <- MCKeys
  Hash <- MCHash
  Null = Null
  ChainLength = 2
  InitialSize = 8
  Values = {v, w}
  MaxTable = 32
INVARIANTS
  SizeCoversUsed
  KeysReachable
  GetReturnsLatest
