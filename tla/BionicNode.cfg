SPECIFICATION Spec

CONSTANTS
  Miner = {m1}
  Wallet = {}
  Peer = {x1, x2}
  Tools = 1
  MaxProcs = 2

INVARIANTS
  AckedKept
  HeightCounts

PROPERTIES
  FullForGood
  NobodyWaits
