SPECIFICATION Spec
CONSTANTS
  Miner = {m1}
  Wallet = {}
  Peer = {}
  Tools = 0
  MaxProcs = 4
PROPERTY MinedAppended
