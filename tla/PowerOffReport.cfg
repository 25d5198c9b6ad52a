SPECIFICATION Spec
CONSTANTS
  UINT = 1024
  Servers = {crserv}
  Inputs = {}
  Fleets = {{crserv}}
  NODES = 6
  SLOTS = 4
  MODS = 2
  BATCH = 2
  crserv = crserv
PROPERTY CompleteMeansOff
