SPECIFICATION Spec
CONSTANTS
  UINT = 1024
  Servers = {crserv}
  Inputs = {crmicp, crinp}
  Fleets = {{crserv}, {crmicp, crinp}}
  NODES = 6
  SLOTS = 4
  MODS = 2
  BATCH = 2
  crserv = crserv
  crinp = crinp
  crmicp = crmicp
INVARIANTS
  OrderlyEndFreesAll
  OneCloser
  OnlyAskedDaemonsClose
PROPERTIES
  LifecycleSpec
  StandingRequestEnds
  OffwEnds
