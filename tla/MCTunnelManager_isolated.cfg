SPECIFICATION Spec
CONSTANTS
  main = main
  w1 = w1
  w2 = w2
  kafka = kafka
  mongo = mongo
  Threads = {main, w1, w2}
  Services = {kafka, mongo}
  Tunnels = {t1, t2, t3, t4}
  None = None
  Uses <- MCUses
  Isolated = TRUE
SYMMETRY TunnelSymmetry
INVARIANTS
  HandedOutIsOpen
  NoCallRaises
  NoTunnelLost
  OverwriteNeedsSharedService
PROPERTIES
  ImplementsTunnelPool
