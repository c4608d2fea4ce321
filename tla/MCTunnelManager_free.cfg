SPECIFICATION FairSpec
CONSTANTS
  main = main
  w1 = w1
  w2 = w2
  kafka = kafka
  mongo = mongo
  Threads = {main, w1}
  Services = {kafka, mongo}
  Tunnels = {t1, t2}
  None = None
  Uses <- MCUses
  Isolated = FALSE
INVARIANTS
  StaleOnlyDuringClear
PROPERTY
  CallsReturn
