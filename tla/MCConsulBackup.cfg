SPECIFICATION Spec
CONSTANTS
  h1 = h1
  h2 = h2
  Hosts = {h1, h2}
  MaxFaults = 2
INVARIANTS
  DefaultsKept
  OkMeansDefaults
PROPERTIES
  BlockedForever
