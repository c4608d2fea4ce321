SPECIFICATION Spec
CONSTANTS
  h1 = h1
  h2 = h2
  postgres = postgres
  redis = redis
  Hosts = {h1, h2}
  First = h1
  Services = {postgres, redis}
  Cachers = {postgres}
  Sessions <- MCSessions
INVARIANTS
  ConnectedWhileInUse
  NothingStale
