SPECIFICATION FairSpec
CONSTANTS
  Replicas = 2
  HasTemplates = TRUE
  MaxTimeouts = 2
INVARIANTS
  OkMeansReset
  UndisturbedReset
  ClearedMeansReset
  ClientsAreServed
PROPERTIES
  BrokersLost
  CallsSucceed
