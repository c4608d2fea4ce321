SPECIFICATION FairSpec
CONSTANT MaxFaults = 3
INVARIANTS
  NameIsFree
  OutcomeTellsState
PROPERTIES
  ImplementsProxyService
  RunsKeepSucceeding
