SPECIFICATION FairSpec
CONSTANTS
  pod = pod
  secret = secret
  e1 = e1
  e2 = e2
  e3 = e3
  Kinds = {pod, secret}
  Events = {e1, e2, e3}
  KindOf <- MCKindOf
  SigOf <- MCSigOf
  Configs <- MCConfigs
  NoEvent = none
  MaxGen = 3
INVARIANTS TypeOK SnapshotConsistent OnlySharedRun DuplicatesRepeat EventsInOnePlace
PROPERTIES ReloadTakesEffect BatchersAreSinks CleanShutdown EventsSettle ShutdownCompletes
CHECK_DEADLOCK FALSE
