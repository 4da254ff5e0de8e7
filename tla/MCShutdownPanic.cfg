SPECIFICATION Spec
CONSTANTS
  pod = pod
  secret = secret
  e1 = e1
  e2 = e2
  e3 = e3
  Kinds = {pod, secret}
  Events = {e1, e2, e3}
  KindOf <- MCKindOf
  SigOf <- MCSigOf
  Configs <- MCSmallConfigs
  NoEvent = none
  MaxGen = 2
INVARIANTS NoPanic
CHECK_DEADLOCK FALSE
