SPECIFICATION Spec
CONSTANTS
  i1 = "i1"
  i2 = "i2"
  app = "app"
  Nil = nil
  NoName = noname
  Name = "name"
  Absent = absent
  Kinds = {"Deployment"}
  WatchLists <- MCEveryKind
  Contents <- MCFieldContents
  MaxWrites = 2
  MaxRestarts = 0
INVARIANTS AnyEnvChangeNotified
CHECK_DEADLOCK FALSE
