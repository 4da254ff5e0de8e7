SPECIFICATION Spec
CONSTANTS
  i1 = "i1"
  i2 = "i2"
  app = "app"
  Nil = nil
  NoName = noname
  Name = "name"
  Absent = absent
  Kinds = {"Pod", "Deployment", "Service", "ConfigMap", "ReplicaSet", "StatefulSet", "DaemonSet", "CronJob", "Ingress"}
  WatchLists <- MCWatchLists
  Contents <- MCContents
  MaxWrites = 2
  MaxRestarts = 1
INVARIANTS TypeOK ImageChangeNotified EnvChangeNotified NoSpuriousNotification ToldIsSeen
CHECK_DEADLOCK FALSE
