SPECIFICATION FairSpec
CONSTANTS
  Missing = Missing
  Garbled = Garbled
  NoWrite = NoWrite
  Second = 100
  MaxInt = 32767
  Contents <- MCContents
  Prefixes <- MCPrefixes
  NumCallbacks = 2
  Refused <- MCRefused
  Volume = "plain"
  QueueSize = 2
  MaxVersions = 4
INVARIANTS TypeOK EffectUsable PanicsOnlyOnOverflow CallbacksIndependent ChangeNotForgotten
PROPERTIES LatestIsApplied LoopEnds FollowsSource
CHECK_DEADLOCK FALSE
