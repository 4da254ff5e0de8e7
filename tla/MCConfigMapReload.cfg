SPECIFICATION FairSpec
CONSTANTS
  Missing = Missing
  Garbled = Garbled
  NoWrite = NoWrite
  Second = 100
  MaxInt = 32767
  Contents <- MCContents
  Prefixes <- MCPrefixes
  NumCallbacks = 2
  Refused <- MCRefused
  Volume = "projected"
  QueueSize = 2
  MaxVersions = 3
PROPERTIES LatestIsApplied
CHECK_DEADLOCK FALSE
