SPECIFICATION Spec
CONSTANTS
  h1 = h1
  h2 = h2
  k1 = k1
  k2 = k2
  k3 = k3
  Handlers <- MCHandlers
  Keys <- MCKeys
  KeysOf <- MCKeysOf
  Sigs = {s1}
  Unhashed = unhashed
  NoEntry = none
  TTL = 2
  MaxSize = 2
  MaxAge = 2
INVARIANTS TypeOK CacheBounded
PROPERTIES SuppressionJustified NoDuplicatePassed EvictsOldestFirst
