SPECIFICATION FairSpec
CONSTANTS
  h1 = h1
  h2 = h2
  k1 = k1
  k2 = k2
  k3 = k3
  Handlers = {h1}
  Keys = {k1, k2}
  KeysOf <- MCKeysOfOne
  Sigs = {s1}
  Unhashed = unhashed
  NoEntry = none
  TTL = 2
  MaxSize = 1
  MaxAge = 3
PROPERTIES ExpiredRemoved
