SPECIFICATION EventsSpec
CONSTANTS
  h1 = h1
  k1 = k1
  image = image
  Handlers = {h1}
  Keys = {k1}
  KeysOf <- MCKeysOf
  Contents = {image}
  MaxStamp = 3
  Sigs <- MCSigs
  Unhashed = unhashed
  NoEntry = none
  TTL = 2
  MaxSize = 2
  MaxAge = 2
PROPERTIES SameEventNotRepeated
