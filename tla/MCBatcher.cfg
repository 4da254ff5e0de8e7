SPECIFICATION FairSpec
CONSTANTS
  e1 = e1
  e2 = e2
  e3 = e3
  e4 = e4
  Events = {e1, e2, e3, e4}
  Window = 2
  CallbackBound = 1
  KindOf <- MCKindOf
  TypeOf <- MCTypeOf
  SummaryLimit = 3
  NamesShown = 1
  Configured <- MCConfigured
INVARIANTS TypeOK FlushComing OneCallback InOrder StopFlushes EveryEventTold AlwaysShown
PROPERTIES FullWindow HandsOverExactlyOnce AllDelivered
