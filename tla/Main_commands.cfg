CONSTANTS
  LastItem <- TwoLast
  Getter <- TwoGetter
  Policy <- TwoPolicy
  ObjectItems = {}
  Preset <- TwoPreset
  Requests = {c1, c2}
  NoRequest = NoRequest
  IntervalModulus = 4
  RuntimeMayFail = TRUE
  Objects = {o1, o2}
  Null = Null
  Garbage = Garbage
  MoatInitMayFail = TRUE
SPECIFICATION MainFairSpec
INVARIANTS
  MainTypeOK
  CallsBackLiveContext
  ContextsAccounted
  
  HeapOwned
PROPERTIES
  NotifiedOnce
  QuietBetweenCollections
  CommandsSpec
  AcceptedIsNotified
CHECK_DEADLOCK FALSE
