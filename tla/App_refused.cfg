CONSTANTS
  LastItem <- TwoLast
  Getter <- TwoGetter
  Policy <- TwoPolicy
  ObjectItems = {}
  Preset = {}
  Requests = {c1, c2}
  NoRequest = NoRequest
  IntervalModulus = 4
  RuntimeMayFail = FALSE
SPECIFICATION AppFairSpec
PROPERTY EveryCommandIsNotified
CHECK_DEADLOCK FALSE
