CONSTANTS
  LastItem <- ItemCount
  Getter <- ObsGetter
  Policy <- ItemPolicy
  ObjectItems <- ItemsOfObjectType
  Preset <- ObsPreset
  Requests = {r1}
  NoRequest = NoRequest
  IntervalModulus = 4
  RuntimeMayFail = TRUE
SPECIFICATION FairSpec
PROPERTY EventuallyFree
CHECK_DEADLOCK FALSE
