CONSTANTS
  LastItem <- ItemCount
  Getter <- RiGetter
  Policy <- ItemPolicy
  ObjectItems <- ItemsOfObjectType
  Preset <- RiPreset
  Requests = {r1}
  NoRequest = NoRequest
  IntervalModulus = 4
  RuntimeMayFail = FALSE
SPECIFICATION Spec
PROPERTY InterfacesAreSafe
CHECK_DEADLOCK FALSE
