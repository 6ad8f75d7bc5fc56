CONSTANTS
  LastItem <- FirmwareLast
  Getter <- FirmwareGetter
  Policy <- FirmwarePolicy
  ObjectItems <- FirmwareObjects
  Preset <- NoItems
  Requests = {r1}
  NoRequest = NoRequest
  IntervalModulus = 4
  RuntimeMayFail = FALSE
SPECIFICATION FairSpec
PROPERTY Completion
CHECK_DEADLOCK FALSE
