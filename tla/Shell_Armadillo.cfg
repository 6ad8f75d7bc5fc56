CONSTANTS
  LastItem <- PartLast
  Getter <- PartGetter
  Policy <- PartPolicy
  ObjectItems <- PartObjects
  Preset = {}
  Requests = {r1, r2}
  NoRequest = NoRequest
  IntervalModulus = 4
  RuntimeMayFail = FALSE
SPECIFICATION ShellSpec
INVARIANT CommandIsOwn
PROPERTY OnlyOwnEntryChanges
CHECK_DEADLOCK FALSE
