CONSTANTS
  LastItem <- ShortLast
  Getter <- ShortGetter
  Policy <- ShortPolicy
  ObjectItems <- ShortObjects
  Preset <- ShortPreset
  Requests = {r1, r2}
  NoRequest = NoRequest
  IntervalModulus = 2
  RuntimeMayFail = TRUE
SPECIFICATION FairSpec
INVARIANTS
  TypeOK
  OneWakeUp
  CollectingHasProcess
  ReportIsOwn
  MustItemsReported
PROPERTIES
  NoItemLeftRunning
  BackOffRestarts
  RunEnds
  ServiceSpec
  Completion
CHECK_DEADLOCK FALSE
