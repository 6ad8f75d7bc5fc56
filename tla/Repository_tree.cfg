CONSTANTS
  Names <- AllNames
  Values = {"", "preset", "read"}
  Blank = ""
  DeviceValues = {"read"}
  Configurations <- Confs
  ValuePaths <- VendorPaths
  ListPaths <- InterfacePaths
  MaxEntries = 2
  RuntimeMayFail = TRUE
SPECIFICATION Spec
INVARIANT TypeOK
PROPERTIES
  FailureLosesNothing
  OthersKept
  ListsGrow
  ReportSpec
CHECK_DEADLOCK FALSE
