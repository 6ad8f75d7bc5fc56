SPECIFICATION Spec
CONSTANTS
  Char <- TextChars
  LineFeed = "n"
  CarriageReturn = "r"
  Space = " "
  Colon = ":"
  Nul = "nul"
  Junk = "junk"
  Size = 7
  MaxSize = 15
  Key <- KeyName
  ImsiWidth = 3
  CcidKey <- CcidName
  CcidWidth = 2
  CnumKey <- CnumName
  CnumOffset = 3
  CnumWidth = 2
  NoText = NoText
  NameserverKey <- NameserverName
  Files <- TextFiles
INVARIANTS
  TypeOK
  LooksInLine
  StripsLine
  FirmwareIsFirstWord
  EntryIsRead
  SimNumbersAreOwn
  SimCodeDefined
CHECK_DEADLOCK FALSE
