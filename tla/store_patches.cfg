SPECIFICATION Spec
CONSTANTS
  Handlers = {"h1", "h2"}
  Requests <- OnlyPatches
  Torn = Torn
  Absent = Absent
  Error = Error
  Fields = {"enabled", "tcp"}
  MaxId = 2
  MaxRequests = 2
  MayBeKilled = FALSE
  MayFail = FALSE
INVARIANT AlwaysWhole
CHECK_DEADLOCK FALSE
