SPECIFICATION FairSpec
CONSTANTS
  Handlers = {"h1", "h2"}
  Requests <- Everything
  Torn = Torn
  Absent = Absent
  Error = Error
  Fields = {"enabled", "tcp"}
  MaxId = 2
  MaxRequests = 3
  MayBeKilled = TRUE
  MayFail = TRUE
INVARIANTS FilesWhole AckedIsStored ProfilesConsistent
PROPERTY RequestsEnd
CHECK_DEADLOCK FALSE
