SPECIFICATION Spec
CONSTANTS
  Editors = {e1, e2}
  Files <- MCFiles
  Existing <- MCExisting
  Media <- MCMedia
  Docs = {"short", "dashes"}
  Unreadable = {"dashes"}
  Long = {"dashes"}
  MaxRequests = 3
INVARIANTS  UnknownFieldsKept SettingsReachTheSite TreeCountsAll
SYMMETRY EditorsAlike
CHECK_DEADLOCK FALSE
