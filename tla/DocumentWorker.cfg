CONSTANTS
  Fields <- MCFields
  Values <- MCValues
  Blank = ""
  FieldRules <- MCFieldRules
  DocumentRules <- MCDocumentRules
  Fitting <- MCFitting
  Canonical <- MCCanonical
  Unreadable = "UNREADABLE"
  ReadError = "error"
  Prices = {"1", "2", "3"}
  MaxRetries = 2
SPECIFICATION FairSpec
INVARIANTS
  TypeOK
  VerdictHonest
  HandOverComplete
PROPERTIES
  KeepsContract
  RepairsInLoop
\* A worker invocation really stops at its end.
CHECK_DEADLOCK FALSE
