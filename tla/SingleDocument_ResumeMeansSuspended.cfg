CONSTANTS
  Fields <- MCFields
  Values <- MCValues
  Blank = ""
  FieldRules <- MCFieldRules
  DocumentRules <- MCDocumentRules
  Fitting <- MCFitting
  Canonical <- MCCanonical
  Unreadable = "UNREADABLE"
  ReadError = "error"
  Decisions <- MCDecisions
  MaxCrashes = 1
  NoDecision = NoDecision
  Prices = {"1", "2"}
  MaxRetries = 1
SPECIFICATION Spec
PROPERTY ResumeMeansSuspended
