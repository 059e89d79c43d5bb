CONSTANTS
  Fields <- MCFields
  Values <- MCValues
  Blank = ""
  FieldRules <- MCFieldRules
  DocumentRules <- MCDocumentRules
  Fitting <- MCFitting
  Canonical <- MCCanonical
  Unreadable = "UNREADABLE"
  ReadError = "error"
  Decisions <- MCDecisions
  MaxCrashes = 1
  NoDecision = NoDecision
  Prices = {"1", "2"}
  MaxRetries = 2
SPECIFICATION FairSpec
INVARIANTS
  TypeOK
  FailuresAreCurrent
  EscalationJustified
  RetryBudget
  CanonicalData
  ExitCodeHonest
  SuperstepBudget
PROPERTIES
  ClosedIsFinal
  FlaggedNeverReread
  RepairsAreLocal
  RunsReport
  RepairsInLoop
