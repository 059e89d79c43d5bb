CONSTANTS
  Today <- MCToday
  Documents <- MCDocuments
  OtherAmounts <- MCOtherAmounts
  OtherDates <- MCOtherDates
  MaxRetries = 2
SPECIFICATION Spec
INVARIANTS
  PrintedIsRead
  ConsistentNotBlamed
  AcceptedIsPrinted
  OnePassHeals
\* A document is accepted or left to a human.
CHECK_DEADLOCK FALSE
