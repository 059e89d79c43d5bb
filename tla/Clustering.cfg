CONSTANTS
  MaxPages = 6
  Answered <- MCAnswered
SPECIFICATION Spec
INVARIANTS
  TypeOK
  EveryPageOnce
  DocumentIdsUnique
  PairingMaximum
\* The node returns once every page is grouped.
CHECK_DEADLOCK FALSE
