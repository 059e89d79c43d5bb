CONSTANTS
  Responses <- MCResponses
  MaxPieces = 5
SPECIFICATION Spec
INVARIANT FirstObjectRecovered
\* The call returns or raises.
CHECK_DEADLOCK FALSE
