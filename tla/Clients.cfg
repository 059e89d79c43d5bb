CONSTANTS
  Configurations <- MCConfigurations
  Workers = {w1, w2}
  Main = main
  Nothing = Nothing
  MaxUses = 2
SPECIFICATION Spec
INVARIANTS
  TypeOK
  HandlesOpen
  HeldIsOpen
  LeaksExplained
\* The process ends after the teardown.
CHECK_DEADLOCK FALSE
