CONSTANTS
  Fields = {"holder"}
  FilePageTypes <- MCFilePageTypes
  MaxPages <- MCMaxPages
  MaxRuns = 2
SPECIFICATION FairSpec
INVARIANTS
  TypeOK
  NothingLost
  DossierStatusHonest
PROPERTY RunsEnd
\* Nobody has to run the dossier again.
CHECK_DEADLOCK FALSE
