CONSTANTS
  Fields = {"holder"}
  FilePageTypes <- MCFilePageTypes
  MaxPages <- MCMaxPages
  MaxRuns = 2
SPECIFICATION Spec
INVARIANT BadDocumentsDoNotSink
CHECK_DEADLOCK FALSE
