CONSTANTS
  Names = {"FullName", "full_name", "Logo"}
  Fields = {"full_name"}
  Unmapped = "unmapped"
  AliasLookup <- MCAliasLookup
  Nameless = "nameless"
  Other = "OTHER"
  Responses <- MCResponses
  MaxPages = 2
SPECIFICATION Spec
INVARIANT BoxesOnTheirPage
\* A document is mapped once, and each field is cropped once.
CHECK_DEADLOCK FALSE
