CONSTANTS
  Schemas <- MCSchemas
  InputSizes <- MCSizes
  ParamSizes <- MCSizes
  ULongBits = 8
  Words <- MCWords
  Lower <- MCLower
SPECIFICATION Spec
INVARIANT WellFormedExpansionMatches
INVARIANT RequestBodyRead
INVARIANT ToolKitLoaded
