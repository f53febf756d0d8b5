CONSTANTS
  Schemas <- Scenario6
  InputSizes = {1}
  ParamSizes = {1}
  ULongBits = 8
  Words <- MCWords
  Lower <- MCLower
SPECIFICATION Spec
INVARIANT ExpansionDefined
