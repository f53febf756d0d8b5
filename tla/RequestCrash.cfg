CONSTANTS
  Types <- MCTypes
  Cmds <- MCCmds
  Ids = {"1", "x"}
  BodyKinds <- MCBodyKinds
  Absent = Absent
  None = None
SPECIFICATION Spec
CHECK_DEADLOCK FALSE
INVARIANT ServerSurvives
