CONSTANTS
  Comms <- MCComms
  NCpu = 2
  MemSizes = {5}
  NatBits = 2
  MaxJiffies = 2
  None = None
SPECIFICATION Spec
INVARIANT SampleMatchesProc
