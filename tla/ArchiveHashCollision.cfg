CONSTANTS
  Tools = {"t1"}
  Params = {"a", "b"}
  Contents = {"c1", "c2"}
  Plans = {"P1"}
  StrHash <- MCStrHash
  MaxParams = 2
  MaxInputs = 1
  MaxOutputs = 0
  MaxReports = 2
  None = None
  MonitorInfos <- MCInfos
  LocalAddress = "10.0.0.1"
  MaxPolls = 2
SPECIFICATION Spec
INVARIANT DedupExact
