CONSTANTS
  t1 = t1
  t2 = t2
  r1 = r1
  r2 = r2
  r3 = r3
  f1 = f1
  Tools = {t1, t2}
  SingleInstance = {t1}
  Broken = {}
  WsIds = {w1, w2}
  Requests = {r1, r2}
  Files = {f1}
  Pids = {p1, p2}
  None = None
  ReqTool <- MCReqTool
  ReqInputs <- MCReqInputs
SYMMETRY MCSymmetry
SPECIFICATION Spec
INVARIANT TypeOK
INVARIANT ReservationExact
INVARIANT RunsKeepWorkspace
INVARIANT RunningReportOwnsPid
