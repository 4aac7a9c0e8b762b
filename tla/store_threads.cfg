SPECIFICATION Spec
CONSTANTS
  h1 = h1
  h2 = h2
  h3 = h3
  p1 = p1
  p2 = p2
  Handle = {h1, h2, h3}
  Process = {p1, p2}
  SharedProcess = p1
  OtherProcess = p2
  OwnHandle = h3
  ProcessOf <- TwoThreads
  NoHandle = NoHandle
  NoTx = NoTx
  NoHead = NoHead
  Record = {"g", "c", "x"}
  Local = {"goal"}
  HeadName = {"main"}
  Request <- FewRequests
  MaxCalls = 2
PROPERTIES
  HistoryOnlyGrows
