SPECIFICATION Spec
CONSTANTS
  SharedProcess = p1
  OtherProcess = p2
  OwnHandle = h1
  h1 = h1
  h2 = h2
  Handle = {h1, h2}
  Process = {h1, h2}
  ProcessOf <- OwnProcess
  NoHandle = NoHandle
  NoTx = NoTx
  NoHead = NoHead
  Record = {"g", "c", "x"}
  Local = {"goal"}
  HeadName = {"main"}
  Request <- FewRequests
  MaxCalls = 2
INVARIANTS
  CommittedIsAnswered
