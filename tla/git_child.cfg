SPECIFICATION FairSpec
CONSTANTS
  stdout = stdout
  stderr = stderr
  Stream = {stdout, stderr}
  FirstJoined = stdout
  SecondJoined = stderr
  Main = main
  Nobody = nobody
  MaxOutput = 3
  Chunk = 2
  Pipe = 2
  MaxWritten = 4
INVARIANTS
  TypeOK
  ResultIsComplete
  LimitIsExact
  NoChildLeft
PROPERTIES
  CallEnds
CHECK_DEADLOCK FALSE
