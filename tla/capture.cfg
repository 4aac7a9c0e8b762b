SPECIFICATION FairSpec
CONSTANTS
  root = root
  d = d
  f = f
  g = g
  a = a
  b = b
  File = {f, g}
  Dir = {root, d}
  Root = root
  Policy = g
  Parent <- MCParent
  Depth <- MCDepth
  Git = Git
  HEAD = HEAD
  Packed = Packed
  Config = Config
  Index = Index
  Content = {a, b}
  Nothing = Nothing
  Targets <- MCTargets
  Requests = {{}, {f}}
  MaxChanges = 2
INVARIANTS
  TypeOK
  CaptureIsAnInstant
  CopiesAreOfTheInstant
  CleanWasClean
  QuietIsAnswered
PROPERTIES
  CapturesEnd
