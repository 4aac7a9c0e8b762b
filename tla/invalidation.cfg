SPECIFICATION Spec
CONSTANTS
  Evidence = {1, 2, 3}
  Absent = {4}
  Graph <- Graphs
  Record <- Records
  Context <- MCContext
  None = None
INVARIANTS
  TypeOK
  ComponentsAreClasses
  AgreesWithReachability
  PathsExplain
  RefusesDoubtfulEvidence
  CurrentIsProven
PROPERTIES
  OnlySharpens
  Ends
CHECK_DEADLOCK FALSE
