SPECIFICATION Spec
CONSTANTS
  c1 = c1
  c2 = c2
  c3 = c3
  p1 = p1
  p2 = p2
  kept = kept
  changed = changed
  Caller = {c1, c2, c3}
  Process = {p1, p2}
  ProcessOf <- MCProcessOf
  ProfileOf <- MCProfileOf
  PolicyOf <- MCPolicyOf
  SourceOf <- MCSourceOf
  GoalOf <- MCGoalOf
  Founder = {}
  NoCaller = NoCaller
  NoTx = NoTx
  NoHead = NoHead
  NoState = NoState
  State = {kept, changed}
  Clean = {kept}
  PolicyIn <- MCPolicyIn
  Instant = {1}
  MaxAttempts = 3
  MaxChanges = 1
  MaxCalls = 3
INVARIANTS
  InitializeIsIdempotent
CHECK_DEADLOCK FALSE
