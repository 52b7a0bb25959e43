SPECIFICATION Spec
CONSTANTS
  self = self
  x = x
  y = y
  a = a
  b = b
  p = p
  Validators = {self, x, y}
  Power <- MCPower
  Self = self
  Peers = {p}
  MaxRound = 2
  Blocks = {a, b}
  Nil = Nil
  None = None
  OwnRounds = {1}
  NewBlock = b
  Scenarios <- MCScenarios
  QueueSize = 1
  MaxCatchupRounds = 1
INVARIANTS
  ProposalJustified
  CatchupBounded
PROPERTIES
  ImplementsValidator
  RoundProgress
CHECK_DEADLOCK FALSE
