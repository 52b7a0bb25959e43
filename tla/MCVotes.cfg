SPECIFICATION MCSpec
CONSTANTS
  v1 = v1
  v2 = v2
  v3 = v3
  v4 = v4
  a = a
  b = b
  w1 = w1
  w2 = w2
  w3 = w3
  w4 = w4
  Nil = Nil
  None = None
  NoEvidence = NoEvidence
  Validators <- MCValidators
  Quorums <- MCQuorums
  Rounds <- MCRounds
  Blocks <- MCBlocks
  Faulty <- MCFaulty
  Voters <- MCVoters
  Power <- MCPower
  FaultySets <- MCFaultySets
  BlockIDs = {c, d, nil}
  Peers = {p1}
  Evidence = {"d1", "l2"}
  HeightOf <- MCHeightOf
  LightEvidence = {"l2"}
  Reporters = {p1, p2}
  MaxAge = 1
  MaxHeight = 5
  MaxSize = 2
  MaxCrashes = 1
INVARIANT Agreement
INVARIANT CommitHasQuorum
INVARIANT MemoryBounded
INVARIANT PendingIsOffered
SYMMETRY Symmetry
CHECK_DEADLOCK FALSE
