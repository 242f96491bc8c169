CONSTANTS
  Depth <- MCDepth
  Power <- MCPower
  Vectors <- MCVectors
  Requests <- MCRequests
  Wrong <- MCWrong
SPECIFICATION Spec
INVARIANTS
  TreeIsHashed
  BatchBinding
  IntactProofsVerify
  NoSpareNodes
  PanicOnlyOnBadRequest
CHECK_DEADLOCK FALSE
