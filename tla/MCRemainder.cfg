CONSTANTS
  Modulus = 3329
  RootOrder = 256
  RootGenerator = 17
  Registers = 3
  Constraints <- MCConstraints
  Degrees <- MCDegrees
  RoundConstants <- MCRoundConstants
  MaxConstraintDegree = 4
  MaxRegisterCount = 4
  Draw <- MCDraw
  Digest <- MCDigest
  ExtensionFactor = 16
  MaxRemainderLength = 16
  NumQueries = 3
  MaxDraws = 4
  GrindingModulus = 4
  MaxNonce = 60
  OpCountRange = 16
  MinTraceLength = 4
  Jobs <- MCWideJobs

SPECIFICATION ProofSpec

INVARIANT HonestProofAccepted

CHECK_DEADLOCK FALSE
