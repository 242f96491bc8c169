CONSTANTS
  CycleLength = 4
  HaccRounds = 2
  PushAlignment = 2
  MaxContextDepth = 4
  MaxLoopDepth = 2
  MinTraceLength = 4
  MinStackDepth = 8
  MaxStackDepth = 11
  Modulus = 5
  RescueCycle = 4
  MinContextDepth = 1
  MinLoopDepth = 1
  MaxRegisterCount = 40
  NumOutputs = 2
  RescueRound <- MCRescueRound
  BlockLists <- MCBlockLists
  RootLists <- MCRootLists
  PrefixState <- MCPrefixState
  ProgramInputs <- MCInputs

SPECIFICATION EvaluatorSpec

INVARIANT OperationIsEnforced
