CONSTANTS
  CycleLength = 16
  HaccRounds = 14
  PushAlignment = 8
  MaxContextDepth = 16
  MaxLoopDepth = 8
  MinTraceLength = 16
  MinStackDepth = 8
  MaxStackDepth = 32
  Modulus = 5
  RescueCycle = 16
  RescueRound <- MCRescueRound
  BlockLists <- MCBlockLists
  RootLists <- MCRootLists
  PrefixState <- MCPrefixState
  ProgramInputs <- MCInputs

SPECIFICATION Spec

INVARIANT NestingWithinLimitsRuns
