CONSTANTS
  CycleLength = 4
  HaccRounds = 2
  PushAlignment = 2
  MaxContextDepth = 4
  MaxLoopDepth = 2
  MinTraceLength = 4
  MinStackDepth = 2
  MaxStackDepth = 9
  Modulus = 5
  RescueCycle = 4
  RescueRound <- MCRescueRound
  BlockLists <- MCBlockLists
  RootLists <- MCRootLists
  PrefixState <- MCPrefixState
  ProgramInputs <- MCInputs

SPECIFICATION FairSpec

INVARIANTS
  TypeOK
  ControlInvariant
  SpongeTracksProgram
  ProgramHashMatches
  ContextIsSuspendedHashes
  LoopStackIsActiveImages
  DecoderAccepts
  GuardsAgreeWithCondition
  TracesInLockstep
  VoidOnlyAtEnd

PROPERTIES
  ImplementsSemantics
  Termination
