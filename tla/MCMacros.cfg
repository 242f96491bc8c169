CONSTANTS
  Modulus = 17
  CycleLength = 16
  HaccRounds = 14
  PushAlignment = 8
  BlockLists = {}
  RootLists = {}
  PrefixState = {}
  MaxStackDepth = 32
  RescueCycle = 16
  RescueRound <- MCRescueRound
  Cases <- MCCases

SPECIFICATION MacroSpec

INVARIANTS
  EffectAsDocumented
  FailsOnlyAsDocumented
  HintsAreConsumed
  TapesDoNotMatter

CHECK_DEADLOCK FALSE
