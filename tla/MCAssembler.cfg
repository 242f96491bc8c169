CONSTANTS
  Modulus = 17
  CycleLength = 16
  HaccRounds = 14
  PushAlignment = 8
  BlockLists = {}
  RootLists = {}
  PrefixState = {}
  Plain <- MCPlain
  Counts = {2, 3}
  MaxLength = 6
  ShortLength = 4
  Sources <- MCSources

SPECIFICATION AssemblerSpec

INVARIANTS
  CompilesFaithfully
  AcceptsEveryProgram
  NeverPanics
  SpansAlternate

CHECK_DEADLOCK FALSE
