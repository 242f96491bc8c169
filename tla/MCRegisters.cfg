CONSTANTS
  Modulus = 5
  MinStackDepth = 8
  MaxStackDepth = 11
  RescueCycle = 4
  RescueRound <- MCRescueRound
  Instructions <- MCInstructions
  Inputs <- MCInputs
  InitLength = 2
  MaxInstructions = 3

SPECIFICATION MachineSpec

INVARIANT TraceFitsLayout

CHECK_DEADLOCK FALSE
