CONSTANTS
  Modulus = 5
  MinStackDepth = 8
  MaxStackDepth = 11
  RescueCycle = 4
  RescueRound <- MCRescueRound
  Instructions <- MCInstructions
  Inputs <- MCInputs
  InitLength = 2
  MaxInstructions = 3

SPECIFICATION MachineSpec

INVARIANTS
  StackTypeOK
  FreeRegistersAreZero
  RegistersSuffice

PROPERTIES
  ImplementsList
  ResultSatisfiesConstraints
  ResultIsDetermined

CHECK_DEADLOCK FALSE
