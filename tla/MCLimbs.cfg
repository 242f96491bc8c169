CONSTANTS
  Modulus = 241
  Limb = 16

SPECIFICATION LimbSpec

PROPERTY ImplementsField

CHECK_DEADLOCK FALSE
