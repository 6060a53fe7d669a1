\* Every bit string up to 11 bits and the frames of components up to 17 bits.
SPECIFICATION UnframeSpec
CONSTANTS
  Radix = 2
  MaxInput = 11
  MaxFramed = 17
  Inputs <- MCInputs
CHECK_DEADLOCK FALSE
INVARIANTS
  UnframeTypeOK
  ExactInverse
  RefusesNoFrame
