\* A usize of five bits: counts up to 3 and pointers up to 30.
CONSTANTS
  MaxAvailable = 3
SPECIFICATION Spec
INVARIANTS
  PackedInv
PROPERTIES
  CellSpec
