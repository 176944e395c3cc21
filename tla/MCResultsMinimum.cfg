SPECIFICATION Spec
CONSTANTS
  MaxDouble = 60
  WordModulus = 128
  Lanes = 2
  Values <- MCValues
  Scale = 2
  MaxValues = 4
  MaxItems = 3
INVARIANTS VectorMinimum
