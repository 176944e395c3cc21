SPECIFICATION Spec
CONSTANTS
  MaxDouble = 10000
  WordModulus = 64
  Lanes = 2
  Values <- MCValues
  Scale = 2
  MaxValues = 4
  MaxItems = 3
INVARIANTS NoneDropped
