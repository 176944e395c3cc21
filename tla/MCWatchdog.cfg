SPECIFICATION Spec
CONSTANTS
  Amounts <- MCAmounts
  MaxBytes = 4
INVARIANTS TypeOK BytesAccounted
PROPERTIES StallWarned JoinReturns
CHECK_DEADLOCK FALSE
