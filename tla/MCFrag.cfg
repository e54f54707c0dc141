SPECIFICATION Spec
CONSTANTS
  Numbers = 3
  Parts <- UpToThree
  MaxSent = 5
  MaxLink = 0
  MaxAnew = 1
  MaxLate = 1
INVARIANTS TypeOK Whole Complete
CHECK_DEADLOCK FALSE
