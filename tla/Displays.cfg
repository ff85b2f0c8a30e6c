SPECIFICATION Spec
CONSTANTS
  Requests = {r1, r2}
  CacheTtl = 2
  ActivityTtl = 1
  MaxClock = 3
  None = None
  Error = Error
SYMMETRY MCSymmetry
INVARIANTS AnswersAreFresh ShownStaysShown
CHECK_DEADLOCK FALSE
