SPECIFICATION Spec
CONSTANTS
  Callers = {c1, c2}
  Flows = {f1, f2}
  MaxToken = 3
  VerifyJWT = TRUE
  Introspect = TRUE
  None = None
INVARIANTS RefusedOnlyIfLate RejectedOnlyIfDisturbed
PROPERTIES UserTokenKept
SYMMETRY MCSymmetry
CHECK_DEADLOCK FALSE
