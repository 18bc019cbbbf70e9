SPECIFICATION Spec
CONSTANTS
  Names = {x1, x2}
  Addresses = {a1, a2}
  zero = zero
  MAX_TIME_DRIFT = 1
  Expiries = {0, 2, 3, 5}
  MaxTime = 6
SYMMETRY Symmetric
INVARIANT ResolvedIsAccepted
