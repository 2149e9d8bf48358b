SPECIFICATION Spec
CONSTANTS
  Forced = {check1, check2}
  Daily = daily
  Versions = {1, 2, 3}
  Malformed = Malformed
  None = None
SYMMETRY CheckSymmetry
INVARIANT NothingArmedOnceRemoved
