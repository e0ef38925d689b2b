SPECIFICATION Spec
CONSTANTS
  Shifts = {s1}
  People = {i1, i2}
  Requests = {r1, r2}
  Overlaps = {}
  Assignable = {Nobody}
  Nobody = Nobody
  NoShift = NoShift
SYMMETRY Symmetry
PROPERTY YesIsForOne
CHECK_DEADLOCK FALSE
