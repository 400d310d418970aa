SPECIFICATION Spec
CONSTANTS
  r1 = r1
  r2 = r2
  pa = pa
  pb = pb
  pc = pc
  None = None
  Rank = {r1, r2}
  Param = {pa, pb, pc}
  MaxPass = 3
  Scenarios <- Documented
INVARIANTS
  GradIsAverage
