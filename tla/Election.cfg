CONSTANTS
  c1 = c1
  c2 = c2
  Candidates = {c1, c2}
  MaxRev = 4
SPECIFICATION Spec
INVARIANTS ElectedLeads ResignEndsTenure
PROPERTIES ImplementsExclusion
CHECK_DEADLOCK FALSE
