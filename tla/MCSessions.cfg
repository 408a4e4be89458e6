SPECIFICATION Spec
CONSTANTS
  Tokens = {t1, t2, t3}
  Families = {f1}
  Calls = {c1, c2}
  None = None
SYMMETRY Interchangeable
INVARIANTS OneSuccessor RevokedSessionIsDead
