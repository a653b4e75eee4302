SPECIFICATION Spec
CONSTANTS
  Workspaces = {w1}
  Creators = {c1, c2}
  Revokers = {}
  Verifiers = {}
  Keys = {k1}
  Refs = {r1, r2}
  PlanLimit <- TwoSealsPerPlan
  MaxMonth = 1
  None = None
INVARIANTS
  KeyUsedOnce
