SPECIFICATION Spec
CONSTANTS
  Workspaces = {w1, w2}
  Creators = {c1, c2}
  Revokers = {}
  Verifiers = {}
  Keys = {}
  Refs = {r1, r2}
  PlanLimit <- TwoSealsPerPlan
  MaxMonth = 1
  None = None
INVARIANTS
  LedgerIsChain
