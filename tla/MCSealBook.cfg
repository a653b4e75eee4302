SPECIFICATION Spec
CONSTANTS
  Workspaces = {w1, w2}
  Creators = {c1, c2}
  Revokers = {v1}
  Verifiers = {}
  Keys = {k1}
  Refs = {r1, r2, r3}
  PlanLimit <- TwoSealsPerPlan
  MaxMonth = 1
  None = None
SYMMETRY RefSymmetry
INVARIANTS
  LocksReleased
  RetryIssuesNothing
  LedgerLinear
PROPERTIES
  KeepsBook
