SPECIFICATION Spec
CONSTANTS
  Workspaces = {w1}
  Creators = {c1, c2, c3}
  Revokers = {v1}
  Verifiers = {q1}
  Keys = {}
  Refs = {r1, r2, r3}
  PlanLimit <- TwoSealsPerPlan
  MaxMonth = 2
  None = None
SYMMETRY RequestSymmetry
CONSTRAINT Scenarios
INVARIANTS
  TypeOK
  ChainIntact
  EvidenceMatchesSeals
  RevocationHonoured
  ReadersAgree
  UsageConserved
PROPERTIES
  SealedIsPermanent
