SPECIFICATION RoomSpec
CONSTANTS
  Workspaces = {w1}
  Creators = {c1, c2}
  Revokers = {v1}
  Verifiers = {}
  Keys = {}
  Refs = {r1, r2, r3}
  PlanLimit <- TwoSealsPerPlan
  MaxMonth = 1
  None = None
PROPERTIES
  RoomKeepsBody
  EveryRequestAnswered
