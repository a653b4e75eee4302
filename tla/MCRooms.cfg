SPECIFICATION PlaneFairSpec
CONSTANTS
  a = a
  b = b
  r1 = r1
  r2 = r2
  Clients = {a, b}
  Casts <- RoomCasts
  Probes = {m1, m2}
  MaxChanges = 1
  None = None
CHECK_DEADLOCK FALSE
INVARIANTS
  RowsOnRecord
  SummariesExplained
  DecisionsKept
  ViewsHonest
PROPERTIES
  RequestsAnswered
