SPECIFICATION EndsSpec
CONSTANTS
  Probes = {m1, m2}
  MaxChanges = 3
  k1 = k1
  k2 = k2
  k3 = k3
  Keys = {k1, k2, k3}
  LimiterOf <- Limiters
  Window = 2
  MaxCalls = 2
  MaxTime = 6
  Calls = {c1, c2, c3}
  KeyOf <- ToolKey
  LastMoment = 1
  q1 = q1
  q2 = q2
  q3 = q3
  Submissions = {q1, q2, q3}
  Submitted <- Requests
  Nobody = Nobody
  Clients = {w1}
  NoClient = NoClient
  Plans <- AllPlans
  Prompts = {p1, p2}
  Streamed = {p2}
  Freshness = 1
  MaxTick = 1
  MaxFlips = 1
  MaxChunks = 1
CHECK_DEADLOCK FALSE
INVARIANTS
  RoomKept
PROPERTIES
  ModeKept
  LimitsKept
  SubmissionsEnd
  CoordinationKept
  RoutesKept
