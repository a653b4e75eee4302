SPECIFICATION ServicesSpec
CONSTANTS
  t1 = t1
  t2 = t2
  t3 = t3
  g1 = g1
  g2 = g2
  Tasks = {t1, t2, t3}
  Agents = {g1, g2}
  NoAgent = NoAgent
  MaxLoad = 2
  MaxRefinish = 1
  Offered <- Offers
  s1 = s1
  s2 = s2
  Subs = {s1, s2}
  Types = {"x", "y"}
  TypeFilter <- Filters
  Once = {s2}
  MaxEvents = 3
  Entries = {e1, e2}
  MaxCrashes = 1
  Orders = {o1, o2}
  Layers = {"policy", "evidence", "market"}
  Workflows <- Flows
  NoFlow = NoFlow
  MaxStarts = 3
  RoomNames <- TheRooms
  Visits = {v1}
  MaxRounds = 2
  l1 = l1
  l2 = l2
  l3 = l3
  Sealings = {l1, l2, l3}
  SpaceOf <- SealSpaces
  MaxFaults = 2
  FreeSeals = 1
  DefaultList = 1
  MostList = 2
  Peers = {n1, n2}
  MaxMissed = 2
  MaxSends = 2
  MaxArrivals = 2
  MaxRestarts = 1
  Nodes = {n1, n2}
  CapabilitySets = {{"a"}, {"a", "b"}}
  Challenges = {h1}
  Threshold = 0
  Ttl = 0
  MaxClock = 1
  i1 = i1
  i2 = i2
  Entities = {i1, i2}
  Invoices = {i1}
  DueAt <- Due
  Changing = {i1}
  Manual = Manual
  Topics = {Manual}
  Syncs = {y1, y2}
  MaxManual = 1
  MaxDay = 1
  Slots = {i1, i2}
  EventTimes <- SomeEventTimes
  DayHours = 4
  WorkStart = 1
  WorkEnd = 4
  Days = 3
  Weekend = {1}
  MaxDuration = 2
  b1 = b1
  b2 = b2
  Boots = {b1, b2}
  ReleaseOf <- Release
  SeedRooms <- SeededRooms
  Licences <- SeededLicences
  Probed = 2
  MaxHalts = 1
  MaxWrites = 1
  EngineRequests = {q1}
  ActionHashes = {x1}
  StationServices = {p1, p2, p3, p4}
  MaxMoves = 1
  DeskRequests = {1, 2}
  j1 = j1
  JobIds = {j1, j2}
  MaxDeskMoves = 1
  MaxDeskFaults = 1
  Workers = {w1, w2}
  PhaseReceipts = {r1, r2}
  GateRooms = {"camp"}
  Lookups = {1}
  MaxBackendMoves = 2
  MaxFetchFaults = 1
  ServerRequests = {1, 2, 3}
  Contents = {"c1", "c2"}
  Likeness <- Alike
  MaxTicks = 1
  MaxLines = 2
  MaxMischief = 1
  TaskRuns = {1, 2, 3}
  AgentIds = {"u1"}
  Definitions <- SomeDefinitions
  MaxKept = 2
  MaxTrouble = 2
  Writers = {"u1", "u2"}
  Calls = {"k1", "k2"}
  PromptOf <- Prompts
  Writings <- SomeWritings
  LandOps = {"m1"}
  Patrols = {"u1"}
  ContextLimit = 2
  MaxChunks = 2
  MaxFit = 2
  MaxMade = 2
  MaxChanges = 1
  MaxNow = 1
  Flyers <- SomeFlyers
  LowerCase <- Lowered
  HourlyLimit = 1
  DailyLimit = 2
  Hour = 2
  Day = 4
  MaxTicksSent = 5
  MaxBreaks = 1
  RoomRequests <- SomeRequests
  MaxLogFaults = 2
  Connections = {1, 2, 3}
  DirectConnections = {1}
  DirectAsks <- SomeAsks
  AllowedCallers = {"room"}
  AdapterCaller = "room"
  MaxRequests = 1
  WindowSeconds = 0
  MaxGatewayTime = 1
  Edits <- SomeEdits
  MaxEdits = 1
  MaxToolCalls = 1
  LaneCalls = {1, 2, 3, 4}
  Scenes <- SomeScenes
  MaxLaneCrashes = 1
  Authorities = {"p1", "p2"}
  SignRequests = {"r1", "r2"}
  Lifetime = 1
  MaxHands = 2
  MaxLogErrors = 1
  Certificates = {"k1", "k2", "k3"}
  Categories <- ReadCategories
  PerMillisecond = 2
  MaxMoment = 2
  DefaultPage = 2
  MostPage = 2
  ListQueries <- SomeListQueries
  MaxReadings = 1
  MaxStreamLines = 3
CHECK_DEADLOCK FALSE
CONSTRAINTS BootsTogether AtMostTwo EditOrSecond
INVARIANTS
  CeoKept
  LocalChainKept
  NodesKept
  SeedSound
  StationTruthful
  DeskKept
  PhaseHonest
PROPERTIES
  SchedulerKept
  DeliveriesKept
  FilesKept
  CalendarsKept
