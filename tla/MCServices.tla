----------------------------- MODULE MCServices -----------------------------
(***************************************************************************)
(* The services that share no state, for TLC: each behaviour runs one of   *)
(* them and leaves the others as they start.                               *)
(***************************************************************************)
EXTENDS TaskScheduler, EventBus, AgentMemories, CeoServices, LocalSeals, ConsoLab, NodeBridge, Calendars,
        BootSeed, StationEngines, OperatorDesk, AgentTasks, AgentRecords, StationLanes, CertificateReads,
        AgentStreams, TLC

CONSTANTS j1, t1, t2, t3, g1, g2, s1, s2, l1, l2, l3, i1, i2, b1, b2

VARIABLE service

Offers == {<<t1, "normal", {g1, g2}>>, <<t2, "normal", {g1}>>, <<t2, "high", {}>>, <<t3, "normal", {g1}>>,
           <<t3, "critical", {g1}>>}

Filters == s1 :> {"x", "y"} @@ s2 :> {"x"}

Step(l, r) == [layer |-> l, required |-> r]
Flows == {<<Step("policy", TRUE), Step("evidence", TRUE)>>,
          <<Step("market", TRUE), Step("policy", FALSE), Step("evidence", TRUE)>>}

TheRooms == <<"operation", "commercial">>

SealSpaces == l1 :> "a" @@ l2 :> "a" @@ l3 :> "b"

Due == i1 :> 0 @@ i2 :> 1

Alike == "c1" :> 2 @@ "c2" :> 1

Release == b1 :> "r" @@ b2 :> "r"
SeededRooms == <<"camp">>
SeededLicences == <<"protocol", "access">>

SomeDefinitions == "scan" :> <<"domain", "domain">> @@ "news" :> <<"stories", "model">>

Prompts == "k1" :> {"x"} @@ "k2" :> {"x", "y"}
Given(agent, kind, words, expires, shared) ==
  [Writing(agent, kind, words, "plain", shared, 5) EXCEPT !.expires = expires]
SomeWritings ==
  {Given("u1", "fact", {"x"}, Never, FALSE), Given("system", "fact", {"y"}, Never, FALSE),
   Given("u2", "injection", {"x", "y"}, 1, TRUE)}

Flyer(pilot, address) == [pilot |-> pilot, address |-> address, version |-> "v1", optOut |-> FALSE]
SomeFlyers == {Flyer("p1", "A"), Flyer("p1", "a"), Flyer("p2", "a"), Flyer("p2", "b")}
Lowered == "A" :> "a" @@ "a" :> "a" @@ "b" :> "b"

SomeRequests == "d1" :> "invoke" @@ "d2" :> "write" @@ "d3" :> "read"

Asking(caller, bearer, path, params) ==
  [caller |-> caller, bearer |-> bearer, path |-> path, params |-> params, call |-> 0]
SomeAsks ==
  {Asking("room", "v1", "dispatch", "fine"), Asking("room", "none", "dispatch", "fine"),
   Asking("stranger", "v1", "dispatch", "fine"), Asking("room", "v1", "dispatch", "bad body"),
   Asking("room", "v1", "dispatch", "bad")}
SomeEdits == [token |-> {"v2"}, registry |-> {"v2", Absent}]

Lane(ops, ids) == [c \in LaneCalls |-> [op |-> ops[c], id |-> ids[c], complete |-> ids[c] # "none"]]
SomeScenes ==
  {Lane(<<"upsert", "upsert", "upsert", "upsert">>, <<"e1", "e2", "e1", "e3">>),
   Lane(<<"upsert", "upsert", "get", "upsert">>, <<"e1", "e2", "e1", "none">>),
   Lane(<<"clone", "clone", "clone", "clone">>, <<"v1", "v2", "none", "v3">>),
   Lane(<<"speak", "speak", "speak", "stop">>, <<"x", "x", "x", "x">>),
   Lane(<<"start", "restart", "status", "stop">>, <<"x", "x", "x", "x">>),
   Lane(<<"start", "restart", "restart", "status">>, <<"x", "x", "x", "x">>)}

ReadCategories == "k1" :> "legal" @@ "k2" :> "legal" @@ "k3" :> "work"
SomeListQueries == {<<"sealed", 0>>, <<"legal", 1>>}

SomeEventTimes ==
  i1 :> {time \in (0 .. 12) \X (0 .. 12) \X (0 .. 1) :
           time[2] \in time[1] - 1 .. time[1] + 4 /\ (time[3] = 0 \/ time[1] % 4 = 1)}
    @@ i2 :> {<<5, 6, 0>>}

Services ==
  {"sched", "bus", "memory", "conductor", "runner", "local", "mesh", "bridge", "sync", "calendar", "seed",
   "station", "desk", "phase2", "servers", "tasks", "memos", "flyers", "log", "gateway", "lanes", "authority",
   "reads", "streams"}

allVars == <<schedVars, busVars, memoryVars, conductorVars, runnerVars, localVars, meshVars, bridgeVars, calendarVars,
             calendar, seedVars, stationVars, deskVars, phaseVars, serversVars, taskVars, memoVars, flyerVars,
             requestVars, gatewayVars, laneVars, authorityVars, readsVars,
             streamVars>>
serviceVars == <<service, allVars>>

Runs(name) == service = name

ServicesInit ==
  /\ service \in Services
  /\ SchedInit /\ BusInit /\ MemoryInit /\ ConductorInit /\ RunnerInit /\ LocalInit /\ MeshInit /\ BridgeInit
  /\ CalendarInit /\ AgentCalendarInit /\ StationInit /\ AgentTasksInit /\ MemosInit /\ FlyersInit /\ RequestsInit
  /\ AuthorityInit /\ ReadsInit
  /\ SeedInit /\ (Runs("seed") \/ \A r \in DOMAIN backbone : backbone[r].log["reasons"] = <<>>)
  /\ DeskInit /\ table.jobs[j1] = "succeeded"
  /\ Runs("desk") \/ (table.bill = "paid" /\ InStates(table.jobs, {"failed"}) = 0)
  /\ PhaseInit
  /\ Runs("phase2") \/ (~sliceOn /\ backend.spine = 0 /\ (\A r \in PhaseReceipts : backend.stage[r] = 0)
                         /\ \A w \in Workers : backend.workers[w] = "healthy")
  /\ ServersInit /\ (Runs("servers") \/ lines = 0)
  /\ StreamsInit /\ (Runs("streams") \/ StreamsOff)
  /\ LanesInit /\ (Runs("lanes") \/ \A c \in LaneCalls : wanted[c].op = "clone")
  /\ GatewayInit
  /\ Runs("gateway") \/ (gatewayAt = "up" /\ adapter.commands = "unread" /\ edits["token"] = 0)

ServicesNext ==
  /\ UNCHANGED service
  /\ IF Runs("sched") THEN SchedNext ELSE UNCHANGED schedVars
  /\ IF Runs("bus") THEN BusNext ELSE UNCHANGED busVars
  /\ IF Runs("memory") THEN MemoryNext ELSE UNCHANGED memoryVars
  /\ IF Runs("conductor") THEN ConductorNext ELSE UNCHANGED conductorVars
  /\ IF Runs("runner") THEN RunnerNext ELSE UNCHANGED runnerVars
  /\ IF Runs("local") THEN LocalNext ELSE UNCHANGED localVars
  /\ IF Runs("mesh") THEN MeshNext ELSE UNCHANGED meshVars
  /\ IF Runs("bridge") THEN BridgeNext ELSE UNCHANGED bridgeVars
  /\ IF Runs("sync") THEN CalendarNext ELSE UNCHANGED calendarVars
  /\ IF Runs("calendar") THEN AgentCalendarNext ELSE UNCHANGED calendar
  /\ IF Runs("seed") THEN SeedNext ELSE UNCHANGED seedVars
  /\ IF Runs("station") THEN StationNext ELSE UNCHANGED stationVars
  /\ IF Runs("desk") THEN DeskNext ELSE UNCHANGED deskVars
  /\ IF Runs("phase2") THEN PhaseNext ELSE UNCHANGED phaseVars
  /\ IF Runs("servers") THEN ServersNext ELSE UNCHANGED serversVars
  /\ IF Runs("tasks") THEN AgentTasksNext ELSE UNCHANGED taskVars
  /\ IF Runs("memos") THEN MemosNext ELSE UNCHANGED memoVars
  /\ IF Runs("flyers") THEN FlyersNext ELSE UNCHANGED flyerVars
  /\ IF Runs("log") THEN RequestsNext ELSE UNCHANGED requestVars
  /\ IF Runs("gateway") THEN GatewayNext ELSE UNCHANGED gatewayVars
  /\ IF Runs("lanes") THEN LanesNext ELSE UNCHANGED laneVars
  /\ IF Runs("authority") THEN AuthorityNext ELSE UNCHANGED authorityVars
  /\ IF Runs("reads") THEN ReadsNext ELSE UNCHANGED readsVars
  /\ IF Runs("streams") THEN StreamsNext ELSE UNCHANGED streamVars

ServicesSpec == ServicesInit /\ [][ServicesNext]_serviceVars

-----------------------------------------------------------------------------
(* The functions of seedBootData.  They share no table, so boots that      *)
(* overlap need to be explored only while they are in the same function;   *)
(* and two writers race at one subject of a behaviour at most.             *)
Function(at) ==
  CASE at \in {"registry", "summary", "readLog", "writeLog", "actions"} -> 1
    [] at \in {"readDeployment", "insertDeployment", "probe"} -> 2
    [] at \in {"readText", "insertText"} -> 3
    [] at \in {"deleteLicences", "insertLicence"} -> 4
    [] at \in {"readHead"} \cup DOMAIN Follows -> 5
    [] OTHER -> 6

(* The adapter's connections are alike: they are opened in order.          *)
AtMostTwo ==
  /\ Cardinality({c \in Connections : conn[c].at \notin {"new", "closed"}}) <= 2
  /\ \A c, d \in Connections \ DirectConnections : c < d /\ conn[d].at # "new" => conn[c].at # "new"

(* Files and limiter share nothing: no behaviour has an edit and a second. *)
EditOrSecond == gatewayTime > 0 => \E f \in GatewayFiles : edits[f] = MaxEdits

BootsTogether ==
  /\ Cardinality(raced) <= 1
  /\ \A b, c \in Boots : {boot[b].at, boot[c].at} \cap Ended = {} => Function(boot[b].at) <= Function(boot[c].at) + 1

(* The engines tell the truth about what runs, the runner about its rooms, *)
(* the servers keep and find what they were given, the agent gateway runs  *)
(* what was asked, once and on record, the lane agents keep their lists    *)
(* and the authority its keys (ENGINES/base.ts:18,                         *)
(* ENGINES/ceo/index.ts:181,2314, bin/agentgateway.py:245,                 *)
(* bin/mcp-time-calendar-agent.py:68, consolab/authority.ts:83).           *)
CeoKept ==
  CASE Runs("runner") -> RunnerSound
    [] Runs("gateway") -> GatewaySound
    [] Runs("lanes") -> LanesSound
    [] Runs("authority") -> TokensHold
    [] Runs("servers") -> ServersKept
    [] Runs("reads") -> ReadsHonest
    [] Runs("conductor") -> EnginesTruthful
    [] OTHER -> TRUE

(* Local seals continue each other, and those that were answered survive   *)
(* crashes and torn lines (seal-api.ts:96,205).                            *)
LocalChainKept == Runs("local") => LocalSealsSound

(* What a boot leaves is whole, and nothing of the operators' is undone by *)
(* other boots, failing statements and deaths of processes (seed.ts:759).  *)
SeedSound == Runs("seed") => SeedingSound

(* Gates and reports of the engines follow from what they looked at while  *)
(* the station changed (ENGINES/ceo/index.ts:999).                         *)
StationTruthful == Runs("station") => StationSound

(* Papers, incidents, lists and exports of the operators are true of what  *)
(* they were made from (commercial.ts:206, operations.ts:414).             *)
DeskKept == Runs("desk") => DeskSound

(* Gate and lookups report the phase-2 backend as it was, and never well   *)
(* because a fetch failed (policy.ts:111, evidence.ts:107).                *)
PhaseHonest == Runs("phase2") => PhaseSound

(* Nodes are chosen, and reported healthy, for the reasons the registry    *)
(* and the heartbeat manager hold (bridge.resolver.ts:30, heartbeat.ts:146). *)
NodesKept == (Runs("bridge") => NodesSound) /\ (Runs("mesh") => HealthIsExplained)

(* Loads and queue follow the tasks, equals in the order of their arrival  *)
(* (scheduler.ts:123,171).                                                 *)
SchedulerKept == [](Runs("sched") => SchedulerSound) /\ EqualsKeepOrder

(* What an agent remembers and what it is told of it, its files and those  *)
(* of its tasks (memory/store.ts:57,149, agents/task-executor.ts:352).     *)
FilesKept ==
  /\ [](Runs("memory") => StoreSound) /\ [](Runs("memos") => MemoriesSound)
  /\ [](Runs("tasks") => FilesAgree /\ SourcesAccounted)
  /\ RestartKeepsLastSave /\ AnsweredOnRecord

(* Events reach their subscribers; flyers leave once, within the limits    *)
(* and to nobody who stopped them; requests leave their records            *)
(* (events/bus.ts:31, flyer-distribution.ts:110, evidence-logger.ts:39).   *)
DeliveriesKept ==
  /\ [](Runs("bus") => DeliverySound) /\ [](Runs("flyers") => OutboxAccounted)
  /\ [](Runs("log") => RequestsRecorded) /\ [](Runs("streams") => StreamsTold)
  /\ OnceRunsForNoLaterEvent /\ StopIsFinal

(* Both calendars: synced events stay one for each entity and closed ones  *)
(* closed; offered slots are free and the lists of events agree            *)
(* (api/calendar.ts:218, ai/calendar/engine.ts:93,161,300).                *)
CalendarsKept ==
  [](Runs("sync") => SyncSound) /\ [](Runs("calendar") => CalendarSound) /\ ClosedStaysClosed
=============================================================================
