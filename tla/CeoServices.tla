---------------------------- MODULE CeoServices -----------------------------
(***************************************************************************)
(* The conductor over the engine layers, then the room runner.             *)
(***************************************************************************)
EXTENDS Naturals, Sequences, FiniteSets

(***************************************************************************)
(* The conductor (ENGINES/ceo/conductor.ts) over the engine layers, which  *)
(* all requests share, and what an engine records of itself while it       *)
(* executes (ENGINES/base.ts).  A request runs a workflow, layer after     *)
(* layer, or fires one layer (server/index.ts:224-262).                    *)
(*                                                                         *)
(* All ten layers exist and no workflow has a condition; a layer that      *)
(* answers "denied" has succeeded.                                         *)
(***************************************************************************)

CONSTANTS
  Orders,       \* requests
  Layers,
  Workflows,    \* WORKFLOWS: each a sequence of [layer, required]
  NoFlow        \* a request that fires one layer

ASSUME ConductorAssumption ==
  /\ NoFlow \notin Workflows
  /\ \A w \in Workflows : w \in Seq([layer : Layers, required : BOOLEAN]) /\ w # <<>>

VARIABLES
  engine,       \* for each layer: its status
  order         \* for each request: "new", "fired" or its workflow, the layer executing, the results so far

conductorVars == <<engine, order>>

NoLayer == "none"
Fresh == [flow |-> NoFlow, layer |-> NoLayer, results |-> <<>>, at |-> "new"]

ConductorInit ==
  /\ engine = [l \in Layers |-> "idle"]
  /\ order = [o \in Orders |-> Fresh]

ConductorTypeOK ==
  /\ engine \in [Layers -> {"idle", "running", "error"}]
  /\ order \in [Orders -> [flow : Workflows \cup {NoFlow}, layer : Layers \cup {NoLayer},
                           results : Seq({"done", "failed"}), at : {"new", "executing", "answered"}]]

-----------------------------------------------------------------------------
StatusAfter(ok) == IF ok THEN "idle" ELSE "error"

(* Mutant: a failure is answered, and not recorded.                        *)
EngineEndsSilently(l, ok) == engine' = IF ok THEN [engine EXCEPT ![l] = "idle"] ELSE engine

(* execute: the status says how the last execution to end has ended.       *)
EngineEnds(l, ok) == engine' = [engine EXCEPT ![l] = StatusAfter(ok)]

FireLayer(o, l) ==
  /\ order[o].at = "new"
  /\ order' = [order EXCEPT ![o].at = "executing", ![o].layer = l]
  /\ engine' = [engine EXCEPT ![l] = "running"]

ExecuteWorkflow(o, w) ==
  /\ order[o].at = "new"
  /\ order' = [order EXCEPT ![o].at = "executing", ![o].flow = w, ![o].layer = w[1].layer]
  /\ engine' = [engine EXCEPT ![w[1].layer] = "running"]

LayerAnswers(o, ok) ==
  /\ order[o].at = "executing" /\ order[o].flow = NoFlow
  /\ EngineEnds(order[o].layer, ok)
  /\ order' = [order EXCEPT ![o].at = "answered", ![o].layer = NoLayer,
                            ![o].results = <<IF ok THEN "done" ELSE "failed">>]

(* Mutant: any failure ends the workflow.                                  *)
HaltsAtAnyFailure(w, results) ==
  results[Len(results)] = "failed" \/ Len(results) = Len(w)

(* A workflow ends with its last step, or with a required one that failed. *)
Halts(w, results) ==
  \/ results[Len(results)] = "failed" /\ w[Len(results)].required
  \/ Len(results) = Len(w)

(* One step ends; the answer, or the next step, follows before anything    *)
(* else that concerns the engine.                                          *)
StepEnds(o, ok) ==
  LET w       == order[o].flow
      results == Append(order[o].results, IF ok THEN "done" ELSE "failed")
      next    == w[Len(results) + 1].layer
  IN /\ order[o].at = "executing" /\ w # NoFlow
     /\ IF Halts(w, results)
        THEN /\ EngineEnds(order[o].layer, ok)
             /\ order' = [order EXCEPT ![o].results = results, ![o].layer = NoLayer, ![o].at = "answered"]
        ELSE /\ engine' = [engine EXCEPT ![order[o].layer] = StatusAfter(ok), ![next] = "running"]
             /\ order' = [order EXCEPT ![o].results = results, ![o].layer = next]

ConductorNext ==
  \E o \in Orders :
    \/ \E l \in Layers : FireLayer(o, l)
    \/ \E w \in Workflows : ExecuteWorkflow(o, w)
    \/ \E ok \in BOOLEAN : LayerAnswers(o, ok) \/ StepEnds(o, ok)

ConductorSpec == ConductorInit /\ [][ConductorNext]_conductorVars

-----------------------------------------------------------------------------
Success(o) == \A i \in 1 .. Len(order[o].results) : order[o].results[i] = "done"

(* A workflow that has ended went through its steps to the first required  *)
(* one that failed and no further; one that reports success has executed   *)
(* them all (conductor.ts:152-192).                                        *)
RunsToTheFirstFailure ==
  \A o \in Orders : order[o].flow # NoFlow =>
    LET w == order[o].flow
        done == Len(order[o].results)
        broken == {i \in 1 .. done : order[o].results[i] = "failed" /\ w[i].required}
    IN /\ \A i \in broken : i = done /\ order[o].at = "answered"
       /\ order[o].at = "answered" /\ (Success(o) \/ broken = {}) => done = Len(w)

(* Whoever executes it, a layer that says it is running is: the last to    *)
(* end overwrites the status, so that an idle layer may still be at work   *)
(* for another request, but never the other way round (base.ts:16-29).     *)
RunningIsExecuting ==
  \A l \in Layers : engine[l] = "running" => \E o \in Orders : order[o].layer = l

(* Answers and statuses tell what was executed.                            *)
EnginesTruthful == ConductorTypeOK /\ RunsToTheFirstFailure /\ RunningIsExecuting

-----------------------------------------------------------------------------
(***************************************************************************)
(* The room runner (ENGINES/ceo/index.ts:2568-2774) and the server node it *)
(* extends (:134-219).  Requests start and stop the node, also while an    *)
(* earlier start or stop is under way; while it runs, a timer goes through *)
(* all rooms and requests run one room, all at the same time.              *)
(*                                                                         *)
(* Each start makes a server.  A server that listens holds the port: the   *)
(* listen of another one fails.                                            *)
(***************************************************************************)

CONSTANTS
  MaxStarts,    \* servers made (bound)
  RoomNames,    \* the order in which the loop runs the rooms
  Visits,       \* requests that run one room
  MaxRounds     \* rounds of the loop (bound)

ASSUME RoomRunnerAssumption ==
  /\ MaxStarts \in Nat /\ MaxRounds \in Nat
  /\ RoomNames \in Seq({RoomNames[i] : i \in 1 .. Len(RoomNames)}) /\ RoomNames # <<>>

VARIABLES
  servers,      \* the servers made, in order: "opening", "listening", "closing", "closed"
  server,       \* _server: an index of servers, 0 when unset
  running, interval, loopRunning,
  overlapped,   \* history: a start was called while another was opening
  rounds,       \* the rounds under way, each the position it has come to; a sequence of positions
  begun,        \* how many rounds were begun
  visit,        \* for each request: its room and how far it has come
  rooms         \* for each room: its status

nodeVars == <<servers, server, running, interval, overlapped>>
loopVars == <<loopRunning, rounds, begun, visit, rooms>>
runnerVars == <<nodeVars, loopVars>>

Rooms == {RoomNames[i] : i \in 1 .. Len(RoomNames)}
NoVisit == [room |-> RoomNames[1], at |-> "none"]

RunnerInit ==
  /\ servers = <<>> /\ server = 0
  /\ running = FALSE /\ interval = FALSE /\ loopRunning = FALSE /\ overlapped = FALSE
  /\ rounds = <<>> /\ begun = 0
  /\ visit = [v \in Visits |-> NoVisit]
  /\ rooms = [r \in Rooms |-> "none"]

-----------------------------------------------------------------------------
Opening == {i \in 1 .. Len(servers) : servers[i] = "opening"}
Listening == {i \in 1 .. Len(servers) : servers[i] = "listening"}

(* Mutant: a node that runs is started again.                              *)
StartAnyway ==
  /\ Len(servers) < MaxStarts
  /\ servers' = Append(servers, "opening") /\ server' = Len(servers) + 1
  /\ overlapped' = (overlapped \/ Opening # {})
  /\ UNCHANGED <<running, interval, loopVars>>

(* start: nothing keeps a second one out until the first one listens.      *)
Start ==
  /\ ~running /\ Len(servers) < MaxStarts
  /\ servers' = Append(servers, "opening") /\ server' = Len(servers) + 1
  /\ overlapped' = (overlapped \/ Opening # {})
  /\ UNCHANGED <<running, interval, loopVars>>

(* The port is free: the node runs and its loop is set up.                 *)
Listens(i) ==
  /\ i \in Opening /\ Listening = {}
  /\ servers' = [servers EXCEPT ![i] = "listening"]
  /\ running' = TRUE /\ interval' = TRUE
  /\ UNCHANGED <<server, overlapped, loopVars>>

(* The port is taken: the start fails and leaves _server as it is.         *)
ListenFails(i) ==
  /\ i \in Opening /\ Listening # {}
  /\ servers' = [servers EXCEPT ![i] = "closed"]
  /\ UNCHANGED <<server, running, interval, overlapped, loopVars>>

(* stop: the loop ends at once, and the server when its connections have.  *)
Stop ==
  /\ interval' = FALSE
  /\ servers' = IF server # 0 /\ running /\ servers[server] = "listening" THEN [servers EXCEPT ![server] = "closing"]
                ELSE servers
  /\ IF server # 0 /\ running /\ servers[server] \in {"opening", "closed"} THEN running' = FALSE /\ server' = 0
     ELSE UNCHANGED <<running, server>>
  /\ <<interval', servers', running', server'>> # <<interval, servers, running, server>>
  /\ UNCHANGED <<overlapped, loopVars>>

Closes(i) ==
  /\ i \in 1 .. Len(servers) /\ servers[i] = "closing"
  /\ servers' = [servers EXCEPT ![i] = "closed"]
  /\ running' = FALSE /\ server' = 0
  /\ UNCHANGED <<interval, overlapped, loopVars>>

-----------------------------------------------------------------------------
Positions == 1 .. Len(RoomNames)

(* Mutant: a round that takes long is overtaken by the next.               *)
TickAnyway ==
  /\ interval /\ running /\ begun < MaxRounds
  /\ begun' = begun + 1 /\ loopRunning' = TRUE
  /\ rounds' = Append(rounds, [room |-> 1, at |-> "looking"])
  /\ UNCHANGED <<nodeVars, visit, rooms>>

(* The timer fires.                                                        *)
Tick ==
  /\ interval /\ running /\ ~loopRunning /\ begun < MaxRounds
  /\ begun' = begun + 1 /\ loopRunning' = TRUE
  /\ rounds' = Append(rounds, [room |-> 1, at |-> "looking"])
  /\ UNCHANGED <<nodeVars, visit, rooms>>

(* runRoom, in the loop: the room runs, then is idle and the next one is   *)
(* looked at.                                                              *)
RoundRuns(n) ==
  LET room == RoomNames[rounds[n].room]
  IN /\ n \in 1 .. Len(rounds) /\ rounds[n].at = "looking"
     /\ rooms' = [rooms EXCEPT ![room] = "running"]
     /\ rounds' = [rounds EXCEPT ![n].at = "building"]
     /\ UNCHANGED <<nodeVars, loopRunning, begun, visit>>

RoundMovesOn(n) ==
  LET room == RoomNames[rounds[n].room]
  IN /\ n \in 1 .. Len(rounds) /\ rounds[n].at = "building"
     /\ rooms' = [rooms EXCEPT ![room] = "idle"]
     /\ IF rounds[n].room < Len(RoomNames)
        THEN /\ rounds' = [rounds EXCEPT ![n] = [room |-> rounds[n].room + 1, at |-> "looking"]]
             /\ UNCHANGED loopRunning
        ELSE /\ rounds' = SubSeq(rounds, 1, n - 1) \o SubSeq(rounds, n + 1, Len(rounds))
             /\ loopRunning' = FALSE
     /\ UNCHANGED <<nodeVars, begun, visit>>

(* POST /v1/rooms/:room/run, on a connection of a server that is up.       *)
Visit(v, room) ==
  /\ visit[v].at = "none" /\ Listening # {}
  /\ visit' = [visit EXCEPT ![v] = [room |-> room, at |-> "looking"]]
  /\ UNCHANGED <<nodeVars, loopRunning, rounds, begun, rooms>>

VisitRuns(v) ==
  /\ visit[v].at = "looking"
  /\ visit' = [visit EXCEPT ![v].at = "building"]
  /\ rooms' = [rooms EXCEPT ![visit[v].room] = "running"]
  /\ UNCHANGED <<nodeVars, loopRunning, rounds, begun>>

(* Mutant: a room that is missing is answered before it is set to idle.    *)
VisitEndsEarly(v) ==
  /\ visit[v].at = "building"
  /\ visit' = [visit EXCEPT ![v].at = "answered"]
  /\ rooms' \in {rooms, [rooms EXCEPT ![visit[v].room] = "idle"]}
  /\ UNCHANGED <<nodeVars, loopRunning, rounds, begun>>

VisitEnds(v) ==
  /\ visit[v].at = "building"
  /\ visit' = [visit EXCEPT ![v].at = "answered"]
  /\ rooms' = [rooms EXCEPT ![visit[v].room] = "idle"]
  /\ UNCHANGED <<nodeVars, loopRunning, rounds, begun>>

RunnerNext ==
  \/ Start \/ Stop
  \/ \E i \in 1 .. MaxStarts : Listens(i) \/ ListenFails(i) \/ Closes(i)
  \/ Tick \/ \E n \in 1 .. MaxRounds : RoundRuns(n) \/ RoundMovesOn(n)
  \/ \E v \in Visits : (\E r \in Rooms : Visit(v, r)) \/ VisitRuns(v) \/ VisitEnds(v)

RunnerSpec == RunnerInit /\ [][RunnerNext]_runnerVars

-----------------------------------------------------------------------------
(* One round of the loop at a time, also when the node is stopped in the   *)
(* middle of one and started again: a round outlives its node              *)
(* (index.ts:2638-2656).                                                   *)
OneRoundAtATime == Len(rounds) <= 1

(* Unless two starts overlapped, the node is running exactly while its     *)
(* server is up or about to close, and no server it has forgotten holds    *)
(* the port.  After overlapping ones it may keep a server it cannot stop   *)
(* and never start again (index.ts:181-202).                               *)
NoServerIsForgotten ==
  ~overlapped =>
    /\ running <=> server # 0 /\ servers[server] \in {"listening", "closing"}
    /\ Listening \subseteq {server}

(* A room that is shown as running is being run by somebody: a run that    *)
(* ends late sets it idle for those still in it, never the other way round *)
(* (index.ts:2670-2684).                                                   *)
RunningRoomIsRun ==
  \A r \in Rooms : rooms[r] = "running" =>
    \/ \E n \in 1 .. Len(rounds) : RoomNames[rounds[n].room] = r /\ rounds[n].at = "building"
    \/ \E v \in Visits : visit[v] = [room |-> r, at |-> "building"]

(* The loop, the port and the rooms' statuses, with requests and rounds    *)
(* interleaved as they may.                                                *)
RunnerSound == OneRoundAtATime /\ NoServerIsForgotten /\ RunningRoomIsRun
=============================================================================
