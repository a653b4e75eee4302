---------------------------- MODULE StationLanes ----------------------------
(***************************************************************************)
(* The Python servers of the station: the agent gateway with its adapter,  *)
(* then the lane agents.                                                   *)
(***************************************************************************)
EXTENDS Integers, FiniteSets, Sequences

(***************************************************************************)
(* The station's agent gateway (bin/agentgateway.py), a server with a      *)
(* thread for each connection that runs the commands of a registry for     *)
(* callers that know its token, and the adapter that calls it for an       *)
(* editor (bin/vxstation-mcp-server.py).  Registry and token are files     *)
(* that are edited while the gateway runs: each is read again when its     *)
(* modification time is another than the one noted, by whichever thread    *)
(* asks, and none of the reading is locked.                                *)
(*                                                                         *)
(* There is one command; what a file holds is the version of the command,  *)
(* or the token.  Every change gives the file another modification time.   *)
(***************************************************************************)

CONSTANTS
  Connections,      \* connections (bound)
  DirectConnections,\* those that others than the adapter open
  DirectAsks,       \* what comes by other ways than the adapter: [caller, bearer, path, params]
  AllowedCallers, AdapterCaller,
  MaxRequests, WindowSeconds,
  MaxGatewayTime,   \* clock (bound)
  Edits,            \* what edits may put into each file
  MaxEdits,         \* edits (bound)
  MaxToolCalls      \* calls of the editor (bound)

ASSUME GatewayAssumption ==
  /\ MaxRequests \in Nat /\ WindowSeconds \in Nat /\ MaxGatewayTime \in Nat
  /\ MaxEdits \in Nat /\ MaxToolCalls \in Nat /\ AdapterCaller \in AllowedCallers
  /\ \A ask \in DirectAsks : ask.call = 0 /\ ask.path \in {"health", "commands", "dispatch"}
  /\ "nothing" \notin Edits["token"] \cup Edits["registry"]

VARIABLES
  watched,      \* token and registry: [holds, mtime]
  cache,      \* what the gateway has of them, and the time it noted
  conn,       \* the connections
  buckets,    \* the times of each caller's requests
  sampled,    \* when a connection asked for its time, or may have: before the lock it takes to get through
  auditLog,   \* the events written, each with its connection
  gatewayAt,  \* "reading", "noting" while it starts, then "up"
  gatewayTime,
  adapter,    \* the adapter's call in hand and the commands it remembers
  edits,      \* how often each file will be edited
  crossed     \* history: the files of which two threads noted different times at once

gatewayVars == <<watched, cache, conn, buckets, sampled, auditLog, gatewayAt, gatewayTime, adapter, edits, crossed>>

GatewayFiles == {"token", "registry"}
Absent == "missing"    \* there is no such file
Emptied == "torn"      \* an edit emptied the file and did not fill it yet

Unopened == [at |-> "new", ask |-> [path |-> "none", call |-> 0], file |-> "none", stat |-> -1, held |-> "none",
             since |-> [f \in GatewayFiles |-> {}], ran |-> "nothing", answer |-> "none", lists |-> "none",
             admitted |-> -1]

(* One of the files is edited; the gateway has loaded both, or starts.     *)
GatewayInit ==
  /\ watched = [f \in GatewayFiles |-> [holds |-> "v1", mtime |-> 0]]
  /\ \/ gatewayAt = "up" /\ cache = watched
     \/ gatewayAt = "reading" /\ cache = [f \in GatewayFiles |-> [holds |-> "none", mtime |-> -1]]
  /\ conn = [c \in Connections |-> Unopened]
  /\ buckets = [k \in AllowedCallers |-> <<>>]
  /\ sampled = [c \in Connections |-> -1]
  /\ auditLog = {}
  /\ gatewayTime = 0
  /\ \E known \in {"unread", "v1"} :
       adapter = [commands |-> known, at |-> "idle", op |-> "none", call |-> 0, on |-> "none", heard |-> "none"]
  /\ \E f \in GatewayFiles : edits = [g \in GatewayFiles |-> IF g = f THEN MaxEdits ELSE 0]
  /\ crossed = {}

(* What a closed connection looked at is forgotten, and who else than the  *)
(* adapter asked what.                                                     *)
Forgot(k) ==
  LET closed == [k EXCEPT !.file = "none", !.stat = -1, !.held = "none", !.since = [f \in GatewayFiles |-> {}]]
  IN IF k.ask.call # 0 THEN closed
     ELSE [closed EXCEPT !.answer = "told", !.lists = "none",
                         !.ask = [path |-> "closed", caller |-> k.ask.caller, call |-> 0]]

Turns(c, next) == conn' = [conn EXCEPT ![c] = IF next.at = "closed" THEN Forgot(next) ELSE next]
HangsUp(c, status) == Turns(c, [conn[c] EXCEPT !.at = "closed", !.answer = status])
Audits(c, event) == auditLog' = auditLog \cup {<<c, event>>}

-----------------------------------------------------------------------------
(* An edit empties the file and then fills it, or removes it.              *)
Edit(f) ==
  /\ \/ /\ watched[f].holds # Emptied /\ edits[f] > 0 /\ edits' = [edits EXCEPT ![f] = @ - 1]
        /\ \E v \in {Emptied} \cup (Edits[f] \cap {Absent}) :
             watched' = [watched EXCEPT ![f] = [holds |-> v, mtime |-> @.mtime + 1]]
     \/ /\ watched[f].holds = Emptied
        /\ \E v \in Edits[f] \ {Absent} : watched' = [watched EXCEPT ![f] = [holds |-> v, mtime |-> @.mtime + 1]]
        /\ UNCHANGED edits
  /\ conn' = [c \in Connections |-> IF conn[c].at \in {"new", "closed"} THEN conn[c]
                                ELSE [conn[c] EXCEPT !.since[f] = @ \cup {watched'[f].holds}]]
  /\ crossed' = IF gatewayAt = "noting" /\ f = "registry" THEN crossed \cup {f} ELSE crossed
  /\ UNCHANGED <<cache, buckets, sampled, auditLog, gatewayAt, gatewayTime, adapter>>

(* Only the age of a request matters.                                      *)
SecondPasses ==
  /\ (\E k \in AllowedCallers : buckets[k] # <<>>) \/ \E c \in Connections : conn[c].at = "limit"
  /\ gatewayTime < MaxGatewayTime /\ gatewayTime' = gatewayTime + 1
  /\ UNCHANGED <<watched, cache, conn, buckets, sampled, auditLog, gatewayAt, adapter, edits, crossed>>

(* GatewayState reads the registry and then asks for its time; one that    *)
(* cannot be read ends the start.                                          *)
GatewayReads ==
  /\ gatewayAt = "reading" /\ watched["registry"].holds \notin {Absent, Emptied}
  /\ cache' = [cache EXCEPT !["registry"].holds = watched["registry"].holds]
  /\ gatewayAt' = "noting"
  /\ UNCHANGED <<watched, conn, buckets, sampled, auditLog, gatewayTime, adapter, edits, crossed>>

GatewayNotes ==
  /\ gatewayAt = "noting"
  /\ LET file == watched["registry"]
     IN cache' = [cache EXCEPT !["registry"].mtime = IF file.holds = Absent THEN -1 ELSE file.mtime]
  /\ gatewayAt' = "up"
  /\ UNCHANGED <<watched, conn, buckets, sampled, auditLog, gatewayTime, adapter, edits, crossed>>

-----------------------------------------------------------------------------
(* A request arrives: do_GET, do_POST and _authenticate up to the token.   *)
(* A caller from elsewhere is turned away as one not allowed.              *)
Arrives(c, ask) ==
  LET asks(file) == [conn[c] EXCEPT !.at = "stat", !.file = file, !.ask = ask]
      turned(status) == [conn[c] EXCEPT !.at = "closed", !.ask = ask, !.answer = status]
  IN /\ gatewayAt = "up" /\ conn[c].at = "new"
     /\ CASE ask.path = "health" -> Turns(c, asks("registry")) /\ UNCHANGED auditLog
          [] ask.path # "health" /\ ask.caller \notin AllowedCallers -> Turns(c, turned("403")) /\ Audits(c, "reject")
          [] ask.path # "health" /\ ask.caller \in AllowedCallers /\ ask.bearer = "none" ->
               Turns(c, turned("401")) /\ UNCHANGED auditLog
          [] OTHER -> Turns(c, asks("token")) /\ UNCHANGED auditLog

Connects(c) ==
  /\ c \in DirectConnections /\ \E ask \in DirectAsks : Arrives(c, ask)
  /\ UNCHANGED <<watched, cache, buckets, sampled, gatewayAt, gatewayTime, adapter, edits, crossed>>

(* Mutant: what was read once is not read again.                           *)
StatFileOnce(c) ==
  LET f == conn[c].file
      known == watched[f].holds = Absent \/ cache[f].mtime >= 0
  IN /\ conn[c].at = "stat"
     /\ Turns(c, [conn[c] EXCEPT !.at = IF known THEN "use" ELSE "read", !.stat = watched[f].mtime,
                                !.held = IF watched[f].holds = Absent THEN Absent ELSE "none",
                                !.since[f] = {watched[f].holds}])
     /\ UNCHANGED <<watched, cache, buckets, sampled, auditLog, gatewayAt, gatewayTime, adapter, edits, crossed>>

(* load_token, load_registry: the file's time is compared with the noted   *)
(* one; a missing registry is left as it is, a missing token is no token.  *)
StatFile(c) ==
  LET f == conn[c].file
      known == watched[f].holds = Absent \/ watched[f].mtime = cache[f].mtime
  IN /\ conn[c].at = "stat"
     /\ Turns(c, [conn[c] EXCEPT !.at = IF known THEN "use" ELSE "read", !.stat = watched[f].mtime,
                                !.held = IF watched[f].holds = Absent THEN Absent ELSE "none",
                                !.since[f] = {watched[f].holds}])
     /\ UNCHANGED <<watched, cache, buckets, sampled, auditLog, gatewayAt, gatewayTime, adapter, edits, crossed>>

(* A file that went away, or a registry that is no JSON, ends the thread   *)
(* without an answer.                                                      *)
ReadFile(c) ==
  LET f == conn[c].file
  IN /\ conn[c].at = "read"
     /\ IF watched[f].holds = Absent \/ (f = "registry" /\ watched[f].holds = Emptied)
        THEN HangsUp(c, "dropped")
        ELSE Turns(c, [conn[c] EXCEPT !.at = "assign", !.held = watched[f].holds])
     /\ UNCHANGED <<watched, cache, buckets, sampled, auditLog, gatewayAt, gatewayTime, adapter, edits, crossed>>

(* Mutant: the time is that of the file now.                               *)
AssignCacheNow(c) ==
  /\ conn[c].at = "assign"
  /\ cache' = [cache EXCEPT ![conn[c].file].holds = conn[c].held]
  /\ Turns(c, [conn[c] EXCEPT !.at = "note", !.stat = watched[conn[c].file].mtime])
  /\ UNCHANGED <<watched, buckets, sampled, auditLog, gatewayAt, gatewayTime, adapter, edits, crossed>>

AssignCache(c) ==
  /\ conn[c].at = "assign"
  /\ cache' = [cache EXCEPT ![conn[c].file].holds = conn[c].held]
  /\ Turns(c, [conn[c] EXCEPT !.at = "note"])
  /\ UNCHANGED <<watched, buckets, sampled, auditLog, gatewayAt, gatewayTime, adapter, edits, crossed>>

NoteTime(c) ==
  LET f == conn[c].file
  IN /\ conn[c].at = "note"
     /\ cache' = [cache EXCEPT ![f].mtime = conn[c].stat]
     /\ crossed' = IF \E d \in Connections \ {c} : /\ conn[d].file = f /\ conn[d].at \in {"read", "assign", "note"}
                                                 /\ conn[d].stat # conn[c].stat
                 THEN crossed \cup {f} ELSE crossed
     /\ Turns(c, [conn[c] EXCEPT !.at = "use", !.held = "none"])
     /\ UNCHANGED <<watched, buckets, sampled, auditLog, gatewayAt, gatewayTime, adapter, edits>>

-----------------------------------------------------------------------------
(* load_token is over: the rest of the look at the token.  The request's   *)
(* time is asked for next, before the lock of its bucket.                  *)
IsToken(c) == conn[c].held # Absent /\ cache["token"].holds # Emptied /\ conn[c].ask.bearer = cache["token"].holds

UseToken(c) ==
  /\ conn[c].at = "use" /\ conn[c].file = "token"
  /\ IF IsToken(c)
     THEN Turns(c, [conn[c] EXCEPT !.at = "limit"]) /\ sampled' = [sampled EXCEPT ![c] = gatewayTime] /\ UNCHANGED auditLog
     ELSE HangsUp(c, "401") /\ Audits(c, "reject") /\ UNCHANGED sampled
  /\ UNCHANGED <<watched, cache, buckets, gatewayAt, gatewayTime, adapter, edits, crossed>>

(* allow_request: what is out of the window leaves the bucket, the oldest  *)
(* first.                                                                  *)
Expired(now, t) == now - t > WindowSeconds

InWindow(k, now) ==
  LET bucket == buckets[k]
      gone   == CHOOSE n \in 0 .. Len(bucket) :
                  (\A m \in 1 .. n : Expired(now, bucket[m])) /\ (n = Len(bucket) \/ ~Expired(now, bucket[n + 1]))
  IN SubSeq(bucket, gone + 1, Len(bucket))

(* Mutant: one request too many.                                           *)
AdmitsOneMore(k, now) == Len(InWindow(k, now)) <= MaxRequests

Admits(k, now) == Len(InWindow(k, now)) < MaxRequests

(* Got through at this time: a connection that holds the lock.             *)
Admitted(c) == [conn[c] EXCEPT !.admitted = gatewayTime]

(* The lock is taken with a time of some moment since the token was found  *)
(* right, which may be older than one that took the lock before; then the  *)
(* rest of _authenticate, and do_POST and do_GET up to the registry.  The  *)
(* list of commands is what the gateway has at hand.                       *)
AllowRequest(c) ==
  LET ask == conn[c].ask IN
  /\ conn[c].at = "limit" /\ conn[c].file = "token"
  /\ \E now \in sampled[c] .. gatewayTime :
       IF Admits(ask.caller, now)
       THEN /\ buckets' = [buckets EXCEPT ![ask.caller] = Append(InWindow(ask.caller, now), now)]
            /\ sampled' = [sampled EXCEPT ![c] = now]
            /\ CASE ask.path = "commands" ->
                      Turns(c, [Admitted(c) EXCEPT !.at = "closed", !.answer = "200", !.lists = cache["registry"].holds])
                 [] ask.path = "dispatch" /\ ask.params # "bad body" ->
                      Turns(c, [Admitted(c) EXCEPT !.at = "stat", !.file = "registry"])
                 [] ask.path = "dispatch" /\ ask.params = "bad body" ->
                      Turns(c, [Admitted(c) EXCEPT !.at = "closed", !.answer = "400"])
       ELSE /\ buckets' = [buckets EXCEPT ![ask.caller] = InWindow(ask.caller, now)]
            /\ sampled' = [sampled EXCEPT ![c] = -1]
            /\ HangsUp(c, "429")
  /\ UNCHANGED <<watched, cache, auditLog, gatewayAt, gatewayTime, adapter, edits, crossed>>

(* get_command and _command_argv, or command_count for the health.         *)
UseRegistry(c) ==
  /\ conn[c].at = "use" /\ conn[c].file = "registry"
  /\ CASE conn[c].ask.path = "health" -> HangsUp(c, "200")
       [] conn[c].ask.path = "dispatch" /\ cache["registry"].holds = "empty" -> HangsUp(c, "404")
       [] conn[c].ask.path = "dispatch" /\ cache["registry"].holds # "empty" /\ conn[c].ask.params = "bad" ->
            HangsUp(c, "400")
       [] OTHER -> Turns(c, [conn[c] EXCEPT !.at = "running", !.ran = cache["registry"].holds])
  /\ UNCHANGED <<watched, cache, buckets, sampled, auditLog, gatewayAt, gatewayTime, adapter, edits, crossed>>

(* Mutant: a command that was killed is not audited.                       *)
CommandEndsQuietly(c) ==
  /\ conn[c].at = "running"
  /\ \/ Turns(c, [conn[c] EXCEPT !.at = "closed", !.answer = "200"]) /\ Audits(c, "dispatch")
     \/ Turns(c, [conn[c] EXCEPT !.at = "closed", !.answer = "504"]) /\ UNCHANGED auditLog
     \/ Turns(c, [conn[c] EXCEPT !.at = "closed", !.answer = "dropped", !.ran = "nothing"]) /\ UNCHANGED auditLog
  /\ UNCHANGED <<watched, cache, buckets, sampled, gatewayAt, gatewayTime, adapter, edits, crossed>>

(* The command returns, is killed at its time, or cannot be started: then  *)
(* the thread ends without a record or an answer.                          *)
CommandEnds(c) ==
  /\ conn[c].at = "running"
  /\ \/ Turns(c, [conn[c] EXCEPT !.at = "closed", !.answer = "200"]) /\ Audits(c, "dispatch")
     \/ Turns(c, [conn[c] EXCEPT !.at = "closed", !.answer = "504"]) /\ Audits(c, "timeout")
     \/ Turns(c, [conn[c] EXCEPT !.at = "closed", !.answer = "dropped", !.ran = "nothing"]) /\ UNCHANGED auditLog
  /\ UNCHANGED <<watched, cache, buckets, sampled, gatewayAt, gatewayTime, adapter, edits, crossed>>

-----------------------------------------------------------------------------
(* The adapter, one call at a time.  _read_token: a token file that is     *)
(* missing or empty is an error of the call.                               *)
Tokened == watched["token"].holds \notin {Absent, Emptied}

Hears(result, commands) ==
  adapter' = [adapter EXCEPT !.at = "idle", !.commands = commands, !.on = "none", !.op = "none", !.heard = result]

(* A request of the call, or its error; a gateway that is not up refuses   *)
(* the connection.                                                         *)
Sends(path, call, commands) ==
  \/ /\ Tokened
     /\ \E c \in Connections \ DirectConnections :
          /\ Arrives(c, [caller |-> AdapterCaller, bearer |-> watched["token"].holds, path |-> path, params |-> "fine",
                         call |-> call.number])
          /\ adapter' = [adapter EXCEPT !.at = path, !.op = call.op, !.call = call.number, !.commands = commands,
                                        !.on = c, !.heard = "none"]
  \/ /\ ~Tokened \/ gatewayAt # "up"
     /\ adapter' = [adapter EXCEPT !.at = "idle", !.op = "none", !.call = call.number, !.commands = commands,
                                   !.on = "none", !.heard = "error"]
     /\ UNCHANGED <<conn, auditLog>>

(* tools/call: list the commands, list them anew, dispatch the command.    *)
ToolCall(op) ==
  LET call == [op |-> op, number |-> adapter.call + 1] IN
  /\ adapter.at = "idle" /\ adapter.call < MaxToolCalls
  /\ CASE op = "refresh" \/ adapter.commands = "unread" -> Sends("commands", call, adapter.commands)
       [] op = "dispatch" /\ adapter.commands \notin {"unread", "empty"} ->
            Sends("dispatch", call, adapter.commands)
       [] OTHER ->
            /\ adapter' = [adapter EXCEPT !.call = call.number,
                                          !.heard = IF op = "dispatch" THEN "unknown" ELSE "listed"]
            /\ UNCHANGED <<conn, auditLog>>
  /\ UNCHANGED <<watched, cache, buckets, sampled, gatewayAt, gatewayTime, edits, crossed>>

(* Mutant: an error of the gateway makes it send the command again.        *)
HearsErrorRetrying ==
  \/ adapter.at = "dispatch" /\ Sends("dispatch", [op |-> adapter.op, number |-> adapter.call], adapter.commands)
  \/ adapter.at # "dispatch" /\ Hears("error", adapter.commands) /\ UNCHANGED <<conn, auditLog>>

HearsError == Hears("error", adapter.commands) /\ UNCHANGED <<conn, auditLog>>

(* The answer to the adapter's request; a list goes before a dispatch.     *)
AdapterHears ==
  LET c == adapter.on IN
  /\ adapter.at # "idle" /\ conn[c].at = "closed"
  /\ CASE conn[c].answer # "200" -> HearsError
       [] conn[c].answer = "200" /\ adapter.at = "dispatch" ->
            Hears("result", adapter.commands) /\ UNCHANGED <<conn, auditLog>>
       [] conn[c].answer = "200" /\ adapter.at = "commands" /\ adapter.op = "dispatch" /\ conn[c].lists # "empty" ->
            Sends("dispatch", [op |-> "dispatch", number |-> adapter.call], conn[c].lists)
       [] OTHER ->
            /\ Hears(IF adapter.op = "dispatch" THEN "unknown" ELSE "listed", conn[c].lists)
            /\ UNCHANGED <<conn, auditLog>>
  /\ UNCHANGED <<watched, cache, buckets, sampled, gatewayAt, gatewayTime, edits, crossed>>

(* The request takes longer than the adapter waits; the gateway goes on.   *)
AdapterGivesUp ==
  /\ adapter.at # "idle" /\ conn[adapter.on].at # "closed"
  /\ Hears("error", adapter.commands)
  /\ UNCHANGED <<watched, cache, conn, buckets, sampled, auditLog, gatewayAt, gatewayTime, edits, crossed>>

GatewayNext ==
  \/ \E f \in GatewayFiles : Edit(f)
  \/ SecondPasses \/ GatewayReads \/ GatewayNotes
  \/ \E c \in Connections :
       Connects(c) \/ StatFile(c) \/ ReadFile(c) \/ AssignCache(c) \/ NoteTime(c) \/ UseToken(c) \/ AllowRequest(c)
       \/ UseRegistry(c) \/ CommandEnds(c)
  \/ \E op \in {"list", "refresh", "dispatch"} : ToolCall(op)
  \/ AdapterHears \/ AdapterGivesUp

-----------------------------------------------------------------------------
(* Of the requests of a caller that asked for their time no earlier than   *)
(* a second and got through no later than a window after it, there are no  *)
(* more than the limit, whatever the threads do at once.  A request that   *)
(* asked before the window and got through in it comes on top: the times   *)
(* are asked for outside the lock (agentgateway.py:64,71).                 *)
WindowHeld ==
  \A k \in AllowedCallers, t \in 0 .. MaxGatewayTime :
    Cardinality({c \in Connections : /\ conn[c].ask.path # "none" /\ conn[c].admitted >= 0 /\ conn[c].ask.caller = k
                                     /\ sampled[c] >= t /\ conn[c].admitted <= t + WindowSeconds}) <= MaxRequests

(* A copy whose noted time is the file's is what the file holds, unless    *)
(* two threads noted different times at once (agentgateway.py:37,66).      *)
CacheFresh ==
  gatewayAt = "up" =>
    \A f \in GatewayFiles \ crossed :
      cache[f].mtime = watched[f].mtime /\ watched[f].holds # Absent => cache[f].holds = watched[f].holds

(* Who got through had a token, and what ran was a command, that the file  *)
(* held while the request was in hand; a registry that went away stays as  *)
(* it was known (agentgateway.py:151,245).                                 *)
RanForReason ==
  \A c \in Connections :
    conn[c].at # "closed" =>
    /\ conn[c].admitted >= 0 /\ "token" \notin crossed => conn[c].ask.bearer \in conn[c].since["token"]
    /\ conn[c].ran # "nothing" /\ "registry" \notin crossed =>
         {conn[c].ran, Absent} \cap conn[c].since["registry"] # {}

(* A command that ended was written down before anybody is told, killed    *)
(* ones too (docs/agentgateway-control-plane.md:26).                       *)
EndsAudited ==
  \A c \in Connections :
    conn[c].ran # "nothing" /\ conn[c].at = "closed" => \E e \in {"dispatch", "timeout"} : <<c, e>> \in auditLog

(* A call of the editor runs the command at most once, an answered         *)
(* dispatch exactly once (vxstation-mcp-server.py:142).                    *)
RunsOnce ==
  LET runs(n) == {c \in Connections : conn[c].ran # "nothing" /\ conn[c].ask.call = n}
  IN /\ \A n \in 1 .. adapter.call : Cardinality(runs(n)) <= 1
     /\ adapter.heard = "result" => runs(adapter.call) # {}

GatewaySound == WindowHeld /\ CacheFresh /\ RanForReason /\ EndsAudited /\ RunsOnce

-----------------------------------------------------------------------------
(***************************************************************************)
(* The station's lane agents, servers with a thread for each request: the  *)
(* time and calendar agent (bin/mcp-time-calendar-agent.py), the voice     *)
(* agent (bin/mcp-voice-agent.py) and the Linux admin                      *)
(* (bin/mcp-linux-admin.py).  Calendar and voices are each one file of     *)
(* JSON that a request reads whole, changes and writes whole, without a    *)
(* lock: opening it for writing empties it, and what is written goes over  *)
(* what another wrote since, so that the end of a longer text stays behind *)
(* a shorter one.  A file that is no JSON is read as an empty one.         *)
(*                                                                         *)
(* A text is as long as its list; an item is [id, title, made], made being *)
(* the request that made it; the admin's containers are external.          *)
(***************************************************************************)

CONSTANTS
  LaneCalls,     \* requests
  Scenes,        \* what the requests may be: each [LaneCalls -> [op, id, complete]]
  MaxLaneCrashes \* crashes of an agent (bound)

ASSUME LaneAssumption == MaxLaneCrashes \in Nat

VARIABLES
  sheets,        \* calendar and voices: [legible, items]
  spoken,        \* the files of speech, each with the request that wrote it
  container,     \* what the admin's service does
  voiced,        \* the voices the provider has made
  wanted, call,  \* the requests
  laneMs,        \* the millisecond
  firsts,        \* history: the request that was first accepted for an entry
  laneCrashes,
  clashed        \* history: sheets that two requests changed at once, or that a crash tore

laneVars == <<sheets, spoken, container, voiced, wanted, call, laneMs, firsts, laneCrashes, clashed>>

Sheets == {"calendar", "voices"}

LanesInit ==
  /\ sheets = [s \in Sheets |-> [legible |-> TRUE, items |-> <<>>]]
  /\ spoken = [n \in {} |-> "none"]
  /\ container = "absent" /\ voiced = {} /\ firsts = [i \in {} |-> 0]
  /\ call = [c \in LaneCalls |-> [at |-> "new", copy |-> <<>>, under |-> 0, name |-> 0, saw |-> {}, answer |-> "none"]]
  /\ wanted \in Scenes
  /\ laneMs = 0 /\ laneCrashes = 0 /\ clashed = {}

Sheet(c) == IF wanted[c].op \in {"upsert", "get"} THEN "calendar" ELSE "voices"
Leads(c, next) == call' = [call EXCEPT ![c] = next]
Tells(c, answer) == Leads(c, [call[c] EXCEPT !.at = "told", !.answer = answer, !.copy = <<>>, !.under = 0])

(* read_state, read_registry.                                              *)
Reading(s) == IF sheets[s].legible THEN sheets[s].items ELSE <<>>

-----------------------------------------------------------------------------
(* validate_request, validate_clone_policy: what is not complete, or not   *)
(* allowed, is refused before anything happens.                            *)
Refuses(c) ==
  /\ call[c].at = "new" /\ ~wanted[c].complete
  /\ Tells(c, "refused")
  /\ UNCHANGED <<sheets, spoken, container, voiced, wanted, laneMs, firsts, laneCrashes, clashed>>

(* The provider makes the voice, or fails; only then the list is read.     *)
ClonesVoice(c) ==
  /\ call[c].at = "new" /\ wanted[c].complete /\ wanted[c].op = "clone"
  /\ \/ voiced' = voiced \cup {wanted[c].id} /\ Leads(c, [call[c] EXCEPT !.at = "made"])
     \/ UNCHANGED voiced /\ Tells(c, "failed")
  /\ UNCHANGED <<sheets, spoken, container, wanted, laneMs, firsts, laneCrashes, clashed>>

(* upsert_entry: the entry of that id is replaced and keeps when it was    *)
(* made; add_registry_voice: the voice of that id goes and the new one is  *)
(* last.                                                                   *)
Item(c) == [id |-> wanted[c].id, title |-> c, made |-> c]

(* Mutant: a replaced entry is made anew.                                  *)
UpsertedAnew(c, items) ==
  IF \E n \in DOMAIN items : items[n].id = wanted[c].id
  THEN [n \in DOMAIN items |-> IF items[n].id = wanted[c].id THEN Item(c) ELSE items[n]]
  ELSE Append(items, Item(c))

(* Mutant: an entry that is there already is not looked for.               *)
UpsertedAgain(c, items) == Append(items, Item(c))

Upserted(c, items) ==
  IF \E n \in DOMAIN items : items[n].id = wanted[c].id
  THEN [n \in DOMAIN items |-> IF items[n].id = wanted[c].id THEN [Item(c) EXCEPT !.made = items[n].made] ELSE items[n]]
  ELSE Append(items, Item(c))

(* Mutant: the list begins anew with each voice.                           *)
RegisteredAlone(c, items) == <<Item(c)>>

(* Those of a list that stay, in their order.                              *)
Those(items, stay) ==
  [r \in 1 .. Cardinality(stay) |-> items[CHOOSE n \in stay : Cardinality({m \in stay : m <= n}) = r]]

Registered(c, items) == Append(Those(items, {n \in DOMAIN items : items[n].id # wanted[c].id}), Item(c))

InSheet(s) == {d \in LaneCalls : call[d].at \in {"changed", "opened"} /\ Sheet(d) = s}

ReadsSheet(c) ==
  LET s == Sheet(c)
      items == Reading(s)
  IN /\ wanted[c].complete
     /\ \/ wanted[c].op = "upsert" /\ call[c].at = "new"
        \/ wanted[c].op = "clone" /\ call[c].at = "made"
     /\ Leads(c, [call[c] EXCEPT !.at = "changed", !.copy = IF s = "calendar" THEN Upserted(c, items)
                                                            ELSE Registered(c, items)])
     /\ clashed' = IF InSheet(s) = {} THEN clashed ELSE clashed \cup {s}
     /\ UNCHANGED <<sheets, spoken, container, voiced, wanted, laneMs, firsts, laneCrashes>>

(* write_state, write_registry: the file is opened, which empties it.      *)
OpensSheet(c) ==
  /\ call[c].at = "changed"
  /\ sheets' = [sheets EXCEPT ![Sheet(c)] = [legible |-> FALSE, items |-> <<>>]]
  /\ Leads(c, [call[c] EXCEPT !.at = "opened"])
  /\ UNCHANGED <<spoken, container, voiced, wanted, laneMs, firsts, laneCrashes, clashed>>

Overlaid(d, c) == /\ d # c /\ call[d].at = "opened" /\ Sheet(d) = Sheet(c)

FillsSheet(c) ==
  LET s == Sheet(c)
      long == Len(call[c].copy)
  IN /\ call[c].at = "opened"
     /\ sheets' = [sheets EXCEPT ![s] = [legible |-> call[c].under <= long, items |-> call[c].copy]]
     /\ call' = [d \in LaneCalls |->
                   IF d = c THEN [call[c] EXCEPT !.at = "told", !.answer = "accepted", !.copy = <<>>, !.under = 0]
                   ELSE IF Overlaid(d, c) /\ call[d].under < long THEN [call[d] EXCEPT !.under = long] ELSE call[d]]
     /\ firsts' = IF s = "voices" THEN firsts
                  ELSE [i \in DOMAIN firsts \cup {wanted[c].id} |-> IF i \in DOMAIN firsts THEN firsts[i] ELSE c]
     /\ UNCHANGED <<spoken, container, voiced, wanted, laneMs, laneCrashes, clashed>>

(* calendar.state.get; the time is answered likewise.                      *)
GetsCalendar(c) ==
  /\ call[c].at = "new" /\ wanted[c].complete /\ wanted[c].op = "get"
  /\ Tells(c, "accepted")
  /\ UNCHANGED <<sheets, spoken, container, voiced, wanted, laneMs, firsts, laneCrashes, clashed>>

-----------------------------------------------------------------------------
(* Mutant: the file of speech has one name.                                *)
SpeechFileOne(c) == 0

(* tts_<millisecond>, when the request names no file.                      *)
SpeechFile(c) == laneMs

(* elevenlabs_tts, coqui_tts: the name is chosen, the provider speaks, and *)
(* what it said is written.                                                *)
Speaks(c) ==
  /\ wanted[c].op = "speak" /\ wanted[c].complete
  /\ \/ /\ call[c].at = "new" /\ Leads(c, [call[c] EXCEPT !.at = "speaking", !.name = SpeechFile(c), !.saw = {laneMs}])
        /\ UNCHANGED spoken
     \/ /\ call[c].at = "speaking"
        /\ \/ spoken' = [n \in DOMAIN spoken \cup {call[c].name} |-> IF n = call[c].name THEN c ELSE spoken[n]]
              /\ Tells(c, "accepted")
           \/ UNCHANGED spoken /\ Tells(c, "failed")
  /\ UNCHANGED <<sheets, container, voiced, wanted, laneMs, firsts, laneCrashes, clashed>>

MillisecondPasses ==
  /\ \E c \in LaneCalls : call[c].at = "speaking" /\ call[c].name = laneMs
  /\ laneMs' = laneMs + 1
  /\ UNCHANGED <<sheets, spoken, container, voiced, wanted, call, firsts, laneCrashes, clashed>>

-----------------------------------------------------------------------------
(* Mutant: a restart only stops.                                           *)
CommandStops(op, now) ==
  CASE op = "start" -> "running"
    [] op \in {"stop", "restart"} -> IF now = "absent" THEN now ELSE "exited"
    [] op \in {"status", "logs"} -> now

(* handle_intent of the admin: a command of docker-compose that takes a    *)
(* while.  What the container does while the request is in hand is noted.  *)
Command(op, now) ==
  CASE op = "start" -> "running"
    [] op = "stop" -> IF now = "absent" THEN now ELSE "exited"
    [] op = "restart" -> IF now = "absent" THEN now ELSE "running"
    [] op \in {"status", "logs"} -> now

AdminOps == {"start", "stop", "restart", "status", "logs"}

AdminBegins(c) ==
  /\ wanted[c].op \in AdminOps /\ wanted[c].complete /\ call[c].at = "new"
  /\ Leads(c, [call[c] EXCEPT !.at = "asked", !.saw = {container}])
  /\ UNCHANGED <<sheets, spoken, container, voiced, wanted, laneMs, firsts, laneCrashes, clashed>>

(* A command may fail; a docker inspect that fails, whatever it fails of,  *)
(* is an accepted status and says the container is not found.              *)
AdminRuns(c) ==
  /\ call[c].at = "asked"
  /\ \/ /\ container' = Command(wanted[c].op, container)
        /\ call' = [d \in LaneCalls |->
                      IF d = c THEN [call[c] EXCEPT !.at = "ran", !.saw = @ \cup {container'},
                                             !.answer = IF wanted[c].op = "status" THEN container ELSE "accepted"]
                      ELSE IF call[d].at \in {"asked", "ran"} THEN [call[d] EXCEPT !.saw = @ \cup {container'}]
                      ELSE call[d]]
     \/ UNCHANGED container /\ wanted[c].op # "status" /\ Tells(c, "failed")
     \/ UNCHANGED container /\ wanted[c].op = "status"
        /\ Leads(c, [call[c] EXCEPT !.at = "ran", !.saw = @ \cup {"not inspected"}, !.answer = "absent"])
  /\ UNCHANGED <<sheets, spoken, voiced, wanted, laneMs, firsts, laneCrashes, clashed>>

AdminAnswers(c) ==
  /\ call[c].at = "ran" /\ Leads(c, [call[c] EXCEPT !.at = "told"])
  /\ UNCHANGED <<sheets, spoken, container, voiced, wanted, laneMs, firsts, laneCrashes, clashed>>

-----------------------------------------------------------------------------
(* An agent stops: its requests end without an answer, and a file it had   *)
(* open stays as it is.                                                    *)
LaneCrash(s) ==
  /\ laneCrashes < MaxLaneCrashes /\ laneCrashes' = laneCrashes + 1
  /\ \E c \in InSheet(s) : call[c].at = "opened"
  /\ call' = [c \in LaneCalls |-> IF Sheet(c) = s /\ call[c].at \in {"made", "changed", "opened"}
                                  THEN [call[c] EXCEPT !.at = "told", !.answer = "lost", !.copy = <<>>, !.under = 0]
                                  ELSE call[c]]
  /\ clashed' = clashed \cup {s}
  /\ UNCHANGED <<sheets, spoken, container, voiced, wanted, laneMs, firsts>>

LanesNext ==
  \/ \E c \in LaneCalls :
       Refuses(c) \/ ClonesVoice(c) \/ ReadsSheet(c) \/ OpensSheet(c) \/ FillsSheet(c) \/ GetsCalendar(c)
       \/ Speaks(c) \/ AdminBegins(c) \/ AdminRuns(c) \/ AdminAnswers(c)
  \/ MillisecondPasses
  \/ \E s \in Sheets : LaneCrash(s)

-----------------------------------------------------------------------------
Accepted(op) == {c \in LaneCalls : wanted[c].op = op /\ call[c].at = "told" /\ call[c].answer = "accepted"}
Listed(s) == {sheets[s].items[n] : n \in DOMAIN sheets[s].items}

(* However the requests overlap, a list has one item of an id, and only    *)
(* voices the provider made; while they do not, every accepted item is     *)
(* there, and an entry was made by the first request accepted for it       *)
(* (mcp-time-calendar-agent.py:68, mcp-voice-agent.py:74).                 *)
ListsKept ==
  /\ \A s \in Sheets : \A i, j \in Listed(s) : i.id = j.id => i = j
  /\ \A s \in Sheets : Len(sheets[s].items) = Cardinality(Listed(s))
  /\ {i.id : i \in Listed("voices")} \subseteq voiced
  /\ "calendar" \notin clashed => \A i \in Listed("calendar") : i.made = firsts[i.id]
  /\ \A s \in Sheets \ clashed :
       (\A c \in InSheet(s) : call[c].at # "opened") =>
         /\ sheets[s].legible
         /\ \A c \in Accepted("upsert") \cup Accepted("clone") :
              Sheet(c) = s => \E i \in Listed(s) : i.id = wanted[c].id

(* Speech that was asked for in a millisecond of its own is in its file    *)
(* (mcp-voice-agent.py:283).                                               *)
SpeechIsOwn ==
  \A c \in Accepted("speak") :
    (\A d \in LaneCalls \ {c} : wanted[d].op # "speak" \/ call[d].saw \cap call[c].saw = {}) => spoken[call[c].name] = c

(* A started or restarted service ran, and a reported state was the        *)
(* container's, at some time while the request was in hand; only a         *)
(* container reported as not found may have been there all the time, when  *)
(* it could not be inspected (mcp-linux-admin.py:55,81-89).                *)
AdminTruthful ==
  \A c \in LaneCalls :
    call[c].at = "told" =>
      /\ c \in Accepted("start") => "running" \in call[c].saw
      /\ c \in Accepted("restart") /\ call[c].saw # {"absent"} => "running" \in call[c].saw
      /\ wanted[c].op = "status" /\ call[c].answer # "refused" =>
           \/ call[c].answer \in call[c].saw
           \/ call[c].answer = "absent" /\ "not inspected" \in call[c].saw

LanesSound == ListsKept /\ SpeechIsOwn /\ AdminTruthful
=============================================================================
