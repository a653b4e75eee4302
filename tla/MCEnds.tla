------------------------------- MODULE MCEnds -------------------------------
(***************************************************************************)
(* The services that owe someone an end, for TLC: each behaviour runs one  *)
(* of them and leaves the others as they start.                            *)
(***************************************************************************)
EXTENDS RuntimeMode, CallLimits, AgentRoom, Coordination, InferenceRouter, TLC

CONSTANTS k1, k2, k3, q1, q2, q3

VARIABLE service

Limiters == k1 :> "ip" @@ k2 :> "session" @@ k3 :> "tool"
ToolKey == [c \in Calls |-> k3]

Requests == {<<q1, "normal", TRUE>>, <<q2, "critical", TRUE>>, <<q3, "high", TRUE>>, <<q3, "normal", FALSE>>}

PlansOf(steps) == {[i \in 1 .. 3 |-> [step |-> steps[i], dependencies |-> d[i]]] : d \in [1 .. 3 -> SUBSET (1 .. 3)]}
AllPlans == PlansOf(<<1, 2, 3>>) \cup PlansOf(<<1, 1, 2>>)

(* The service of a behaviour, with the key of its one caller.             *)
Services == {<<s>> : s \in {"mode", "guard", "room", "coordination", "router"}} \cup {<<"window", k>> : k \in Keys}

endsVars == <<service, modeVars, windowVars, guardVars, agentRoomVars, coordinationVars, routerVars>>

Runs(name) == service[1] = name

EndsInit ==
  /\ service \in Services
  /\ IF Runs("mode") THEN ModeInit ELSE ModeOff
  /\ WindowInit /\ GuardInit /\ AgentRoomInit
  /\ IF Runs("coordination") THEN CoordinationInit ELSE CoordinationOff
  /\ IF Runs("router") THEN RouterInit ELSE RouterOff

EndsNext ==
  /\ UNCHANGED service
  /\ IF Runs("mode") THEN ModeNext ELSE UNCHANGED modeVars
  /\ CASE Runs("guard")  -> GuardNext
       [] Runs("window") -> (Passes \/ Cleanup \/ Check(service[2])) /\ UNCHANGED guardVars
       [] OTHER          -> UNCHANGED <<windowVars, guardVars>>
  /\ IF Runs("room") THEN AgentRoomNext ELSE UNCHANGED agentRoomVars
  /\ IF Runs("coordination") THEN CoordinationNext ELSE UNCHANGED coordinationVars
  /\ IF Runs("router") THEN RouterNext ELSE UNCHANGED routerVars

EndsSpec ==
  /\ EndsInit /\ [][EndsNext]_endsVars
  /\ ModeFairness /\ GuardFairness /\ AgentRoomFairness /\ CoordinationFairness /\ RouterFairness

-----------------------------------------------------------------------------
(* The limits a caller meets: fixed windows let at most twice their limit  *)
(* pass and refuse only when full (rate-limit.ts:45); a guarded tool runs  *)
(* to one logged answer although its handler races a timer (guard.ts:203). *)
LimitsKept == [](Runs("window") => WindowsHold) /\ GuardKept
=============================================================================
