----------------------------- MODULE AgentRoom ------------------------------
(***************************************************************************)
(* The AI room's task gateway, and the websocket clients that submit to    *)
(* it.                                                                     *)
(***************************************************************************)
EXTENDS Naturals, Sequences, FiniteSets

(***************************************************************************)
(* The AI room's gateway (ai/gateway.ts) and the part of the connector     *)
(* (ai/mcp/connector.ts) that it uses.  A task is put into a queue by      *)
(* priority; one loop takes the tasks one after the other, asks the brain  *)
(* for an agent, tells the agent's handler over the connector, and runs    *)
(* the inference.  The handler is the gateway's own: it submits what it is *)
(* told as a new task of normal priority, so that each task leaves an echo *)
(* behind it, whose execution leaves another.                              *)
(*                                                                         *)
(* Echoes of one submission follow each other and are alike; they have no  *)
(* name here.                                                              *)
(***************************************************************************)

CONSTANTS
  Submissions,  \* the tasks submitted from outside
  Submitted,    \* how each may be submitted: <<submission, priority, whether its agent exists>>
  Nobody        \* no task

VARIABLES
  task,         \* for each submission: its status, priority, and whether its agent exists
  waiting,      \* taskQueue
  current,      \* what the loop executes, Nobody when it is not running
  stage         \* how far it has come: "analyze", "notified" (the agent was told), "evidence"

gatewayVars == <<task, waiting, current, stage>>

Levels == {"critical", "high", "normal", "low"}

Final == {"completed", "empty", "failed"}
TaskState == {"none", "queued", "routing", "executing"} \cup Final
Items == [of : Submissions, echo : BOOLEAN]

ASSUME AgentGatewayAssumption ==
  Nobody \notin Items /\ Submitted \subseteq Submissions \X Levels \X BOOLEAN

Original(s) == [of |-> s, echo |-> FALSE]
Echo(s) == [of |-> s, echo |-> TRUE]

GatewayInit ==
  /\ task = [s \in Submissions |-> [status |-> "none", priority |-> "normal", known |-> TRUE]]
  /\ waiting = <<>>
  /\ current = Nobody
  /\ stage = "analyze"

GatewayTypeOK ==
  /\ task \in [Submissions -> [status : TaskState, priority : Levels, known : BOOLEAN]]
  /\ waiting \in Seq(Items)
  /\ current \in Items \cup {Nobody}
  /\ stage \in {"analyze", "notified", "evidence"}

-----------------------------------------------------------------------------
PriorityOf(item) == IF item.echo THEN "normal" ELSE task[item.of].priority

Spliced(queue, n, item) == SubSeq(queue, 1, n) \o <<item>> \o SubSeq(queue, n + 1, Len(queue))

Criticals(queue) == Cardinality({i \in 1 .. Len(queue) : PriorityOf(queue[i]) = "critical"})

(* Mutant: a high task goes to the very front.                             *)
EnqueuedHighFirst(queue, item, priority) ==
  IF priority \in {"critical", "high"} THEN Spliced(queue, 0, item) ELSE Append(queue, item)

(* enqueue: the newest critical task first, the newest high task behind    *)
(* the critical ones, the others at the end.                               *)
QueuedByPriority(queue, item, priority) ==
  CASE priority = "critical" -> Spliced(queue, 0, item)
    [] priority = "high"     -> Spliced(queue, Criticals(queue), item)
    [] OTHER                 -> Append(queue, item)

SetStatus(tasks, item, status) ==
  IF item.echo THEN tasks ELSE [tasks EXCEPT ![item.of].status = status]

(* The loop takes the first of the queue, or ends.                         *)
TakeNext(tasks, queue) ==
  /\ stage' = "analyze"
  /\ IF queue = <<>> THEN current' = Nobody /\ waiting' = queue /\ task' = tasks
     ELSE /\ current' = Head(queue)
          /\ waiting' = Tail(queue)
          /\ task' = SetStatus(tasks, Head(queue), "routing")

(* submitTask: the loop starts at once when it is not running.             *)
SubmitTask(s, priority, known) ==
  LET tasks == [task EXCEPT ![s] = [status |-> "queued", priority |-> priority, known |-> known]]
  IN /\ task[s].status = "none"
     /\ IF current = Nobody THEN TakeNext(tasks, <<Original(s)>>)
        ELSE /\ task' = tasks
             /\ waiting' = QueuedByPriority(waiting, Original(s), priority)
             /\ UNCHANGED <<current, stage>>

(* The brain has decided; an agent that does not exist ends the task.      *)
AgentMissing ==
  /\ current # Nobody /\ stage = "analyze" /\ ~task[current.of].known
  /\ TakeNext(SetStatus(task, current, "failed"), waiting)

(* Mutant: the handler passes the task's priority on.                      *)
TellAgentUrgently ==
  /\ current # Nobody /\ stage = "analyze" /\ task[current.of].known
  /\ waiting' = QueuedByPriority(waiting, Echo(current.of), task[current.of].priority)
  /\ stage' = "notified"
  /\ task' = SetStatus(task, current, "executing")
  /\ UNCHANGED current

(* Mutant: an echo is not told to anybody.                                 *)
TellAgentOnce ==
  /\ current # Nobody /\ stage = "analyze" /\ task[current.of].known
  /\ waiting' = IF current.echo THEN waiting ELSE QueuedByPriority(waiting, Echo(current.of), "normal")
  /\ stage' = "notified"
  /\ task' = SetStatus(task, current, "executing")
  /\ UNCHANGED current

(* sendTask: the agent's handler submits the prompt again.                 *)
TellAgent ==
  /\ current # Nobody /\ stage = "analyze" /\ task[current.of].known
  /\ waiting' = QueuedByPriority(waiting, Echo(current.of), "normal")
  /\ stage' = "notified"
  /\ task' = SetStatus(task, current, "executing")
  /\ UNCHANGED current

(* The inference, the structured task or the coordinated subtasks end: the *)
(* task is complete, perhaps with an empty result, or has failed.  Only    *)
(* the plain inference submits evidence before the loop goes on.           *)
InferenceEnds(status) ==
  /\ current # Nobody /\ stage = "notified"
  /\ \/ TakeNext(SetStatus(task, current, status), waiting)
     \/ /\ status # "failed" /\ stage' = "evidence"
        /\ task' = SetStatus(task, current, status)
        /\ UNCHANGED <<waiting, current>>

EvidenceSubmitted ==
  /\ current # Nobody /\ stage = "evidence"
  /\ TakeNext(task, waiting)

LoopStep == AgentMissing \/ TellAgent \/ EvidenceSubmitted \/ \E status \in Final : InferenceEnds(status)

GatewayNext ==
  \/ \E offer \in Submitted : SubmitTask(offer[1], offer[2], offer[3])
  \/ LoopStep

(* A provider answers or fails, and the loop goes on.                      *)
GatewayFairness == WF_gatewayVars(LoopStep)

GatewaySpec == GatewayInit /\ [][GatewayNext]_gatewayVars /\ GatewayFairness

-----------------------------------------------------------------------------
Band == [critical |-> 0, high |-> 1, normal |-> 2, low |-> 2]

(* Critical tasks stand before high ones and those before all others, also *)
(* while echoes are put among them: the index at which a high task is      *)
(* spliced in counts on it (gateway.ts:157-168).                           *)
QueueInBands ==
  \A i, k \in 1 .. Len(waiting) : i < k => Band[PriorityOf(waiting[i])] <= Band[PriorityOf(waiting[k])]

(* However many echoes are in the queue, every submitted task is executed  *)
(* and ends: echoes go to the end, and a task is overtaken by submissions  *)
(* only.                                                                   *)
EveryTaskEnds == \A s \in Submissions : task[s].status # "none" ~> task[s].status \in Final

(* Every submission whose agent exists goes round for ever: at any moment  *)
(* it, or one echo of it, is waiting for an agent, in the queue or in the  *)
(* loop, so that the queue never drains and the loop never ends            *)
(* (gateway.ts:205-206, 101-108).                                          *)
OneEchoGoesRound ==
  \A s \in Submissions :
    LET queued  == {i \in 1 .. Len(waiting) : waiting[i].of = s}
        inLoop  == IF current # Nobody /\ current.of = s /\ stage = "analyze" THEN 1 ELSE 0
    IN Cardinality(queued) + inLoop =
         IF task[s].status = "none" \/ (~task[s].known /\ task[s].status = "failed") THEN 0 ELSE 1

-----------------------------------------------------------------------------
(***************************************************************************)
(* The AI room's websocket clients and the gateway they submit to          *)
(* (ws/room.ts, server.ts:42-61, routes/api.ts:138-158).  A submission of  *)
(* a client is told as routed and busy, submitted, and polled until it has *)
(* ended or a minute has passed; what the client is told then is the last  *)
(* thing it hears of it.  A message to a client that is gone is dropped.   *)
(* Submissions over REST carry a priority and an agent; a client's are     *)
(* normal and for an agent that exists.                                    *)
(***************************************************************************)

CONSTANTS
  Clients,
  NoClient      \* submitted over REST

ASSUME AgentRoomAssumption == NoClient \notin Clients

VARIABLES
  connected,    \* clients
  from,         \* for each submission: the client that is told, NoClient before and over REST
  told          \* for each submission: the answer its poll ended with, "none" before, and whether it was heard

roomClientVars == <<connected, from, told>>
agentRoomVars == <<gatewayVars, roomClientVars>>

AgentRoomInit ==
  /\ GatewayInit
  /\ connected = {}
  /\ from = [s \in Submissions |-> NoClient]
  /\ told = [s \in Submissions |-> [answer |-> "none", heard |-> <<>>]]

-----------------------------------------------------------------------------
(* sendToClient *)
Heard(c, messages) == IF c \in connected THEN messages ELSE <<>>

Connect(c) ==
  /\ c \notin connected /\ \A s \in Submissions : from[s] # c
  /\ connected' = connected \cup {c}
  /\ UNCHANGED <<gatewayVars, from, told>>

Disconnect(c) ==
  /\ c \in connected
  /\ connected' = connected \ {c}
  /\ UNCHANGED <<gatewayVars, from, told>>

(* handleTaskSubmission up to its first poll, which finds the task queued  *)
(* or on its way.                                                          *)
HandleSubmission(c, s) ==
  /\ c \in connected /\ <<s, "normal", TRUE>> \in Submitted
  /\ SubmitTask(s, "normal", TRUE)
  /\ from' = [from EXCEPT ![s] = c]
  /\ told' = [told EXCEPT ![s].heard = Heard(c, <<"routed", "busy">>)]
  /\ UNCHANGED connected

(* POST /api/tasks *)
PostTask(s, priority, known) ==
  /\ SubmitTask(s, priority, known)
  /\ UNCHANGED roomClientVars

(* Mutant: whatever has completed is a result, an empty one too.           *)
OutcomeUnlessFailed(s) == IF task[s].status \in {"completed", "empty"} THEN "result" ELSE "error"

Outcome(s) == IF task[s].status = "completed" THEN "result" ELSE "error"

(* Mutant: only a completed task ends the polling.                         *)
PollForCompletion(s) ==
  /\ from[s] # NoClient /\ told[s].answer = "none"
  /\ task[s].status \in {"completed", "empty"}
  /\ told' = [told EXCEPT ![s].answer = Outcome(s), ![s].heard = @ \o Heard(from[s], <<Outcome(s), "live">>)]
  /\ UNCHANGED <<gatewayVars, connected, from>>

(* A poll finds the task ended, or a minute has passed: the outcome is     *)
(* read once more and told, in the same turn as "live".                    *)
PollEnds(s) ==
  /\ from[s] # NoClient /\ told[s].answer = "none"
  /\ told' = [told EXCEPT ![s].answer = Outcome(s), ![s].heard = @ \o Heard(from[s], <<Outcome(s), "live">>)]
  /\ UNCHANGED <<gatewayVars, connected, from>>

AgentRoomNext ==
  \/ \E c \in Clients : Connect(c) \/ Disconnect(c) \/ \E s \in Submissions : HandleSubmission(c, s)
  \/ \E offer \in Submitted : PostTask(offer[1], offer[2], offer[3])
  \/ LoopStep /\ UNCHANGED roomClientVars
  \/ \E s \in Submissions : PollEnds(s)

(* Providers answer or fail, and timers fire.                              *)
AgentRoomFairness ==
  /\ WF_gatewayVars(LoopStep)
  /\ \A s \in Submissions : WF_told(PollEnds(s))

AgentRoomSpec == AgentRoomInit /\ [][AgentRoomNext]_agentRoomVars /\ AgentRoomFairness

-----------------------------------------------------------------------------
(* What a client is told of a submission, it is told in order, once, and   *)
(* it is how the task ended: "result" is never followed by another end of  *)
(* the task, by an empty one for instance (room.ts:273-337).  A client     *)
(* that is still there has heard all of it.                                *)
ToldOnceAndRight ==
  \A s \in Submissions : from[s] # NoClient =>
    /\ told[s].heard \in {<<"routed", "busy">>, <<"routed", "busy", told[s].answer, "live">>}
    /\ told[s].answer = "result" => task[s].status = "completed"
    /\ from[s] \in connected => (told[s].answer = "none" <=> Len(told[s].heard) = 2)

(* Every submission of a client is answered, however long the queue is and *)
(* whatever became of the task (room.ts:288-297).                          *)
EverySubmissionAnswered == \A s \in Submissions : from[s] # NoClient ~> told[s].answer # "none"

(* The queue stays in bands, echoes neither multiply nor vanish, and       *)
(* clients are told the truth.                                             *)
RoomKept == GatewayTypeOK /\ QueueInBands /\ OneEchoGoesRound /\ ToldOnceAndRight

(* Every task that is submitted is executed and every client is answered,  *)
(* although the echoes never end.                                          *)
SubmissionsEnd == EveryTaskEnds /\ EverySubmissionAnswered
=============================================================================
