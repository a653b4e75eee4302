--------------------------- MODULE TaskScheduler ---------------------------
(***************************************************************************)
(* The AI room's task scheduler (ai/orchestration/scheduler.ts): a queue   *)
(* of the unfinished tasks ordered by priority, and a load for each agent, *)
(* kept by hand as tasks are assigned and finished.  Every method runs in  *)
(* one turn of the event loop; callers may call them in any order, and may *)
(* finish a task that is finished already.                                 *)
(*                                                                         *)
(*   tasks       every task that was created: its status, its priority,    *)
(*               the agents that have the capabilities it needs, and the   *)
(*               agent it was assigned to last, None before                *)
(*   queue       ids of tasks, first to be taken first                     *)
(*   loads       agentLoads                                                *)
(*   active      the agents that agentRegistry calls active                *)
(*   refinished  history: how often each agent's load was lowered for a    *)
(*               task that had been finished before                        *)
(***************************************************************************)
EXTENDS Integers, Sequences, FiniteSets

CONSTANTS
  Tasks,
  Agents,
  NoAgent,
  MaxLoad,       \* maxLoadPerAgent
  Offered,       \* what may be created: a task, its priority, the agents that have its capabilities
  MaxRefinish    \* how often an agent's finished tasks are finished again (bound)

ASSUME TaskSchedulerAssumption ==
  /\ MaxLoad \in Nat \ {0} /\ MaxRefinish \in Nat
  /\ IsFiniteSet(Tasks)
  /\ NoAgent \notin Agents
  /\ Offered \subseteq Tasks \X {"critical", "high", "normal", "low"} \X SUBSET Agents

VARIABLES tasks, queue, loads, active, refinished

schedVars == <<tasks, queue, loads, active, refinished>>

Priorities == {"critical", "high", "normal", "low"}
PriorityOrder == [p \in Priorities |->
                    CASE p = "critical" -> 0 [] p = "high" -> 1 [] p = "normal" -> 2 [] p = "low" -> 3]
Finished == {"completed", "failed", "cancelled"}
Statuses == {"pending", "assigned", "running"} \cup Finished

TaskRecord == [status : Statuses, priority : Priorities, able : SUBSET Agents, agent : Agents \cup {NoAgent}]

Created == DOMAIN tasks

SchedInit ==
  /\ tasks = [t \in {} |-> NoAgent]
  /\ queue = <<>>
  /\ loads = [a \in Agents |-> 0]
  /\ active = Agents
  /\ refinished = [a \in Agents |-> 0]

-----------------------------------------------------------------------------
(* Mutant: before the first task of no higher priority.                    *)
EnqueuedFirst(t, priority) ==
  LET before == SelectSeq(queue, LAMBDA u : PriorityOrder[tasks[u].priority] < PriorityOrder[priority])
      after  == SelectSeq(queue, LAMBDA u : PriorityOrder[tasks[u].priority] >= PriorityOrder[priority])
  IN before \o <<t>> \o after

(* Mutant: at the end.                                                     *)
EnqueuedLast(t, priority) == Append(queue, t)

(* enqueue: before the first task of a lower priority, else at the end.    *)
Enqueued(t, priority) ==
  LET lower == {i \in 1 .. Len(queue) : PriorityOrder[tasks[queue[i]].priority] > PriorityOrder[priority]}
      first == IF lower = {} THEN Len(queue) + 1 ELSE CHOOSE i \in lower : \A k \in lower : i <= k
  IN SubSeq(queue, 1, first - 1) \o <<t>> \o SubSeq(queue, first, Len(queue))

CreateTask(t, priority, able) ==
  /\ t \notin Created
  /\ tasks' = [u \in Created \cup {t} |->
                 IF u = t THEN [status |-> "pending", priority |-> priority, able |-> able, agent |-> NoAgent]
                 ELSE tasks[u]]
  /\ queue' = Enqueued(t, priority)
  /\ UNCHANGED <<loads, active, refinished>>

(* findEligibleAgents: capable, active and with room for one more.         *)
EligibleAgents(t) == {a \in tasks[t].able : a \in active /\ loads[a] < MaxLoad}

(* The eligible agent with the lowest load; among several, the order of    *)
(* the catalogue decides, which is left open.                              *)
AssignTask(t, a) ==
  /\ t \in Created /\ tasks[t].status = "pending"
  /\ a \in EligibleAgents(t)
  /\ \A b \in EligibleAgents(t) : loads[a] <= loads[b]
  /\ tasks' = [tasks EXCEPT ![t].status = "assigned", ![t].agent = a]
  /\ loads' = [loads EXCEPT ![a] = @ + 1]
  /\ UNCHANGED <<queue, active, refinished>>

StartTask(t) ==
  /\ t \in Created /\ tasks[t].status = "assigned"
  /\ tasks' = [tasks EXCEPT ![t].status = "running"]
  /\ UNCHANGED <<queue, loads, active, refinished>>

(* Mutant: a task leaves the queue only when it was running.               *)
FinishRunning(t, status) ==
  /\ tasks' = [tasks EXCEPT ![t].status = status]
  /\ queue' = IF tasks[t].status = "running" THEN SelectSeq(queue, LAMBDA u : u # t) ELSE queue
  /\ loads' = [a \in Agents |-> IF a = tasks[t].agent /\ loads[a] > 0 THEN loads[a] - 1 ELSE loads[a]]
  /\ refinished' = [a \in Agents |-> IF a = tasks[t].agent /\ tasks[t].status \in Finished
                                     THEN refinished[a] + 1 ELSE refinished[a]]
  /\ UNCHANGED active

(* Mutant: the load is given back by a cancellation only.                  *)
FinishKeepingLoad(t, status) ==
  /\ tasks' = [tasks EXCEPT ![t].status = status]
  /\ queue' = SelectSeq(queue, LAMBDA u : u # t)
  /\ loads' = [a \in Agents |-> IF a = tasks[t].agent /\ loads[a] > 0 /\ status = "cancelled"
                                THEN loads[a] - 1 ELSE loads[a]]
  /\ refinished' = [a \in Agents |-> IF a = tasks[t].agent /\ tasks[t].status \in Finished
                                     THEN refinished[a] + 1 ELSE refinished[a]]
  /\ UNCHANGED active

(* What completeTask, failTask and cancelTask have in common: the load of  *)
(* the task's agent goes down, never below zero, and the task leaves the   *)
(* queue.                                                                  *)
Finish(t, status) ==
  /\ tasks' = [tasks EXCEPT ![t].status = status]
  /\ queue' = SelectSeq(queue, LAMBDA u : u # t)
  /\ loads' = [a \in Agents |-> IF a = tasks[t].agent /\ loads[a] > 0 THEN loads[a] - 1 ELSE loads[a]]
  /\ refinished' = [a \in Agents |-> IF a = tasks[t].agent /\ tasks[t].status \in Finished
                                     THEN refinished[a] + 1 ELSE refinished[a]]
  /\ UNCHANGED active

FinishedBefore(t) == tasks[t].status \in Finished /\ tasks[t].agent # NoAgent

Bounded(t) == FinishedBefore(t) => refinished[tasks[t].agent] < MaxRefinish

CompleteTask(t) == t \in Created /\ Bounded(t) /\ Finish(t, "completed")
FailTask(t) == t \in Created /\ Bounded(t) /\ Finish(t, "failed")
CancelTask(t) ==
  /\ t \in Created /\ Bounded(t)
  /\ tasks[t].status \notin {"completed", "failed"}
  /\ Finish(t, "cancelled")

(* agentRegistry.activate and deactivate, called by the websocket room.    *)
SetActive(a) ==
  /\ active' \in {active \cup {a}, active \ {a}}
  /\ UNCHANGED <<tasks, queue, loads, refinished>>

SchedNext ==
  \/ \E o \in Offered : CreateTask(o[1], o[2], o[3])
  \/ \E t \in Tasks, a \in Agents : AssignTask(t, a)
  \/ \E t \in Tasks : StartTask(t) \/ CompleteTask(t) \/ FailTask(t) \/ CancelTask(t)
  \/ \E a \in Agents : SetActive(a)

SchedSpec == SchedInit /\ [][SchedNext]_schedVars

-----------------------------------------------------------------------------
SchedTypeOK ==
  /\ Created \subseteq Tasks
  /\ tasks \in [Created -> TaskRecord]
  /\ queue \in Seq(Created)
  /\ loads \in [Agents -> Nat]
  /\ active \subseteq Agents
  /\ refinished \in [Agents -> Nat]

HeldBy(a) == {t \in Created : tasks[t].agent = a /\ tasks[t].status \in {"assigned", "running"}}

(* The hand-kept load tells how many tasks an agent has in hand: never     *)
(* more than it has, never more than the limit, and fewer only by as many  *)
(* as were finished again after they were finished (scheduler.ts:86-200).  *)
LoadTracksTasks ==
  \A a \in Agents :
    /\ loads[a] <= MaxLoad
    /\ loads[a] <= Cardinality(HeldBy(a))
    /\ Cardinality(HeldBy(a)) <= loads[a] + refinished[a]

(* The queue is the set of the unfinished tasks, each once, whatever is    *)
(* finished twice or cancelled in between (removeFromQueue).               *)
QueueIsUnfinished ==
  /\ {queue[i] : i \in 1 .. Len(queue)} = {t \in Created : tasks[t].status \notin Finished}
  /\ \A i, k \in 1 .. Len(queue) : queue[i] = queue[k] => i = k

(* No task stands behind one of a lower priority (enqueue).                *)
QueueByPriority ==
  \A i, k \in 1 .. Len(queue) :
    i < k => PriorityOrder[tasks[queue[i]].priority] <= PriorityOrder[tasks[queue[k]].priority]

(* Insertion never overtakes: two tasks of one priority keep their order   *)
(* for as long as both are queued, and a new one goes behind its equals    *)
(* (findIndex with a strict comparison).                                   *)
EqualsKeepOrder ==
  [][\A i, k \in 1 .. Len(queue)' :
       i < k /\ tasks'[queue'[i]].priority = tasks'[queue'[k]].priority =>
         \/ queue'[k] \notin Created
         \/ \E m, n \in 1 .. Len(queue) : m < n /\ queue[m] = queue'[i] /\ queue[n] = queue'[k]]_schedVars

(* The scheduler's books: load counts and queue agree with the tasks.      *)
SchedulerSound == SchedTypeOK /\ LoadTracksTasks /\ QueueIsUnfinished /\ QueueByPriority
=============================================================================
