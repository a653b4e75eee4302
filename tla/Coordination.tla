----------------------------- MODULE Coordination -----------------------------
(***************************************************************************)
(* How the gateway has a complex task done (ai/mcp/claude-brain.ts): the   *)
(* task is decomposed into subtasks with dependencies, as a model says, or *)
(* into one, and the subtasks are run one at a time, pass after pass.      *)
(*                                                                         *)
(* A subtask that fails has a result as well, the text of its failure.     *)
(***************************************************************************)
EXTENDS Naturals, Sequences, FiniteSets

CONSTANTS Plans     \* decompositions: sequences of [step, dependencies]

ASSUME CoordinationAssumption ==
  \A plan \in Plans : plan \in Seq([step : Nat, dependencies : SUBSET Nat]) /\ plan # <<>>

VARIABLES
  plan,
  completed,    \* the steps that have ended
  pass,         \* the subtasks of this pass still to run, as positions in the plan
  forced,       \* the pass runs what is left, whatever it depends on
  executions,   \* history: the positions run, with the steps whose results they were given
  coordinated

coordinationVars == <<plan, completed, pass, forced, executions, coordinated>>

(* parseDecomposition: the plan that the model lists, or one subtask when  *)
(* its answer is no JSON or lists none.                                    *)
OneSubtask == <<[step |-> 1, dependencies |-> {}]>>
Parsed == Plans \cup {OneSubtask}

(* decompose: the same one subtask when the model cannot be asked.         *)
CoordinationInit ==
  /\ plan \in Parsed
  /\ completed = {} /\ pass = <<>> /\ forced = FALSE /\ executions = <<>> /\ coordinated = FALSE

CoordinationTypeOK ==
  /\ completed \subseteq {plan[i].step : i \in 1 .. Len(plan)}
  /\ pass \in Seq(1 .. Len(plan)) /\ executions \in Seq([position : 1 .. Len(plan), given : SUBSET completed])
  /\ forced \in BOOLEAN /\ coordinated \in BOOLEAN

CoordinationOff ==
  /\ plan = OneSubtask
  /\ completed = {1} /\ pass = <<>> /\ forced = FALSE /\ coordinated = TRUE
  /\ executions = <<[position |-> 1, given |-> {}]>>

-----------------------------------------------------------------------------
PlanPositions == [i \in 1 .. Len(plan) |-> i]
Left(i) == plan[i].step \notin completed

(* Mutant: one dependency is enough.                                       *)
ReadyBySome(i) ==
  Left(i) /\ (plan[i].dependencies = {} \/ plan[i].dependencies \cap completed # {})

Ready(i) == Left(i) /\ plan[i].dependencies \subseteq completed

(* Mutant: when nothing is ready, the coordination is over.                *)
ChoosePassOrStop ==
  /\ ~coordinated /\ pass = <<>>
  /\ pass' = SelectSeq(PlanPositions, Ready)
  /\ coordinated' = (pass' = <<>>)
  /\ UNCHANGED <<plan, completed, forced, executions>>

(* The head of the loop: the subtasks that are ready, or all that are left *)
(* when none is.  Steps are counted once, subtasks as often as they are    *)
(* listed: with a step listed twice the last pass is empty.                *)
ChoosePass ==
  LET ready == SelectSeq(PlanPositions, Ready)
  IN /\ ~coordinated /\ pass = <<>>
     /\ IF forced \/ Cardinality(completed) >= Len(plan) THEN coordinated' = TRUE /\ UNCHANGED <<pass, forced>>
        ELSE IF ready # <<>> THEN pass' = ready /\ UNCHANGED <<forced, coordinated>>
        ELSE /\ forced' = TRUE /\ pass' = SelectSeq(PlanPositions, Left)
             /\ UNCHANGED coordinated
     /\ UNCHANGED <<plan, completed, executions>>

(* The next subtask of the pass is run and ends, one way or the other.     *)
RunSubtask ==
  LET i == pass[1]
  IN /\ pass # <<>>
     /\ executions' = Append(executions, [position |-> i, given |-> IF forced THEN {} ELSE plan[i].dependencies \cap completed])
     /\ completed' = completed \cup {plan[i].step}
     /\ pass' = Tail(pass)
     /\ UNCHANGED <<plan, forced, coordinated>>

CoordinationNext == ChoosePass \/ RunSubtask

(* A subtask ends, and the code between two of them runs to its end.       *)
CoordinationFairness == WF_coordinationVars(CoordinationNext)

CoordinationSpec == CoordinationInit /\ [][CoordinationNext]_coordinationVars /\ CoordinationFairness

-----------------------------------------------------------------------------
Distinct == \A i, j \in 1 .. Len(plan) : plan[i].step = plan[j].step => i = j

(* What can be run in order: the subtasks that a set of steps closed under *)
(* no cycle and no missing step leads to.                                  *)
Runnable ==
  LET AfterRound[n \in 0 .. Len(plan)] ==
        IF n = 0 THEN {}
        ELSE {plan[i].step : i \in {j \in 1 .. Len(plan) : plan[j].dependencies \subseteq AfterRound[n - 1]}}
  IN AfterRound[Len(plan)]

RanAt(step) == {n \in 1 .. Len(executions) : plan[executions[n].position].step = step}

(* When every step is listed once, every subtask is run once; those that   *)
(* can be run in order follow all they depend on and are given its         *)
(* results; the others follow those, in the order of the plan              *)
(* (claude-brain.ts:226-269).                                              *)
RunsInOrder ==
  Distinct =>
    /\ \A i \in 1 .. Len(plan) : Cardinality(RanAt(plan[i].step)) <= 1
    /\ coordinated => Len(executions) = Len(plan)
    /\ \A n \in 1 .. Len(executions) :
         LET subtask == plan[executions[n].position]
         IN IF subtask.step \in Runnable
            THEN /\ executions[n].given = subtask.dependencies
                 /\ \A d \in subtask.dependencies : \E k \in 1 .. n - 1 : plan[executions[k].position].step = d
            ELSE /\ \A s \in Runnable : RanAt(s) # {}
                 /\ \A k \in 1 .. n - 1 :
                      plan[executions[k].position].step \in Runnable \/ executions[k].position < executions[n].position

(* Whatever the model lists - cycles, missing steps, a step twice - the    *)
(* coordination ends once its subtasks have (claude-brain.ts:226-247).     *)
CoordinationEnds == <>coordinated

(* Coordinations run what they can in order and come to an end.            *)
CoordinationKept == [](CoordinationTypeOK /\ RunsInOrder) /\ CoordinationEnds
=============================================================================
