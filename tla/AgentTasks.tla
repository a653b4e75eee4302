------------------------------ MODULE AgentTasks ------------------------------
(***************************************************************************)
(* Tasks of the AI room's agents (agents/task-executor.ts): the sources of *)
(* a definition are read one after the other, each behind an await, a      *)
(* model is asked, and the execution is recorded in the three files of its *)
(* agent (agents/workspace.ts): the history and the memory are read,       *)
(* extended, cut and written again, a line is appended to the evidence.    *)
(* The three writes follow each other without an await: only a crash comes *)
(* between them.  A write replaces its file in place, so that a crash or a *)
(* full disk leaves it torn, and a torn file is read as an empty one.      *)
(*                                                                         *)
(* A row of a file is the execution it is about; Unended is a line without *)
(* an end, Glued a line that cannot be read.                               *)
(***************************************************************************)
EXTENDS Integers, Sequences, FiniteSets
LOCAL INSTANCE SequencesExt

CONSTANTS
  TaskRuns,        \* executions, numbered in the order they are asked for
  AgentIds,
  Definitions,     \* [ids of tasks -> the kinds of their sources, in order]
  MaxKept,         \* rows a history and a memory keep: 500 in the code
  MaxTrouble       \* crashes and writes that fail (bound)

(* What a text routes to: the id of a definition, its name, or the words   *)
(* of the router; no definition at all otherwise.                          *)
RoutedTo == DOMAIN Definitions \cup {"unknown"}

ASSUME AgentTasksAssumption ==
  /\ TaskRuns \subseteq Nat \ {0} /\ MaxKept \in Nat \ {0} /\ MaxTrouble \in Nat
  /\ DOMAIN Definitions \subseteq STRING /\ "unknown" \notin DOMAIN Definitions

VARIABLES
  taskRuns,   \* the executions
  tfiles,     \* the files of each agent
  recording,  \* the execution that writes its files, 0 when none does
  trouble

taskVars == <<taskRuns, tfiles, recording, trouble>>

Unended == 0
Glued == -1
Whole(rows) == [torn |-> FALSE, rows |-> rows]
TornFile == [torn |-> TRUE, rows |-> <<>>]

NoRun == [task |-> "none", agent |-> "none", input |-> FALSE, at |-> 1, data |-> [k \in {} |-> ""], said |-> "",
            out |-> "new"]

AgentTasksInit ==
  /\ taskRuns = [x \in TaskRuns |-> NoRun]
  /\ tfiles = [a \in AgentIds |-> [history |-> Whole(<<>>), memory |-> Whole(<<>>), evidence |-> <<>>]]
  /\ recording = 0
  /\ trouble = [crashes |-> 0, failures |-> 0, torn |-> FALSE]

-----------------------------------------------------------------------------
(* The end of an execution, whose data nothing asks for any more.          *)
RunClosed(x, out) == taskRuns' = [taskRuns EXCEPT ![x] = [NoRun EXCEPT !.agent = taskRuns[x].agent, !.out = out]]

(* executeRealTask, its start: a text that is no definition's id or name   *)
(* and has none of the router's words is answered, and not recorded.       *)
StartRun(x, task, a, input) ==
  /\ recording = 0
  /\ taskRuns[x].out = "new" /\ \A y \in TaskRuns : y < x => taskRuns[y].out # "new"
  /\ IF task \in DOMAIN Definitions
     THEN taskRuns' = [taskRuns EXCEPT ![x] = [@ EXCEPT !.task = task, !.agent = a, !.input = input, !.out = "gathering"]]
     ELSE RunClosed(x, "unknown")
  /\ UNCHANGED <<tfiles, recording, trouble>>

(* How a source's reader may end: an error is kept beside the data; some   *)
(* readers return less, or nothing, when a part of what they ask fails.    *)
(* The readers of the web, those of this host, the two feeds, and what the *)
(* agents' own files and figures are read for: a torn file counts as none, *)
(* and neither can fail.                                                   *)
WebOutcomes == [prices |-> {"read", "failed"}, stories |-> {"read", "partly", "failed"}, repos |-> {"read", "failed"},
                package |-> {"read", "partly", "failed"}]
ScanOutcomes == [domain |-> {"read", "partly"}]
StatsOutcomes == [stats |-> {"read", "partly"}]
ServiceOutcomes == [services |-> {"read", "partly"}]
DockerOutcomes == [docker |-> {"read", "none"}]
FeedOutcomes == [gas |-> {"read", "partly", "failed"}, vulnerabilities |-> {"read", "none"}]
OwnOutcomes == [internal |-> {"read", "partly"}]
FigureOutcomes == [calculation |-> {"read"}]

Outcomes(source) ==
  CASE source \in DOMAIN WebOutcomes -> WebOutcomes[source]
    [] source \in DOMAIN ScanOutcomes -> ScanOutcomes[source]
    [] source \in DOMAIN StatsOutcomes -> StatsOutcomes[source]
    [] source \in DOMAIN ServiceOutcomes -> ServiceOutcomes[source]
    [] source \in DOMAIN DockerOutcomes -> DockerOutcomes[source]
    [] source \in DOMAIN FeedOutcomes -> FeedOutcomes[source]
    [] source \in DOMAIN OwnOutcomes -> OwnOutcomes[source]
    [] source \in DOMAIN FigureOutcomes -> FigureOutcomes[source]
    [] source = "file" -> {"read", "none"}
    [] OTHER -> {"read"}

NeedsInput(source) == source \in {"domain", "package", "file"}
SourcesOf(x) == Definitions[taskRuns[x].task]

(* Mutant: an error is not kept beside the data.                           *)
NotedReads(x, source, outcome) ==
  LET r == taskRuns[x]
  IN IF outcome = "failed" THEN r.data
     ELSE [k \in DOMAIN r.data \cup {source} |-> IF k = source THEN outcome ELSE r.data[k]]

NotedSource(x, source, outcome) ==
  LET r == taskRuns[x]
  IN [k \in DOMAIN r.data \cup {source} |-> IF k = source THEN outcome ELSE r.data[k]]

(* gatherData, one source: three of them read the domain once; one without *)
(* its input, and the model's own, read nothing.                           *)
Gather(x) ==
  LET r == taskRuns[x]
      source == SourcesOf(x)[r.at]
      skipped == \/ source = "model" \/ (NeedsInput(source) /\ ~r.input)
                 \/ (source = "domain" /\ source \in DOMAIN r.data)
      Next(data) == taskRuns' = [taskRuns EXCEPT ![x].data = data, ![x].at = @ + 1]
  IN /\ recording = 0 /\ r.out = "gathering" /\ r.at <= Len(SourcesOf(x))
     /\ IF skipped THEN Next(r.data) ELSE \E outcome \in Outcomes(source) : Next(NotedSource(x, source, outcome))
     /\ UNCHANGED <<tfiles, recording, trouble>>

(* formatDataForAgent: a section for what was read, a line for an error.   *)
Prompt(x) ==
  LET data == taskRuns[x].data
  IN [sections |-> {k \in DOMAIN data : data[k] # "failed"}, errors |-> {k \in DOMAIN data : data[k] = "failed"}]

(* The model answers, or the router gives up, which is an analysis too.    *)
Analysed(x) ==
  /\ recording = 0 /\ taskRuns[x].out = "gathering" /\ taskRuns[x].at > Len(SourcesOf(x))
  /\ \E said \in {"completed", "failed"} : taskRuns' = [taskRuns EXCEPT ![x].said = said, ![x].out = "history"]
  /\ recording' = x
  /\ UNCHANGED <<tfiles, trouble>>

-----------------------------------------------------------------------------
LastOf(n, rows) == SubSeq(rows, IF Len(rows) > n THEN Len(rows) - n + 1 ELSE 1, Len(rows))

(* Mutant: a torn file is left as it is.                                   *)
RefiledIfWhole(file, x) == IF file.torn THEN file ELSE Whole(LastOf(MaxKept, Append(file.rows, x)))

(* recordAgentTask, appendAgentMemory: read, extended, cut.                *)
Refiled(file, x) == Whole(LastOf(MaxKept, Append(file.rows, x)))

FileOf(x) == taskRuns[x].out
AfterFile == [history |-> "memory", memory |-> "evidence", evidence |-> "answered"]

Rewrite(x) ==
  /\ recording = x /\ FileOf(x) \in {"history", "memory"}
  /\ tfiles' = [tfiles EXCEPT ![taskRuns[x].agent][FileOf(x)] = Refiled(@, x)]
  /\ taskRuns' = [taskRuns EXCEPT ![x].out = AfterFile[@]]
  /\ UNCHANGED <<recording, trouble>>

LineAdded(lines, x) ==
  IF lines # <<>> /\ Last(lines) = Unended THEN Append(Front(lines), Glued) ELSE Append(lines, x)

(* Mutant: the evidence of an execution that failed is left out.           *)
LogEvidenceCompleted(x) ==
  /\ recording = x /\ FileOf(x) = "evidence"
  /\ tfiles' = IF taskRuns[x].said = "completed"
               THEN [tfiles EXCEPT ![taskRuns[x].agent].evidence = LineAdded(@, x)] ELSE tfiles
  /\ RunClosed(x, "answered")
  /\ recording' = 0
  /\ UNCHANGED trouble

(* logAgentEvidence, and the answer.                                       *)
LogEvidence(x) ==
  /\ recording = x /\ FileOf(x) = "evidence"
  /\ tfiles' = [tfiles EXCEPT ![taskRuns[x].agent].evidence = LineAdded(@, x)]
  /\ RunClosed(x, "answered")
  /\ recording' = 0
  /\ UNCHANGED trouble

-----------------------------------------------------------------------------
MoreTrouble == trouble.crashes + trouble.failures < MaxTrouble
Fails(tears) == MoreTrouble /\ trouble' = [trouble EXCEPT !.failures = @ + 1, !.torn = @ \/ tears]

(* A write throws, before or after it has emptied the file: the execution  *)
(* rejects, whatever it has written before.                                *)
RewriteFails(x) ==
  /\ recording = x /\ FileOf(x) \in {"history", "memory"}
  /\ \/ Fails(FALSE) /\ UNCHANGED tfiles
     \/ Fails(TRUE) /\ tfiles' = [tfiles EXCEPT ![taskRuns[x].agent][FileOf(x)] = TornFile]
  /\ RunClosed(x, "rejected")
  /\ recording' = 0

(* An append that throws is followed by a write of the one line over the   *)
(* file, which may throw as well.                                          *)
EvidenceFails(x) ==
  /\ Fails(TRUE) /\ recording = x /\ FileOf(x) = "evidence"
  /\ \E out \in {"answered", "rejected"} :
       /\ tfiles' = [tfiles EXCEPT ![taskRuns[x].agent].evidence = IF out = "answered" THEN <<x>> ELSE <<>>]
       /\ RunClosed(x, out)
  /\ recording' = 0

(* The process ends and starts again; the file it was writing is torn, or  *)
(* is not touched yet.                                                     *)
TaskCrash ==
  /\ MoreTrouble /\ \E x \in TaskRuns : taskRuns[x].out \in {"gathering", "history", "memory", "evidence"}
  /\ \/ trouble' = [trouble EXCEPT !.crashes = @ + 1] /\ UNCHANGED tfiles
     \/ /\ recording # 0
        /\ trouble' = [trouble EXCEPT !.crashes = @ + 1, !.torn = TRUE]
        /\ LET a == taskRuns[recording].agent IN
           tfiles' = IF FileOf(recording) = "evidence"
                     THEN [tfiles EXCEPT ![a].evidence = IF @ # <<>> /\ Last(@) = Unended THEN @ ELSE Append(@, Unended)]
                     ELSE [tfiles EXCEPT ![a][FileOf(recording)] = TornFile]
  /\ taskRuns' = [x \in TaskRuns |-> IF taskRuns[x].out \in {"gathering", "history", "memory", "evidence"}
                                     THEN [NoRun EXCEPT !.agent = taskRuns[x].agent, !.out = "lost"]
                                     ELSE taskRuns[x]]
  /\ recording' = 0

AgentTasksNext ==
  \/ \E x \in TaskRuns, task \in RoutedTo, a \in AgentIds, input \in BOOLEAN :
       /\ input => task \in DOMAIN Definitions /\ \E n \in DOMAIN Definitions[task] : NeedsInput(Definitions[task][n])
       /\ StartRun(x, task, a, input)
  \/ \E x \in TaskRuns : Gather(x) \/ Analysed(x) \/ Rewrite(x) \/ LogEvidence(x) \/ RewriteFails(x) \/ EvidenceFails(x)
  \/ TaskCrash

AgentTasksSpec == AgentTasksInit /\ [][AgentTasksNext]_taskVars
-----------------------------------------------------------------------------
Filed(rows) == ToSet(rows) \ {Unended, Glued}

(* Without a crash or a failing write the three files of an agent tell the *)
(* same, whichever of its executions overlap.  With crashes between the    *)
(* writes, what is in the evidence is in the other two, in the same order, *)
(* unless as many came after it as they keep (task-executor.ts:353-377).   *)
FilesAgree ==
  \A a \in AgentIds :
    LET f == tfiles[a]
        InOrder(rows, others) == SelectSeq(rows, LAMBDA x : x \in ToSet(others))
        Holds(file) ==
          /\ \A x \in Filed(f.evidence) : x \in ToSet(file.rows) \/ Len(file.rows) = MaxKept
          /\ InOrder(f.evidence, file.rows) = InOrder(file.rows, f.evidence)
        writing == recording # 0 /\ taskRuns[recording].agent = a
    IN /\ trouble.crashes + trouble.failures = 0 /\ ~writing =>
            f.history.rows = LastOf(MaxKept, f.evidence) /\ f.memory = f.history
       /\ trouble.failures = 0 /\ ~trouble.torn => Holds(f.history) /\ Holds(f.memory)

(* The model is told of every source of a definition, what was read or     *)
(* that it failed, but for those without their input (task-executor.ts:47). *)
SourcesAccounted ==
  \A x \in TaskRuns :
    taskRuns[x].said # "" =>
      \A source \in ToSet(SourcesOf(x)) :
        \/ source \in Prompt(x).sections \cup Prompt(x).errors \cup {"model"}
        \/ NeedsInput(source) /\ ~taskRuns[x].input

(* An answer is given when its execution is the last row of all three      *)
(* files, also after a crash or a failed write tore one of them            *)
(* (workspace.ts:46,80).                                                   *)
AnsweredOnRecord ==
  [][\A x \in TaskRuns :
       taskRuns'[x].out = "answered" /\ taskRuns[x].out # "answered" =>
         LET f == tfiles'[taskRuns[x].agent]
             EndsWith(rows, row) == rows # <<>> /\ Last(rows) = row
         IN /\ EndsWith(f.history.rows, x) /\ EndsWith(f.memory.rows, x)
            /\ EndsWith(f.evidence, x) \/ EndsWith(f.evidence, Glued)]_taskVars
=============================================================================
