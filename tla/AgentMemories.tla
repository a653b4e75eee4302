--------------------------- MODULE AgentMemories ----------------------------
(***************************************************************************)
(* The AI room's memories: the store with its files, then the operations   *)
(* that write and read its maps.                                           *)
(***************************************************************************)
EXTENDS Integers, FiniteSets, Sequences
LOCAL INSTANCE SequencesExt

(***************************************************************************)
(* The AI room's memory store (ai/memory/store.ts): two maps kept in       *)
(* memory and, while something has changed, written by a timer to two      *)
(* files, one after the other.  A write replaces the file in place, so a   *)
(* crash may leave it torn; it may also fail, which is logged.  A process  *)
(* that starts reads the memories and then the templates and gives up at   *)
(* the first file it cannot parse.  Saving is synchronous: only a crash    *)
(* can come between its steps.                                             *)
(*                                                                         *)
(*   held    what the maps hold: for "memories" and "templates" a set      *)
(*   files   what the files hold                                           *)
(*   saving  the file to be written next, "" when no save is going on      *)
(***************************************************************************)

CONSTANTS
  Entries,      \* what is remembered
  MaxCrashes    \* how often the process dies (bound)

ASSUME MemoryStoreAssumption == MaxCrashes \in Nat

VARIABLES
  held, dirty, files, saving, crashes,
  saved,        \* history: the files' contents after the last save that completed
  cut,          \* history: a write was torn or failed since then
  deaf          \* history: the process started on a file it could not read, and has not saved since

memoryVars == <<held, dirty, files, saving, crashes, saved, cut, deaf>>

Maps == {"memories", "templates"}
Intact(content) == [torn |-> FALSE, content |-> content]
Torn == [torn |-> TRUE, content |-> {}]
Empty == [m \in Maps |-> {}]

(* A missing file reads as an empty one.                                   *)
MemoryInit ==
  /\ held = Empty /\ dirty = FALSE
  /\ files = [m \in Maps |-> Intact({})]
  /\ saving = "" /\ crashes = 0
  /\ saved = Empty /\ cut = FALSE /\ deaf = FALSE

MemoryTypeOK ==
  /\ held \in [Maps -> SUBSET Entries] /\ saved \in [Maps -> SUBSET Entries]
  /\ files \in [Maps -> [torn : BOOLEAN, content : SUBSET Entries]]
  /\ saving \in Maps \cup {""}
  /\ dirty \in BOOLEAN /\ cut \in BOOLEAN /\ deaf \in BOOLEAN
  /\ crashes \in 0 .. MaxCrashes

-----------------------------------------------------------------------------
(* One map changes: create, update and delete of a memory, createTemplate  *)
(* and deleteTemplate.                                                     *)
Change(m) ==
  /\ saving = ""
  /\ \E e \in Entries : held' \in {[held EXCEPT ![m] = @ \cup {e}], [held EXCEPT ![m] = @ \ {e}]} \ {held}
  /\ dirty' = TRUE
  /\ UNCHANGED <<files, saving, crashes, saved, cut, deaf>>

ChangeMemories == Change("memories")
ChangeTemplates == Change("templates")

Autosave ==
  /\ saving = "" /\ dirty
  /\ saving' = "memories"
  /\ UNCHANGED <<held, dirty, files, crashes, saved, cut, deaf>>

(* clear forgets the memories, not the templates, and saves; flush saves.  *)
SaveAtOnce(clears) ==
  /\ saving = ""
  /\ dirty' = TRUE
  /\ held' = IF clears THEN [held EXCEPT !["memories"] = {}] ELSE held
  /\ saving' = "memories"
  /\ UNCHANGED <<files, crashes, saved, cut, deaf>>

Clear == SaveAtOnce(TRUE)
Flush == SaveAtOnce(FALSE)

(* Mutant: the changes count as saved once the first file is written.      *)
WriteFileCleanEarly ==
  /\ saving # ""
  /\ files' = [files EXCEPT ![saving] = Intact(held[saving])]
  /\ saving' = IF saving = "memories" THEN "templates" ELSE ""
  /\ dirty' = FALSE
  /\ IF saving = "templates" THEN saved' = held /\ cut' = FALSE /\ deaf' = FALSE ELSE UNCHANGED <<saved, cut, deaf>>
  /\ UNCHANGED <<held, crashes>>

WriteFile ==
  /\ saving # ""
  /\ files' = [files EXCEPT ![saving] = Intact(held[saving])]
  /\ IF saving = "memories" THEN saving' = "templates" /\ UNCHANGED <<dirty, saved, cut, deaf>>
     ELSE saving' = "" /\ dirty' = FALSE /\ saved' = held /\ cut' = FALSE /\ deaf' = FALSE
  /\ UNCHANGED <<held, crashes>>

(* The write fails: what was written so far stays, and the next tick tries *)
(* again.                                                                  *)
WriteFails ==
  /\ saving # ""
  /\ files' \in {files, [files EXCEPT ![saving] = Torn]}
  /\ saving' = "" /\ cut' = TRUE
  /\ UNCHANGED <<held, dirty, crashes, saved, deaf>>

(* Mutant: the templates are read only when there are memories.            *)
ReadSome(now) ==
  [m \in Maps |-> IF now["memories"].torn \/ now["memories"].content = {} THEN {} ELSE now[m].content]

(* loadFromDisk: a file that does not parse ends the reading.              *)
Read(now) ==
  [m \in Maps |-> IF now["memories"].torn THEN {} ELSE now[m].content]

(* The process dies, perhaps within a write, and starts again.             *)
CrashAndRestart ==
  /\ crashes < MaxCrashes /\ crashes' = crashes + 1
  /\ files' \in {files} \cup {[files EXCEPT ![m] = Torn] : m \in {saving} \ {""}}
  /\ held' = Read(files')
  /\ dirty' = FALSE /\ saving' = ""
  /\ cut' = (cut \/ saving # "")
  /\ deaf' = \E m \in Maps : files'[m].torn
  /\ UNCHANGED saved

MemoryNext ==
  \/ ChangeMemories \/ ChangeTemplates
  \/ Autosave \/ WriteFile \/ WriteFails \/ CrashAndRestart
  \/ Clear \/ Flush

MemorySpec == MemoryInit /\ [][MemoryNext]_memoryVars

-----------------------------------------------------------------------------
(* A store with nothing to save has everything on disk, in both files,     *)
(* after failed writes and crashes as well, unless it started on a file it *)
(* could not read (store.ts:50-63).                                        *)
CleanMeansStored ==
  ~dirty /\ saving = "" /\ ~deaf => files = [m \in Maps |-> Intact(held[m])]

(* A restart brings back exactly what the last completed save wrote, if no *)
(* write has been cut short since: what came later is lost, nothing else,  *)
(* and never one file without the other (store.ts:31-48).                  *)
RestartKeepsLastSave ==
  [][crashes' > crashes /\ ~cut' => held' = saved]_memoryVars

(* Nothing unsaved is taken for saved.                                     *)
StoreSound == MemoryTypeOK /\ CleanMeansStored

-----------------------------------------------------------------------------
(***************************************************************************)
(* What the AI room's agents remember (ai/memory/store.ts, its maps; their *)
(* files are above): the memory routes and the land's operations           *)
(* write entries; an invocation of the gateway reads them twice before it  *)
(* asks a model, for the prompt (memory/injector.ts) and for retrieval     *)
(* (rag/index.ts), and writes two of its own when the model has answered.  *)
(* Invocations overlap while their models answer.                          *)
(*                                                                         *)
(* A content is the set of its words; `form` tells contents apart that     *)
(* begin differently, as history and evidence do from what is plain.       *)
(***************************************************************************)

CONSTANTS
  Writers,      \* agents
  Calls,        \* invocations of the gateway
  PromptOf,     \* [Calls -> the words of its prompt]
  Writings,     \* what the memory routes are given
  LandOps,      \* operations on the land
  Patrols,      \* the agents that carry them out
  ContextLimit, \* entries in a prompt: 15 in the code
  MaxChunks,    \* entries that are retrieved: 10 in the code
  MaxFit,       \* entries that fit into 4000 characters
  MaxMade,      \* entries ever made (bound)
  MaxChanges,   \* entries changed or deleted (bound)
  MaxNow        \* clock (bound)

ASSUME AgentMemoriesAssumption ==
  /\ ContextLimit \in Nat /\ MaxChunks \in Nat /\ MaxFit \in Nat /\ MaxMade \in Nat /\ MaxChanges \in Nat /\ MaxNow \in Nat
  /\ "system" \notin Writers /\ Patrols \subseteq Writers

VARIABLES
  memos,    \* the entries, in the order they were made
  made,     \* how many were made: an id each
  changed,  \* how many were changed or deleted
  calls,    \* the invocations
  land,     \* the operations
  prompt,   \* what has just been sent to a model: [of, context, chunks], ids of entries
  ticks,
  erased    \* history: ids of the entries that were deleted

memoVars == <<memos, made, changed, calls, land, prompt, ticks, erased>>

NoPrompt == [of |-> "none", context |-> <<>>, chunks |-> <<>>]

MemosInit ==
  /\ memos = <<>> /\ made = 0 /\ changed = 0 /\ ticks = 0 /\ erased = {}
  /\ calls = [q \in Calls |-> [at |-> "new", agent |-> "none"]] /\ prompt = NoPrompt
  /\ land = [o \in LandOps |-> [at |-> "new", agent |-> "none", kind |-> "none"]]

-----------------------------------------------------------------------------
Never == MaxNow + 1

(* create: an id of its own, made and updated now.                         *)
EntryOf(writing, by, n) ==
  [id |-> n, by |-> by, agent |-> writing.agent, kind |-> writing.kind, words |-> writing.words, form |-> writing.form,
   shared |-> writing.shared, prio |-> writing.prio, expires |-> writing.expires, updated |-> ticks]

Make(writings, by) ==
  /\ made + Len(writings) <= MaxMade
  /\ made' = made + Len(writings)
  /\ memos' = memos \o [n \in DOMAIN writings |-> EntryOf(writings[n], by, made + n)]

Writing(agent, kind, words, form, shared, prio) ==
  [agent |-> agent, kind |-> kind, words |-> words, form |-> form, shared |-> shared, prio |-> prio, expires |-> Never]

InteractionOf(agent, words) == Writing(agent, "history", words, "qa", FALSE, 3)
EvidenceOf(agent, words, form) == Writing(agent, "fact", words, form, TRUE, 8)
FactFor(agent, words, prio) == Writing(agent, "fact", words, "plain", FALSE, prio)
InjectionFor(agent, words, prio) == Writing(agent, "injection", words, "plain", FALSE, prio)

(* The memory routes: POST /api/memory, /fact and /injection; PUT, which   *)
(* makes the entry new again; DELETE.                                      *)
Remember(writing) == Make(<<writing>>, "route") /\ UNCHANGED <<changed, calls, land, ticks, erased>>

Revise(i, prio) ==
  /\ changed < MaxChanges /\ changed' = changed + 1
  /\ memos' = [memos EXCEPT ![i].prio = prio, ![i].updated = ticks]
  /\ UNCHANGED <<made, calls, land, ticks, erased>>

Forget(i) ==
  /\ changed < MaxChanges /\ changed' = changed + 1
  /\ memos' = RemoveAt(memos, i)
  /\ erased' = erased \cup {memos[i].id}
  /\ UNCHANGED <<made, calls, land, ticks>>

-----------------------------------------------------------------------------
(* query: what matches and has not expired, the highest priority first,    *)
(* then the newest, then in the order made.  A limit of 0 is none.         *)
Outranks(i, j) ==
  LET m == memos[i]
      n == memos[j]
  IN \/ m.prio > n.prio
     \/ m.prio = n.prio /\ (m.updated > n.updated \/ (m.updated = n.updated /\ i < j))

Sorted(S, Above(_, _)) == [n \in 1 .. Cardinality(S) |-> CHOOSE i \in S : Cardinality({j \in S : Above(j, i)}) = n - 1]
FirstOf(n, s) == SubSeq(s, 1, IF Len(s) < n THEN Len(s) ELSE n)

Live == {i \in DOMAIN memos : memos[i].expires > ticks}

Query(S, limit) == IF limit = 0 THEN Sorted(S \cap Live, Outranks) ELSE FirstOf(limit, Sorted(S \cap Live, Outranks))

OwnedBy(owner) == {i \in DOMAIN memos : memos[i].agent = owner}

(* Mutant: the limit is applied once, to both.                             *)
AllForAgentLimitedOnce(agent, limit) ==
  FirstOf(limit, Query(OwnedBy(agent), limit) \o Query(OwnedBy("system"), limit))

(* getAllForAgent: half the limit each; half of 1 is cut to none.          *)
AllForAgent(agent, limit) ==
  LET share(owner) == IF limit = 1 THEN <<>> ELSE Query(OwnedBy(owner), limit \div 2)
  IN FirstOf(limit, share(agent) \o share("system"))

Ids(s) == [n \in DOMAIN s |-> memos[s[n]].id]

(* computeRelevance, for one query.                                        *)
Relevance(words, i) == Cardinality(words \cap memos[i].words)

(* Mutant: the history of every agent is searched.                         *)
HistoryOfAll(agent) == {i \in DOMAIN memos : memos[i].kind = "history"}

(* The four searches of retrieve, in order.                                *)
HistoryOf(agent) == {i \in OwnedBy(agent) : memos[i].kind = "history"}

Searched(agent) ==
  AllForAgent(agent, 50) \o Query({i \in DOMAIN memos : memos[i].kind = "fact"}, 50)
    \o Query({i \in DOMAIN memos : memos[i].shared}, 50) \o Query(HistoryOf(agent), 30)

(* retrieve: what is relevant, the most relevant first, then as found, and *)
(* of those that begin alike the first.                                    *)
Retrieved(agent, words) ==
  LET found == SelectSeq(Searched(agent), LAMBDA i : Relevance(words, i) > 0)
      Above(m, n) == \/ Relevance(words, found[m]) > Relevance(words, found[n])
                     \/ Relevance(words, found[m]) = Relevance(words, found[n]) /\ m < n
      ranked == LET order == Sorted(DOMAIN found, Above) IN [n \in DOMAIN order |-> found[order[n]]]
      Alike(i, j) == memos[i].form = memos[j].form /\ memos[i].words = memos[j].words
      firsts == {n \in DOMAIN ranked : \A m \in 1 .. n - 1 : ~Alike(ranked[m], ranked[n])}
      Earlier(m, n) == m < n
      order == Sorted(firsts, Earlier)
  IN FirstOf(MaxChunks, [n \in DOMAIN order |-> ranked[order[n]]])

-----------------------------------------------------------------------------
(* buildContext, for buildEnhancedPrompt; augment, which stops where the   *)
(* next entry does not fit.                                                *)
Context(agent) == AllForAgent(agent, ContextLimit)
Augmented(agent, words) == FirstOf(MaxFit, Retrieved(agent, words))

(* executeTask, the standard way, up to its model: both are read at once.  *)
Invoke(q, agent) ==
  /\ calls[q].at = "new"
  /\ prompt' = [of |-> q, context |-> Ids(Context(agent)), chunks |-> Ids(Augmented(agent, PromptOf[q]))]
  /\ calls' = [calls EXCEPT ![q] = [at |-> "asking", agent |-> agent]]
  /\ UNCHANGED <<memos, made, changed, land, ticks, erased>>

(* Mutant: the interaction is recorded when the model has failed, too.     *)
InferredAlways(q, ok) ==
  /\ calls[q].at = "asking"
  /\ Make(<<InteractionOf(calls[q].agent, PromptOf[q]), EvidenceOf(calls[q].agent, PromptOf[q], q)>>, q)
  /\ calls' = [calls EXCEPT ![q].at = IF ok THEN "completed" ELSE "failed"]
  /\ UNCHANGED <<changed, land, ticks, erased>>

(* The model has answered: recordInteraction and chainEvidence; or not.    *)
Inferred(q, ok) ==
  /\ calls[q].at = "asking"
  /\ IF ok THEN Make(<<InteractionOf(calls[q].agent, PromptOf[q]), EvidenceOf(calls[q].agent, PromptOf[q], q)>>, q)
     ELSE UNCHANGED <<memos, made>>
  /\ calls' = [calls EXCEPT ![q].at = IF ok THEN "completed" ELSE "failed"]
  /\ UNCHANGED <<changed, land, ticks, erased>>

(* submitOperation and claimLand.  Only a report awaits anything.          *)
LandRequests == {"patrol", "fortify", "unknown target", "claim", "report"}
LandWords(kind) == {kind}
Written(kind, agent) ==
  CASE kind = "patrol" -> <<FactFor(agent, LandWords(kind), 3)>>
    [] kind = "fortify" -> <<InjectionFor(agent, LandWords(kind), 8)>>
    [] kind = "claim" -> <<InjectionFor(agent, LandWords(kind), 10)>>
    [] OTHER -> <<>>

Operate(o, kind, agent) ==
  /\ land[o].at = "new"
  /\ land' = [land EXCEPT ![o] = [at |-> IF kind = "report" THEN "executing" ELSE "completed", agent |-> agent,
                                  kind |-> kind]]
  /\ Make(Written(kind, agent), o)
  /\ UNCHANGED <<changed, calls, ticks, erased>>

ReportEnds(o, ok) ==
  /\ land[o].at = "executing"
  /\ land' = [land EXCEPT ![o].at = IF ok THEN "completed" ELSE "failed"]
  /\ UNCHANGED <<memos, made, changed, calls, ticks, erased>>

MemosTick ==
  /\ ticks < MaxNow /\ ticks' = ticks + 1
  /\ UNCHANGED <<memos, made, changed, calls, land, erased>>

MemosNext ==
  \/ \E q \in Calls, agent \in Writers : Invoke(q, agent)
  \/ /\ prompt' = NoPrompt
     /\ \/ \E writing \in Writings : Remember(writing)
        \/ \E i \in DOMAIN memos : Forget(i) \/ Revise(i, 9)
        \/ \E q \in Calls, ok \in BOOLEAN : Inferred(q, ok)
        \/ \E o \in LandOps, agent \in Patrols :
             \E kind \in LandRequests : Operate(o, kind, agent)
        \/ \E o \in LandOps, ok \in BOOLEAN : ReportEnds(o, ok)
        \/ MemosTick

MemosSpec == MemosInit /\ [][MemosNext]_memoVars
-----------------------------------------------------------------------------
(* A prompt holds the best of the agent's entries and the best of the      *)
(* system's, half the limit each: whatever is left out has that many above *)
(* it, and neither crowds the other out; what is retrieved besides is      *)
(* alive, relevant, each content once, and the best of it                  *)
(* (memory/store.ts:149, rag/index.ts:54).                                 *)
BestRemembered ==
  LET q == prompt.of
      agent == calls[q].agent
      own == Live \cap (OwnedBy(agent) \cup OwnedBy("system"))
      At(id) == CHOOSE i \in DOMAIN memos : memos[i].id = id
      Above(i) == {j \in Live : memos[j].agent = memos[i].agent /\ Outranks(j, i)}
      in == {At(prompt.context[n]) : n \in DOMAIN prompt.context}
      chunks == {At(prompt.chunks[n]) : n \in DOMAIN prompt.chunks}
      Key(i) == <<memos[i].form, memos[i].words>>
  IN q # "none" =>
       /\ \A i \in own : i \in in <=> Cardinality(Above(i)) < ContextLimit \div 2
       /\ in \cup chunks \subseteq Live
       /\ \A i, j \in chunks : Key(i) = Key(j) => i = j
       /\ \A i \in own :
            Relevance(PromptOf[q], i) > 0 /\ Key(i) \notin {Key(j) : j \in chunks} =>
              Len(prompt.chunks) \in {MaxChunks, MaxFit} /\ \A j \in chunks : Relevance(PromptOf[q], j) >= Relevance(PromptOf[q], i)

(* Another agent's entry reaches a prompt only as a fact or as evidence:   *)
(* its history and its injections stay its own (rag/index.ts:96).          *)
AgentsApart ==
  \A i \in DOMAIN memos :
    LET m == memos[i] IN
    m.id \in ToSet(prompt.context) \cup ToSet(prompt.chunks) /\ m.agent \notin {calls[prompt.of].agent, "system"} =>
      m.kind = "fact" \/ m.shared

(* What an invocation or an operation has done is remembered of it, once   *)
(* and under its agent, until it is deleted; nothing of one that failed    *)
(* (gateway.ts:282, omniland.ts:236).                                      *)
DoneIsRemembered ==
  LET Left(who) == {m \in {memos[i] : i \in DOMAIN memos} : m.by = who}
  IN /\ \A q \in Calls :
          /\ calls[q].at \in {"new", "asking", "failed"} => Left(q) = {}
          /\ \A m \in Left(q) : m.agent = calls[q].agent
          /\ calls[q].at = "completed" => erased # {} \/ {m.kind : m \in Left(q)} = {"history", "fact"}
     /\ \A o \in LandOps :
          LET writes == land[o].at = "completed" /\ land[o].kind \in {"patrol", "fortify", "claim"}
          IN Cardinality(Left(o)) <= IF writes THEN 1 ELSE 0

MemoriesSound == BestRemembered /\ AgentsApart /\ DoneIsRemembered
=============================================================================
