--------------------------- MODULE StationEngines ---------------------------
(***************************************************************************)
(* The layer engines, which look at the station, then the server nodes     *)
(* over the AI room's managers.                                            *)
(***************************************************************************)
EXTENDS Naturals, Sequences, FiniteSets, FiniteSetsExt

(***************************************************************************)
(* The layer engines and server nodes of the station (ENGINES/ceo): a      *)
(* request looks at files, processes and sockets of the station, some at   *)
(* once and some one after the other, and computes a verdict from what it  *)
(* saw.  The station changes meanwhile: nothing of it is locked.           *)
(*                                                                         *)
(* What can be looked at is an item with a small domain of values, and any *)
(* look may fail, because a file cannot be read or a program takes longer  *)
(* than its two seconds: then it finds "unreadable", whatever is there,    *)
(* and each engine has its own way to go on without.  Texts and catalogues *)
(* that are constants of the code are left out.                            *)
(***************************************************************************)

CONSTANTS
  EngineRequests,  \* requests, each asks one engine for one operation
  ActionHashes,    \* hashes a caller may ask about
  StationServices, \* processes the system engine looks for
  MaxMoves         \* changes of the station during the requests (bound)

VARIABLES
  station,      \* the value of each item
  looked,       \* for each request: operation, hash, what it saw, and what was there to see
  moves

stationVars == <<station, looked, moves>>

-----------------------------------------------------------------------------
Gates == {"evidence_layer", "command_backbone", "vyrdox_hidden_root", "policy_layer"}

Readings == {"seal", "load", "journal", "head", "tenderly", "hookdeck", "volume", "pipeline", "receipts", "feedback"}

Items == Gates \cup ActionHashes \cup StationServices \cup Readings

(* A hash, a process and a file are different things to look at.           *)
ASSUME StationAssumption ==
  /\ MaxMoves \in Nat /\ IsFiniteSet(StationServices)
  /\ ActionHashes \cap StationServices = {} /\ (ActionHashes \cup StationServices) \cap (Gates \cup Readings) = {}

(* hookdeck is how many processes match, at least one: "echo 0" prints a   *)
(* line; volume is how many commands the journal's last hour has.          *)
Values(item) ==
  CASE item \in Gates -> {"present", "absent"}
    [] item \in ActionHashes -> {"unlisted", "off", "on"}
    [] item \in StationServices -> {"online", "offline"}
    [] item = "seal" -> {"off", "on"}
    [] item = "load" -> {"fine", "high"}
    [] item = "journal" -> {"missing", "empty", "lines"}
    [] item \in {"head", "tenderly"} -> {"present", "absent"}
    [] item = "hookdeck" -> {"one", "three", "five"}
    [] item = "volume" -> {"none", "few", "many"}
    [] item = "pipeline" -> {"none", "fine", "down"}
    [] item \in {"receipts", "feedback"} -> {"none", "some"}

Operations == {"check", "seal", "verify", "gate", "trust", "system", "audit", "market", "commercial",
               "campaign", "evidence"}

(* The looks of an operation: one set after the other, those of a set at   *)
(* once.  A look at a journal that is repeated is a stage of its own.      *)
Stages(op, h) ==
  CASE op = "check"      -> <<Gates, {"seal"}>>
    [] op = "seal"       -> <<>>
    [] op = "verify"     -> <<{h}>>
    [] op = "evidence"   -> <<{h}>>
    [] op = "gate"       -> <<Gates, {"seal"}, {h}>>
    [] op = "trust"      -> <<{"seal"}>>
    [] op = "system"     -> <<StationServices, {"load"}>>
    [] op = "audit"      -> <<{"journal"}, {"head"}, {"journal"}>>
    [] op = "market"     -> <<{"tenderly"}, {"hookdeck"}, {"volume"}>>
    [] op = "commercial" -> <<{"pipeline"}, {"receipts"}>>
    [] op = "campaign"   -> <<{"journal"}, {"feedback"}>>

ItemsOf(op, h) == UNION {Stages(op, h)[n] : n \in 1 .. Len(Stages(op, h))}

NoLooks == [i \in {} |-> {}]
Unasked == [at |-> "new", op |-> "none", hash |-> "none", saw |-> <<>>, sees |-> NoLooks, there |-> NoLooks,
            verdict |-> "none"]

StationInit ==
  /\ station = NoLooks
  /\ looked = [q \in EngineRequests |-> Unasked]
  /\ moves = 0

-----------------------------------------------------------------------------
(* Verdicts; saw[n] is what the looks of stage n found.                    *)
Ready(saw) == \A g \in Gates : saw[1][g] = "present"

(* Mutant: the station's own seal is not asked for.                        *)
GateVerdictUnsealed(h, saw) ==
  IF ~Ready(saw) THEN "SYSTEM_NOT_READY"
  ELSE IF Len(saw) < 3 THEN "passed"
  ELSE CASE saw[3][h] = "on" -> "passed"
         [] saw[3][h] = "off" -> "SEAL_NOT_ENGAGED"
         [] saw[3][h] = "unlisted" -> "ACTION_NOT_IN_SEAL_REGISTRY"
         [] saw[3][h] = "unreadable" -> "SEAL_REGISTRY_NOT_ACCESSIBLE"

GateVerdict(h, saw) ==
  IF ~Ready(saw) THEN "SYSTEM_NOT_READY"
  ELSE IF saw[2]["seal"] # "on" THEN "EXECUTION_SEAL_NOT_ENGAGED"
  ELSE CASE saw[3][h] = "on" -> "passed"
         [] saw[3][h] = "off" -> "SEAL_NOT_ENGAGED"
         [] saw[3][h] = "unlisted" -> "ACTION_NOT_IN_SEAL_REGISTRY"
         [] saw[3][h] = "unreadable" -> "SEAL_REGISTRY_NOT_ACCESSIBLE"

(* Mutant: one service too many may be offline.                            *)
SystemVerdictLenient(saw) ==
  LET offline == Cardinality({s \in StationServices : saw[1][s] # "online"})
  IN CASE offline > 3 -> "red"
       [] offline \in 1 .. 3 -> "yellow"
       [] OTHER -> IF saw[2]["load"] = "high" THEN "yellow" ELSE "green"

(* A process that could not be looked for is offline; what could not be    *)
(* read of the load is 0.                                                  *)
SystemVerdict(saw) ==
  LET offline == Cardinality({s \in StationServices : saw[1][s] # "online"})
  IN CASE offline > 2 -> "red"
       [] offline \in 1 .. 2 -> "yellow"
       [] OTHER -> IF saw[2]["load"] = "high" THEN "yellow" ELSE "green"

(* verifyHashChain hashes the parsed line, an object: createHash throws,   *)
(* the catch reports the line as broken.  Only an empty journal is valid.  *)
AuditVerdict(saw) == IF saw[3]["journal"] = "empty" THEN "valid" ELSE "broken"

(* The strengths of the market's signals; the feedback cloud's is 6.       *)
Strength == [one |-> 2, three |-> 6, five |-> 10, none |-> 0, few |-> 1, many |-> 10, unreadable |-> 0]

(* What the signals add up to, and how many there are: one that cannot be  *)
(* read is none.                                                           *)
Strengths(saw) ==
  LET tenderly == IF saw[1]["tenderly"] = "present" THEN 1 ELSE 0
      hookdeck == IF saw[2]["hookdeck"] = "unreadable" THEN 0 ELSE 1
      volume == IF saw[3]["volume"] \in {"none", "unreadable"} THEN 0 ELSE 1
  IN [total |-> 7 * tenderly + Strength[saw[2]["hookdeck"]] + 6 + Strength[saw[3]["volume"]],
      count |-> tenderly + hookdeck + 1 + volume]

(* The average is compared without dividing.                               *)
MarketVerdict(saw) ==
  LET s == Strengths(saw)
  IN CASE s.total >= 5 * s.count -> "ACCELERATE_GTM"
       [] s.total >= 3 * s.count /\ s.total < 5 * s.count -> "CONTINUE_EXECUTION"
       [] s.total >= s.count /\ s.total < 3 * s.count -> "MONITOR_DEMAND"
       [] OTHER -> "HOLD_POSITION"

(* A pipeline that cannot be read has nothing down in it, receipts that    *)
(* cannot be read are none.                                                *)
CommercialVerdict(saw) ==
  IF saw[2]["receipts"] = "some" /\ saw[1]["pipeline"] # "down" THEN "green" ELSE "yellow"

(* Two campaigns are always active; signals are lines and feedback.        *)
CampaignVerdict(saw) ==
  IF saw[1]["journal"] # "lines" /\ saw[2]["feedback"] # "some" THEN "yellow" ELSE "green"

Verdict(op, h, saw) ==
  CASE op = "check"      -> IF Ready(saw) THEN "READY" ELSE "NOT_READY"
    [] op = "seal"       -> "sealed"
    [] op \in {"verify", "evidence"} -> IF saw[1][h] = "on" THEN "valid" ELSE "invalid"
    [] op = "gate"       -> GateVerdict(h, saw)
    [] op = "trust"      -> IF saw[1]["seal"] = "on" THEN "trusted" ELSE "SEAL_NOT_ENGAGED"
    [] op = "system"     -> SystemVerdict(saw)
    [] op = "audit"      -> AuditVerdict(saw)
    [] op = "market"     -> MarketVerdict(saw)
    [] op = "commercial" -> CommercialVerdict(saw)
    [] op = "campaign"   -> CampaignVerdict(saw)

(* performGateCheck stops where it knows that it blocks.                   *)
Over(op, saw) ==
  op = "gate" /\ Len(saw) = 2 /\ (~Ready(saw) \/ saw[2]["seal"] # "on")

-----------------------------------------------------------------------------
(* A request finds the station in any state.                               *)
Ask(q, op, h) ==
  LET items == ItemsOf(op, h)
  IN /\ looked[q].at = "new" /\ \A p \in EngineRequests : looked[p].at # "looking"
     /\ \E values \in [items -> UNION {Values(i) : i \in items}] :
          /\ \A i \in items : values[i] \in Values(i)
          /\ station' = values
          /\ looked' = [looked EXCEPT ![q] = [Unasked EXCEPT !.at = "looking", !.op = op, !.hash = h,
                                                             !.there = [i \in items |-> {values[i]}]]]
     /\ UNCHANGED moves

Stage(q) == Stages(looked[q].op, looked[q].hash)[Len(looked[q].saw) + 1]

(* One of the looks of a stage, in any order; the last ends it.  A look    *)
(* finds what is there or fails, which is noted with what was there.       *)
Look(q, i) ==
  LET r == looked[q]
      sees(found) == [j \in DOMAIN r.sees \cup {i} |-> IF j = i THEN found ELSE r.sees[j]]
      seen(found) == [r EXCEPT !.there[i] = @ \cup {found}]
  IN /\ r.at = "looking" /\ Len(r.saw) < Len(Stages(r.op, r.hash)) /\ ~Over(r.op, r.saw)
     /\ i \in Stage(q) \ DOMAIN r.sees
     /\ \E found \in {station[i], "unreadable"} :
          looked' = [looked EXCEPT ![q] = IF DOMAIN sees(found) = Stage(q)
                                          THEN [seen(found) EXCEPT !.saw = Append(@, sees(found)), !.sees = NoLooks]
                                          ELSE [seen(found) EXCEPT !.sees = sees(found)]]
     /\ UNCHANGED <<station, moves>>

AnswerRequest(q) ==
  LET r == looked[q]
  IN /\ r.at = "looking" /\ (Len(r.saw) = Len(Stages(r.op, r.hash)) \/ Over(r.op, r.saw))
     /\ looked' = [looked EXCEPT ![q].at = "answered", ![q].verdict = Verdict(r.op, r.hash, r.saw)]
     /\ UNCHANGED <<station, moves>>

(* The station moves: files come and go, processes end, seals are listed.  *)
Moves(i) ==
  /\ moves < MaxMoves
  /\ \E v \in Values(i) \ {station[i]} :
       /\ station' = [station EXCEPT ![i] = v]
       /\ looked' = [q \in EngineRequests |-> IF looked[q].at = "looking"
                                              THEN [looked[q] EXCEPT !.there[i] = @ \cup {v}] ELSE looked[q]]
  /\ moves' = moves + 1

StationNext ==
  \/ \E q \in EngineRequests : \E op \in Operations, h \in ActionHashes : Ask(q, op, h)
  \/ \E q \in EngineRequests : AnswerRequest(q) \/ \E i \in DOMAIN station : Look(q, i)
  \/ \E i \in DOMAIN station : Moves(i)

StationSpec == StationInit /\ [][StationNext]_stationVars

-----------------------------------------------------------------------------
Was(q, i, v) == v \in looked[q].there[i]
Unread(q, i) == Was(q, i, "unreadable")
OnlyWas(q, i, v) == looked[q].there[i] = {v}
Answers(op) == {q \in EngineRequests : looked[q].at = "answered" /\ looked[q].op = op}

(* The gate passes an action only if, each at some moment of the request,  *)
(* every path was there, the station sealed and the action listed as       *)
(* sealed; it blocks for something that was so at some moment or could not *)
(* be read; and when all were in place throughout and every look           *)
(* succeeded, it passes (ceo/index.ts:999-1016).                           *)
GateExplained ==
  \A q \in Answers("gate") :
    LET h == looked[q].hash
        verdict == looked[q].verdict
    IN CASE verdict = "passed" -> /\ \A g \in Gates : Was(q, g, "present")
                                  /\ Was(q, "seal", "on") /\ Was(q, h, "on")
         [] verdict = "SYSTEM_NOT_READY" -> \E g \in Gates : Was(q, g, "absent") \/ Unread(q, g)
         [] verdict = "EXECUTION_SEAL_NOT_ENGAGED" -> Was(q, "seal", "off") \/ Unread(q, "seal")
         [] OTHER -> ~OnlyWas(q, h, "on")

(* A node is trusted only if the station was sealed.  Of a green station   *)
(* every process was there at some moment, of a yellow one all but two at  *)
(* most, but its load and the pipeline may be bad when they could not be   *)
(* read; red and yellow are for something that was wrong at some moment or *)
(* could not be looked at (ceo/index.ts:496-575,1067-1141).                *)
ReportsExplained ==
  /\ \A q \in Answers("trust") : looked[q].verdict = "trusted" => Was(q, "seal", "on")
  /\ \A q \in Answers("system") :
       LET down == {s \in StationServices : Was(q, s, "offline") \/ Unread(q, s)}
           up == {s \in StationServices : Was(q, s, "online")}
       IN CASE looked[q].verdict = "green" -> up = StationServices /\ (Was(q, "load", "fine") \/ Unread(q, "load"))
            [] looked[q].verdict = "yellow" ->
                 (down # {} \/ Was(q, "load", "high")) /\ Cardinality(StationServices \ up) <= 2
            [] looked[q].verdict = "red" -> Cardinality(down) >= 3
  /\ \A q \in Answers("commercial") :
       IF looked[q].verdict = "green" THEN Was(q, "receipts", "some") /\ ~OnlyWas(q, "pipeline", "down")
       ELSE Was(q, "receipts", "none") \/ Unread(q, "receipts") \/ Was(q, "pipeline", "down")

(* The market engine's signals never average below 3: it never recommends  *)
(* to monitor or to hold; a hash chain that has a line is never valid.     *)
NeverSaid ==
  /\ \A q \in Answers("market") : looked[q].verdict \in {"ACCELERATE_GTM", "CONTINUE_EXECUTION"}
  /\ \A q \in Answers("audit") : looked[q].verdict = "valid" => Was(q, "journal", "empty")

(* What the engines report is explained by what they looked at.            *)
StationSound == GateExplained /\ ReportsExplained /\ NeverSaid

-----------------------------------------------------------------------------
(***************************************************************************)
(* The server nodes of the station (ENGINES/ceo/index.ts) over the AI      *)
(* room's managers: chat sessions, the vector server with its collections  *)
(* in memory (ai/embeddings), retrieval with documents and the audit       *)
(* journal, completions, translations, and the servers that forward a      *)
(* request to a lane.  Every fetch is an await: requests interleave, the   *)
(* journal grows, a fetch fails, the process restarts with nothing.        *)
(*                                                                         *)
(* A text is a model value; how alike a document and the queries are is a  *)
(* constant.  Session ids are the millisecond they are made in.            *)
(***************************************************************************)

CONSTANTS
  ServerRequests,  \* requests, numbered in the order they arrive
  Contents,           \* contents of documents
  Likeness,        \* [Contents -> Nat]: the score of a document for the queries
  MaxTicks,        \* milliseconds (bound)
  MaxLines,        \* lines of the audit journal (bound)
  MaxMischief      \* failing fetches and restarts (bound)

ASSUME ServersAssumption ==
  /\ Likeness \in [Contents -> Nat] /\ MaxTicks \in Nat /\ MaxLines \in Nat /\ MaxMischief \in Nat

VARIABLES
  serving,   \* the requests
  docs,      \* for each collection, its documents in the order they were added
  sessions,  \* who made the session of each id
  lines,     \* how many lines the audit journal has
  tick,
  mischief

serversVars == <<serving, docs, sessions, lines, tick, mischief>>

Collections == {"default", "other"}

(* The awaits of a request, in order; "embed" and "infer" ask a model;     *)
(* "guess" is a translation whose caller does not name the language, which *)
(* is asked for afterwards.                                                *)
Awaits ==
  [session   |-> <<"open">>,
   look      |-> <<"get">>,
   embed     |-> <<"embed">>,
   index     |-> <<"embed", "add">>,
   search    |-> <<"embed", "find">>,
   retrieve  |-> <<"embed", "find", "journal">>,
   ask       |-> <<"embed", "find", "journal", "infer">>,
   chat      |-> <<"infer">>,
   translate |-> <<"infer">>,
   guess     |-> <<"infer", "detect">>,
   forward   |-> <<"forward">>]

(* What a request reads or writes; those of the last two write nothing.    *)
Family(op) == CASE op \in {"session", "look"} -> "sessions"
                [] op \in {"index", "search", "retrieve", "ask"} -> "documents"
                [] OTHER -> "nothing"
Readers == {"search", "retrieve", "ask", "look"}

(* What a body must name a text for.                                       *)
Needing == {"index", "ask", "chat", "translate", "guess", "embed"}

Idle == [op |-> "none", text |-> "none", space |-> "default", k |-> 0, least |-> 0, at |-> 0, out |-> "new",
         id |-> 0, found |-> <<>>, context |-> <<>>, before |-> {}, seen |-> 0]

ServersInit ==
  /\ serving = [q \in ServerRequests |-> Idle]
  /\ docs = [s \in Collections |-> <<>>]
  /\ sessions = [t \in {} |-> 0]
  /\ lines \in {0, 2}
  /\ tick = 0
  /\ mischief = [fetches |-> 0, restarts |-> 0]

-----------------------------------------------------------------------------
By(s) == {docs[s][n].by : n \in DOMAIN docs[s]}

(* A request arrives, its body complete and read.  A body without what it  *)
(* must name is answered 400.  Bounds that lose nothing: the requests of a *)
(* behaviour are of one family, one of them at most only reads, and one    *)
(* that is answered 400 comes last.                                        *)
Arrive(q, r) ==
  /\ serving[q].out = "new" /\ \A p \in ServerRequests : p < q => serving[p].out # "new"
  /\ \A p \in ServerRequests : p < q =>
       /\ Family(serving[p].op) = Family(r.op) /\ Family(r.op) # "nothing"
       /\ ~(serving[p].op \in Readers /\ r.op \in Readers) /\ serving[p].out # "bad"
  /\ serving' = [serving EXCEPT ![q] = [r EXCEPT !.at = 1, !.before = By(r.space),
                   !.out = IF r.text = "none" /\ r.op \in Needing THEN "bad" ELSE "asked"]]
  /\ UNCHANGED <<docs, sessions, lines, tick, mischief>>

AtAwait(q, await) == serving[q].out = "asked" /\ Awaits[serving[q].op][serving[q].at] = await
ServedOn(q, r) ==
  serving' = [serving EXCEPT ![q] = IF r.at < Len(Awaits[r.op]) THEN [r EXCEPT !.at = @ + 1] ELSE [r EXCEPT !.out = "ok"]]
Ends(q, out) == serving' = [serving EXCEPT ![q].out = out]

-----------------------------------------------------------------------------
(* POST /v1/sessions: a session of the same millisecond is replaced.       *)
OpenSession(q) ==
  /\ AtAwait(q, "open")
  /\ sessions' = [t \in DOMAIN sessions \cup {tick} |-> IF t = tick THEN q ELSE sessions[t]]
  /\ ServedOn(q, [serving[q] EXCEPT !.id = tick])
  /\ UNCHANGED <<docs, lines, tick, mischief>>

(* GET /v1/sessions/:id, of a session that was answered to the request k.  *)
GetSession(q) ==
  LET id == serving[serving[q].k].id
  IN /\ AtAwait(q, "get")
     /\ IF id \in DOMAIN sessions THEN ServedOn(q, [serving[q] EXCEPT !.seen = sessions[id]]) ELSE Ends(q, "missing")
     /\ UNCHANGED <<docs, sessions, lines, tick, mischief>>

(* EmbeddingsManager.embed: a fetch of the provider.                       *)
Embed(q) == AtAwait(q, "embed") /\ ServedOn(q, serving[q]) /\ UNCHANGED <<docs, sessions, lines, tick, mischief>>

(* Mutant: the document goes into the default collection.                  *)
AddDefault(q) ==
  /\ AtAwait(q, "add")
  /\ docs' = [docs EXCEPT !["default"] = Append(@, [by |-> q, text |-> serving[q].text])]
  /\ ServedOn(q, serving[q])
  /\ UNCHANGED <<sessions, lines, tick, mischief>>

(* embedAndStore, after its await.                                         *)
Add(q) ==
  /\ AtAwait(q, "add")
  /\ docs' = [docs EXCEPT ![serving[q].space] = Append(@, [by |-> q, text |-> serving[q].text])]
  /\ ServedOn(q, serving[q])
  /\ UNCHANGED <<sessions, lines, tick, mischief>>

(* Mutant: the first k in the order of the collection.                     *)
RankedInOrder(stored, k, least) ==
  LET fit == {n \in DOMAIN stored : Likeness[stored[n].text] >= least}
      Rank(n) == Cardinality({m \in fit : m <= n})
  IN [r \in 1 .. Min({k, Cardinality(fit)}) |-> stored[CHOOSE n \in fit : Rank(n) = r].by]

(* VectorStore.search: by score, those of one score in the order they were *)
(* added, and of these the first k.                                        *)
Ranked(stored, k, least) ==
  LET Score(n) == Likeness[stored[n].text]
      fit == {n \in DOMAIN stored : Score(n) >= least}
      Rank(n) == Cardinality({m \in fit : Score(m) > Score(n) \/ (Score(m) = Score(n) /\ m <= n)})
  IN [r \in 1 .. Min({k, Cardinality(fit)}) |-> stored[CHOOSE n \in fit : Rank(n) = r].by]

Find(q) ==
  LET r == serving[q]
  IN /\ AtAwait(q, "find")
     /\ ServedOn(q, [r EXCEPT !.found = Ranked(docs[r.space], r.k, r.least)])
     /\ UNCHANGED <<docs, sessions, lines, tick, mischief>>

(* assembleEvidenceContext: of the last 2k lines the first k.              *)
FromJournal(n, k) ==
  LET first == IF n > 2 * k THEN n - 2 * k + 1 ELSE 1
  IN [i \in 1 .. Min({k, n - first + 1}) |-> <<"line", first + i - 1>>]

(* Mutant: what the journal says comes before the documents.               *)
AssembledJournalFirst(r, n) ==
  LET evidence == FromJournal(n, IF r.op = "ask" THEN 3 ELSE r.k)
      all == evidence \o [i \in DOMAIN r.found |-> <<"doc", r.found[i]>>]
  IN SubSeq(all, 1, Min({r.k, Len(all)}))

(* The context: the documents found, then what the journal says, k at most.*)
Assembled(r, n) ==
  LET evidence == FromJournal(n, IF r.op = "ask" THEN 3 ELSE r.k)
      all == [i \in DOMAIN r.found |-> <<"doc", r.found[i]>>] \o evidence
  IN SubSeq(all, 1, Min({r.k, Len(all)}))

ReadJournal(q) ==
  LET r == serving[q]
  IN /\ AtAwait(q, "journal")
     /\ ServedOn(q, [r EXCEPT !.seen = lines, !.context = Assembled(r, lines)])
     /\ UNCHANGED <<docs, sessions, lines, tick, mischief>>

(* A completion of the inference manager; of a translation, the text.      *)
Infer(q) == AtAwait(q, "infer") /\ ServedOn(q, serving[q]) /\ UNCHANGED <<docs, sessions, lines, tick, mischief>>

(* translate: the language of the text, when the caller does not name it.  *)
Detect(q) == AtAwait(q, "detect") /\ ServedOn(q, serving[q]) /\ UNCHANGED <<docs, sessions, lines, tick, mischief>>

(* The gateway, the MCP router and the voice server pass on the answer of  *)
(* the lane; tools go to the lane their name speaks of.                    *)
LaneOf(server, tool) ==
  CASE server = "gateway" -> "control"
    [] server = "voice" -> "voice"
    [] server = "vector" -> "qdrant"
    [] server = "mcp" /\ tool \in {"calendar", "time", "time_voice"} -> "calendar"
    [] server = "mcp" /\ tool \in {"voice", "audio"} -> "voice"
    [] OTHER -> "linux"

Forward(q, tool) ==
  /\ AtAwait(q, "forward")
  /\ ServedOn(q, [serving[q] EXCEPT !.context = <<LaneOf(serving[q].text, tool)>>])
  /\ UNCHANGED <<docs, sessions, lines, tick, mischief>>

(* A fetch fails: 500, 502 or 503.  A journal that cannot be read is none. *)
FetchBreaks(q) ==
  /\ mischief.fetches + mischief.restarts < MaxMischief
  /\ \/ \E await \in {"embed", "infer", "detect", "forward"} : AtAwait(q, await) /\ Ends(q, "failed")
     \/ AtAwait(q, "journal") /\ ServedOn(q, [serving[q] EXCEPT !.context = Assembled(serving[q], 0)])
  /\ mischief' = [mischief EXCEPT !.fetches = @ + 1]
  /\ UNCHANGED <<docs, sessions, lines, tick>>

-----------------------------------------------------------------------------
(* Time passes between sessions.                                           *)
ServersTick ==
  /\ tick < MaxTicks /\ \E q \in ServerRequests : serving[q].op = "session"
  /\ tick' = tick + 1
  /\ UNCHANGED <<serving, docs, sessions, lines, mischief>>

(* The command bus audits a command while a request is on its way to read. *)
JournalGrows ==
  /\ lines < MaxLines /\ \E q \in ServerRequests : serving[q].op \in {"retrieve", "ask"} /\ serving[q].out = "asked"
  /\ lines' = lines + 1
  /\ UNCHANGED <<serving, docs, sessions, tick, mischief>>

(* Sessions and collections live in memory.                                *)
ServersRestart ==
  /\ mischief.fetches + mischief.restarts < MaxMischief /\ \E q \in ServerRequests : serving[q].out = "ok" \/ docs[serving[q].space] # <<>>
  /\ mischief' = [mischief EXCEPT !.restarts = @ + 1]
  /\ serving' = [q \in ServerRequests |-> IF serving[q].out = "asked" THEN [serving[q] EXCEPT !.out = "lost"] ELSE serving[q]]
  /\ docs' = [s \in Collections |-> <<>>]
  /\ sessions' = [t \in {} |-> 0]
  /\ UNCHANGED <<lines, tick>>

(* What callers ask for; "none" is a text that is missing.                 *)
Asks ==
  LET Of(op) == [Idle EXCEPT !.op = op]
      some == Contents \cup {"none"}
  IN {Of("session")} \cup {[Of(op) EXCEPT !.text = t] : op \in {"embed", "chat", "translate", "guess"}, t \in some}
     \cup {[Of("look") EXCEPT !.k = p] : p \in {r \in ServerRequests : serving[r].op = "session" /\ serving[r].out = "ok"}}
     \cup {[Of("index") EXCEPT !.text = t, !.space = s] : t \in Contents, s \in Collections}
     \cup {Of("index"), Of("ask")}
     \cup {[Of(op) EXCEPT !.text = "query", !.k = k] : op \in {"retrieve", "ask"}, k \in 1 .. 2}
     \cup {[Of("search") EXCEPT !.k = k, !.least = m] : k \in 1 .. 2, m \in {0, 2}}

ServersNext ==
  \/ \E q \in ServerRequests : \E r \in Asks : Arrive(q, r)
  \/ \E q \in ServerRequests, server \in {"gateway", "voice", "vector", "mcp"} :
       Arrive(q, [Idle EXCEPT !.op = "forward", !.text = server])
  \/ \E q \in ServerRequests :
       \/ OpenSession(q) \/ GetSession(q) \/ Embed(q) \/ Add(q) \/ Find(q) \/ ReadJournal(q)
       \/ Infer(q) \/ Detect(q) \/ FetchBreaks(q)
       \/ \E tool \in {"calendar", "time_voice", "audio", "systemctl"} : Forward(q, tool)
  \/ ServersTick \/ JournalGrows \/ ServersRestart

ServersSpec == ServersInit /\ [][ServersNext]_serversVars
-----------------------------------------------------------------------------
Served(ops) == {q \in ServerRequests : serving[q].op \in ops /\ serving[q].out = "ok"}
ScoreOf(p) == Likeness[serving[p].text]

(* A search finds, best first, at most k documents of its collection that  *)
(* are alike enough, and leaves out none that was there when it arrived    *)
(* unless k others are as good (ceo/index.ts:2278, embeddings/store.ts:33).*)
FoundBest ==
  \A q \in Served({"search", "retrieve", "ask"}) :
    LET r == serving[q]
        found == {r.found[n] : n \in DOMAIN r.found}
    IN /\ Len(r.found) <= r.k /\ Cardinality(found) = Len(r.found)
       /\ \A p \in found : serving[p].op = "index" /\ serving[p].space = r.space /\ ScoreOf(p) >= r.least
       /\ \A m, n \in DOMAIN r.found : m < n => ScoreOf(r.found[m]) >= ScoreOf(r.found[n])
       /\ \A p \in {b \in r.before : ScoreOf(b) >= r.least} \ found :
            Len(r.found) = r.k /\ \A f \in found : ScoreOf(f) >= ScoreOf(p)

(* A document whose index was answered is in its collection, until the     *)
(* process restarts.                                                       *)
IndexedStays ==
  mischief.restarts = 0 => \A q \in Served({"index"}) : q \in By(serving[q].space)

(* What is named as a source is in the context the answer was made from,   *)
(* which is k long at most and cites lines the journal had                 *)
(* (ceo/index.ts:2377,2414).                                               *)
ContextGrounded ==
  \A q \in Served({"retrieve", "ask"}) :
    LET r == serving[q]
    IN /\ Len(r.context) <= r.k
       /\ \A p \in DOMAIN r.found : r.context[p] = <<"doc", r.found[p]>>
       /\ \A n \in DOMAIN r.context \ DOMAIN r.found : r.context[n][1] = "line" /\ r.context[n][2] <= r.seen

(* A session that was answered is found, as its own unless another was     *)
(* opened in the same millisecond, until the process restarts.             *)
SessionsKept ==
  /\ \A q \in ServerRequests : serving[q].op = "look" /\ serving[q].out = "missing" => mischief.restarts > 0
  /\ \A q \in Served({"look"}) :
       serving[q].seen # serving[q].k => serving[serving[q].seen].id = serving[serving[q].k].id

(* Documents, contexts and sessions of the station's servers.              *)
ServersKept == FoundBest /\ IndexedStays /\ ContextGrounded /\ SessionsKept
=============================================================================
