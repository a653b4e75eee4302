------------------------------- MODULE BootSeed -------------------------------
(***************************************************************************)
(* The boot seed (server/seed.ts): what a server writes to the database    *)
(* before it registers its rooms.  It is a list of statements without a    *)
(* transaction, most of them a look for a row followed by an insert.  Two  *)
(* servers may boot at once, a statement may fail (the server goes on      *)
(* without the rest), the process may die, and operators of a server that  *)
(* is already up write to the same tables.                                 *)
(*                                                                         *)
(* Rows are told apart by who wrote them.  An event hash is its position,  *)
(* and operators' writes, transactions of RoomStore, are single steps.     *)
(***************************************************************************)
EXTENDS Naturals, Sequences, FiniteSets

CONSTANTS
  Boots,        \* processes that boot, each once
  ReleaseOf,    \* the release, and with it the environment, of each
  SeedRooms,    \* ROOM_BACKBONE, in order
  Licences,     \* CAMP_LICENSE_SEED, in order
  Probed,       \* services recorded by recordServiceHealth
  MaxHalts,     \* failing statements and crashes (bound)
  MaxWrites     \* operators' writes (bound)

(* Every release names its environment, and no process is an operator.     *)
ASSUME BootSeedAssumption ==
  /\ Probed \in Nat \ {0} /\ MaxHalts \in Nat /\ MaxWrites \in Nat
  /\ Len(SeedRooms) \in Nat \ {0} /\ Len(Licences) \in Nat \ {0}
  /\ IsFiniteSet(Boots) /\ {"operator", "nobody"} \cap Boots = {} /\ \A b \in Boots : ReleaseOf[b] # "operator"

VARIABLES
  boot,         \* for each process: the statement it is at, a counter, what it read
  backbone,     \* for each room: its summary's author, its reasons and change events
  deployments,  \* releases of the rows of deployments
  probes,       \* rows of service_status, counted by process
  texts,        \* authors of the rows of camp_identity and camp_readme
  licences,     \* rows of camp_licenses per name, and who last replaced them
  chain,        \* evidence_events: type and previous event
  market,       \* the registry's status, intelligence rows, analyses
  boundary,     \* authors of the rows of system_boundary_state
  writes,       \* operators' writes so far, by subject
  raced,        \* subjects that two writers were at between a look and a write
  halts

seedVars == <<boot, backbone, deployments, probes, texts, licences, chain, market, boundary, writes, raced, halts>>
tables == <<backbone, deployments, probes, texts, licences, chain, market, boundary>>

Logs == <<"reasons", "changes">>
Texts == <<"identity", "readme">>
Subjects == {"rooms", "deployment", "texts", "licences", "chain", "market"}
Ended == {"waiting", "seeded", "failed", "crashed"}
Last(s) == s[Len(s)]
Nobody == "nobody"

(* The statements between a look at a subject and the end of its writes.   *)
Window(subject) ==
  CASE subject = "rooms" -> {"writeLog"}
    [] subject = "deployment" -> {"insertDeployment"}
    [] subject = "texts" -> {"insertText"}
    [] subject = "licences" -> {"insertLicence"}
    [] subject = "chain" -> {"genesis", "deployment", "service_check", "boot"}
    [] subject = "market" -> {"insertIntel"}

SeedInit ==
  /\ boot = [b \in Boots |-> [at |-> "waiting", n |-> 1, k |-> 1, seen |-> 0]]
  /\ \E old \in {"none", "legacy"} :
       backbone = [r \in 1 .. Len(SeedRooms) |->
                    [listed |-> FALSE, actions |-> FALSE, summary |-> old,
                     log |-> [l \in {"reasons", "changes"} |-> IF old = "none" THEN <<>> ELSE <<old>>]]]
  /\ deployments = <<>> /\ probes = [b \in Boots |-> 0]
  /\ texts = [t \in {"identity", "readme"} |-> <<>>]
  /\ licences = [rows |-> [l \in 1 .. Len(Licences) |-> 0], by |-> Nobody]
  /\ chain = <<>>
  /\ market = [source |-> "none", intel |-> 0, analyses |-> 0]
  /\ boundary = <<>>
  /\ writes = [s \in Subjects |-> 0] /\ raced = {} /\ halts = 0

-----------------------------------------------------------------------------
At(b, statement) == boot[b].at = statement

(* Process b comes to its next statement, which may be one of a window.    *)
MovesTo(b, state) ==
  /\ boot' = [boot EXCEPT ![b] = state]
  /\ raced' = raced \cup {s \in Subjects : Cardinality({c \in Boots : boot'[c].at \in Window(s)}) > 1}
  /\ UNCHANGED <<writes, halts>>

Goes(b, statement) == MovesTo(b, [boot[b] EXCEPT !.at = statement, !.k = 1])
Repeats(b, statement) == MovesTo(b, [boot[b] EXCEPT !.at = statement, !.k = @ + 1])
Room(b) == boot[b].n

(* seedBootData: nothing is written when the database does not answer.     *)
BootBegins(b) ==
  /\ At(b, "waiting")
  /\ \/ Goes(b, "registry")
     \/ Goes(b, "seeded")
  /\ UNCHANGED tables

RegisterRoom(b) ==
  /\ At(b, "registry")
  /\ backbone' = [backbone EXCEPT ![Room(b)].listed = TRUE]
  /\ Goes(b, "summary")
  /\ UNCHANGED <<deployments, probes, texts, licences, chain, market, boundary>>

(* Mutant: the upsert of the summary has no condition.                     *)
UpsertSummaryAlways(b) ==
  /\ At(b, "summary")
  /\ backbone' = [backbone EXCEPT ![Room(b)].summary = "runtime"]
  /\ Goes(b, "readLog")
  /\ UNCHANGED <<deployments, probes, texts, licences, chain, market, boundary>>

(* The summary is inserted, or replaces one an earlier seed left.          *)
UpsertSummary(b) ==
  /\ At(b, "summary")
  /\ backbone' = [backbone EXCEPT ![Room(b)].summary = IF @ \in {"none", "legacy"} THEN "runtime" ELSE @]
  /\ Goes(b, "readLog")
  /\ UNCHANGED <<deployments, probes, texts, licences, chain, market, boundary>>

Log(b) == Logs[boot[b].k]

(* After a log: the next one, or the room's actions.                       *)
AfterLog(b) == IF boot[b].k < Len(Logs) THEN Repeats(b, "readLog") ELSE Goes(b, "actions")

(* The newest reason (change event): absent, or left by an earlier seed?   *)
ReadLog(b) ==
  /\ At(b, "readLog")
  /\ LET rows == backbone[Room(b)].log[Log(b)]
     IN IF rows = <<>> \/ Last(rows) = "legacy"
        THEN MovesTo(b, [boot[b] EXCEPT !.at = "writeLog", !.seen = Len(rows)])
        ELSE AfterLog(b)
  /\ UNCHANGED tables

(* Mutant: the newest row is rewritten, whichever it is by now.            *)
WriteLogNewest(b) ==
  /\ At(b, "writeLog")
  /\ backbone' = [backbone EXCEPT ![Room(b)].log[Log(b)] =
                    IF @ = <<>> THEN <<"runtime">> ELSE [@ EXCEPT ![Len(@)] = "runtime"]]
  /\ AfterLog(b)
  /\ UNCHANGED <<deployments, probes, texts, licences, chain, market, boundary>>

(* ... a row is inserted, or the one that was read is rewritten by its id. *)
WriteLog(b) ==
  /\ At(b, "writeLog")
  /\ backbone' = [backbone EXCEPT ![Room(b)].log[Log(b)] =
                    IF boot[b].seen = 0 THEN Append(@, "runtime") ELSE [@ EXCEPT ![boot[b].seen] = "runtime"]]
  /\ AfterLog(b)
  /\ UNCHANGED <<deployments, probes, texts, licences, chain, market, boundary>>

UpsertActions(b) ==
  /\ At(b, "actions")
  /\ backbone' = [backbone EXCEPT ![Room(b)].actions = TRUE]
  /\ IF Room(b) < Len(SeedRooms) THEN MovesTo(b, [boot[b] EXCEPT !.at = "registry", !.n = @ + 1])
                                 ELSE Goes(b, "readDeployment")
  /\ UNCHANGED <<deployments, probes, texts, licences, chain, market, boundary>>

-----------------------------------------------------------------------------
(* recordDeployment                                                        *)
ReadDeployment(b) ==
  /\ At(b, "readDeployment")
  /\ IF \E i \in 1 .. Len(deployments) : deployments[i] = ReleaseOf[b] THEN Goes(b, "probe")
                                                                       ELSE Goes(b, "insertDeployment")
  /\ UNCHANGED tables

InsertDeployment(b) ==
  /\ At(b, "insertDeployment")
  /\ deployments' = Append(deployments, ReleaseOf[b])
  /\ Goes(b, "probe")
  /\ UNCHANGED <<backbone, probes, texts, licences, chain, market, boundary>>

(* recordServiceHealth: one row for each service, at every boot.           *)
ProbeService(b) ==
  /\ At(b, "probe")
  /\ probes' = [probes EXCEPT ![b] = @ + 1]
  /\ IF boot[b].k < Probed THEN Repeats(b, "probe") ELSE Goes(b, "readText")
  /\ UNCHANGED <<backbone, deployments, texts, licences, chain, market, boundary>>

-----------------------------------------------------------------------------
(* syncCampSnapshot; its upserts of documents, contacts and the note write *)
(* constants under fixed keys and are left out.                            *)
Text(b) == Texts[boot[b].k]
AfterText(b) == IF boot[b].k < Len(Texts) THEN Repeats(b, "readText") ELSE Goes(b, "deleteLicences")

(* The newest identity (readme) is compared with the environment's.        *)
TextIsOurs(b) == texts[Text(b)] # <<>> /\ Last(texts[Text(b)]) = ReleaseOf[b]

ReadText(b) ==
  /\ At(b, "readText")
  /\ IF TextIsOurs(b) THEN AfterText(b) ELSE MovesTo(b, [boot[b] EXCEPT !.at = "insertText"])
  /\ UNCHANGED tables

(* A look that fails counts as one that found nothing.                     *)
ReadTextFails(b) ==
  /\ At(b, "readText") /\ halts < MaxHalts
  /\ boot' = [boot EXCEPT ![b].at = "insertText"]
  /\ raced' = raced \cup {"texts"} /\ halts' = halts + 1
  /\ UNCHANGED <<tables, writes>>

InsertText(b) ==
  /\ At(b, "insertText")
  /\ texts' = [texts EXCEPT ![Text(b)] = Append(@, ReleaseOf[b])]
  /\ AfterText(b)
  /\ UNCHANGED <<backbone, deployments, probes, licences, chain, market, boundary>>

(* Mutant: the rows of an earlier boot stay.                               *)
DeleteLicencesOfOthers(b) ==
  /\ At(b, "deleteLicences")
  /\ licences' = [licences EXCEPT !.by = b]
  /\ Goes(b, "insertLicence")
  /\ UNCHANGED <<backbone, deployments, probes, texts, chain, market, boundary>>

DeleteLicences(b) ==
  /\ At(b, "deleteLicences")
  /\ licences' = [rows |-> [l \in DOMAIN licences.rows |-> 0], by |-> b]
  /\ Goes(b, "insertLicence")
  /\ UNCHANGED <<backbone, deployments, probes, texts, chain, market, boundary>>

InsertLicence(b) ==
  /\ At(b, "insertLicence")
  /\ licences' = [licences EXCEPT !.rows[boot[b].k] = @ + 1]
  /\ IF boot[b].k < Len(Licences) THEN Repeats(b, "insertLicence") ELSE Goes(b, "readHead")
  /\ UNCHANGED <<backbone, deployments, probes, texts, chain, market, boundary>>

-----------------------------------------------------------------------------
(* ensureEvidenceChain                                                     *)
BeforeAll == 0

ReadHead(b) ==
  /\ At(b, "readHead")
  /\ MovesTo(b, [boot[b] EXCEPT !.at = IF chain = <<>> THEN "genesis" ELSE "boot", !.seen = Len(chain)])
  /\ UNCHANGED tables

Follows == [genesis |-> "deployment", deployment |-> "service_check", service_check |-> "boot", boot |-> "readIntel"]

(* Mutant: every event of the first boot follows the head it read.         *)
AppendEventOnHead(b) ==
  /\ boot[b].at \in DOMAIN Follows
  /\ chain' = Append(chain, [type |-> boot[b].at, prev |-> boot[b].seen])
  /\ MovesTo(b, [boot[b] EXCEPT !.at = Follows[boot[b].at]])
  /\ UNCHANGED <<backbone, deployments, probes, texts, licences, market, boundary>>

(* appendEvidenceEvent: the row names the event before it by its hash; the *)
(* next one of this boot follows the one just inserted.                    *)
AppendEvent(b) ==
  /\ boot[b].at \in DOMAIN Follows
  /\ chain' = Append(chain, [type |-> boot[b].at, prev |-> boot[b].seen])
  /\ MovesTo(b, [boot[b] EXCEPT !.at = Follows[boot[b].at], !.seen = Len(chain')])
  /\ UNCHANGED <<backbone, deployments, probes, texts, licences, market, boundary>>

-----------------------------------------------------------------------------
(* syncMarketSnapshot, after the upserts of the target and its sources:    *)
(* the target's summary becomes intelligence unless it already is ...      *)
ReadIntel(b) ==
  /\ At(b, "readIntel")
  /\ IF market.intel > 0 THEN Goes(b, "readTargets") ELSE Goes(b, "insertIntel")
  /\ UNCHANGED tables

InsertIntel(b) ==
  /\ At(b, "insertIntel")
  /\ market' = [market EXCEPT !.intel = @ + 1]
  /\ Goes(b, "readTargets")
  /\ UNCHANGED <<backbone, deployments, probes, texts, licences, chain, boundary>>

(* ... and the registry is connected and analysed: it has a target, which  *)
(* was upserted above.  A failure in here is caught and disconnects it.    *)
ReadTargets(b) ==
  /\ At(b, "readTargets")
  /\ \/ Goes(b, "connect")
     \/ /\ halts < MaxHalts
        /\ boot' = [boot EXCEPT ![b].at = "disconnect"] /\ halts' = halts + 1
        /\ UNCHANGED <<raced, writes>>
  /\ UNCHANGED tables

ConnectRegistry(b) ==
  /\ At(b, "connect")
  /\ market' = [market EXCEPT !.source = "connected"]
  /\ Goes(b, "analyse")
  /\ UNCHANGED <<backbone, deployments, probes, texts, licences, chain, boundary>>

DisconnectRegistry(b) ==
  /\ At(b, "disconnect")
  /\ market' = [market EXCEPT !.source = "disconnected"]
  /\ Goes(b, "boundary")
  /\ UNCHANGED <<backbone, deployments, probes, texts, licences, chain, boundary>>

Analyse(b) ==
  /\ At(b, "analyse")
  /\ market' = [market EXCEPT !.analyses = @ + 1]
  /\ Goes(b, "boundary")
  /\ UNCHANGED <<backbone, deployments, probes, texts, licences, chain, boundary>>

(* syncSystemStateSnapshot: the environment's boundary becomes the newest; *)
(* the isolation row is overwritten with constants.                        *)
InsertBoundary(b) ==
  /\ At(b, "boundary")
  /\ boundary' = Append(boundary, b)
  /\ Goes(b, "seeded")
  /\ UNCHANGED <<backbone, deployments, probes, texts, licences, chain, market>>

-----------------------------------------------------------------------------
(* A statement fails: inside the analysis that disconnects the registry,   *)
(* anywhere else the boot goes on without the rest of the seed.  Or the    *)
(* process ends.                                                           *)
BootHalts(b) ==
  /\ boot[b].at \notin Ended /\ halts < MaxHalts
  /\ \/ boot' = [boot EXCEPT ![b].at = "crashed"]
     \/ boot' = [boot EXCEPT ![b].at = IF @ \in {"connect", "analyse"} THEN "disconnect" ELSE "failed"]
  /\ halts' = halts + 1
  /\ UNCHANGED <<tables, writes, raced>>

Writes(subject) ==
  /\ writes[subject] = 0 /\ \E b \in Boots : boot[b].at \in Ended \ {"waiting", "crashed"}
  /\ Cardinality({s \in Subjects : writes[s] > 0}) < MaxWrites
  /\ writes' = [writes EXCEPT ![subject] = @ + 1]
  /\ raced' = raced \cup {s \in {subject} : \E b \in Boots : boot[b].at \in Window(s)}
  /\ UNCHANGED <<boot, halts>>

(* An operator acts in a room, refreshes the identity and the readme, or   *)
(* replaces the licences, on a server that is up.                          *)
ActInRoom(r) ==
  /\ Writes("rooms")
  /\ backbone' = [backbone EXCEPT ![r].summary = "operator",
                                  ![r].log = [l \in DOMAIN @ |-> Append(@[l], "operator")]]
  /\ UNCHANGED <<deployments, probes, texts, licences, chain, market, boundary>>

ReplaceTexts ==
  /\ Writes("texts")
  /\ texts' = [t \in DOMAIN texts |-> Append(texts[t], "operator")]
  /\ UNCHANGED <<backbone, deployments, probes, licences, chain, market, boundary>>

ReplaceLicences ==
  /\ Writes("licences")
  /\ \E kept \in SUBSET DOMAIN licences.rows :
       licences' = [rows |-> [l \in DOMAIN licences.rows |-> IF l \in kept THEN 1 ELSE 0], by |-> "operator"]
  /\ UNCHANGED <<backbone, deployments, probes, texts, chain, market, boundary>>

SeedNext ==
  \/ \E b \in Boots :
       \/ BootBegins(b) \/ RegisterRoom(b) \/ UpsertSummary(b) \/ ReadLog(b) \/ WriteLog(b) \/ UpsertActions(b)
       \/ ReadDeployment(b) \/ InsertDeployment(b) \/ ProbeService(b)
       \/ ReadText(b) \/ ReadTextFails(b) \/ InsertText(b) \/ DeleteLicences(b) \/ InsertLicence(b)
       \/ ReadHead(b) \/ AppendEvent(b)
       \/ ReadIntel(b) \/ InsertIntel(b) \/ ReadTargets(b) \/ ConnectRegistry(b) \/ DisconnectRegistry(b)
       \/ Analyse(b) \/ InsertBoundary(b) \/ BootHalts(b)
  \/ \E r \in DOMAIN backbone : ActInRoom(r)
  \/ ReplaceTexts \/ ReplaceLicences

SeedSpec == SeedInit /\ [][SeedNext]_seedVars

-----------------------------------------------------------------------------
(* GET /api/evidence/chain/verify over the whole table.                    *)
ChainVerified ==
  \A i \in 1 .. Len(chain) : chain[i].prev = (IF i = 1 THEN BeforeAll ELSE i - 1)

(* Boots that do not overlap at the chain leave one that verifies and has  *)
(* one genesis, wherever earlier ones broke off; overlapping ones make it  *)
(* a tree, whose events still follow one inserted before (seed.ts:758).    *)
ChainGrows ==
  /\ "chain" \notin raced => ChainVerified
  /\ \A i \in 1 .. Len(chain) : chain[i].prev < i /\ (chain[i].type = "genesis" <=> chain[i].prev = BeforeAll)

(* What operators wrote stays: their summary, and each of their reasons    *)
(* and change events; the newest reason explains their summary unless the  *)
(* boot looked before they wrote (seed.ts:297-365).                        *)
OperatorsKept ==
  /\ writes["rooms"] > 0 =>
       \E r \in DOMAIN backbone :
         /\ backbone[r].summary = "operator"
         /\ \A l \in {"reasons", "changes"} : Cardinality({i \in 1 .. Len(backbone[r].log[l]) :
                                                             backbone[r].log[l][i] = "operator"}) = 1
  /\ "rooms" \notin raced =>
       \A r \in DOMAIN backbone, l \in {"reasons", "changes"} :
         backbone[r].summary = "operator" => Last(backbone[r].log[l]) = "operator"

(* A look before a write keeps the row single unless two writers look at   *)
(* once, or a look fails (seed.ts:40,430,571); probes and analyses are repeated each time.  *)
RowsSingle ==
  /\ "deployment" \notin raced =>
       \A i, j \in 1 .. Len(deployments) : deployments[i] = deployments[j] => i = j
  /\ "market" \notin raced => market.intel <= 1
  /\ "texts" \notin raced =>
       \A t \in DOMAIN texts : \A i \in 2 .. Len(texts[t]) : texts[t][i] # texts[t][i - 1]

(* Once the boot that last replaced the licences is through, each of them  *)
(* is listed, and once unless two writers were at it; one that breaks off  *)
(* in between leaves some out (seed.ts:476-488).                           *)
LicencesListed ==
  licences.by \in Boots /\ boot[licences.by].at \notin {"insertLicence", "failed", "crashed"}
    => \A l \in DOMAIN licences.rows :
         licences.rows[l] >= 1 /\ ("licences" \notin raced => licences.rows[l] = 1)

(* A boot that ends has made up for whatever earlier ones left out.        *)
SeededIsComplete ==
  \A b \in Boots : At(b, "seeded") /\ probes[b] > 0 =>
    /\ \A r \in DOMAIN backbone :
         /\ backbone[r].listed /\ backbone[r].actions /\ backbone[r].summary \in {"runtime", "operator"}
         /\ \A l \in {"reasons", "changes"} :
              backbone[r].log[l] # <<>> /\ Last(backbone[r].log[l]) # "legacy"
    /\ \E i \in 1 .. Len(deployments) : deployments[i] = ReleaseOf[b]
    /\ probes[b] = Probed /\ market.intel >= 1
    /\ \E i \in 1 .. Len(chain) : chain[i].type = "boot"
    /\ \E i \in 1 .. Len(boundary) : boundary[i] = b

(* What the boot seed leaves, next to other boots, operators and faults.   *)
SeedingSound == ChainGrows /\ OperatorsKept /\ RowsSingle /\ LicencesListed /\ SeededIsComplete
=============================================================================
