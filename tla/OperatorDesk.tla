---------------------------- MODULE OperatorDesk ----------------------------
(***************************************************************************)
(* The operators' routes over the rooms' tables, then their bindings to    *)
(* the phase-2 backend.                                                    *)
(***************************************************************************)
EXTENDS Naturals, Sequences, FiniteSets

(***************************************************************************)
(* The operators' routes over commercial, operations, market and evidence  *)
(* tables (server/api/commercial.ts, operations.ts, market.ts, evidence.ts):*)
(* each request is a short list of statements without a transaction.  Two  *)
(* requests interleave, a statement may fail (the answer is 500, what was  *)
(* written stays), and jobs, invoices and targets change meanwhile.        *)
(*                                                                         *)
(* Rows are told apart by their position; of a summary only its counts are *)
(* kept, of an export how many events it holds.                            *)
(***************************************************************************)

CONSTANTS
  DeskRequests,  \* requests of operators, numbered in the order they are asked
  JobIds,        \* job runs of the customer and the period in question
  MaxDeskMoves,  \* changes by workers and rooms (bound)
  MaxDeskFaults  \* failing statements (bound)

ASSUME DeskAssumption == IsFiniteSet(JobIds) /\ MaxDeskMoves \in Nat /\ MaxDeskFaults \in Nat

VARIABLES
  table,   \* the tables
  desk,    \* the requests
  was,     \* for each request, the facts of each moment since it was asked
  tied,    \* incidents that two resolvers had read open before either wrote
  spent    \* moves and faults so far

deskVars == <<table, desk, was, tied, spent>>

JobStates == {"running", "succeeded", "failed", "dead", "retrying"}
BillStates == {"issued", "paid", "void"}

(* The statements of each route, in order.                                 *)
Script ==
  [receipt     |-> <<"readInvoice", "countJobs", "insertReceipt">>,
   stamp       |-> <<"countJobs", "insertStamp">>,
   listStamps  |-> <<"readStamps", "readSeals">>,
   stampDetail |-> <<"readStamp", "readSeal">>,
   issue       |-> <<"insertCertificate">>,
   revoke      |-> <<"updateCertificate">>,
   entitlement |-> <<"readCertificates">>,
   open        |-> <<"insertIncident">>,
   resolve     |-> <<"readIncident", "updateIncident">>,
   retry       |-> <<"readJob", "updateJob">>,
   metrics     |-> <<"countBoth">>,
   refresh     |-> <<"readTarget", "insertChange">>,
   intel       |-> <<"readTarget", "insertIntel", "insertChange">>,
   analyst     |-> <<"readTarget", "countIntel">>,
   export      |-> <<"readEvents", "insertExport">>,
   exported    |-> <<"readExport", "readEvents">>,
   customer    |-> <<"readEvents", "countEvents">>]

Routes == DOMAIN Script
Blank == [op |-> "none", row |-> 0, at |-> 0, seen |-> 0, also |-> 0, out |-> "new"]

DeskInit ==
  /\ \E bill \in {"issued", "paid"}, jobs \in [JobIds -> {"succeeded", "failed"}] :
       table = [bill |-> bill, jobs |-> jobs, target |-> TRUE, events |-> 1,
                receipts |-> <<>>, stamps |-> <<>>, certificates |-> <<"issued">>,
                incidents |-> <<[status |-> "open", notes |-> 0]>>,
                intel |-> <<>>, changes |-> <<>>, exports |-> <<1>>]
  /\ desk = [q \in DeskRequests |-> Blank]
  /\ was = [q \in DeskRequests |-> {}]
  /\ tied = {}
  /\ spent = [moves |-> 0, faults |-> 0]

-----------------------------------------------------------------------------
InStates(jobs, states) == Cardinality({j \in JobIds : jobs[j] \in states})

(* The counts of the job runs of the period, all of them and by status.    *)
Counts(jobs) == [total |-> Cardinality(JobIds), succeeded |-> InStates(jobs, {"succeeded"}),
                 failed |-> InStates(jobs, {"failed"})]

(* Mutant: some failed jobs do not keep a stamp from being "executed".     *)
StampStateLenient(counts) ==
  CASE counts.total = 0 -> "partial"
    [] counts.total > 0 /\ counts.failed = counts.total -> "failed"
    [] OTHER -> "executed"

(* The state of a stamp; jobs that run or are dead count as neither.       *)
StampState(counts) ==
  CASE counts.total = 0 -> "partial"
    [] counts.total > 0 /\ counts.failed = counts.total -> "failed"
    [] counts.failed \in 1 .. (counts.total - 1) -> "partial"
    [] OTHER -> "executed"

(* What a route's answer depends on.                                       *)
Facts(op, t) ==
  CASE op \in {"receipt", "stamp"} -> [bill |-> t.bill, jobs |-> t.jobs]
    [] op \in {"listStamps", "stampDetail"} -> [stamps |-> Len(t.stamps)]
    [] op = "metrics" -> [incidents |-> t.incidents]
    [] op = "entitlement" -> [certificates |-> t.certificates]
    [] op \in {"refresh", "intel", "analyst"} -> [target |-> t.target, intel |-> Len(t.intel)]
    [] OTHER -> [events |-> t.events]

(* The table after a step, and what each request that is on its way could  *)
(* have seen of it.                                                        *)
Stores(next) ==
  /\ table' = next
  /\ was' = [q \in DeskRequests |-> IF desk[q].out = "asked" THEN was[q] \cup {Facts(desk[q].op, next)} ELSE was[q]]

AtStatement(q, statement) == desk[q].out = "asked" /\ Script[desk[q].op][desk[q].at] = statement

(* The request goes on to its next statement, or answers after the last.   *)
OnWith(q, r) ==
  desk' = [desk EXCEPT ![q] = IF r.at < Len(Script[r.op]) THEN [r EXCEPT !.at = @ + 1] ELSE [r EXCEPT !.out = "done"]]
On(q) == OnWith(q, desk[q])
Says(q, out) == desk' = [desk EXCEPT ![q].out = out]
OnlyReads == UNCHANGED <<table, was, tied, spent>>

(* A request arrives; requests are asked in a fixed order, which loses     *)
(* nothing.  A row it names exists, or may exist by the time it looks.     *)
AskDesk(q, op, row) ==
  /\ desk[q].out = "new" /\ \A p \in DeskRequests : p < q => desk[p].out # "new"
  /\ desk' = [desk EXCEPT ![q] = [Blank EXCEPT !.op = op, !.row = row, !.at = 1, !.out = "asked"]]
  /\ was' = [was EXCEPT ![q] = {Facts(op, table)}]
  /\ UNCHANGED <<table, tied, spent>>

RowsOf(op) ==
  CASE op \in {"revoke"} -> 1 .. 2
    [] op = "resolve" -> 1 .. 2
    [] op = "exported" -> 1 .. 2
    [] OTHER -> {1}

-----------------------------------------------------------------------------
(* POST /api/commercial/receipts/generate                                  *)
(* Mutant: an invoice that is void has a receipt, too.                     *)
ReadInvoiceUnlessIssued(q) ==
  /\ AtStatement(q, "readInvoice")
  /\ IF table.bill = "issued" THEN Says(q, "refused") ELSE On(q)
  /\ OnlyReads

ReadInvoice(q) ==
  /\ AtStatement(q, "readInvoice")
  /\ IF table.bill # "paid" THEN Says(q, "refused") ELSE On(q)
  /\ OnlyReads

CountJobs(q) ==
  /\ AtStatement(q, "countJobs")
  /\ OnWith(q, [desk[q] EXCEPT !.seen = Counts(table.jobs).succeeded, !.also = Counts(table.jobs).failed])
  /\ OnlyReads

InsertReceipt(q) ==
  /\ AtStatement(q, "insertReceipt")
  /\ Stores([table EXCEPT !.receipts = Append(@, [by |-> q, succeeded |-> desk[q].seen])])
  /\ On(q)
  /\ UNCHANGED <<tied, spent>>

(* POST /api/commercial/stamps/generate                                    *)
InsertStamp(q) ==
  LET counts == [total |-> Cardinality(JobIds), succeeded |-> desk[q].seen, failed |-> desk[q].also]
  IN /\ AtStatement(q, "insertStamp")
     /\ Stores([table EXCEPT !.stamps = Append(@, [by |-> q, state |-> StampState(counts)])])
     /\ On(q)
     /\ UNCHANGED <<tied, spent>>

(* GET /api/commercial/stamps: the seals stand in when there is no stamp.  *)
ReadStamps(q) ==
  /\ AtStatement(q, "readStamps")
  /\ IF table.stamps # <<>> THEN Says(q, "done") ELSE On(q)
  /\ OnlyReads

ReadSeals(q) == AtStatement(q, "readSeals") /\ Says(q, "seals") /\ OnlyReads

(* GET /api/commercial/stamps/:id: a stamp, or a seal of that id; the ids  *)
(* of stamps are no ids of seals.                                          *)
ReadStamp(q) ==
  /\ AtStatement(q, "readStamp")
  /\ IF desk[q].row <= Len(table.stamps) THEN Says(q, "done") ELSE On(q)
  /\ OnlyReads

ReadSeal(q) == AtStatement(q, "readSeal") /\ Says(q, "missing") /\ OnlyReads

(* POST /api/commercial/actions: issue and revoke.                         *)
InsertCertificate(q) ==
  /\ AtStatement(q, "insertCertificate")
  /\ Stores([table EXCEPT !.certificates = Append(@, "issued")])
  /\ OnWith(q, [desk[q] EXCEPT !.seen = Len(table.certificates) + 1])
  /\ UNCHANGED <<tied, spent>>

UpdateCertificate(q) ==
  /\ AtStatement(q, "updateCertificate")
  /\ IF desk[q].row > Len(table.certificates)
     THEN Says(q, "missing") /\ OnlyReads
     ELSE /\ Stores([table EXCEPT !.certificates[desk[q].row] = "revoked"])
          /\ On(q)
          /\ UNCHANGED <<tied, spent>>

(* GET /api/commercial/entitlements/:id lists the licence's certificates.  *)
ReadCertificates(q) ==
  /\ AtStatement(q, "readCertificates")
  /\ OnWith(q, [desk[q] EXCEPT !.seen = Len(table.certificates),
                               !.also = Cardinality({n \in DOMAIN table.certificates : table.certificates[n] = "revoked"})])
  /\ OnlyReads

-----------------------------------------------------------------------------
InsertIncident(q) ==
  /\ AtStatement(q, "insertIncident")
  /\ Stores([table EXCEPT !.incidents = Append(@, [status |-> "open", notes |-> 0])])
  /\ On(q)
  /\ UNCHANGED <<tied, spent>>

(* POST /api/operations/incidents/:id/resolve                              *)
ReadIncident(q) ==
  LET n == desk[q].row
  IN /\ AtStatement(q, "readIncident")
     /\ CASE n > Len(table.incidents) -> Says(q, "missing") /\ tied' = tied
          [] n <= Len(table.incidents) /\ table.incidents[n].status = "resolved" ->
               Says(q, "refused") /\ tied' = tied
          [] OTHER -> /\ On(q)
                      /\ tied' = tied \cup {m \in {n} : \E p \in DeskRequests :
                                              AtStatement(p, "updateIncident") /\ desk[p].row = m}
     /\ UNCHANGED <<table, was, spent>>

(* ... the update has no condition on the status.                          *)
UpdateIncident(q) ==
  /\ AtStatement(q, "updateIncident")
  /\ Stores([table EXCEPT !.incidents[desk[q].row] = [status |-> "resolved", notes |-> @.notes + 1]])
  /\ On(q)
  /\ UNCHANGED <<tied, spent>>

(* POST /api/operations/jobs/:id/retry, whatever the job's status.         *)
ReadJob(q) == AtStatement(q, "readJob") /\ On(q) /\ OnlyReads

UpdateJob(q) ==
  /\ AtStatement(q, "updateJob")
  /\ \E j \in JobIds : Stores([table EXCEPT !.jobs[j] = "retrying"])
  /\ On(q)
  /\ UNCHANGED <<tied, spent>>

(* GET /api/operations/metrics: each of its queries is a single snapshot.  *)
CountBoth(q) ==
  /\ AtStatement(q, "countBoth")
  /\ OnWith(q, [desk[q] EXCEPT !.seen = Cardinality({n \in DOMAIN table.incidents : table.incidents[n].status = "open"}),
                               !.also = Cardinality({n \in DOMAIN table.incidents : table.incidents[n].status = "resolved"})])
  /\ OnlyReads

-----------------------------------------------------------------------------
(* POST /api/market/targets/:symbol/refresh and /api/market/intelligence.  *)
ReadTarget(q) ==
  /\ AtStatement(q, "readTarget")
  /\ IF table.target THEN On(q) ELSE Says(q, "missing")
  /\ OnlyReads

InsertDeskIntel(q) ==
  /\ AtStatement(q, "insertIntel")
  /\ Stores([table EXCEPT !.intel = Append(@, q)])
  /\ OnWith(q, [desk[q] EXCEPT !.seen = Len(table.intel) + 1])
  /\ UNCHANGED <<tied, spent>>

(* The change event names the row that was inserted; a refresh none.       *)
InsertChange(q) ==
  /\ AtStatement(q, "insertChange")
  /\ Stores([table EXCEPT !.changes = Append(@, [by |-> q, intel |-> desk[q].seen])])
  /\ On(q)
  /\ UNCHANGED <<tied, spent>>

(* GET /api/market/targets/:symbol/analyst-summary                         *)
CountIntel(q) ==
  /\ AtStatement(q, "countIntel")
  /\ OnWith(q, [desk[q] EXCEPT !.seen = Len(table.intel)])
  /\ OnlyReads

-----------------------------------------------------------------------------
(* POST /api/evidence/export, and GET .../exports/:id, which looks up the  *)
(* export and then the events in its scope.                                *)
ReadEvents(q) ==
  /\ AtStatement(q, "readEvents")
  /\ OnWith(q, [desk[q] EXCEPT !.seen = table.events])
  /\ OnlyReads

(* Mutant: an export takes what there is when it is recorded.              *)
InsertExportLate(q) ==
  /\ AtStatement(q, "insertExport")
  /\ Stores([table EXCEPT !.exports = Append(@, table.events + 1)])
  /\ On(q)
  /\ UNCHANGED <<tied, spent>>

InsertExport(q) ==
  /\ AtStatement(q, "insertExport")
  /\ Stores([table EXCEPT !.exports = Append(@, desk[q].seen)])
  /\ On(q)
  /\ UNCHANGED <<tied, spent>>

ReadExport(q) ==
  /\ AtStatement(q, "readExport")
  /\ IF desk[q].row > Len(table.exports)
     THEN Says(q, "missing")
     ELSE OnWith(q, [desk[q] EXCEPT !.also = table.exports[desk[q].row]])
  /\ OnlyReads

(* GET /api/evidence/customer/:id: the events, and then their counts.      *)
CountEvents(q) ==
  /\ AtStatement(q, "countEvents")
  /\ OnWith(q, [desk[q] EXCEPT !.also = table.events])
  /\ OnlyReads

-----------------------------------------------------------------------------
(* A statement fails: 500, and what was written before stays.              *)
DeskFails(q) ==
  /\ desk[q].out = "asked" /\ spent.faults < MaxDeskFaults
  /\ Says(q, "failed")
  /\ spent' = [spent EXCEPT !.faults = @ + 1]
  /\ UNCHANGED <<table, was, tied>>

InHand(ops) == \E q \in DeskRequests : desk[q].out = "asked" /\ desk[q].op \in ops

(* Workers, rooms and boots change what the routes in hand read.           *)
DeskMoves ==
  /\ spent.moves < MaxDeskMoves
  /\ spent' = [spent EXCEPT !.moves = @ + 1]
  /\ \/ /\ InHand({"receipt", "stamp"})
        /\ \E j \in JobIds, s \in JobStates : table.jobs[j] # s /\ Stores([table EXCEPT !.jobs[j] = s])
     \/ InHand({"receipt"}) /\ \E s \in BillStates : table.bill # s /\ Stores([table EXCEPT !.bill = s])
     \/ InHand({"refresh", "intel", "analyst"}) /\ Stores([table EXCEPT !.target = ~@])
     \/ InHand({"export", "exported", "customer"}) /\ Stores([table EXCEPT !.events = @ + 1])
  /\ UNCHANGED <<desk, tied>>

DeskNext ==
  \/ \E q \in DeskRequests : \E op \in Routes : \E row \in RowsOf(op) : AskDesk(q, op, row)
  \/ \E q \in DeskRequests :
       \/ ReadInvoice(q) \/ CountJobs(q) \/ InsertReceipt(q) \/ InsertStamp(q) \/ ReadStamps(q) \/ ReadSeals(q)
       \/ ReadStamp(q) \/ ReadSeal(q)
       \/ InsertCertificate(q) \/ UpdateCertificate(q) \/ ReadCertificates(q)
       \/ InsertIncident(q) \/ ReadIncident(q) \/ UpdateIncident(q) \/ ReadJob(q) \/ UpdateJob(q) \/ CountBoth(q)
       \/ ReadTarget(q) \/ InsertDeskIntel(q) \/ InsertChange(q) \/ CountIntel(q)
       \/ ReadEvents(q) \/ InsertExport(q) \/ ReadExport(q) \/ CountEvents(q)
       \/ DeskFails(q)
  \/ DeskMoves

DeskSpec == DeskInit /\ [][DeskNext]_deskVars

-----------------------------------------------------------------------------
Told(op, out) == {q \in DeskRequests : desk[q].op = op /\ desk[q].out = out}

(* A receipt speaks of an invoice that was paid, and a stamp and a receipt *)
(* of jobs that were so, at some moment of the request that wrote them;    *)
(* each answered request wrote one (commercial.ts:417-495).                *)
PapersTrue ==
  /\ \A n \in DOMAIN table.receipts :
       LET q == table.receipts[n].by
       IN /\ \E f \in was[q] : f.bill = "paid"
          /\ \E f \in was[q] : Counts(f.jobs).succeeded = table.receipts[n].succeeded
  /\ \A n \in DOMAIN table.stamps :
       LET q == table.stamps[n].by
           state == table.stamps[n].state
       IN CASE state = "executed" -> \E f \in was[q] : \A j \in JobIds : f.jobs[j] # "failed"
            [] state = "failed" -> \E f \in was[q] : \A j \in JobIds : f.jobs[j] = "failed"
            [] state = "partial" -> JobIds = {} \/ \E f \in was[q] : \E j \in JobIds : f.jobs[j] = "failed"
  /\ \A q \in Told("receipt", "done") : Cardinality({n \in DOMAIN table.receipts : table.receipts[n].by = q}) = 1
  /\ \A q \in Told("stamp", "done") : Cardinality({n \in DOMAIN table.stamps : table.stamps[n].by = q}) = 1
  /\ \A q \in Told("receipt", "refused") : \E f \in was[q] : f.bill # "paid"
  /\ \A q \in Told("listStamps", "seals") : \E f \in was[q] : f.stamps = 0
  /\ \A q \in Told("stampDetail", "missing") : \E f \in was[q] : f.stamps < desk[q].row

(* An incident is resolved for good, with one note unless two resolvers    *)
(* read it open before either wrote (operations.ts:411-420); who was       *)
(* answered that it is resolved finds it so.                               *)
IncidentsKept ==
  /\ \A n \in DOMAIN table.incidents :
       /\ table.incidents[n].status = "resolved" <=> table.incidents[n].notes > 0
       /\ n \notin tied => table.incidents[n].notes <= 1
  /\ \A q \in Told("resolve", "done") \cup Told("resolve", "refused") : table.incidents[desk[q].row].status = "resolved"

(* A certificate revoked stays revoked; lists and counts are those of one  *)
(* moment of their request.                                                *)
ListsTrue ==
  /\ \A q \in Told("revoke", "done") : table.certificates[desk[q].row] = "revoked"
  /\ \A q \in Told("entitlement", "done") :
       \E f \in was[q] : /\ desk[q].seen = Len(f.certificates)
                         /\ desk[q].also = Cardinality({n \in DOMAIN f.certificates : f.certificates[n] = "revoked"})
  /\ \A q \in Told("metrics", "done") :
       \E f \in was[q] : desk[q].seen + desk[q].also = Len(f.incidents)
  /\ \A q \in Told("analyst", "done") : \E f \in was[q] : f.intel = desk[q].seen

(* Every row of intelligence has its change event unless its request is at *)
(* that statement or failed there, and every event names the row of its    *)
(* own request (market.ts:567-608).                                        *)
IntelLinked ==
  /\ \A n \in DOMAIN table.intel :
       LET q == table.intel[n]
       IN desk[q].out = "done" <=> \E c \in DOMAIN table.changes : table.changes[c].by = q
  /\ \A c \in DOMAIN table.changes :
       LET n == table.changes[c].intel IN n # 0 => n <= Len(table.intel) /\ table.intel[n] = table.changes[c].by
  /\ \A q \in Told("refresh", "missing") \cup Told("intel", "missing") : \E f \in was[q] : ~f.target

(* Counts that are read after rows cover them, and the events an export    *)
(* was recorded with are still in its scope when it is looked up: events   *)
(* are only added (evidence.ts:534,791).                                   *)
EventsCovered ==
  /\ \A q \in Told("customer", "done") : desk[q].seen <= desk[q].also
  /\ \A q \in Told("exported", "done") : desk[q].also <= desk[q].seen

(* What operators read and write, statement by statement.                  *)
DeskSound == PapersTrue /\ IncidentsKept /\ ListsTrue /\ IntelLinked /\ EventsCovered

-----------------------------------------------------------------------------
(***************************************************************************)
(* The bindings to the phase-2 backend (server/lib/phase2-slice.ts): the   *)
(* policy gate, which asks the workers, the proof spine and the rooms one  *)
(* after the other (server/api/policy.ts), and the lookups that follow a   *)
(* receipt to its proof and on to its manifest (server/api/evidence.ts).   *)
(* The backend moves on meanwhile, and any fetch may fail or be aborted    *)
(* after its five seconds.                                                 *)
(*                                                                         *)
(* The stages of a receipt are 0 (no proof), 1 (hashed), 2 (in a manifest) *)
(* and 3 (attested); those of the spine say which totals are positive.     *)
(***************************************************************************)

CONSTANTS
  Workers,         \* services with a status endpoint
  PhaseReceipts,       \* receipts of the backend
  GateRooms,       \* rows of room_summary
  Lookups,         \* requests, numbered in the order they are asked
  MaxBackendMoves, \* changes of the backend and of the rooms (bound)
  MaxFetchFaults   \* fetches and queries that fail (bound)

ASSUME PhaseTwoAssumption == MaxBackendMoves \in Nat /\ MaxFetchFaults \in Nat

VARIABLES
  sliceOn,   \* isPhase2SliceEnabled, fixed at boot
  backend,   \* the workers' health, the spine, the receipts' stages; the rooms' colours
  lookup,    \* the requests
  seenBy,    \* for each request, the backend at each moment since it was asked
  mishaps    \* moves and faults so far

phaseVars == <<sliceOn, backend, lookup, seenBy, mishaps>>

Health == {"healthy", "degraded", "down"}
Colours == {"green", "yellow", "red"}
NotAsked == [op |-> "none", about |-> {}, at |-> "new", services |-> [w \in {} |-> "down"],
             blockers |-> {}, proof |-> [r \in {} |-> 0], manifest |-> [r \in {} |-> 0], faults |-> 0]

PhaseInit ==
  /\ sliceOn \in BOOLEAN
  /\ \E spine \in {0, 2, 3}, stage \in [PhaseReceipts -> {0, 2, 3}], health \in {"healthy", "degraded"} :
       backend = [workers |-> [w \in Workers |-> health], spine |-> spine, stage |-> stage,
                  rooms |-> [r \in GateRooms |-> "green"]]
  /\ lookup = [q \in Lookups |-> NotAsked]
  /\ seenBy = [q \in Lookups |-> {}]
  /\ mishaps = [moves |-> 0, faults |-> 0]

-----------------------------------------------------------------------------
Asked(q) == lookup[q].at \notin {"new", "answered", "unavailable"}
Observed(op, b) == IF op \in {"gate", "ops"} THEN [workers |-> b.workers, spine |-> b.spine, rooms |-> b.rooms]
                                  ELSE [stage |-> b.stage]

(* Without the slice the gate has no blockers, and lookups are refused.    *)
AskPhase(q, op, about) ==
  /\ lookup[q].at = "new" /\ \A p \in Lookups : p < q => lookup[p].at # "new"
  /\ lookup' = [lookup EXCEPT ![q] = [NotAsked EXCEPT !.op = op, !.about = about,
       !.at = CASE ~sliceOn /\ op = "gate" -> "answered"
                [] ~sliceOn /\ op # "gate" -> "unavailable"
                [] sliceOn /\ op \in {"gate", "ops"} -> "services"
                [] sliceOn /\ op = "list" -> "list"
                [] OTHER -> "proofs"]]
  /\ seenBy' = [seenBy EXCEPT ![q] = {Observed(op, backend)}]
  /\ UNCHANGED <<sliceOn, backend, mishaps>>

NextOf(q, r) == lookup' = [lookup EXCEPT ![q] = r]
Untouched == UNCHANGED <<sliceOn, backend, seenBy>>

(* A fetch is answered, or it fails; a failure is counted with the request *)
(* it belongs to.                                                          *)
FetchOk == UNCHANGED mishaps
FetchFails == mishaps.faults < MaxFetchFaults /\ mishaps' = [mishaps EXCEPT !.faults = @ + 1]

-----------------------------------------------------------------------------
(* The operations routes answer with the services, the gate goes on.       *)
AfterServices(r) == IF r.op = "gate" THEN "spine" ELSE "answered"

(* getPhase2OpsSupportStatus: all status endpoints at once; an endpoint    *)
(* that cannot be fetched is down.                                         *)
FetchService(q, w) ==
  LET r == lookup[q]
      With(status) == [r EXCEPT !.services = [v \in DOMAIN @ \cup {w} |-> IF v = w THEN status ELSE @[v]],
                                !.at = IF DOMAIN r.services \cup {w} = Workers THEN AfterServices(r) ELSE @]
  IN /\ r.at = "services" /\ w \notin DOMAIN r.services
     /\ \/ NextOf(q, With(backend.workers[w])) /\ FetchOk
        \/ NextOf(q, [With("down") EXCEPT !.faults = @ + 1]) /\ FetchFails
     /\ Untouched

ServiceBlockers(services) == {<<"service", w, services[w]>> : w \in {v \in Workers : services[v] # "healthy"}}

(* Mutant: a spine with manifests needs no attestation.                    *)
SpineBlockersLenient(spine) ==
  {<<"spine", part[2]>> : part \in {p \in {<<1, "journal">>, <<2, "manifest">>} : spine < p[1]}}

SpineBlockers(spine) ==
  {<<"spine", part[2]>> : part \in {p \in {<<1, "journal">>, <<2, "manifest">>, <<3, "attestation">>} : spine < p[1]}}

RoomBlockers(rooms) == {<<"room", r, rooms[r]>> : r \in {s \in GateRooms : rooms[s] # "green"}}

(* buildPolicyBlockers: the totals of the spine ...                        *)
FetchSpine(q) ==
  LET r == lookup[q]
      With(more) == [r EXCEPT !.at = "rooms", !.blockers = ServiceBlockers(r.services) \cup more]
  IN /\ r.at = "spine"
     /\ \/ NextOf(q, With(SpineBlockers(backend.spine))) /\ FetchOk
        \/ NextOf(q, [With({<<"spine", "unreachable">>}) EXCEPT !.faults = @ + 1]) /\ FetchFails
     /\ Untouched

(* ... and the rooms that are not green; a query that fails adds nothing.  *)
QueryRooms(q) ==
  LET r == lookup[q]
      With(more) == [r EXCEPT !.at = "answered", !.blockers = @ \cup more]
  IN /\ r.at = "rooms"
     /\ \/ NextOf(q, With(RoomBlockers(backend.rooms))) /\ FetchOk
        \/ NextOf(q, [With({}) EXCEPT !.faults = @ + 1]) /\ FetchFails
     /\ Untouched

Severity(blocker) ==
  IF blocker[1] = "spine" \/ blocker[3] \in {"down", "red"} THEN "P0" ELSE "P1"

(* gate-evaluation                                                         *)
GateState(q) == IF \E b \in lookup[q].blockers : Severity(b) = "P0" THEN "blocked" ELSE "pass"

-----------------------------------------------------------------------------
(* The list of receipts comes first, for GET /api/evidence/proofs.         *)
FetchList(q) ==
  LET r == lookup[q]
  IN /\ r.at = "list"
     /\ \/ NextOf(q, [r EXCEPT !.at = "proofs", !.about = PhaseReceipts]) /\ FetchOk
        \/ NextOf(q, [r EXCEPT !.at = "unavailable"]) /\ FetchFails
     /\ Untouched

(* A receipt is done when its proof has no manifest to look up, or that    *)
(* was looked up; a request answers when all of its receipts are done.     *)
DoneWith(r, x) == x \in DOMAIN r.proof /\ (r.proof[x] < 2 \/ x \in DOMAIN r.manifest)
Closed(r) == IF \A x \in r.about : DoneWith(r, x) THEN [r EXCEPT !.at = "answered"] ELSE r

(* getPhase2EvidenceProofByReceipt.  In a list a proof that cannot be had  *)
(* is missing; a request for a single receipt is unavailable.              *)
FetchProof(q, x) ==
  LET r == lookup[q]
      With(stage) == Closed([r EXCEPT !.proof = [y \in DOMAIN @ \cup {x} |-> IF y = x THEN stage ELSE @[y]]])
  IN /\ r.at = "proofs" /\ x \in r.about \ DOMAIN r.proof
     /\ \/ /\ NextOf(q, IF backend.stage[x] = 0 /\ r.op # "list" THEN [r EXCEPT !.at = "unavailable"]
                                                              ELSE With(backend.stage[x]))
           /\ FetchOk
        \/ /\ NextOf(q, IF r.op = "list" THEN [With(0) EXCEPT !.faults = @ + 1]
                                         ELSE [r EXCEPT !.at = "unavailable", !.faults = @ + 1])
           /\ FetchFails
     /\ Untouched

(* getPhase2EvidenceManifestDetail, whose failure counts as no detail.     *)
FetchManifest(q, x) ==
  LET r == lookup[q]
      With(stage) == Closed([r EXCEPT !.manifest = [y \in DOMAIN @ \cup {x} |-> IF y = x THEN stage ELSE @[y]]])
  IN /\ r.at = "proofs" /\ x \in DOMAIN r.proof \ DOMAIN r.manifest /\ r.proof[x] >= 2
     /\ \/ NextOf(q, With(backend.stage[x])) /\ FetchOk
        \/ NextOf(q, With(0)) /\ FetchFails
     /\ Untouched

(* Mutant: only the manifest's attestation makes a chain attested.         *)
ChainStatusStrict(proof, manifest) ==
  CASE proof = 0 -> "missing_proof"
    [] proof = 1 -> "hash_only"
    [] proof >= 2 /\ manifest = 3 -> "sealed_attested"
    [] OTHER -> "sealed_unattested"

(* chain_status; the signature is the manifest's or else the proof's.      *)
ChainStatus(proof, manifest) ==
  CASE proof = 0 -> "missing_proof"
    [] proof = 1 -> "hash_only"
    [] proof >= 2 /\ (manifest = 3 \/ proof = 3) -> "sealed_attested"
    [] OTHER -> "sealed_unattested"

Rank == [missing_proof |-> 0, hash_only |-> 1, sealed_unattested |-> 2, sealed_attested |-> 3]
StatusOf(q, x) ==
  LET r == lookup[q] IN Rank[ChainStatus(r.proof[x], IF x \in DOMAIN r.manifest THEN r.manifest[x] ELSE 0)]

-----------------------------------------------------------------------------
(* Workers change their health, receipts and the spine gain a stage, and   *)
(* rooms change their colour.                                              *)
BackendMoves ==
  /\ mishaps.moves < MaxBackendMoves /\ \E q \in Lookups : Asked(q)
  /\ mishaps' = [mishaps EXCEPT !.moves = @ + 1]
  /\ \/ \E w \in Workers, h \in Health : backend' = [backend EXCEPT !.workers[w] = h]
     \/ \E x \in PhaseReceipts : backend.stage[x] < 3 /\ backend' = [backend EXCEPT !.stage[x] = @ + 1]
     \/ backend.spine < 3 /\ backend' = [backend EXCEPT !.spine = @ + 1]
     \/ \E r \in GateRooms, c \in Colours : backend' = [backend EXCEPT !.rooms[r] = c]
  /\ seenBy' = [q \in Lookups |-> IF Asked(q) THEN seenBy[q] \cup {Observed(lookup[q].op, backend')} ELSE seenBy[q]]
  /\ UNCHANGED <<sliceOn, lookup>>

PhaseNext ==
  \/ \E q \in Lookups :
       \/ AskPhase(q, "gate", {}) \/ AskPhase(q, "ops", {}) \/ AskPhase(q, "list", {})
       \/ \E x \in PhaseReceipts : AskPhase(q, "proof", {x})
       \/ \E w \in Workers : FetchService(q, w)
       \/ FetchSpine(q) \/ QueryRooms(q) \/ FetchList(q)
       \/ \E x \in PhaseReceipts : FetchProof(q, x) \/ FetchManifest(q, x)
  \/ BackendMoves

PhaseSpec == PhaseInit /\ [][PhaseNext]_phaseVars

-----------------------------------------------------------------------------
PhaseAnswers(ops) == {q \in Lookups : lookup[q].op \in ops /\ lookup[q].at = "answered"}

(* A gate passes, with the slice on and no query failed, only if at some   *)
(* moment each worker was not down, the spine attested, and each room not  *)
(* red; a blocker names what was so at some moment or could not be asked;  *)
(* and what was wrong throughout blocks (policy.ts:52-240, 296).           *)
GateHonest ==
  \A q \in PhaseAnswers({"gate"}) : sliceOn =>
    LET b == lookup[q].blockers
        moments == seenBy[q]
    IN /\ GateState(q) = "pass" /\ lookup[q].faults = 0 =>
            /\ \A w \in Workers : \E f \in moments : f.workers[w] # "down"
            /\ \E f \in moments : f.spine = 3
            /\ \A r \in GateRooms : \E f \in moments : f.rooms[r] # "red"
       /\ lookup[q].faults = 0 =>
            /\ \A w \in Workers : <<"service", w, "down">> \in b => \E f \in moments : f.workers[w] = "down"
            /\ \A r \in GateRooms, c \in Colours : <<"room", r, c>> \in b => \E f \in moments : f.rooms[r] = c
       /\ \A w \in Workers : (\A f \in moments : f.workers[w] = "down") => <<"service", w, "down">> \in b
       /\ \A r \in GateRooms : (\A f \in moments : f.rooms[r] = "red") /\ lookup[q].faults = 0 => GateState(q) = "blocked"
       /\ (\A f \in moments : f.spine < 3) => GateState(q) = "blocked"

(* A service is reported in a state it was in, or down when it could not   *)
(* be asked (phase2-slice.ts:265).                                         *)
ServicesHonest ==
  \A q \in PhaseAnswers({"gate", "ops"}) : \A w \in DOMAIN lookup[q].services :
    \/ \E f \in seenBy[q] : f.workers[w] = lookup[q].services[w]
    \/ lookup[q].services[w] = "down" /\ lookup[q].faults > 0

(* A chain's status is never more than the receipt has reached, and never  *)
(* less than what it had when the request came, a failing fetch of the     *)
(* manifest notwithstanding (evidence.ts:107).                             *)
ChainsHonest ==
  \A q \in PhaseAnswers({"list", "proof"}) :
    \A x \in lookup[q].about :
      /\ StatusOf(q, x) <= backend.stage[x]
      /\ lookup[q].faults = 0 => \A f \in seenBy[q] : (\A g \in seenBy[q] : f.stage[x] <= g.stage[x])
                                                        => StatusOf(q, x) >= f.stage[x]

(* What the bindings report about the phase-2 backend.                     *)
PhaseSound == GateHonest /\ ServicesHonest /\ ChainsHonest
=============================================================================
