----------------------------- MODULE RoomPlane -----------------------------
(***************************************************************************)
(* The room contract as a whole: the runtime mode, the database and the    *)
(* clients' requests.  A cast fixes the requests that come together, the   *)
(* rows they find, and whether the database is stable: while it is, the    *)
(* server has booted, is in primary mode, and a probe would change nothing.*)
(* After the composition: what it promises, over any number of requests.   *)
(***************************************************************************)
EXTENDS RoomView

vars == <<modeVars, storeVars, view>>

PlaneInit ==
  /\ \E i \in DOMAIN Casts : cast = Casts[i]
  /\ ModeInit
  /\ cast.stable => configured /\ database = "ready"
  /\ db = cast.rows
  /\ ledger = {} /\ files = {}
  /\ clock = 0
  /\ locks = {}
  /\ pc = [p \in Clients |-> IF cast.requests[p] = None THEN "answered" ELSE "new"]
  /\ tx = [p \in Clients |-> NoTx]
  /\ span = [p \in Clients |-> [from |-> 0, to |-> 0]]
  /\ answer = [p \in Clients |-> ""]
  /\ view = [p \in Clients |-> Unread]

ActionStep(p) == ActionNext(p) /\ UNCHANGED <<modeVars, view>>
ViewStep(p) == ViewNext(p) /\ UNCHANGED modeVars
ClientStep(p) == pc[p] # "answered" /\ (ActionStep(p) \/ ViewStep(p))

(* The mode machine; over a stable database only the boot matters.         *)
ModeStep ==
  /\ IF cast.stable THEN Migrate \/ (boot # "done" /\ ProbeNext) ELSE ModeNext
  /\ UNCHANGED <<storeVars, view>>

PlaneNext == ModeStep \/ \E p \in Clients : ClientStep(p)

PlaneSpec == PlaneInit /\ [][PlaneNext]_vars

(* A step is on its way until its answer comes: a query is answered or     *)
(* fails, a lock is granted once it is free, a deadlock is found.  Nothing *)
(* is assumed of which request goes on.                                    *)
PlaneFairness ==
  /\ WF_vars(ModeStep /\ boot # "done")
  /\ WF_vars(\E p \in Clients : ClientStep(p))

PlaneFairSpec == PlaneSpec /\ PlaneFairness

-----------------------------------------------------------------------------
Modes == {"new", "begin", "decide", "run", "record", "ledger", "commit",
          "data", "summary", "reasons", "synth", "boundary", "isolation", "answered"}

Acting == {p \in Clients : Input(p) # None /\ Input(p).kind = "action"}

PlaneTypeOK ==
  /\ ModeTypeOK
  /\ ledger \subseteq [ref : {Ref(p) : p \in Acting}, actor : Acting]
  /\ files \subseteq Clients
  /\ clock \in 0 .. 2 * Cardinality(Clients)
  /\ pc \in [Clients -> Modes]
  /\ \A r \in DOMAIN db : db[r].by \in Clients \cup {"seed"} /\ db[r].t \in 0 .. clock
  /\ \A l \in locks : l.owner \in Clients

Committed == {p \in Acting : span[p].to > 0}

(* Two transactions were open at the same time.                            *)
Overlap(p, q) == span[p].from <= span[q].to /\ span[q].from <= span[p].to

(* Evidence linkage is mandatory: a request has rows in the tables of the  *)
(* rooms if and only if the evidence ledger has its row, and that row is   *)
(* written by the very request (room-contract.ts:3745-3805).               *)
EvidenceForEveryAction ==
  \A p \in Acting :
    (\E r \in DOMAIN db : db[r].by = p) <=> \E e \in ledger : e.actor = p /\ e.ref = Ref(p)

(* A caller that repeats a request under the same evidence reference,      *)
(* because its answer never came, does not repeat its effects: of all      *)
(* requests with one reference at most one is applied                      *)
(* (evidence_ledger.evidence_ref UNIQUE, db.ts:614-626).                   *)
RefAppliedOnce ==
  \A p, q \in Acting :
    /\ Ref(p) = Ref(q)
    /\ \E r \in DOMAIN db : db[r].by = p
    /\ \E r \in DOMAIN db : db[r].by = q
    => p = q

Summary(room) == db[<<"summary", room>>]
SummaryRooms == {r[2] : r \in RowsOf(db, "summary")}
ReasonRows(room) == {r \in RowsOf(db, "reason") : db[r].v.room = room}

(* A room that is not green says why: a reason with the code and the       *)
(* evidence reference of its summary is recorded (upsertRoomSummaryTx).    *)
NonGreenHasReason ==
  \A room \in SummaryRooms :
    LET s == Summary(room).v IN
    s.patch.status # "green" =>
      \E r \in ReasonRows(room) : db[r].v.code = s.patch.code /\ db[r].v.ref = s.ref

(* The reason that GET shows first, the newest, is that of the summary it  *)
(* shows, unless the two were written by transactions that overlapped:     *)
(* created_at is a transaction's start, the summary is the last writer's.  *)
NewestReasonExplains ==
  \A room \in SummaryRooms :
    Summary(room).v.patch.status # "green" =>
      \A r \in Latest(db, ReasonRows(room)) :
        \/ db[r].by = Summary(room).by
        \/ /\ db[r].by \in Acting /\ Summary(room).by \in Acting
           /\ Overlap(db[r].by, Summary(room).by)

(* camp_licenses holds the licences of one refresh, or of refreshes that   *)
(* overlapped: a DELETE does not see the rows of a transaction that        *)
(* commits while it waits (room-contract.ts:3043-3067).                    *)
LicensesOfOneRefresh ==
  \A r, k \in RowsOf(db, "license") :
    \/ db[r].by = db[k].by
    \/ db[r].by \in Acting /\ db[k].by \in Acting /\ Overlap(db[r].by, db[k].by)

IsolationActions == {"refresh_trust_closure", "refresh_attestation", "health_refresh", "baseline_capture",
                     "canary_deploy", "rollback"}

(* Request q decides the canary column of the service by itself: it names  *)
(* a status, or spreads another service's row.                             *)
DecidesCanary(q, service) ==
  /\ Input(q).action \in IsolationActions
  /\ \/ Input(q).action = "canary_deploy" \/ Input(q).in.canary # {}
     \/ Given(Input(q).in.service, "runtime-api") # service

(* The result of a canary stays until a later request decides otherwise: a *)
(* refresh that names no status loses it only if the two overlapped, the   *)
(* row being read without a lock (upsertIsolationStateTx).                 *)
CanaryKept ==
  \A p \in Committed :
    Input(p).action = "canary_deploy" =>
      LET service == Given(Input(p).in.service, "runtime-api")
          row     == <<"isolation", service>>
      IN \/ db[row].v.canary = Given(Input(p).in.status, Given(Input(p).in.canary, "unverified"))
         \/ \E q \in Committed \ {p} :
              /\ Input(q).action \in IsolationActions
              /\ DecidesCanary(q, service) \/ Overlap(p, q)

(* What action_requested says of a billing source is what was stored, down *)
(* to the masked label and the time of verification: auditing a payload    *)
(* and then applying the audited payload gives the same billing state      *)
(* (sanitizeActionPayloadForAudit).                                        *)
AuditShowsStoredBilling ==
  \A p \in Committed :
    Input(p).action = "sync_billing" =>
      db[<<"event", p, "action_requested">>].v.payload = {AuditPayload(db[<<"billing", p>>].v)}

Answers == {p \in Clients : pc[p] = "answered" /\ answer[p] = "200"}

(* A room that is not green always comes with a reason, and a green one of *)
(* the proof-bound rooms with evidence, whichever of the three bodies is   *)
(* answered and whatever the queries in between found: no answer carries a *)
(* stop condition that forbids reading.                                    *)
ReadNeverBlocked == \A p \in Answers : \A s \in view[p].stops : s.scope = "write"

(* A body made up from the environment is never green, and an answer that  *)
(* reports primary mode never calls itself synthesized.                    *)
SynthesizedNeverGreen ==
  \A p \in Answers :
    /\ view[p].body = "synth" => view[p].status # "green"
    /\ view[p].modeAtStart = "primary_db" => ~view[p].synthesized

(* Every request is answered.                                              *)
RequestsAnswered == \A p \in Clients : <>(pc[p] = "answered")

(* "downgrades synthesized rooms and enforces write blockers"              *)
(* (tests/room-contract-api.test.ts:34): a made-up body comes with a stop  *)
(* condition that forbids writing.                                         *)
SynthesizedBlocksWrites ==
  \A p \in Answers : view[p].body = "synth" => \E s \in view[p].stops : s.scope = "write"

(* The tables of the rooms hold what requests that are on record have      *)
(* written, once.                                                          *)
RowsOnRecord == PlaneTypeOK /\ EvidenceForEveryAction /\ RefAppliedOnce

(* Summaries that are not green say why, the newest reason first.          *)
SummariesExplained == NonGreenHasReason /\ NewestReasonExplains

(* What an action decided stays decided unless another one overlapped it.  *)
DecisionsKept == LicensesOfOneRefresh /\ CanaryKept /\ AuditShowsStoredBilling

(* Readers are never misled about where a body comes from.                 *)
ViewsHonest == ReadNeverBlocked /\ SynthesizedNeverGreen

-----------------------------------------------------------------------------
(***************************************************************************)
(* The inductive invariants behind the properties above.                   *)
(*                                                                         *)
(* That rows and evidence come together is not inductive: it rests on what *)
(* an open transaction still has to run.  So RInv says of every            *)
(* transaction what its statements may write (Proper) and its writes are   *)
(* (Pending), that what it owes is written or still to be written          *)
(* (Brings), that its summary and its reason agree (Coloured), and that it *)
(* holds the reference it will commit (Held).                              *)
(***************************************************************************)

StatementKinds == {"put", "keep", "wake", "revoke", "clear", "retire", "spread"}

(* The statements that are no "put" have a table each.                     *)
TableOf == [keep |-> "target", wake |-> "target", revoke |-> "certificate",
            clear |-> "license", retire |-> "target", spread |-> "isolation"]

(* The tables that no mutation writes, but every action at its end.        *)
LateTables == {"event", "summary", "reason"}
Late(p) == pc[p] \in {"record", "ledger", "commit"}
Running(p) == pc[p] \in {"run", "record", "ledger", "commit"}

Admitted(p) == Refusal(Input(p)) = ""
ServiceOf(p) == Given(Input(p).in.service, "runtime-api")
CanaryOf(p) == Given(Input(p).in.status, Given(Input(p).in.canary, "unverified"))

Requested(p) == <<"event", p, "action_requested">>

(* What action_requested records, in a transaction that began at t.        *)
AuditedAt(p, t) ==
  IF Action(p, "commercial", {"sync_billing"})
  THEN {AuditPayload(BillingState(Input(p).in, cast.env, p, Ref(p), t))} ELSE {}

(* Row r with columns v is what request p may write in a transaction that  *)
(* began at t.                                                             *)
Holds(p, t, r, v) ==
  /\ r[1] = "event" => r[2] = p
  /\ r = Requested(p) => v.payload = AuditedAt(p, t)
  /\ r[1] = "billing" => r = <<"billing", p>> /\ AuditedAt(p, t) = {AuditPayload(v)}
  /\ r[1] = "summary" => r = <<"summary", Input(p).room>> /\ v.ref = Ref(p)
  /\ r[1] = "reason" => r = <<"reason", p>> /\ v.room = Input(p).room /\ v.ref = Ref(p)
  /\ r[1] = "license" => r[2] = p /\ Input(p).action = "refresh_licenses"
  /\ r[1] = "isolation" => /\ Input(p).action \in IsolationActions
                           /\ Input(p).action = "canary_deploy" => v.canary = CanaryOf(p)

(* A spread writes the rows of the other services.                         *)
Spreads(p, s) ==
  /\ Input(p).action \in IsolationActions
  /\ s.v.service = ServiceOf(p)
  /\ \A r \in s.rows : r[2] # ServiceOf(p)
  /\ Input(p).action = "canary_deploy" => s.v.iso.canary = CanaryOf(p)

(* A statement of request p.                                               *)
Proper(p, t, at, s) ==
  /\ DOMAIN s = {"do", "rows", "v", "open"}
  /\ s.do \in StatementKinds
  /\ s.open \/ s.do \in {"clear", "retire", "spread"}
  /\ s.do = "put" => \A r \in s.rows : Holds(p, t, r, s.v[r]) /\ (r[1] \in LateTables => at # "run")
  /\ s.do # "put" => \A r \in s.rows : r[1] = TableOf[s.do]
  /\ s.do = "clear" => Input(p).action = "refresh_licenses"
  /\ s.do = "spread" => Spreads(p, s)

IsRow(x) == DOMAIN x = {"by", "t", "v"} /\ x.t \in 0 .. clock

(* The writer of a row is on record, and the row has the time of its       *)
(* transaction.                                                            *)
Accounted(x) ==
  \/ x.by = "seed" /\ x.t = 0
  \/ (\E e \in ledger : e.actor = x.by) /\ x.t = span[x.by].from /\ span[x.by].to # 0

(* What a transaction writes to row r is its own, but for a revocation,    *)
(* which leaves a certificate in the name of the request that issued it.   *)
OwnWrite(p, r, x) ==
  \/ x = Gone /\ r[1] = "license" /\ Input(p).action = "refresh_licenses"
  \/ IsRow(x) /\ x.by = p /\ x.t = tx[p].t /\ Holds(p, x.t, r, x.v)
  \/ IsRow(x) /\ r[1] = "certificate" /\ Accounted(x)

Pending(p) ==
  \A r \in DOMAIN tx[p].writes :
    OwnWrite(p, r, tx[p].writes[r]) /\ (r[1] \in LateTables => Late(p))

(* What a list of statements puts into row r, and what request p has       *)
(* written there or is still to write.                                     *)
Puts(todo, r) ==
  {todo[i].v[r] : i \in {j \in 1 .. Len(todo) : todo[j].do = "put" /\ r \in todo[j].rows}}
Assigned(p, r) == {tx[p].writes[k].v : k \in {r} \cap DOMAIN tx[p].writes} \cup Puts(tx[p].todo, r)

(* A billing source, an isolation row and the change event: an action that *)
(* is there for one of them never commits without it.                      *)
Brings(p) ==
  /\ Running(p) /\ Input(p).action = "sync_billing" => Assigned(p, <<"billing", p>>) # {}
  /\ Running(p) /\ Input(p).action \in IsolationActions => Assigned(p, <<"isolation", ServiceOf(p)>>) # {}
  /\ Late(p) => Assigned(p, Requested(p)) # {}

(* Summaries and reasons with the same code, a reason for every summary    *)
(* that is not green, and none without a summary.                          *)
Agree(summaries, reasons) ==
  /\ reasons # {} => summaries # {}
  /\ \A s \in summaries : s.patch.status # "green" => reasons # {}
  /\ \A s \in summaries, r \in reasons : r.code = s.patch.code

Coloured(p) == Late(p) => Agree(Assigned(p, <<"summary", Input(p).room>>), Assigned(p, <<"reason", p>>))

Held(p) ==
  pc[p] = "commit" =>
    /\ [owner |-> p, row |-> <<"ledger", Ref(p)>>, mode |-> "UPDATE"] \in locks
    /\ \A e \in ledger : e.ref # Ref(p)

Dated(p) ==
  /\ span[p] \in [from : 0 .. clock, to : 0 .. clock]
  /\ pc[p] \in {"new", "begin"} => span[p].from = 0
  /\ pc[p] \in {"new", "begin", "decide", "run", "record", "ledger", "commit"} => span[p].to = 0
  /\ pc[p] \in {"decide", "run", "record", "ledger", "commit"} => span[p].from = tx[p].t /\ tx[p].t # 0
  /\ span[p].to # 0 => /\ span[p].from # 0 /\ span[p].from < span[p].to
                       /\ \E e \in ledger : e.actor = p

LocalTx(p) ==
  /\ pc[p] \in {"begin", "decide", "run", "record", "ledger", "commit"} =>
       p \in Acting /\ Admitted(p)
  /\ pc[p] = "new" => Input(p) # None
  /\ DOMAIN tx[p] = {"t", "writes", "todo", "read"}
  /\ tx[p].t \in 0 .. clock
  /\ IsList(tx[p].todo)
  /\ \A i \in 1 .. Len(tx[p].todo) : Proper(p, tx[p].t, pc[p], tx[p].todo[i])
  /\ pc[p] \notin {"run", "record"} => tx[p].todo = <<>>
  /\ ~Running(p) => DOMAIN tx[p].writes = {}
  /\ Pending(p)
  /\ Brings(p)
  /\ Coloured(p)
  /\ Held(p)
  /\ Dated(p)

(* The rows that are there before the first request.                       *)
Seeded(r, v) ==
  /\ r[1] \in {"reason", "license"} => r[2] \notin Clients
  /\ r[1] = "summary" => r = <<"summary", r[2]>> /\ v.patch.status # "green"

CommittedRows ==
  /\ \A r \in DOMAIN db :
       /\ IsRow(db[r]) /\ Accounted(db[r])
       /\ IF db[r].by = "seed" THEN Seeded(r, db[r].v) ELSE Holds(db[r].by, db[r].t, r, db[r].v)
  /\ \A e \in ledger :
       /\ Requested(e.actor) \in DOMAIN db /\ db[Requested(e.actor)].by = e.actor
       /\ Input(e.actor).action = "sync_billing" =>
            <<"billing", e.actor>> \in DOMAIN db /\ db[<<"billing", e.actor>>].by = e.actor
       /\ Input(e.actor).action \in IsolationActions => <<"isolation", ServiceOf(e.actor)>> \in DOMAIN db
  /\ \A e, f \in ledger : e.ref = f.ref => e = f

(* The clock counts the transactions that began and that committed.        *)
Begun == {p \in Clients : span[p].from # 0}
Ended == {p \in Clients : span[p].to # 0}

RInv ==
  /\ ModeTypeOK
  /\ \E i \in DOMAIN Casts : cast = Casts[i]
  /\ pc \in [Clients -> Modes]
  /\ DOMAIN tx = Clients /\ DOMAIN span = Clients
  /\ ledger \subseteq [ref : {Ref(p) : p \in Acting}, actor : Acting]
  /\ \A e \in ledger : e.ref = Ref(e.actor) /\ Admitted(e.actor)
  /\ files \subseteq Clients
  /\ clock = Cardinality(Begun) + Cardinality(Ended)
  /\ \A l \in locks : l.owner \in Clients
  /\ Exclusive
  /\ CommittedRows
  /\ \A p \in Clients : LocalTx(p)

-----------------------------------------------------------------------------
(* Behind SummariesExplained: the reason of a summary is by its writer,    *)
(* and the summary of a room is by the last to commit of those that wrote  *)
(* a reason for it.                                                        *)
SummariesSound ==
  /\ \A r \in RowsOf(db, "summary") :
       db[r].v.patch.status # "green" =>
         \E k \in ReasonRows(r[2]) :
           /\ db[k].by = db[r].by
           /\ db[k].v.code = db[r].v.patch.code /\ db[k].v.ref = db[r].v.ref
  /\ \A k \in RowsOf(db, "reason") :
       db[k].by # "seed" =>
         LET row == <<"summary", db[k].v.room>> IN
         row \in DOMAIN db /\ db[row].by # "seed" /\ span[db[k].by].to <= span[db[row].by].to

(* Behind LicensesOfOneRefresh: a refresh deletes, or has deleted, every   *)
(* licence but those of refreshes that committed since it began.           *)
Since(p, q) == q # "seed" /\ span[p].from < span[q].to

Cleared(p, r) ==
  \/ r \in DOMAIN tx[p].writes /\ tx[p].writes[r] = Gone
  \/ \E i \in 1 .. Len(tx[p].todo) :
       LET s == tx[p].todo[i] IN s.do = "clear" /\ (s.open => r \in s.rows)

Clearing ==
  \A p \in Acting :
    Running(p) /\ Input(p).action = "refresh_licenses" =>
      \A r \in RowsOf(db, "license") : Cleared(p, r) \/ Since(p, db[r].by)

LicensesSound == Clearing /\ LicensesOfOneRefresh

(* Behind CanaryKept: what a request that decides no canary is going to    *)
(* write leaves the result of a canary as it is, unless the canary         *)
(* committed since the request began.                                      *)
Superseded(p) ==
  \E q \in Committed \ {p} :
    /\ Input(q).action \in IsolationActions
    /\ DecidesCanary(q, ServiceOf(p)) \/ Overlap(p, q)

Carrying ==
  \A x \in Acting, p \in Committed :
    /\ Running(x) /\ Input(x).action \in IsolationActions
    /\ Input(p).action = "canary_deploy"
    /\ ~DecidesCanary(x, ServiceOf(p))
    => \/ \A v \in Assigned(x, <<"isolation", ServiceOf(p)>>) : v.canary = CanaryOf(p)
       \/ Superseded(p)
       \/ Since(x, p)

CanariesSound == Carrying /\ CanaryKept

(* Behind ViewsHonest: what a reader has found so far.                     *)
Honest(v) ==
  /\ DOMAIN v = DOMAIN Unread
  /\ \A s \in v.stops : s.scope = "write"
  /\ \A s \in v.summary : s.patch.status = "green" => s.ref # None
  /\ v.body = "synth" => v.status # "green"
  /\ v.modeAtStart = "primary_db" => ~v.synthesized

ViewsSound ==
  /\ DOMAIN view = Clients
  /\ \A p \in Clients : Honest(view[p]) /\ (pc[p] = "new" => ~view[p].synthesized)
=============================================================================
