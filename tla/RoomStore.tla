----------------------------- MODULE RoomStore ------------------------------
(***************************************************************************)
(* The rooms of the room contract: its rules, then its tables and their    *)
(* transactions.                                                           *)
(***************************************************************************)
EXTENDS Integers, Sequences, FiniteSets, RuntimeMode, RowLocks

(***************************************************************************)
(* The rules of the room contract (server/api/room-contract.ts) that need  *)
(* no database: what each room accepts, from whom, and how the verdicts on *)
(* billing, on rollout and on a room's colour are computed from rows.      *)
(*                                                                         *)
(* An optional value is a set: {} for undefined or null, {v} for v.        *)
(***************************************************************************)

Given(opt, default) == IF opt = {} THEN default ELSE CHOOSE v \in opt : TRUE

RoomKeys == {"camp", "commercial", "evidence", "market", "reports_plans", "system", "ops"}

AllowedActions(room) ==
  CASE room = "camp"          -> {"refresh_identity", "refresh_licenses", "refresh_readme", "refresh_contact"}
    [] room = "commercial"    -> {"sync_billing", "refresh_entitlements", "issue_certificate",
                                  "revoke_certificate", "export_commercial_record"}
    [] room = "evidence"      -> {"reverify_proof", "export_evidence_bundle", "view_tx_mapping",
                                  "rotate_signing_key", "revoke_signing_key"}
    [] room = "market"        -> {"refresh_market_sources", "refresh_targets", "export_market_snapshot"}
    [] room = "reports_plans" -> {"generate_report", "update_execution_plan", "set_next_review_eta",
                                  "export_plan_snapshot"}
    [] room = "system"        -> {"refresh_trust_closure", "refresh_attestation", "refresh_boundary_state"}
    [] room = "ops"           -> {"baseline_capture", "health_refresh", "canary_deploy", "rollback",
                                  "evidence_export", "seal_review"}

AllowedRoles(room) ==
  IF room \in {"camp", "system"} THEN {"authority", "system"}
  ELSE {"operator", "authority", "system"}

ProofBoundRooms == RoomKeys \ {"camp"}

(* The checks of POST .../actions before the mode is looked at, in order;  *)
(* "" lets the request through.                                            *)
Refusal(q) ==
  CASE q.room \notin RoomKeys                  -> "404"
    [] q.action = ""                           -> "400"
    [] q.action \notin AllowedActions(q.room)  -> "403"
    [] q.role \notin {"authority", "operator", "system"} -> "401"
    [] q.role \notin AllowedRoles(q.room)      -> "403"
    [] OTHER                                   -> ""

-----------------------------------------------------------------------------
(* Billing.  Bank labels and account numbers are sequences of characters.  *)

Components == {"paypal", "bank_transfer", "btc_wallet", "eth_wallet"}
SourceTypes == Components \cup {"hybrid", "manual_verified"}

NormalSource(requested, components) ==
  IF Given(requested, "") \in SourceTypes THEN Given(requested, "")
  ELSE CASE Cardinality(components) > 1 -> "hybrid"
         [] components = {}             -> "manual_verified"
         [] OTHER                       -> CHOOSE c \in components : TRUE

(* An explicit flag wins; else the approved list when there is one; else   *)
(* what the environment configures.                                        *)
ResolvedComponents(payload, env) ==
  {c \in Components :
     Given(payload.explicit[c], IF payload.approved # {} THEN c \in payload.approved ELSE c \in env)}

MaskLabel(s) ==
  CASE Len(s) = 0 -> <<>>
    [] Len(s) \in 1 .. 2 -> <<s[1], "*">>
    [] Len(s) \in 3 .. 4 -> <<s[1], "*", "*", s[Len(s)]>>
    [] OTHER -> <<s[1], s[2], "*", "*", "*", s[Len(s) - 1], s[Len(s)]>>

Last4(s) == SubSeq(s, IF Len(s) > 4 THEN Len(s) - 3 ELSE 1, Len(s))

(* buildBillingVerificationState: env is PAYMENT_CONFIG, now the wall      *)
(* clock.                                                                  *)
BillingState(payload, env, by, ref, now) ==
  LET components == ResolvedComponents(payload, env.components)
      connected  == Given(payload.connected, components # {})
      verified   == Given(payload.verified, connected)
      IfVerified(opt, default) == IF verified THEN {Given(opt, default)} ELSE {}
  IN [source     |-> NormalSource(payload.source, components),
      components |-> components,
      connected  |-> connected,
      verified   |-> verified,
      method     |-> IfVerified(payload.method, "manual_attested"),
      at         |-> IfVerified(payload.at, now),
      verifiedBy |-> IfVerified(payload.verifiedBy, by),
      ref        |-> {ref},
      label      |-> MaskLabel(Given(payload.label, env.label)),
      account    |-> Last4(Given(payload.account, env.account))]

(* sanitizeActionPayloadForAudit: the payload that is recorded, and that   *)
(* the mutation is then given instead of the caller's.                     *)
AuditPayload(b) ==
  [explicit |-> [c \in Components |-> {(c \in b.components)}], approved |-> {},
   source |-> {b.source}, connected |-> {b.connected}, verified |-> {b.verified},
   method |-> b.method, at |-> b.at, verifiedBy |-> b.verifiedBy,
   label |-> IF b.label = <<>> THEN {} ELSE {b.label},
   account |-> IF b.account = <<>> THEN {} ELSE {b.account}]

NoBilling == [source |-> "manual_verified", components |-> {}, connected |-> FALSE, verified |-> FALSE,
              method |-> {}, at |-> {}, verifiedBy |-> {}, ref |-> {}, label |-> <<>>, account |-> <<>>]

LaunchVerified(b) ==
  /\ b.source \in {"hybrid", "manual_verified"}
  /\ b.components # {}
  /\ b.connected /\ b.verified
  /\ b.method = {"manual_attested"}
  /\ b.at # {} /\ b.verifiedBy # {} /\ b.ref # {}

-----------------------------------------------------------------------------
(* The colour of a room: green, or amber with its reason.                  *)

Green == [status |-> "green", code |-> ""]
Amber(code) == [status |-> "amber", code |-> code]

Verified(status) == status \in {"passed", "verified", "green"}

(* A row of system_runtime_isolation; hardened stands for the conjunction  *)
(* of its three flags, which every reader takes together.                  *)
RolloutReady(iso) == Verified(iso.canary) /\ Verified(iso.rollback)

BillingPatch(b, failed) ==
  CASE ~LaunchVerified(b) -> Amber("billing_source_not_connected")
    [] failed             -> Amber("failed_payments_present")
    [] OTHER              -> Green

MarketPatch(targets, intel) ==
  CASE targets = {} -> Amber("target_registry_empty")
    [] intel = {}   -> Amber("market_intel_missing")
    [] OTHER        -> Green

RecordPatch(licenses, certificates) ==
  CASE licenses = {}     -> Amber("license_objects_missing")
    [] certificates = {} -> Amber("certificate_objects_missing")
    [] OTHER             -> Green

BoundaryStatus(in) == IF ~in.eoa /\ in.timelock /\ in.guardian THEN "verified" ELSE "unverified"

IsolationPatch(iso, code) == IF iso.hardened /\ RolloutReady(iso) THEN Green ELSE Amber(code)

-----------------------------------------------------------------------------
(***************************************************************************)
(* The tables behind the rooms, and the transactions of POST .../actions.  *)
(*                                                                         *)
(* Each client sends one request.  A transaction is a list of statements   *)
(* still to run (todo) over its own uncommitted writes; a statement waits  *)
(* for the row locks of other transactions, sees what is committed when it *)
(* runs, and updated_at is the transaction's start, whatever the time of   *)
(* the statement.                                                          *)
(*                                                                         *)
(*   db      the committed rows: <<table, key>> to [by, t, v], the request *)
(*           that wrote it, its updated_at and its columns                 *)
(*   ledger  the committed rows of evidence_ledger: evidence_ref and actor *)
(*   files   the exports written under the evidence directory              *)
(*   tx      the open transactions                                         *)
(*   span    history: when each request's transaction began and committed  *)
(***************************************************************************)

CONSTANTS
  Clients,      \* the requests; each is sent once
  Casts,        \* which requests come together, and on which rows: a sequence
  None

(* The lists in the body of a request and in a cast are sequences.         *)
IsList(s) == Len(s) \in Nat /\ s = [i \in 1 .. Len(s) |-> s[i]]

ListsTyped(q) ==
  /\ q.action \in {"refresh_contact", "refresh_targets"} => IsList(q.in)
  /\ q.action = "refresh_licenses" => q.in \in Nat
  /\ q.action = "refresh_market_sources" => IsList(q.in.sources) /\ IsList(q.in.intel) /\ IsList(q.in.pairs)
  /\ q.action = "sync_billing" => \A s \in q.in.label \cup q.in.account : IsList(s) /\ s # <<>>

(* What the boot seeds: rows of its own, and summaries that are not green, *)
(* with their reason.                                                      *)
SeedsExplained(rows) ==
  \A r \in DOMAIN rows :
    /\ r[1] \in {"reason", "license"} => r[2] \notin Clients
    /\ r[1] = "summary" =>
         /\ r = <<"summary", r[2]>> /\ rows[r].v.patch.status # "green"
         /\ \E k \in DOMAIN rows :
              /\ k[1] = "reason" /\ rows[k].v.room = r[2]
              /\ rows[k].v.code = rows[r].v.patch.code /\ rows[k].v.ref = rows[r].v.ref

ASSUME RoomAssumption ==
  /\ IsFiniteSet(Clients)
  /\ "seed" \notin Clients
  /\ \A i \in DOMAIN Casts :
       /\ IsList(Casts[i].workspaces) /\ IsList(Casts[i].env.label) /\ IsList(Casts[i].env.account)
       /\ \A r \in DOMAIN Casts[i].rows :
            LET x == Casts[i].rows[r] IN x = [by |-> "seed", t |-> 0, v |-> x.v]
       /\ SeedsExplained(Casts[i].rows)
       /\ \A p \in Clients :
            LET q == Casts[i].requests[p] IN
            q # None /\ q.kind = "action" /\ Refusal(q) = "" => ListsTyped(q) /\ q.ref # None

VARIABLES cast, db, ledger, files, clock, pc, tx, span, answer

storeVars == <<cast, db, ledger, files, clock, locks, pc, tx, span, answer>>

Input(p) == cast.requests[p]
Ref(p) == Input(p).ref

Stored(by, t, v) == [by |-> by, t |-> t, v |-> v]
Row(p, v) == Stored(p, tx[p].t, v)
Seed(v) == Stored("seed", 0, v)

Gone == [gone |-> TRUE]

(* What the committed table becomes when the writes w are applied.         *)
Overlay(rows, w) ==
  [r \in {k \in DOMAIN rows \cup DOMAIN w : k \in DOMAIN w => w[k] # Gone} |->
     IF r \in DOMAIN w THEN w[r] ELSE rows[r]]

NoWrites == [r \in {} |-> Gone]

Seen(p) == Overlay(db, tx[p].writes)

RowsOf(rows, table) == {r \in DOMAIN rows : r[1] = table}

(* ORDER BY updated_at DESC LIMIT 1; rows of one transaction tie.          *)
Latest(rows, among) == {r \in among : \A k \in among : rows[k].t <= rows[r].t}

NoTx == [t |-> 0, writes |-> NoWrites, todo |-> <<>>, read |-> {}]

-----------------------------------------------------------------------------
(* Statements.  A statement over many rows first selects them (open) and   *)
(* checks its condition again when it has their locks.                     *)

Statement(do, rows, v) == [do |-> do, rows |-> rows, v |-> v, open |-> TRUE]
Many(do, v) == [do |-> do, rows |-> {}, v |-> v, open |-> FALSE]

(* INSERT ... ON CONFLICT DO UPDATE, or INSERTs of rows of their own,      *)
(* which wait for nobody and are taken in one step.                        *)
PutAll(f) == Statement("put", DOMAIN f, f)
Put(row, v) == PutAll([r \in {row} |-> v])
(* INSERT ... ON CONFLICT DO NOTHING                                       *)
Keep(row, v) == Statement("keep", {row}, [r \in {row} |-> v])
(* INSERT ... ON CONFLICT DO UPDATE SET is_active = true                   *)
Wake(row, v) == Statement("wake", {row}, [r \in {row} |-> v])
(* UPDATE ... SET status = 'revoked' WHERE certificate_id = ...            *)
Revoke(row) == Statement("revoke", {row}, "revoked")
(* DELETE FROM camp_licenses                                               *)
Clear == Many("clear", "")
(* UPDATE market_targets SET is_active = false WHERE source = 'coingecko'  *)
Retire == Many("retire", "")
(* UPDATE system_runtime_isolation ... WHERE service_name <> ...           *)
Spread(service, v) == Many("spread", [service |-> service, iso |-> v])

(* The WHERE of a statement, on a row that exists.                         *)
Applies(s, r, old) ==
  CASE s.do = "clear"  -> r[1] = "license"
    [] s.do = "retire" -> r[1] = "target" /\ old.v.source = "coingecko" /\ old.v.active
    [] s.do = "spread" -> r[1] = "isolation" /\ r[2] # s.v.service
    [] s.do = "keep"   -> FALSE
    [] OTHER           -> TRUE

Written(p, s, r, old) ==
  CASE s.do = "clear"  -> Gone
    [] s.do = "retire" -> Row(p, [old.v EXCEPT !.active = FALSE])
    [] s.do = "spread" -> Row(p, s.v.iso)
    [] s.do = "wake"   -> Row(p, [old.v EXCEPT !.active = TRUE])
    [] s.do = "revoke" -> [old EXCEPT !.v.status = "revoked"]
    [] s.do = "put"    -> Row(p, s.v[r])

Upserts == {"put", "keep", "wake"}

(* The rows of an open statement and what each becomes.                    *)
Effect(p, s) ==
  LET rows == {r \in s.rows : IF r \in DOMAIN Seen(p) THEN Applies(s, r, Seen(p)[r]) ELSE s.do \in Upserts}
  IN [r \in rows |-> IF r \in DOMAIN Seen(p) THEN Written(p, s, r, Seen(p)[r]) ELSE Row(p, s.v[r])]

Wants(p, s) ==
  {Want(r, "UPDATE") : r \in {k \in s.rows : ~(s.do = "keep" /\ k \in DOMAIN Seen(p))}}

-----------------------------------------------------------------------------
Up == configured /\ database = "ready"

InTransaction(p) == pc[p] \in {"decide", "run", "record", "ledger", "commit"}

Goto(p, label) == pc' = [pc EXCEPT ![p] = label]

(* A statement of transaction p that needs no lock: it reads, plans what   *)
(* is to be run and goes on.                                               *)
Plan(p, from, to, todo, read) ==
  /\ pc[p] = from /\ Up
  /\ tx' = [tx EXCEPT ![p].todo = todo, ![p].read = read]
  /\ Goto(p, to)
  /\ UNCHANGED <<cast, db, ledger, files, clock, locks, span, answer>>

SelectRows(p) ==
  /\ pc[p] \in {"run", "record"} /\ Up
  /\ tx[p].todo # <<>> /\ ~Head(tx[p].todo).open
  /\ LET s == Head(tx[p].todo) IN
       tx' = [tx EXCEPT ![p].todo[1] =
                [s EXCEPT !.open = TRUE, !.rows = {r \in DOMAIN Seen(p) : Applies(s, r, Seen(p)[r])}]]
  /\ UNCHANGED <<cast, db, ledger, files, clock, locks, pc, span, answer>>

RunStatement(p) ==
  /\ pc[p] \in {"run", "record"} /\ Up
  /\ tx[p].todo # <<>> /\ Head(tx[p].todo).open
  /\ LET s == Head(tx[p].todo) IN
       /\ Acquire(p, Wants(p, s))
       /\ tx' = [tx EXCEPT ![p].writes = [r \in DOMAIN @ \cup DOMAIN Effect(p, s) |->
                                            IF r \in DOMAIN Effect(p, s) THEN Effect(p, s)[r] ELSE @[r]],
                           ![p].todo = Tail(@)]
  /\ UNCHANGED <<cast, db, ledger, files, clock, pc, span, answer>>

Answered(p, code) ==
  /\ pc' = [pc EXCEPT ![p] = "answered"]
  /\ answer' = [answer EXCEPT ![p] = code]

(* Mutant: a request that was rolled back is tried again.                  *)
RollbackAndRetry(p) ==
  /\ Release(p)
  /\ tx' = [tx EXCEPT ![p] = NoTx]
  /\ Goto(p, "begin")
  /\ UNCHANGED <<cast, db, ledger, files, clock, span, answer>>

Rollback(p) ==
  /\ Release(p)
  /\ tx' = [tx EXCEPT ![p] = NoTx]
  /\ Answered(p, "500")
  /\ UNCHANGED <<cast, db, ledger, files, clock, span>>

(* The connection fails under a statement.                                 *)
Fault(p) == InTransaction(p) /\ ~Up /\ Rollback(p)

WaitsFor(p) ==
  IF pc[p] \in {"run", "record"} /\ tx[p].todo # <<>> THEN Blockers(p, Wants(p, Head(tx[p].todo)))
  ELSE IF pc[p] = "ledger" THEN Blockers(p, {Want(<<"ledger", Ref(p)>>, "UPDATE")}) ELSE {}

(* Mutant: nobody looks for cycles of waits.                               *)
NeverCancelled(p) == FALSE /\ Rollback(p)

(* PostgreSQL cancels one transaction of a cycle of waits.                 *)
CancelDeadlocked(p) ==
  /\ \E S \in SUBSET Clients : p \in S /\ \A q \in S : WaitsFor(q) \cap S # {}
  /\ Rollback(p)

(* Mutant: the ledger row is written by a connection of the pool, outside  *)
(* the transaction.                                                        *)
InsertEvidenceApart(p) ==
  /\ pc[p] = "ledger" /\ Up
  /\ IF \E e \in ledger : e.ref = Ref(p)
     THEN Rollback(p)
     ELSE /\ ledger' = ledger \cup {[ref |-> Ref(p), actor |-> p]}
          /\ Goto(p, "commit")
          /\ UNCHANGED <<cast, db, files, clock, locks, tx, span, answer>>

(* Mutant: ON CONFLICT DO NOTHING.                                         *)
InsertEvidenceIfNew(p) ==
  /\ pc[p] = "ledger" /\ Up
  /\ Acquire(p, {Want(<<"ledger", Ref(p)>>, "UPDATE")})
  /\ Goto(p, "commit")
  /\ UNCHANGED <<cast, db, ledger, files, clock, tx, span, answer>>

(* appendEvidenceLedgerTx: evidence_ref is UNIQUE, and a second insertion  *)
(* of a reference waits for the first to end.  (The chain over the rows is *)
(* in the certificate service's modules.)                                  *)
InsertEvidence(p) ==
  /\ pc[p] = "ledger" /\ Up
  /\ Blockers(p, {Want(<<"ledger", Ref(p)>>, "UPDATE")}) = {}
  /\ IF \E e \in ledger : e.ref = Ref(p)
     THEN Rollback(p)
     ELSE /\ Acquire(p, {Want(<<"ledger", Ref(p)>>, "UPDATE")})
          /\ Goto(p, "commit")
          /\ UNCHANGED <<cast, db, ledger, files, clock, tx, span, answer>>

Begin(p) ==
  /\ pc[p] = "begin" /\ Up
  /\ clock' = clock + 1
  /\ tx' = [tx EXCEPT ![p].t = clock + 1]
  /\ span' = [span EXCEPT ![p].from = clock + 1]
  /\ Goto(p, "decide")
  /\ UNCHANGED <<cast, db, ledger, files, locks, answer>>

(* pool.connect() rejects: nothing to roll back.                           *)
ConnectFails(p) ==
  /\ pc[p] = "begin" /\ ~Up
  /\ Answered(p, "500")
  /\ UNCHANGED <<cast, db, ledger, files, clock, locks, tx, span>>

(* COMMIT; when its answer is lost the handler rolls back what is already  *)
(* committed and answers an error.                                         *)
Commit(p) ==
  /\ pc[p] = "commit" /\ Up
  /\ db' = Overlay(db, tx[p].writes)
  /\ ledger' = ledger \cup {[ref |-> Ref(p), actor |-> p]}
  /\ clock' = clock + 1
  /\ span' = [span EXCEPT ![p].to = clock + 1]
  /\ tx' = [tx EXCEPT ![p] = NoTx]
  /\ Release(p)
  /\ \E code \in {"201", "500"} : Answered(p, code)
  /\ UNCHANGED <<cast, files>>
=============================================================================
