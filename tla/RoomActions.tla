---------------------------- MODULE RoomActions ----------------------------
(***************************************************************************)
(* POST /api/room-contract/rooms/:room/actions: the guards, then one       *)
(* transaction that runs the room's mutation, registers the action, writes *)
(* three change events, the room's summary with its reason and event, and  *)
(* the evidence row.                                                       *)
(*                                                                         *)
(*   decide   the mutation's first queries; what it then has to write      *)
(*   run      its statements, one by one                                   *)
(*   finish   its last queries; the colour of the room                     *)
(*   record   the statements that every action ends with                   *)
(***************************************************************************)
EXTENDS RoomStore

Action(p, room, names) == Input(p).room = room /\ Input(p).action \in names

(* The request's guards run in one turn, the mode's among them; nothing is *)
(* looked at again after the first await.                                  *)
ReceiveAction(p) ==
  /\ pc[p] = "new" /\ Input(p).kind = "action" /\ boot = "done"
  /\ IF Refusal(Input(p)) # "" THEN Answered(p, Refusal(Input(p)))
     ELSE IF mode # "primary_db" THEN Answered(p, "503")
     ELSE Goto(p, "begin") /\ UNCHANGED answer
  /\ UNCHANGED <<cast, db, ledger, files, clock, locks, tx, span>>

Decide(p, todo, read) == Plan(p, "decide", "run", todo, read)

-----------------------------------------------------------------------------
(* Commercial.  The billing counts come from tables of other rooms: any.   *)

(* Mutant: the mutation is given the caller's payload, not the audited one.*)
BillingOfCaller(p) == BillingState(Input(p).in, cast.env, p, Ref(p), clock)

Billing(p) ==
  BillingState(AuditPayload(BillingState(Input(p).in, cast.env, p, Ref(p), tx[p].t)),
               cast.env, p, Ref(p), clock)

SyncBilling(p) ==
  /\ Action(p, "commercial", {"sync_billing"})
  /\ \E failed \in BOOLEAN :
       Decide(p, <<Put(<<"billing", p>>, Billing(p))>>, {BillingPatch(Billing(p), failed)})

Entitlement(plan) == [plan |-> plan, entitled |-> plan # "free"]

(* SELECT id, plan FROM workspaces, then one upsert for each in turn.      *)
RefreshEntitlements(p) ==
  /\ Action(p, "commercial", {"refresh_entitlements"})
  /\ Decide(p, [i \in 1 .. Len(cast.workspaces) |->
                  Put(<<"entitlement", cast.workspaces[i].id>>, Entitlement(cast.workspaces[i].plan))],
            {IF \E i \in 1 .. Len(cast.workspaces) : cast.workspaces[i].plan # "free" THEN Green
             ELSE Amber("certificate_entitlements_unavailable")})

Entitled(rows) == {r \in RowsOf(rows, "entitlement") : rows[r].v.entitled}

(* The caller's licence, else the newest entitled one, else the oldest     *)
(* workspace, whose entitlement is then written.                           *)
ChooseLicense(p) ==
  /\ Action(p, "commercial", {"issue_certificate"})
  /\ LET newest == Latest(Seen(p), Entitled(Seen(p)))
         asked  == Input(p).in.license
     IN \/ asked # {} /\ Decide(p, <<>>, asked)
        \/ asked = {} /\ \E r \in newest : Decide(p, <<>>, {r[2]})
        \/ /\ asked = {} /\ newest = {} /\ cast.workspaces # <<>>
           /\ LET w == cast.workspaces[1] IN
              Decide(p, <<Put(<<"entitlement", w.id>>, Entitlement(w.plan))>>, {w.id})
        \/ asked = {} /\ newest = {} /\ cast.workspaces = <<>> /\ Decide(p, <<>>, {})

CurrentBilling(rows) ==
  IF RowsOf(rows, "billing") = {} THEN {NoBilling}
  ELSE {rows[r].v : r \in Latest(rows, RowsOf(rows, "billing"))}

(* The certificate named by the caller, whether it exists or not, else the *)
(* newest.                                                                 *)
RevokeCertificate(p) ==
  /\ Action(p, "commercial", {"revoke_certificate"})
  /\ LET asked  == {<<"certificate", c>> : c \in Input(p).in.certificate}
         newest == Latest(Seen(p), RowsOf(Seen(p), "certificate"))
     IN IF asked \cup newest = {} THEN Decide(p, <<>>, {Amber("certificate_not_found")})
        ELSE \E r \in IF asked # {} THEN asked ELSE newest :
               Decide(p, <<Revoke(r)>>, {Amber("certificate_revoked")})

(* The record is written to disk before the row that names it; neither     *)
(* waits for the transaction to commit.                                    *)
Export(p, patch) ==
  /\ pc[p] = "decide" /\ Up
  /\ files' = files \cup {p}
  /\ tx' = [tx EXCEPT ![p].todo = <<Put(<<"export", p>>, Ref(p))>>, ![p].read = patch]
  /\ Goto(p, "run")
  /\ UNCHANGED <<cast, db, ledger, clock, locks, span, answer>>

ExportRecord(p) ==
  /\ Action(p, "commercial", {"export_commercial_record"})
  /\ Export(p, {RecordPatch(RowsOf(Seen(p), "entitlement"), RowsOf(Seen(p), "certificate"))})

-----------------------------------------------------------------------------
(* Camp                                                                    *)

RefreshIdentity(p) ==
  /\ Action(p, "camp", {"refresh_identity", "refresh_readme"})
  /\ Decide(p, <<Put(<<Input(p).action, p>>, Input(p).in)>>, {Green})

RefreshContact(p) ==
  /\ Action(p, "camp", {"refresh_contact"})
  /\ LET contacts == Input(p).in IN
     Decide(p, [i \in 1 .. Len(contacts) |-> Put(<<"contact", contacts[i].role>>, contacts[i].email)],
            {IF contacts = <<>> THEN Amber("camp_contact_missing") ELSE Green})

(* Mutant: the licences are added to those that are there.                 *)
AddLicenses(p) ==
  /\ Action(p, "camp", {"refresh_licenses"})
  /\ Decide(p, [i \in 1 .. Input(p).in |-> Put(<<"license", p, i>>, i)], {Green})

(* DELETE, then one INSERT for each licence.                               *)
RefreshLicenses(p) ==
  /\ Action(p, "camp", {"refresh_licenses"})
  /\ Decide(p, <<Clear>> \o [i \in 1 .. Input(p).in |-> Put(<<"license", p, i>>, i)], {Green})

-----------------------------------------------------------------------------
(* Market                                                                  *)

Target(source, active) == [source |-> source, active |-> active]

RefreshTargets(p) ==
  /\ Action(p, "market", {"refresh_targets"})
  /\ Decide(p, <<Retire>> \o [i \in 1 .. Len(Input(p).in) |->
                                Put(<<"target", Input(p).in[i].symbol>>,
                                    Target(Input(p).in[i].source, Input(p).in[i].active))], {})

(* The statements of lists, each of which has k, one list after the other. *)
OneByOne(lists, k) ==
  [i \in 1 .. k * Len(lists) |-> lists[((i - 1) \div k) + 1][((i - 1) % k) + 1]]

PutSource(source) == Put(<<"source", source.name>>, source.status)

(* A row of intelligence first makes its target exist and active.          *)
PutIntel(p, symbol) ==
  <<Wake(<<"target", symbol>>, Target("target_market_registry", TRUE)), Put(<<"intel", p, symbol>>, symbol)>>

PutCompetitors(pair) ==
  <<Keep(<<"target", pair[1]>>, Target("target_market_registry", TRUE)),
    Keep(<<"target", pair[2]>>, Target("target_market_registry", TRUE)),
    Put(<<"competitor", pair[1], pair[2]>>, "competitor")>>

RefreshMarketSources(p) ==
  /\ Action(p, "market", {"refresh_market_sources"})
  /\ LET in == Input(p).in IN
     Decide(p, [i \in 1 .. Len(in.sources) |-> PutSource(in.sources[i])]
               \o OneByOne([i \in 1 .. Len(in.intel) |-> PutIntel(p, in.intel[i])], 2)
               \o OneByOne([i \in 1 .. Len(in.pairs) |-> PutCompetitors(in.pairs[i])], 3), {})

ActiveTargets(rows) ==
  {r \in RowsOf(rows, "target") : rows[r].v.active /\ rows[r].v.source # "coingecko"}

MarketStats(p) == MarketPatch(ActiveTargets(Seen(p)), RowsOf(Seen(p), "intel"))

ExportSnapshot(p) ==
  /\ Action(p, "market", {"export_market_snapshot"})
  /\ Export(p, {})

-----------------------------------------------------------------------------
(* System and Ops share the isolation rows.                                *)

RefreshBoundary(p) ==
  /\ Action(p, "system", {"refresh_boundary_state"})
  /\ LET status == BoundaryStatus(Input(p).in) IN
     Decide(p, <<Put(<<"boundary", p>>, [status |-> status, eoa |-> Input(p).in.eoa])>>,
            {IF status = "verified" THEN Green ELSE Amber("boundary_state_unverified")})

(* What upsertIsolationStateTx will write: each column from the override,  *)
(* the payload, the row it has just read without a lock, or the default.   *)
MergedIsolation(p, canary, rollback) ==
  LET in   == Input(p).in
      id   == <<"isolation", Given(in.service, "runtime-api")>>
      kept == IF id \in DOMAIN Seen(p) THEN Seen(p)[id].v
              ELSE [hardened |-> FALSE, canary |-> "unverified", rollback |-> "unverified"]
  IN [hardened |-> Given(in.hardened, kept.hardened),
      canary   |-> Given(canary, Given(in.canary, kept.canary)),
      rollback |-> Given(rollback, Given(in.rollback, kept.rollback))]

WriteIsolation(p, iso) ==
  LET service == Given(Input(p).in.service, "runtime-api")
      all     == Given(Input(p).in.all, Input(p).in.service = {})
  IN <<Put(<<"isolation", service>>, iso)>> \o IF all THEN <<Spread(service, iso)>> ELSE <<>>

RefreshTrust(p) ==
  /\ Action(p, "system", {"refresh_trust_closure", "refresh_attestation"})
  /\ LET iso == MergedIsolation(p, {}, {}) IN
     Decide(p, <<Put(<<"attestation", p>>, Input(p).in.attested)>> \o WriteIsolation(p, iso),
            {IF Input(p).in.attested THEN IsolationPatch(iso, "boundary_isolation_unverified")
             ELSE Amber("boundary_isolation_unverified")})

(* Mutant: the payload's values win over the row, whatever they are.       *)
RefreshOpsFromPayload(p) ==
  /\ Action(p, "ops", {"health_refresh", "baseline_capture", "canary_deploy", "rollback"})
  /\ LET iso == [hardened |-> Given(Input(p).in.hardened, FALSE),
                 canary   |-> Given(Input(p).in.status, "unverified"),
                 rollback |-> "unverified"]
     IN Decide(p, WriteIsolation(p, iso), {IsolationPatch(iso, "rollback_canary_unverified")})

(* canary_deploy and rollback set their own column from the payload's      *)
(* status, or to unverified; health_refresh and baseline_capture rewrite   *)
(* what they read.                                                         *)
RefreshOps(p) ==
  /\ Action(p, "ops", {"health_refresh", "baseline_capture", "canary_deploy", "rollback"})
  /\ LET in       == Input(p).in
         canary   == IF Input(p).action = "canary_deploy"
                     THEN {Given(in.status, Given(in.canary, "unverified"))} ELSE {}
         rollback == IF Input(p).action = "rollback"
                     THEN {Given(in.status, Given(in.rollback, "unverified"))} ELSE {}
         iso      == MergedIsolation(p, canary, rollback)
     IN Decide(p, WriteIsolation(p, iso), {IsolationPatch(iso, "rollback_canary_unverified")})

(* The actions of the other rooms change no table of their own and leave   *)
(* the summary as it is.                                                   *)
NoMutation(p) ==
  /\ \/ Input(p).room \in {"evidence", "reports_plans"}
     \/ Action(p, "ops", {"evidence_export", "seal_review"})
  /\ Decide(p, <<>>, {})

DecideMutation(p) ==
  /\ pc[p] = "decide"
  /\ \/ SyncBilling(p) \/ RefreshEntitlements(p) \/ ChooseLicense(p) \/ RevokeCertificate(p) \/ ExportRecord(p)
     \/ RefreshIdentity(p) \/ RefreshContact(p) \/ RefreshLicenses(p)
     \/ RefreshTargets(p) \/ RefreshMarketSources(p) \/ ExportSnapshot(p)
     \/ RefreshBoundary(p) \/ RefreshTrust(p) \/ RefreshOps(p)
     \/ NoMutation(p)

-----------------------------------------------------------------------------
(* What every action ends with.                                            *)

Event(p, type, v) == [r \in {<<"event", p, type>>} |-> [room |-> Input(p).room, payload |-> v]]

Reason(p, patch) ==
  [r \in {k \in {<<"reason", p>>} : patch.status # "green"} |->
     [room |-> Input(p).room, code |-> patch.code, ref |-> Ref(p)]]

(* Mutant: the reason is recorded only with a new reason code.             *)
SummaryStatementsOnce(p, patch) ==
  LET old == {db[r].v.patch : r \in DOMAIN db \cap {<<"summary", Input(p).room>>}} IN
  <<Put(<<"summary", Input(p).room>>, [patch |-> patch, ref |-> Ref(p)]),
    PutAll(IF patch \in old THEN Event(p, "room_summary_refreshed", {patch.status})
           ELSE Overlay(Reason(p, patch), Event(p, "room_summary_refreshed", {patch.status})))>>

(* upsertRoomSummaryTx: the summary, its reason unless it is green, and an *)
(* event.                                                                  *)
SummaryStatements(p, patch) ==
  <<Put(<<"summary", Input(p).room>>, [patch |-> patch, ref |-> Ref(p)]),
    PutAll(Overlay(Reason(p, patch), Event(p, "room_summary_refreshed", {patch.status})))>>

(* The payload that action_requested records.                              *)
AuditedPayload(p) ==
  IF Action(p, "commercial", {"sync_billing"})
  THEN {AuditPayload(BillingState(Input(p).in, cast.env, p, Ref(p), tx[p].t))} ELSE {}

RecordStatements(p, patch) ==
  <<Put(<<"action", Input(p).room, Input(p).action>>, Input(p).action),
    PutAll(Overlay(Event(p, "action_requested", AuditedPayload(p)),
                   Overlay(Event(p, "policy_evaluated", {}),
                           Event(p, "domain_mutation_applied", {r[1] : r \in DOMAIN tx[p].writes}))))>>
  \o IF patch = {} THEN <<>> ELSE SummaryStatements(p, CHOOSE c \in patch : TRUE)

(* The colour of the room, from what the mutation's last queries find; a   *)
(* certificate is issued only under a licence.                             *)
Finish(p) ==
  /\ pc[p] = "run" /\ tx[p].todo = <<>>
  /\ \/ /\ Action(p, "commercial", {"issue_certificate"})
        /\ IF tx[p].read = {}
           THEN Plan(p, "run", "record",
                     RecordStatements(p, {Amber("certificate_entitlements_unavailable")}), {})
           ELSE \E b \in CurrentBilling(Seen(p)) :
                  Plan(p, "run", "record",
                       <<Put(<<"certificate", p>>, [status |-> "issued", license |-> tx[p].read])>>
                       \o RecordStatements(p, {IF LaunchVerified(b) THEN Green
                                               ELSE Amber("billing_source_not_connected")}), {})
     \/ /\ Input(p).room = "market"
        /\ Plan(p, "run", "record", RecordStatements(p, {MarketStats(p)}), {})
     \/ /\ ~Action(p, "commercial", {"issue_certificate"}) /\ Input(p).room # "market"
        /\ Plan(p, "run", "record", RecordStatements(p, tx[p].read), {})

EndStatements(p) ==
  /\ tx[p].todo = <<>>
  /\ Plan(p, "record", "ledger", <<>>, {})

ActionNext(p) ==
  \/ ReceiveAction(p) \/ Begin(p) \/ ConnectFails(p)
  \/ DecideMutation(p) \/ SelectRows(p) \/ RunStatement(p) \/ Finish(p) \/ EndStatements(p)
  \/ InsertEvidence(p) \/ Commit(p)
  \/ Fault(p) \/ CancelDeadlocked(p)
=============================================================================
