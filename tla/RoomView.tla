------------------------------ MODULE RoomView ------------------------------
(***************************************************************************)
(* GET /api/room-contract/rooms/:room.  Nothing is read in a transaction:  *)
(* the room's data, its summary and its reasons are queries of their own,  *)
(* and a query that fails reads as no rows.  The runtime mode is looked at *)
(* three times, with queries in between: when the request arrives, when a  *)
(* summary that was not found has to be replaced, and when the stop        *)
(* conditions are collected.                                               *)
(***************************************************************************)
EXTENDS RoomActions

VARIABLE view       \* what each reader has found so far

(* body: "row" a stored summary, "missing" a stand-in in primary mode,     *)
(* "synth" a stand-in computed from the environment.                       *)
Unread ==
  [modeAtStart |-> "", data |-> NoBilling, targets |-> {}, intel |-> FALSE, connected |-> FALSE,
   summary |-> {}, body |-> "", status |-> "", reasons |-> {}, evidence |-> FALSE, blockers |-> {},
   synthesized |-> FALSE, stops |-> {}]

viewUnchanged == UNCHANGED <<cast, db, ledger, files, clock, locks, tx, span>>

ReceiveView(p) ==
  /\ pc[p] = "new" /\ Input(p).kind = "view" /\ boot = "done"
  /\ IF Input(p).room \notin RoomKeys THEN Answered(p, "404") /\ UNCHANGED view
     ELSE /\ view' = [view EXCEPT ![p].modeAtStart = mode]
          /\ Goto(p, "data") /\ UNCHANGED answer
  /\ viewUnchanged

Readable == IF Up THEN db ELSE [r \in {} |-> Gone]

(* The commercial room's billing row: a seeded one does not count.         *)
StoredBilling(rows) ==
  LET own == {r \in RowsOf(rows, "billing") : rows[r].by # "seed"} IN
  IF own = {} THEN {NoBilling} ELSE {rows[r].v : r \in Latest(rows, own)}

NewestConnected(rows, among) ==
  IF among = {} THEN {FALSE} ELSE {rows[r].v = "connected" : r \in Latest(rows, among)}

(* The market room's source: the newest that was not the public feed.      *)
SourceConnected(rows) == NewestConnected(rows, {r \in RowsOf(rows, "source") : r[2] # "coingecko"})

(* loadPrimaryRoomData, of which the stop conditions use these.            *)
LoadData(p) ==
  /\ pc[p] = "data"
  /\ \E b \in StoredBilling(Readable), c \in SourceConnected(Readable) :
       view' = [view EXCEPT ![p].data = b, ![p].connected = c,
                            ![p].targets = ActiveTargets(Readable),
                            ![p].intel = RowsOf(Readable, "intel") # {}]
  /\ Goto(p, "summary")
  /\ UNCHANGED answer /\ viewUnchanged

LoadSummary(p) ==
  /\ pc[p] = "summary"
  /\ view' = [view EXCEPT ![p].summary = {Readable[r].v : r \in DOMAIN Readable \cap {<<"summary", Input(p).room>>}}]
  /\ Goto(p, "reasons")
  /\ UNCHANGED answer /\ viewUnchanged

-----------------------------------------------------------------------------
(* Stop conditions, each with its scope.                                   *)

Stop(code, scope, when) == IF when THEN {[code |-> code, scope |-> scope]} ELSE {}

(* v is what the reader has: its mode is looked at here, once more.  Every *)
(* reason comes with its text, evidence reference and next action.         *)
CommonStops(room, v) ==
  Stop("database_unavailable", "write", mode # "primary_db")
  \cup Stop("room_summary_missing_primary_db", "write", mode = "primary_db" /\ v.body = "missing")
  \cup Stop("zero_trust_not_configured", "write", mode = "primary_db" /\ cast.openCloud)
  \cup Stop("synthesized_mode", "write", v.synthesized)
  \cup Stop("status_non_green_without_reasons", "read", v.status # "green" /\ v.reasons = {})
  \cup Stop("non_green_missing_reason_companions", "read", v.status # "green" /\ v.reasons = {})
  \cup Stop("green_proof_room_missing_evidence_or_exemption", "read",
            v.status = "green" /\ room \in ProofBoundRooms /\ ~v.evidence)

MarketStops(v) ==
  IF v.targets = {} THEN Stop("target_registry_empty", "write", TRUE)
  ELSE Stop("market_intel_missing", "write", ~v.intel)
       \cup Stop("market_source_disconnected", "write", ~v.connected)

CommercialStops(v) ==
  Stop("billing_source_not_connected", "write", ~LaunchVerified(v.data))
  \cup Stop("certificate_eligibility_unavailable_in_synthesized_mode", "write", v.synthesized)

SystemStops(v) == Stop("boundary_owner_still_eoa", "write", "boundary_owner_still_eoa" \in v.blockers)

StopsOf(room, v) ==
  CommonStops(room, v)
  \cup (IF room = "market" THEN MarketStops(v) ELSE {})
  \cup (IF room = "commercial" THEN CommercialStops(v) ELSE {})
  \cup (IF room = "system" THEN SystemStops(v) ELSE {})

(* Mutant: the answer takes the mode of the moment, not of its arrival.    *)
CollectFresh(p, b) ==
  LET v == [b EXCEPT !.synthesized = b.body = "synth"]
      w == [v EXCEPT !.stops = StopsOf(Input(p).room, v)]
  IN /\ view' = [view EXCEPT ![p] = w]
     /\ IF Input(p).room = "system" /\ mode = "primary_db"
        THEN Goto(p, "boundary") /\ UNCHANGED answer
        ELSE Answered(p, "200")

(* The rest of the handler, with the body b.  The answer says synthesized  *)
(* only if the mode was not primary when the request arrived; the system   *)
(* room has more queries to make, in primary mode only.                    *)
Collect(p, b) ==
  LET v == [b EXCEPT !.synthesized = b.modeAtStart # "primary_db" /\ b.body = "synth"]
      w == [v EXCEPT !.stops = StopsOf(Input(p).room, v)]
  IN /\ view' = [view EXCEPT ![p] = w]
     /\ IF Input(p).room = "system" /\ mode = "primary_db"
        THEN Goto(p, "boundary") /\ UNCHANGED answer
        ELSE Answered(p, "200")

(* downgradeSynthesizedSummary: never green, never without a reason or an  *)
(* evidence reference.  (The system room's summary lists its codes as      *)
(* blockers; no other room's stops look at them.)                          *)
Downgraded(v, verdict) ==
  [v EXCEPT !.body = "synth", !.status = IF verdict.status = "green" THEN "amber" ELSE verdict.status,
            !.reasons = IF verdict.codes = {} THEN {"synthesized_mode"} ELSE verdict.codes,
            !.evidence = TRUE, !.blockers = verdict.codes,
            !.data = NoBilling, !.intel = FALSE]

(* buildSynthSummary, room by room: the verdicts it can come to.  What the *)
(* process's environment says and what tables that no action writes count  *)
(* are choices; a query that fails counts nothing.                         *)
Verdict(status, codes) == [status |-> status, codes |-> codes]
Fine == Verdict("green", {})
Concern(code) == Verdict("amber", {code})
IfCounted(verdict) == IF Up THEN {verdict} ELSE {}

SynthCamp == {Fine, Concern("license_verification_incomplete")}

SynthCommercial ==
  IF cast.env.components = {} THEN {Concern("billing_source_not_connected")}
  ELSE {Fine} \cup IfCounted(Concern("failed_payments_present"))

SynthEvidence ==
  {Concern("no_evidence_events")} \cup IfCounted(Fine) \cup IfCounted(Concern("verification_failures_present"))

SynthMarket(v) ==
  CASE v.targets = {} -> {Concern("target_registry_empty")}
    [] v.connected    -> {Fine}
    [] OTHER          -> {Concern("market_source_disconnected")}

SynthReports == {Fine} \cup IfCounted(Concern("blockers_present"))

(* checkAuthorityReachability asks the authority over HTTP.                *)
AuthorityReachable == BOOLEAN

SynthSystem ==
  {LET codes == IF reachable THEN env ELSE env \cup {"asus_reachability"} IN
   Verdict(CASE codes = {} -> "green" [] "boundary_owner_still_eoa" \in codes -> "red" [] OTHER -> "amber", codes) :
     reachable \in AuthorityReachable,
     env \in SUBSET {"attestation_refresh_failure", "timelock_not_wired", "guardian_not_wired",
                      "boundary_owner_still_eoa"}}

SynthOps == {Fine} \cup IfCounted(Concern("incidents_open")) \cup IfCounted(Concern("dead_jobs_present"))

SynthSummary(room, v) ==
  CASE room = "camp"          -> SynthCamp
    [] room = "commercial"    -> SynthCommercial
    [] room = "evidence"      -> SynthEvidence
    [] room = "market"        -> SynthMarket(v)
    [] room = "reports_plans" -> SynthReports
    [] room = "system"        -> SynthSystem
    [] OTHER                  -> SynthOps

(* buildPrimaryDbMissingSummary.                                           *)
Missing(v) ==
  [v EXCEPT !.body = "missing", !.status = "amber", !.reasons = {"room_summary_missing"}, !.evidence = TRUE]

(* Mutant: without the made-up reason.                                     *)
RecordedReasonsOf(p, v) ==
  LET rows == {r \in RowsOf(Readable, "reason") : Readable[r].v.room = Input(p).room}
  IN {Readable[r].v.code : r \in Latest(Readable, rows)}

(* The reasons of a stored summary: those recorded for the room, newest    *)
(* first, else one made up from the summary itself.                        *)
ReasonsOf(p, v) ==
  LET rows == {r \in RowsOf(Readable, "reason") : Readable[r].v.room = Input(p).room}
      s    == CHOOSE s \in v.summary : TRUE
  IN IF s.patch.status # "green" /\ rows = {} THEN {s.patch.code}
     ELSE {Readable[r].v.code : r \in Latest(Readable, rows)}

LoadReasons(p) ==
  /\ pc[p] = "reasons"
  /\ LET v == view[p] IN
     \/ /\ v.summary # {}
        /\ LET s == CHOOSE s \in v.summary : TRUE IN
           Collect(p, [v EXCEPT !.body = "row", !.status = s.patch.status, !.reasons = ReasonsOf(p, v),
                                !.evidence = s.ref # None])
     \/ /\ v.summary = {} /\ mode = "primary_db"
        /\ Collect(p, Missing(v))
     \/ /\ v.summary = {} /\ mode # "primary_db" /\ Input(p).room = "camp"
        /\ \E verdict \in SynthCamp : Collect(p, Downgraded(v, verdict))
     \/ /\ v.summary = {} /\ mode # "primary_db" /\ Input(p).room # "camp"
        /\ Goto(p, "synth")
        /\ UNCHANGED <<view, answer>>
  /\ viewUnchanged

(* fetchMarketTargets: the active targets, those of the public feed among  *)
(* them, and whether the newest source of all is connected.                *)
FetchMarketTargets(rows) ==
  LET targets == {r \in RowsOf(rows, "target") : rows[r].v.active} IN
  {[targets |-> targets, connected |-> c /\ targets # {}] : c \in NewestConnected(rows, RowsOf(rows, "source"))}

Fetched(p) ==
  IF Input(p).room # "market" THEN {view[p]}
  ELSE {[view[p] EXCEPT !.targets = m.targets, !.connected = m.connected] : m \in FetchMarketTargets(Readable)}

(* loadBackbone without a summary, while the mode is not primary.          *)
Synthesize(p) ==
  /\ pc[p] = "synth"
  /\ \E v \in Fetched(p) : \E verdict \in SynthSummary(Input(p).room, v) : Collect(p, Downgraded(v, verdict))
  /\ viewUnchanged

LoadBoundary(p) ==
  /\ pc[p] = "boundary"
  /\ LET rows == Latest(Readable, RowsOf(Readable, "boundary")) IN
     \E b \in IF rows = {} THEN {[status |-> "unverified", eoa |-> FALSE]} ELSE {Readable[r].v : r \in rows} :
       view' = [view EXCEPT ![p].stops = @ \cup Stop("boundary_state_unverified", "write", b.status # "verified")
                                           \cup Stop("boundary_owner_still_eoa", "write", b.eoa)]
  /\ Goto(p, "isolation")
  /\ UNCHANGED answer /\ viewUnchanged

LoadIsolation(p) ==
  /\ pc[p] = "isolation"
  /\ LET rows == {Readable[r].v : r \in RowsOf(Readable, "isolation")} IN
     view' = [view EXCEPT ![p].stops =
                @ \cup Stop("boundary_isolation_unverified", "write", rows = {} \/ \E i \in rows : ~i.hardened)
                  \cup Stop("rollback_canary_unverified", "write", rows = {} \/ \E i \in rows : ~RolloutReady(i))]
  /\ Answered(p, "200")
  /\ viewUnchanged

ViewNext(p) ==
  \/ ReceiveView(p) \/ LoadData(p) \/ LoadSummary(p) \/ LoadReasons(p) \/ Synthesize(p)
  \/ LoadBoundary(p) \/ LoadIsolation(p)
=============================================================================
