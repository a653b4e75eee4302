---------------------------- MODULE MCRoomPlane ----------------------------
(***************************************************************************)
(* The room contract for TLC: which requests come together.  Every pair of *)
(* actions below shares rows or a room's summary.                          *)
(***************************************************************************)
EXTENDS RoomPlane

CONSTANTS a, b, r1, r2

Act(room, action, ref, in) ==
  [kind |-> "action", room |-> room, action |-> action, role |-> "authority", ref |-> ref, in |-> in]
ViewOf(room) == [kind |-> "view", room |-> room]

Isolation(service, hardened, canary, status) ==
  [service |-> service, hardened |-> hardened, canary |-> canary, rollback |-> {}, status |-> status,
   all |-> {}, attested |-> TRUE]

PayloadOf(explicit, approved, source, connected, verified, label) ==
  [explicit |-> [k \in Components |-> IF k = "paypal" THEN explicit ELSE {}], approved |-> approved,
   source |-> source, connected |-> connected, verified |-> verified, method |-> {}, at |-> {},
   verifiedBy |-> {}, label |-> label, account |-> {<<"1", "2", "3", "4", "5">>}]

Hybrid == PayloadOf({TRUE}, {"btc_wallet", "paypal"}, {}, {}, {}, {<<"A", "c", "m", "e", "L">>})
Unverified == PayloadOf({FALSE}, {}, {"hybrid"}, {TRUE}, {FALSE}, {<<"A", "b">>})

Sources(names, intel, pairs) ==
  [sources |-> [i \in 1 .. Len(names) |-> [name |-> names[i], status |-> "connected"]], intel |-> intel, pairs |-> pairs]
Targets(symbol, source) == <<[symbol |-> symbol, source |-> source, active |-> TRUE]>>

Op(action, service, canary, status) == Act("ops", action, r2, Isolation(service, {}, canary, status))

(* The first request of a pair has reference r1, the second r2.            *)
Pairs ==
  << <<Act("ops", "canary_deploy", r1, Isolation({"svc"}, {}, {}, {"passed"})), Op("health_refresh", {"svc"}, {}, {})>>,
    <<Act("ops", "canary_deploy", r1, Isolation({"svc"}, {TRUE}, {}, {"passed"})), Op("rollback", {}, {}, {"passed"})>>,
    <<Act("ops", "canary_deploy", r1, Isolation({}, {TRUE}, {}, {})), Op("evidence_export", {}, {}, {})>>,
    <<Act("system", "refresh_trust_closure", r1, Isolation({}, {TRUE}, {"verified"}, {})),
      Op("canary_deploy", {"svc"}, {}, {"passed"})>>,
    <<Act("system", "refresh_boundary_state", r1, [eoa |-> FALSE, timelock |-> TRUE, guardian |-> TRUE]),
      Act("system", "refresh_attestation", r2, Isolation({"svc"}, {}, {}, {}))>>,
    <<Act("camp", "refresh_licenses", r1, 2), Act("camp", "refresh_licenses", r2, 1)>>,
    <<Act("camp", "refresh_contact", r1, <<[role |-> "ops", email |-> "x"], [role |-> "authority", email |-> "x"]>>),
      Act("camp", "refresh_contact", r2, <<[role |-> "authority", email |-> "y"], [role |-> "ops", email |-> "y"]>>)>>,
    <<Act("camp", "refresh_contact", r1, <<>>), Act("camp", "refresh_identity", r2, "name")>>,
    <<Act("commercial", "sync_billing", r1, Hybrid), Act("commercial", "sync_billing", r1, Hybrid)>>,
    <<Act("commercial", "sync_billing", r1, Unverified), Act("commercial", "issue_certificate", r2, [license |-> {}])>>,
    <<Act("commercial", "sync_billing", r1, Hybrid), Act("commercial", "issue_certificate", r2, [license |-> {"L"}])>>,
    <<Act("commercial", "refresh_entitlements", r1, {}), Act("commercial", "issue_certificate", r2, [license |-> {}])>>,
    <<Act("commercial", "issue_certificate", r1, [license |-> {}]),
      Act("commercial", "revoke_certificate", r2, [certificate |-> {}])>>,
    <<Act("commercial", "revoke_certificate", r1, [certificate |-> {"nowhere"}]),
      Act("commercial", "export_commercial_record", r2, {})>>,
    <<Act("market", "refresh_targets", r1, Targets("T", "registry")),
      Act("market", "refresh_market_sources", r2, Sources(<<"s">>, <<"T">>, <<>>))>>,
    <<Act("market", "refresh_targets", r1, Targets("U", "coingecko")),
      Act("market", "refresh_market_sources", r2, Sources(<<>>, <<>>, <<<<"U", "T">>>>))>>,
    <<Act("market", "export_market_snapshot", r1, {}), Act("reports_plans", "generate_report", r2, {})>> >>

SeededSummary(room) == [patch |-> Amber("domain_sync_required"), ref |-> None]

Rows(rooms, canary) ==
  LET keys == {<<"summary", r>> : r \in rooms} \cup {<<"reason", "seed", r>> : r \in rooms}
              \cup {<<"isolation", "svc">>, <<"license", "seed", 1>>, <<"target", "BTC">>}
  IN [k \in keys |->
        Seed(CASE k[1] = "summary"   -> SeededSummary(k[2])
               [] k[1] = "reason"    -> [room |-> k[3], code |-> "domain_sync_required", ref |-> None]
               [] k[1] = "isolation" -> [hardened |-> TRUE, canary |-> canary, rollback |-> "passed"]
               [] k[1] = "license"   -> 1
               [] k[1] = "target"    -> [source |-> "coingecko", active |-> TRUE])]

Env == [components |-> {"eth_wallet"}, label |-> <<"B">>, account |-> <<"9">>]

CastOf(requests, rows, workspaces, stable, openCloud) ==
  [requests |-> requests, rows |-> rows, workspaces |-> workspaces, env |-> Env, stable |-> stable,
   openCloud |-> openCloud]

Alone(x) == [p \in Clients |-> IF p = a THEN x ELSE None]
Two(x, y) == [p \in Clients |-> CASE p = a -> x [] p = b -> y [] OTHER -> None]

Shops == <<[id |-> "w1", plan |-> "solo"], [id |-> "w2", plan |-> "free"]>>

StablePairs ==
  [i \in 1 .. Len(Pairs) |->
     CastOf(Two(Pairs[i][1], Pairs[i][2]), Rows({Pairs[i][1].room, Pairs[i][2].room}, "unverified"), Shops, TRUE, FALSE)]

(* Requests that are refused, and a shop without licences.                 *)
Lonely ==
  << Act("nowhere", "x", r1, {}), Act("camp", "", r1, {}), Act("camp", "rollback", r1, {}),
     [Act("camp", "refresh_identity", r1, {}) EXCEPT !.role = "nobody"],
     [Act("system", "refresh_attestation", r1, {}) EXCEPT !.role = "operator"],
     Act("commercial", "issue_certificate", r1, [license |-> {}]),
     Act("commercial", "revoke_certificate", r1, [certificate |-> {}]), ViewOf("nowhere") >>
Refused == [i \in 1 .. Len(Lonely) |-> CastOf(Alone(Lonely[i]), Rows({"commercial"}, "passed"), <<>>, TRUE, TRUE)]

(* Readers next to a writer of what they read.                             *)
Read ==
  << CastOf(Two(Act("commercial", "sync_billing", r1, Hybrid), ViewOf("commercial")),
            Rows({"commercial"}, "passed"), Shops, TRUE, FALSE),
     CastOf(Two(Act("market", "refresh_market_sources", r1, Sources(<<"s">>, <<"T">>, <<>>)), ViewOf("market")),
            Rows({}, "passed"), Shops, TRUE, FALSE),
     CastOf(Two(Act("system", "refresh_trust_closure", r1, Isolation({}, {TRUE}, {}, {})), ViewOf("system")),
            Rows({"system"}, "passed"), Shops, TRUE, TRUE) >>

(* The database comes and goes under a request.                            *)
Shaken(request, rooms) == CastOf(Alone(request), Rows(rooms, "passed"), Shops, FALSE, FALSE)
Unstable ==
  << Shaken(ViewOf("camp"), {}), Shaken(ViewOf("evidence"), {}), Shaken(ViewOf("evidence"), {"evidence"}),
     Shaken(ViewOf("system"), {"system"}), Shaken(ViewOf("market"), {"market"}),
     Shaken(ViewOf("commercial"), {}), Shaken(ViewOf("reports_plans"), {}), Shaken(ViewOf("ops"), {}),
     Shaken(Act("camp", "refresh_contact", r1, <<>>), {"camp"}) >>

RoomCasts == StablePairs \o Refused \o Read \o Unstable
EvidenceCasts == << Shaken(ViewOf("evidence"), {"evidence"}) >>
=============================================================================
