---------------------------- MODULE RuntimeMode ----------------------------
(***************************************************************************)
(* The runtime mode of the server (server/db/mode.ts): a process-wide      *)
(* snapshot, set once by the bootstrap and then by a monitor that starts a *)
(* probe of the database every 30 seconds, whether or not the previous one *)
(* has ended.  A probe (server/db/health.ts) asks three questions, one     *)
(* after the other, and overwrites the snapshot when the last answer is    *)
(* delivered: the database may have changed since, and so may a younger    *)
(* probe have.                                                             *)
(*                                                                         *)
(*   database   what the server would find: "down", "bare" (reachable, but *)
(*              tables are missing or the schema is old) or "ready"        *)
(*   probes     the live probes: how far each one is, what it found so far *)
(***************************************************************************)
EXTENDS Naturals

CONSTANTS
  Probes,       \* the probes that can be live at once
  MaxChanges    \* how often the database changes (bound)

ASSUME RuntimeModeAssumption == MaxChanges \in Nat

VARIABLES
  configured,   \* DB_RUNTIME_ENV.isConfigured
  database,
  boot,         \* "migrate", "probe" or "done"; "off" in a process that never boots
  apis,         \* the DB-backed routes are registered
  mode,         \* snapshot.runtimeMode
  probes,
  changes,      \* the changes of the database so far
  heard         \* history: how many there were when the probe that was
                \* delivered last began; Never before the first

modeVars == <<configured, database, boot, apis, mode, probes, changes, heard>>

Never == MaxChanges + 1

Idle == [at |-> "idle", found |-> FALSE, since |-> 0]
Stages == {"reach", "tables", "schema", "deliver"}

ModeInit ==
  /\ configured \in BOOLEAN
  /\ database \in {"down", "bare", "ready"}
  /\ boot = IF configured THEN "migrate" ELSE "probe"
  /\ apis = FALSE
  /\ mode = "degraded_read_only"
  /\ probes = [i \in Probes |-> Idle]
  /\ changes = 0
  /\ heard = Never

(* A process without the server.                                           *)
ModeOff ==
  /\ configured = FALSE /\ database = "down"
  /\ boot = "off"
  /\ apis = FALSE
  /\ mode = "degraded_read_only"
  /\ probes = [i \in Probes |-> Idle]
  /\ changes = 0
  /\ heard = Never

ModeTypeOK ==
  /\ configured \in BOOLEAN /\ apis \in BOOLEAN
  /\ database \in {"down", "bare", "ready"}
  /\ boot \in {"off", "migrate", "probe", "done"}
  /\ mode \in {"primary_db", "degraded_read_only"}
  /\ probes \in [Probes -> [at : Stages \cup {"idle"}, found : BOOLEAN, since : 0 .. MaxChanges]]
  /\ changes \in 0 .. MaxChanges /\ heard \in 0 .. Never

-----------------------------------------------------------------------------
(* The database fails, comes back, or is replaced by an older dump.        *)
DatabaseChanges ==
  /\ changes < MaxChanges
  /\ changes' = changes + 1
  /\ database' \in {"down", "bare", "ready"} \ {database}
  /\ UNCHANGED <<configured, boot, apis, mode, probes, heard>>

(* Mutant: the schema's version alone decides.                             *)
AskedVersionOnly(i) ==
  LET To(stage, found) == [probes[i] EXCEPT !.at = stage, !.found = found]
  IN IF ~(configured /\ database # "down") THEN To("deliver", FALSE)
     ELSE CASE probes[i].at = "reach"  -> To("tables", TRUE)
            [] probes[i].at = "tables" -> To("schema", TRUE)
            [] probes[i].at = "schema" -> To("deliver", TRUE)

(* probeDatabaseHealth: each answer is what the database is at that        *)
(* moment, and a failed question ends the probe.                           *)
Asked(i) ==
  LET p       == probes[i]
      reached == configured /\ database # "down"
      good    == database = "ready"
      To(stage, found) == [p EXCEPT !.at = stage, !.found = found]
  IN IF ~reached THEN To("deliver", FALSE)
     ELSE CASE p.at = "reach"  -> To("tables", TRUE)
            [] p.at = "tables" -> To("schema", good)
            [] p.at = "schema" -> To("deliver", p.found /\ good)

AskDatabase(i) ==
  /\ probes[i].at \in {"reach", "tables", "schema"}
  /\ probes' = [probes EXCEPT ![i] = Asked(i)]
  /\ UNCHANGED <<configured, database, boot, apis, mode, changes, heard>>

ToMode(found) == IF found THEN "primary_db" ELSE "degraded_read_only"

(* snapshot = toSnapshot(health); the bootstrap's probe also decides       *)
(* whether the DB-backed routes are registered, once and for all.          *)
DeliverHealth(i) ==
  /\ probes[i].at = "deliver"
  /\ mode' = ToMode(probes[i].found)
  /\ probes' = [probes EXCEPT ![i] = Idle]
  /\ apis' = IF boot = "done" THEN apis ELSE probes[i].found
  /\ boot' = "done"
  /\ heard' = probes[i].since
  /\ UNCHANGED <<configured, database, changes>>

(* migrateSchema and ensureSchemaVersion; a failure is logged and the boot *)
(* goes on.                                                                *)
Migrate ==
  /\ boot = "migrate"
  /\ boot' = "probe"
  /\ database' \in IF database = "down" THEN {"down"} ELSE {database, "ready"}
  /\ UNCHANGED <<configured, apis, mode, probes, changes, heard>>

Started == [at |-> "reach", found |-> FALSE, since |-> changes]

BootProbe(i) ==
  /\ boot = "probe"
  /\ \A j \in Probes : probes[j] = Idle
  /\ probes' = [probes EXCEPT ![i] = Started]
  /\ UNCHANGED <<configured, database, boot, apis, mode, changes, heard>>

(* Mutant: the monitor skips a tick unless the snapshot is degraded.       *)
MonitorFiresDegraded(i) ==
  /\ boot = "done" /\ mode = "degraded_read_only"
  /\ probes[i] = Idle
  /\ probes' = [probes EXCEPT ![i] = Started]
  /\ UNCHANGED <<configured, database, boot, apis, mode, changes, heard>>

(* The monitor's timer fires: refreshRuntimeMode, whatever else is live.   *)
MonitorFires(i) ==
  /\ boot = "done"
  /\ probes[i] = Idle
  /\ probes' = [probes EXCEPT ![i] = Started]
  /\ UNCHANGED <<configured, database, boot, apis, mode, changes, heard>>

ProbeNext == \E i \in Probes : AskDatabase(i) \/ DeliverHealth(i) \/ BootProbe(i) \/ MonitorFires(i)

ModeNext == DatabaseChanges \/ Migrate \/ ProbeNext

ModeSpec == ModeInit /\ [][ModeNext]_modeVars

(* Every question is answered or fails, and every answer is delivered; the *)
(* event loop reaches the timer again and again.                           *)
ModeFairness ==
  /\ WF_modeVars(Migrate)
  /\ \A i \in Probes : /\ WF_modeVars(AskDatabase(i))
                       /\ WF_modeVars(DeliverHealth(i))
                       /\ WF_modeVars(BootProbe(i) \/ MonitorFires(i))

ModeFairSpec == ModeSpec /\ ModeFairness

-----------------------------------------------------------------------------
(* Whatever order the probes end in, the mode finally agrees with the      *)
(* database: a stale answer that overwrites a fresh one is itself          *)
(* overwritten (mode.ts:103-129).                                          *)
ModeSettles ==
  /\ (<>[](configured /\ database = "ready")) => <>[](mode = "primary_db")
  /\ (<>[](~configured \/ database # "ready")) => <>[](mode = "degraded_read_only")

(* An answer that was asked for after the last change of the database is   *)
(* right, however the stages of other probes fall in between: the mode is  *)
(* wrong only while the last answer delivered is older than that change    *)
(* (health.ts:44-86, mode.ts:42-52).                                       *)
FreshAnswerIsRight ==
  heard = changes => mode = ToMode(configured /\ database = "ready")

(* A fresh answer is right at once, and the mode settles on the database.  *)
ModeKept == [](ModeTypeOK /\ FreshAnswerIsRight) /\ ModeSettles
=============================================================================
