---------------------------- MODULE SealService ----------------------------
(***************************************************************************)
(* The certificate handlers of server/api/seal-service.ts: issue, revoke   *)
(* and verify.  One action per awaited statement, in the handler's order.  *)
(***************************************************************************)
EXTENDS CertificateStore

-----------------------------------------------------------------------------
(* POST /api/v1/seals                                                      *)

CreateInput == [ws : Workspaces \cup {None}, key : Keys \cup {None}, ref : Refs]

KeyIssued(k) == \E s \in Issued : seals[s].key = k

ReceiveCreate(c) ==
  \E in \in CreateInput :
    /\ pc[c] = "idle"
    /\ pc' = [pc EXCEPT ![c] = IF in.key = None THEN "workspace" ELSE "dedup"]
    /\ req' = [req EXCEPT ![c] = in]
    /\ late' = [late EXCEPT ![c] = in.key # None /\ KeyIssued(in.key)]
    /\ UNCHANGED <<tables, locks, tx, reply, clock>>

(* Mutant: the answer of the idempotency query is not looked at.           *)
IgnoreIdempotency(c) ==
  /\ Goto(c, "dedup", "workspace")
  /\ UNCHANGED <<tables, locks, req, tx, reply, late, clock>>

(* The idempotency check, outside the transaction.  Its lookup is by key   *)
(* alone: the seal it answers with may be of another workspace.            *)
CheckIdempotency(c) ==
  /\ pc[c] = "dedup"
  /\ \/ \E s \in Issued : seals[s].key = req[c].key /\ Answer(c, "200", s)
     \/ /\ ~KeyIssued(req[c].key)
        /\ Goto(c, "dedup", "workspace")
        /\ UNCHANGED <<req, tx, reply, late, clock>>
  /\ UNCHANGED <<tables, locks>>

LoadWorkspace(c) ==
  /\ pc[c] = "workspace"
  /\ \/ /\ req[c].ws = None
        /\ Answer(c, "404", None)
     \/ /\ req[c].ws # None
        /\ Goto(c, "workspace", "usage")
        /\ UNCHANGED <<req, tx, reply, late, clock>>
  /\ UNCHANGED <<tables, locks>>

(* The plan-limit check, also outside the transaction.                     *)
CheckUsage(c) ==
  LET w == req[c].ws
      m == CurrentPeriod(w)
      used == IF m = NoPeriod THEN 0 ELSE periods[w][m].used
      included == IF m = NoPeriod THEN PlanLimit[w] ELSE periods[w][m].included
  IN /\ pc[c] = "usage"
     /\ \/ /\ used >= included
           /\ Answer(c, "402", None)
        \/ /\ used < included
           /\ Goto(c, "usage", "lock")
           /\ tx' = [tx EXCEPT ![c].period = m, ![c].included = included, ![c].used = used]
           /\ UNCHANGED <<req, reply, late, clock>>
     /\ UNCHANGED <<tables, locks>>

(* BEGIN; SELECT id FROM workspaces WHERE id = $1 FOR UPDATE               *)
CreateLockWants(c) == {Want(WorkspaceRow(req[c].ws), "UPDATE")}

LockWorkspace(c) ==
  /\ Goto(c, "lock", "last")
  /\ Acquire(c, CreateLockWants(c))
  /\ UNCHANGED <<tables, req, tx, reply, late, clock>>

IsLastSeal(s, w) == s \in IssuedIn(w) /\ \A u \in IssuedIn(w) : seals[u].seq <= seals[s].seq

LastSeal(w) == CHOOSE s \in IssuedIn(w) : IsLastSeal(s, w)

(* Mutant: previous_hash is selected where the hash was meant.             *)
ReadLastPreviousHash(c) ==
  LET w == req[c].ws
      s == LastSeal(w)
  IN /\ Goto(c, "last", "insert")
     /\ tx' = IF IssuedIn(w) = {}
              THEN [tx EXCEPT ![c].seq = 1]
              ELSE [tx EXCEPT ![c].prevId = s, ![c].prevHash = seals[s].prevHash,
                              ![c].seq = seals[s].seq + 1]
     /\ UNCHANGED <<tables, locks, req, reply, late, clock>>

ReadLastSeal(c) ==
  LET w == req[c].ws
      s == LastSeal(w)
  IN /\ Goto(c, "last", "insert")
     /\ tx' = IF IssuedIn(w) = {}
              THEN [tx EXCEPT ![c].seq = 1]
              ELSE [tx EXCEPT ![c].prevId = s, ![c].prevHash = seals[s].hash,
                              ![c].seq = seals[s].seq + 1]
     /\ UNCHANGED <<tables, locks, req, reply, late, clock>>

(* The INSERTs into seals, proofs, seal_events and seal_metadata.  The     *)
(* first checks the foreign key previous_seal_id, which share-locks the    *)
(* predecessor's row, and UNIQUE (workspace_id, sequence_no).              *)
CreateInsertWants(c) ==
  {Want(SequenceKey(req[c].ws, tx[c].seq), "UPDATE")}
    \cup {Want(SealRow(p), "KEY SHARE") : p \in {tx[c].prevId} \ {None}}

InsertSeal(c) ==
  /\ pc[c] = "insert"
  /\ IF \E s \in IssuedIn(req[c].ws) : seals[s].seq = tx[c].seq
     THEN Rollback(c, "sequence_collision")
     ELSE /\ Goto(c, "insert", "charge")
          /\ Acquire(c, CreateInsertWants(c))
          /\ UNCHANGED <<req, tx, reply, late, clock>>
  /\ UNCHANGED tables

(* UPDATE ... SET used_seals = used_seals + 1 on the row read before BEGIN,*)
(* or INSERT of the month's row when none was read.                        *)
ChargeWants(c) ==
  IF tx[c].period # NoPeriod
  THEN {Want(PeriodRow(req[c].ws, tx[c].period), "NO KEY UPDATE")}
  ELSE {Want(PeriodRow(req[c].ws, clock.month), "UPDATE")}

ChargeUsage(c) ==
  LET insert == tx[c].period = NoPeriod
  IN /\ pc[c] = "charge"
     /\ IF insert /\ periods[req[c].ws][clock.month] # None
        THEN Rollback(c, "500")
        ELSE /\ Goto(c, "charge", "head")
             /\ Acquire(c, ChargeWants(c))
             /\ tx' = IF insert THEN [tx EXCEPT ![c].period = clock.month] ELSE tx
             /\ UNCHANGED <<req, reply, late, clock>>
     /\ UNCHANGED tables

Payload(w, body, prevHash, n) ==
  [ws |-> w, body |-> body, prevHash |-> prevHash, sequence |-> n]

SealOf(c) ==
  LET payload == Payload(req[c].ws, c, tx[c].prevHash, tx[c].seq)
  IN [ws |-> req[c].ws, payload |-> payload, hash |-> Sha256(payload),
      prevId |-> tx[c].prevId, prevHash |-> tx[c].prevHash, seq |-> tx[c].seq,
      status |-> "sealed", public |-> TRUE, key |-> req[c].key]

(* Mutants: the counter is set to one more than what was read before the   *)
(* transaction; a new row is inserted without included_seals.              *)
ChargedFromSnapshot(c) ==
  LET old == periods[req[c].ws][tx[c].period]
  IN IF old = None THEN [included |-> tx[c].included, used |-> 1]
                   ELSE [old EXCEPT !.used = tx[c].used + 1]

ChargedWithoutPlan(c) ==
  LET old == periods[req[c].ws][tx[c].period]
  IN IF old = None THEN [included |-> None, used |-> 1]
                   ELSE [old EXCEPT !.used = @ + 1]

(* A row the transaction inserted exists only from COMMIT on, so the row   *)
(* is absent exactly when the charge was an INSERT.                        *)
Charged(c) ==
  LET old == periods[req[c].ws][tx[c].period]
  IN IF old = None THEN [included |-> tx[c].included, used |-> 1]
                   ELSE [old EXCEPT !.used = @ + 1]

(* Mutant: the usage statements run on another connection and are lost.    *)
CommitUncharged(c) ==
  /\ Committed(c, "201", c)
  /\ seals' = [seals EXCEPT ![c] = SealOf(c)]
  /\ PublishLedger(c, [type |-> "certificate_issued", of |-> c])
  /\ UNCHANGED <<periods, ledgerSeq>>

CommitCreate(c) ==
  /\ Committed(c, "201", c)
  /\ seals' = [seals EXCEPT ![c] = SealOf(c)]
  /\ periods' = [periods EXCEPT ![req[c].ws][tx[c].period] = Charged(c)]
  /\ PublishLedger(c, [type |-> "certificate_issued", of |-> c])
  /\ UNCHANGED ledgerSeq

-----------------------------------------------------------------------------
(* POST /api/v1/seals/:sealId/revoke                                       *)

RevokeInput == [ws : Workspaces, seal : Creators, ref : Refs]

ReceiveRevoke(v) ==
  \E in \in RevokeInput :
    /\ Goto(v, "idle", "lock")
    /\ req' = [req EXCEPT ![v] = in]
    /\ UNCHANGED <<tables, locks, tx, reply, late, clock>>

(* BEGIN; SELECT ... FROM seals WHERE id = $1 FOR UPDATE; the early        *)
(* returns roll back.                                                      *)
RevokeLockWants(v) == {Want(SealRow(s), "UPDATE") : s \in {req[v].seal} \cap Issued}

(* Mutant: the early return for a revoked certificate keeps its lock.      *)
LockSealAndReturn(v) ==
  LET s == req[v].seal
  IN /\ pc[v] = "lock"
     /\ Blockers(v, RevokeLockWants(v)) = {}
     /\ \/ s \notin Issued                                   /\ Rollback(v, "404")
        \/ s \in Issued /\ seals[s].ws # req[v].ws
             /\ Acquire(v, RevokeLockWants(v)) /\ Answer(v, "403", None)
        \/ /\ s \in Issued
           /\ seals[s].ws = req[v].ws
           /\ seals[s].status # "revoked"
           /\ Goto(v, "lock", "mark")
           /\ Acquire(v, RevokeLockWants(v))
           /\ UNCHANGED <<req, tx, reply, late, clock>>
     /\ UNCHANGED tables

LockSeal(v) ==
  LET s == req[v].seal
  IN /\ pc[v] = "lock"
     /\ Blockers(v, RevokeLockWants(v)) = {}
     /\ \/ s \notin Issued                                   /\ Rollback(v, "404")
        \/ s \in Issued /\ seals[s].ws # req[v].ws           /\ Rollback(v, "403")
        \/ s \in Issued /\ seals[s].ws = req[v].ws
             /\ seals[s].status = "revoked"                  /\ Rollback(v, "already_revoked")
        \/ /\ s \in Issued
           /\ seals[s].ws = req[v].ws
           /\ seals[s].status # "revoked"
           /\ Goto(v, "lock", "mark")
           /\ Acquire(v, RevokeLockWants(v))
           /\ UNCHANGED <<req, tx, reply, late, clock>>
     /\ UNCHANGED tables

(* The UPDATEs of seals and proofs and the INSERTs into seal_events and    *)
(* seal_metadata; the foreign key of the event share-locks the workspace.  *)
RevokeMarkWants(v) == {Want(WorkspaceRow(req[v].ws), "KEY SHARE")}

MarkRevoked(v) ==
  /\ Goto(v, "mark", "head")
  /\ Acquire(v, RevokeMarkWants(v))
  /\ UNCHANGED <<tables, req, tx, reply, late, clock>>

(* Mutants: the proof stays public; the digest is recomputed.              *)
CommitStillPublic(v) ==
  /\ Committed(v, "200", req[v].seal)
  /\ seals' = [seals EXCEPT ![req[v].seal].status = "revoked"]
  /\ PublishLedger(v, [type |-> "certificate_revoked", of |-> req[v].seal])
  /\ UNCHANGED <<periods, ledgerSeq>>

CommitRehashed(v) ==
  /\ Committed(v, "200", req[v].seal)
  /\ seals' = [seals EXCEPT ![req[v].seal].status = "revoked",
                            ![req[v].seal].public = FALSE,
                            ![req[v].seal].hash = Sha256(<<"revoked", @>>)]
  /\ PublishLedger(v, [type |-> "certificate_revoked", of |-> req[v].seal])
  /\ UNCHANGED <<periods, ledgerSeq>>

CommitRevoke(v) ==
  /\ Committed(v, "200", req[v].seal)
  /\ seals' = [seals EXCEPT ![req[v].seal].status = "revoked",
                            ![req[v].seal].public = FALSE]
  /\ PublishLedger(v, [type |-> "certificate_revoked", of |-> req[v].seal])
  /\ UNCHANGED <<periods, ledgerSeq>>

-----------------------------------------------------------------------------
(* The public readers.  POST /api/v1/proofs/verify finds seal and proof    *)
(* with one query by proof id, with two by hash; GET /api/v1/proofs/:proofId*)
(* ("page") with one.  Each then looks up the previous hash.               *)

ReadInput == [seal : Creators, by : {"proofId", "hash", "page"}]

ReceiveRead(q) ==
  \E in \in ReadInput :
    /\ Goto(q, "idle", IF in.by = "page" THEN "page" ELSE "find")
    /\ req' = [req EXCEPT ![q] = in]
    /\ late' = [late EXCEPT ![q] = in.seal \in Revoked]
    /\ UNCHANGED <<tables, locks, tx, reply, clock>>

(* A revoked seal found by hash is answered after the proof query, whose   *)
(* result does not change that answer.                                     *)
FindSeal(q) ==
  LET s == req[q].seal
  IN /\ pc[q] = "find"
     /\ \/ s \notin Issued /\ Answer(q, "404", None)
        \/ s \in Revoked   /\ Answer(q, "revoked", s)
        \/ /\ s \in Issued \ Revoked
           /\ Goto(q, "find", IF req[q].by = "hash" THEN "proof" ELSE "public")
           /\ tx' = [tx EXCEPT ![q].public = seals[s].public]
           /\ UNCHANGED <<req, reply, late, clock>>
     /\ UNCHANGED <<tables, locks>>

FindProof(q) ==
  /\ Goto(q, "proof", "public")
  /\ tx' = [tx EXCEPT ![q].public = seals[req[q].seal].public]
  /\ UNCHANGED <<tables, locks, req, reply, late, clock>>

(* The proof page asks for is_public only, not for the seal's status.      *)
FindPage(q) ==
  LET s == req[q].seal
  IN /\ pc[q] = "page"
     /\ \/ s \notin Published /\ Answer(q, "404", None)
        \/ /\ s \in Published
           /\ Goto(q, "page", "public")
           /\ tx' = [tx EXCEPT ![q].public = TRUE]
           /\ UNCHANGED <<req, reply, late, clock>>
     /\ UNCHANGED <<tables, locks>>

HashValid(s) == Sha256(seals[s].payload) = seals[s].hash

(* Mutant: the previous hash is looked up among valid certificates only.   *)
ChainOfSealed(s) ==
  seals[s].prevHash = None \/ \E u \in Issued \ Revoked : seals[u].hash = seals[s].prevHash

ChainValid(s) == seals[s].prevHash = None \/ \E u \in Issued : seals[u].hash = seals[s].prevHash

CheckProof(q) ==
  LET s == req[q].seal
  IN /\ pc[q] = "public"
     /\ \/ ~tx[q].public /\ Answer(q, "not_public", s)
        \/ tx[q].public /\ Answer(q, IF HashValid(s) /\ ChainValid(s) THEN "valid" ELSE "invalid", s)
     /\ UNCHANGED <<tables, locks>>

-----------------------------------------------------------------------------
(* Lock waits.  PostgreSQL looks for a cycle of waiting transactions when  *)
(* one has waited for deadlock_timeout, and cancels a statement in it.     *)

Wants(t) ==
  CASE t \in Creators /\ pc[t] = "lock"   -> CreateLockWants(t)
    [] t \in Creators /\ pc[t] = "insert" -> CreateInsertWants(t)
    [] t \in Creators /\ pc[t] = "charge" -> ChargeWants(t)
    [] t \in Revokers /\ pc[t] = "lock"   -> RevokeLockWants(t)
    [] t \in Revokers /\ pc[t] = "mark"   -> RevokeMarkWants(t)
    [] t \in Writers  /\ pc[t] = "append" -> {Want(RefKey(req[t].ref), "UPDATE")}
    [] OTHER -> {}

WaitsFor(t) == Blockers(t, Wants(t))

(* Mutant: the database does not look for deadlocks.                       *)
NeverDeadlocked(t) == FALSE

Deadlocked(t) ==
  \E S \in SUBSET Writers :
    /\ t \in S
    /\ \A u \in S : /\ WaitsFor(u) \cap S # {}
                    /\ \E v \in S : u \in WaitsFor(v)

CancelDeadlocked(t) ==
  /\ Deadlocked(t)
  /\ Rollback(t, "500")
  /\ UNCHANGED tables

-----------------------------------------------------------------------------
CreateStep(c) ==
  \/ CheckIdempotency(c) \/ LoadWorkspace(c) \/ CheckUsage(c)
  \/ LockWorkspace(c) \/ ReadLastSeal(c) \/ InsertSeal(c) \/ ChargeUsage(c)
  \/ CommitCreate(c)

RevokeStep(v) == LockSeal(v) \/ MarkRevoked(v) \/ CommitRevoke(v)

LedgerStep(t) == ReadLedgerHead(t) \/ InsertLedger(t)

ReadStep(q) == FindSeal(q) \/ FindProof(q) \/ FindPage(q) \/ CheckProof(q)

Receive ==
  \/ \E c \in Creators : ReceiveCreate(c)
  \/ \E v \in Revokers : ReceiveRevoke(v)
  \/ \E q \in Verifiers : ReceiveRead(q)

Progress(t) ==
  \/ t \in Creators  /\ CreateStep(t)
  \/ t \in Revokers  /\ RevokeStep(t)
  \/ t \in Writers   /\ LedgerStep(t)
  \/ t \in Writers   /\ CancelDeadlocked(t)
  \/ t \in Verifiers /\ ReadStep(t)

(* Every request has been answered: nothing is left to do.                 *)
Finished ==
  /\ \A t \in Requests : pc[t] = "done"
  /\ UNCHANGED vars

Next ==
  \/ Receive
  \/ \E t \in Requests : Progress(t) \/ Fault(t) \/ Refuse(t)
  \/ Tick
  \/ Finished

Spec == StoreInit /\ [][Next]_vars

(* The event loop runs the continuation of every query that has answered,  *)
(* and the database answers every query that is not blocked.               *)
Fairness == \A t \in Requests : WF_vars(Progress(t))

-----------------------------------------------------------------------------
(* Types.  Digests are left untyped: Sha256 is structural.                 *)

ReadStatus   == {"404", "revoked", "not_public", "valid", "invalid"}
WriteStatus  == {"200", "201", "402", "403", "404", "500", "already_revoked", "sequence_collision"}

SealRowsTyped ==
  \A s \in Issued :
    /\ seals[s].ws \in Workspaces
    /\ seals[s].seq \in Nat \ {0}
    /\ seals[s].prevId \in Creators \cup {None}
    /\ seals[s].status \in {"sealed", "revoked"}
    /\ seals[s].public \in BOOLEAN
    /\ seals[s].key \in Keys \cup {None}

PeriodRowsTyped ==
  /\ DOMAIN periods = Workspaces
  /\ \A w \in Workspaces :
       /\ DOMAIN periods[w] = Months
       /\ \A m \in Months :
            periods[w][m] # None => /\ DOMAIN periods[w][m] = {"included", "used"}
                                    /\ periods[w][m].included \in Nat
                                    /\ periods[w][m].used \in Nat

LedgerRowsTyped == ledgerSeq \in Nat /\ \A e \in ledger : e.id \in 1..ledgerSeq

RequestsTyped ==
  /\ \A c \in Creators : req[c] \in CreateInput \cup {None}
  /\ \A v \in Revokers : req[v] \in RevokeInput \cup {None}
  /\ \A q \in Verifiers : req[q] \in ReadInput \cup {None}
  /\ \A t \in Requests : reply[t].status \in {"none", "refused"} \cup ReadStatus \cup WriteStatus
  /\ late \in [Requests -> BOOLEAN]

TypeOK ==
  /\ DOMAIN seals = Creators
  /\ DOMAIN pc = Requests
  /\ SealRowsTyped
  /\ PeriodRowsTyped
  /\ LedgerRowsTyped
  /\ RequestsTyped
  /\ clock \in [month : Months, open : BOOLEAN]
  /\ \A l \in locks : l.owner \in Writers /\ l.mode \in LockMode

-----------------------------------------------------------------------------
(* The certificates of each workspace are one hash chain: numbered from 1  *)
(* without gap or repetition, each bound to the id and the digest of its   *)
(* predecessor (README.md:22, seal-service.ts:414-449).                    *)
ChainIntact ==
  /\ \A s \in Issued :
       IF seals[s].seq = 1
       THEN seals[s].prevId = None /\ seals[s].prevHash = None
       ELSE /\ seals[s].prevId \in IssuedIn(seals[s].ws)
            /\ seals[seals[s].prevId].seq = seals[s].seq - 1
            /\ seals[s].prevHash = seals[seals[s].prevId].hash
  /\ \A s, u \in Issued : seals[s].ws = seals[u].ws /\ seals[s].seq = seals[u].seq => s = u

(* The workspace lock does its work: no request is ever turned away by the *)
(* unique constraint on sequence numbers (seal-service.ts:411-422).        *)
NoSequenceCollision == \A c \in Creators : reply[c].status # "sequence_collision"

(* What is sealed stays sealed: a committed certificate never changes but  *)
(* for its revocation, and a revoked one stays revoked and hidden          *)
(* (README.md:24, seal-service.ts:620-621).                                *)
SealedIsPermanent ==
  [][\A s \in Issued :
       /\ s \in Issued'
       /\ [seals'[s] EXCEPT !.status = "sealed", !.public = TRUE]
            = [seals[s] EXCEPT !.status = "sealed", !.public = TRUE]
       /\ s \in Revoked => s \in Revoked' /\ ~seals'[s].public]_seals

-----------------------------------------------------------------------------
(* The Evidence room's operator routes on certificates                     *)
(* (server/api/evidence.ts), which the same server registers next to the   *)
(* certificate service and which update the same table.  Each is a single  *)
(* UPDATE that commits by itself.                                          *)

(* Mutant: marking a certificate sealed publishes its proof as well.       *)
SetStatusAndPublish(s, status) ==
  /\ s \in Issued
  /\ Blockers(None, {Want(SealRow(s), "NO KEY UPDATE")}) = {}
  /\ seals' = [seals EXCEPT ![s].status = status, ![s].public = status = "sealed"]
  /\ UNCHANGED <<periods, ledger, ledgerSeq, clock, locks, pc, req, tx, reply, late>>

SetStatus(s, status) ==
  /\ s \in Issued
  /\ Blockers(None, {Want(SealRow(s), "NO KEY UPDATE")}) = {}
  /\ seals' = [seals EXCEPT ![s].status = status]
  /\ UNCHANGED <<periods, ledger, ledgerSeq, clock, locks, pc, req, tx, reply, late>>

(* POST /api/evidence/seals/:sealId/verify                                 *)
OperatorVerify(s) == SetStatus(s, "sealed")

(* POST /api/evidence/seals/:sealId/revoke                                 *)
OperatorRevoke(s) == SetStatus(s, "revoked")

OperatorNext == \E s \in Creators : OperatorVerify(s) \/ OperatorRevoke(s)

RoomNext == Next \/ OperatorNext

RoomSpec == StoreInit /\ [][RoomNext]_vars /\ Fairness

=============================================================================
