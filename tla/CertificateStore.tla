-------------------------- MODULE CertificateStore --------------------------
(***************************************************************************)
(* The PostgreSQL tables that the certificate handlers work on             *)
(* (server/db.ts), the state of the requests in flight, and the steps that *)
(* every handler has in common: the two statements of                      *)
(* appendEvidenceLedgerTx, ROLLBACK, and the failure of a statement.       *)
(*                                                                         *)
(* A request is a process; it yields at every `await` on the database.     *)
(* Writes of a transaction are kept with the request (tx, req) until its   *)
(* COMMIT makes them visible, which is READ COMMITTED.                     *)
(***************************************************************************)
EXTENDS Integers, FiniteSets, RowLocks

CONSTANTS
  Workspaces,       \* workspace ids
  Creators,         \* POST /api/v1/seals requests; also names the seal and proof each inserts
  Revokers,         \* POST /api/v1/seals/:sealId/revoke requests
  Verifiers,        \* POST /api/v1/proofs/verify requests
  Keys,             \* idempotency keys
  Refs,             \* client-supplied evidence references
  PlanLimit,        \* getPlanLimit(workspaces.plan), for each workspace
  MaxMonth,         \* bound on the billing months that go by
  None              \* SQL NULL

Requests == Creators \cup Revokers \cup Verifiers
Writers  == Creators \cup Revokers
Months   == 1..MaxMonth
NoPeriod == 0       \* "no current row", as a period id: rows are named by their month

ASSUME StoreAssumption ==
  /\ Creators \cap Revokers = {}
  /\ Creators \cap Verifiers = {}
  /\ Revokers \cap Verifiers = {}
  /\ None \notin Workspaces \cup Requests \cup Keys \cup Refs
  /\ PlanLimit \in [Workspaces -> Nat]
  /\ MaxMonth \in Nat \ {0}

(* SQL NULL is no row.                                                     *)
ASSUME NullAssumption == None \notin [included : Nat, used : Nat]

VARIABLES
  seals,            \* Creators -> row of seals joined with its proof and idempotency key, or NoSeal
  periods,          \* workspace_usage_periods: Workspaces -> Months -> row or None
  ledger,           \* evidence_ledger: a set of rows
  ledgerSeq,        \* the last value of the BIGSERIAL of evidence_ledger
  clock,            \* [month, open]: open is FALSE in the last second of the month
  pc,               \* the statement each request runs next
  req,              \* the input of each request
  tx,               \* the local variables of each handler and its uncommitted writes
  reply,            \* [status, seal]: the HTTP answer
  late              \* history: what the request must honour was committed before it was received

vars == <<seals, periods, ledger, ledgerSeq, clock, locks,
          pc, req, tx, reply, late>>

tables == <<seals, periods, ledger, ledgerSeq>>

-----------------------------------------------------------------------------
(* Rows and keys that transactions lock.                                   *)

WorkspaceRow(w) == <<"workspaces", w>>
SealRow(s)      == <<"seals", s>>
SequenceKey(w, n) == <<"workspace_id, sequence_no", w, n>>
PeriodRow(w, m) == <<"workspace_usage_periods", w, m>>
RefKey(r)       == <<"evidence_ref", r>>

-----------------------------------------------------------------------------
(* Data.  SHA-256 is taken to be injective: a digest is the digested value.*)

Sha256(x) == <<"sha256", x>>

NoSeal       == [status |-> "absent"]

Issued       == {s \in Creators : seals[s].status # "absent"}
IssuedIn(w)  == {s \in Issued : seals[s].ws = w}
Revoked      == {s \in Issued : seals[s].status = "revoked"}
Published    == {s \in Issued : seals[s].public}

(* The row a query with period_start <= now() AND period_end > now() finds:*)
(* periods end at 23:59:59, so none is current in the last second.         *)
CurrentPeriod(w) ==
  IF clock.open /\ periods[w][clock.month] # None THEN clock.month ELSE NoPeriod

Genesis == <<"GENESIS">>

(* Mutant: ORDER BY id without DESC.                                       *)
LedgerFoot ==
  IF ledger = {} THEN Genesis
  ELSE (CHOOSE e \in ledger : \A f \in ledger : f.id >= e.id).chain

(* SELECT chain_hash FROM evidence_ledger ORDER BY id DESC LIMIT 1         *)
LedgerHead ==
  IF ledger = {} THEN Genesis
  ELSE (CHOOSE e \in ledger : \A f \in ledger : f.id <= e.id).chain

LedgerRow(id, ref, event, prev) ==
  [id |-> id, ref |-> ref, event |-> event, prev |-> prev,
   chain |-> Sha256(<<prev, event, ref>>)]

NoTx == [period |-> NoPeriod, included |-> 0, used |-> 0,
         prevId |-> None, prevHash |-> None, seq |-> 0,
         public |-> FALSE, head |-> None, lid |-> 0]

NoReply == [status |-> "none", seal |-> None]

StoreInit ==
  /\ seals = [s \in Creators |-> NoSeal]
  /\ periods = [w \in Workspaces |-> [m \in Months |-> None]]
  /\ ledger = {}
  /\ ledgerSeq = 0
  /\ clock = [month |-> 1, open |-> TRUE]
  /\ locks = {}
  /\ pc = [t \in Requests |-> "idle"]
  /\ req = [t \in Requests |-> None]
  /\ tx = [t \in Requests |-> NoTx]
  /\ reply = [t \in Requests |-> NoReply]
  /\ late = [t \in Requests |-> FALSE]

-----------------------------------------------------------------------------
(* Steps of a handler.                                                     *)

Goto(t, from, to) ==
  /\ pc[t] = from
  /\ pc' = [pc EXCEPT ![t] = to]

(* Answer the request: the handler returns and its locals are gone.        *)
Answer(t, status, s) ==
  /\ pc' = [pc EXCEPT ![t] = "done"]
  /\ reply' = [reply EXCEPT ![t] = [status |-> status, seal |-> s]]
  /\ tx' = [tx EXCEPT ![t] = NoTx]
  /\ UNCHANGED <<req, late, clock>>

(* ROLLBACK and answer.                                                    *)
Rollback(t, status) ==
  /\ Release(t)
  /\ Answer(t, status, None)

(* The request is refused before its first query: runtime mode not         *)
(* primary_db (503), origin room not commercial (403), fields missing (400)*)
(* or no evidenceRef (422).                                                *)
Refuse(t) ==
  /\ pc[t] = "idle"
  /\ Answer(t, "refused", None)
  /\ UNCHANGED <<tables, locks>>

Active(t) == pc[t] \notin {"idle", "done"}

(* A query fails (connection lost, server error): the catch block rolls    *)
(* back and rethrows, which Fastify answers with 500.                      *)
Fault(t) ==
  /\ Active(t)
  /\ Rollback(t, "500")
  /\ UNCHANGED tables

-----------------------------------------------------------------------------
(* appendEvidenceLedgerTx: read the head, then insert.                     *)

ReadLedgerHead(t) ==
  /\ Goto(t, "head", "append")
  /\ tx' = [tx EXCEPT ![t].head = LedgerHead]
  /\ UNCHANGED <<tables, locks, req, reply, late, clock>>

(* Mutant: the ledger row is inserted on another connection of the pool.   *)
InsertLedgerOutside(t) ==
  /\ Goto(t, "append", "commit")
  /\ ledgerSeq' = ledgerSeq + 1
  /\ ledger' = ledger \cup {LedgerRow(ledgerSeq', req[t].ref,
                                      [type |-> "certificate_issued", of |-> t], tx[t].head)}
  /\ tx' = [tx EXCEPT ![t].lid = ledgerSeq']
  /\ UNCHANGED <<seals, periods, locks, req, reply, late, clock>>

InsertLedger(t) ==
  /\ pc[t] = "append"
  /\ ledgerSeq' = ledgerSeq + 1
  /\ IF \E e \in ledger : e.ref = req[t].ref
     THEN Rollback(t, "500")
     ELSE /\ Goto(t, "append", "commit")
          /\ Acquire(t, {Want(RefKey(req[t].ref), "UPDATE")})
          /\ tx' = [tx EXCEPT ![t].lid = ledgerSeq']
          /\ UNCHANGED <<req, reply, late, clock>>
  /\ UNCHANGED <<seals, periods, ledger>>

(* What COMMIT adds to evidence_ledger.                                    *)
PublishLedger(t, event) ==
  ledger' = ledger \cup {LedgerRow(tx[t].lid, req[t].ref, event, tx[t].head)}

(* The answer to COMMIT: the success answer, or 500 when the connection is *)
(* lost after the server committed.                                        *)
Committed(t, status, s) ==
  /\ pc[t] = "commit"
  /\ Release(t)
  /\ \/ Answer(t, status, s)
     \/ Answer(t, "500", None)

(* The end of a billing month: its last second, then the next month.       *)
Tick ==
  /\ \/ /\ clock.open
        /\ clock' = [clock EXCEPT !.open = FALSE]
     \/ /\ ~clock.open
        /\ clock.month < MaxMonth
        /\ clock' = [month |-> clock.month + 1, open |-> TRUE]
  /\ UNCHANGED <<tables, locks, pc, req, tx, reply, late>>

=============================================================================
