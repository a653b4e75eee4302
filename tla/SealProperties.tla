--------------------------- MODULE SealProperties ---------------------------
(***************************************************************************)
(* What the certificate handlers promise, and the inductive invariants     *)
(* behind it.  SealPromisesProofs proves some of it for every value of the *)
(* constants; TLC checks all of it.                                        *)
(***************************************************************************)
EXTENDS SealService

(* The charges of a workspace: the first to the last of every month that   *)
(* has a usage row.                                                        *)
ChargesTo(w) ==
  UNION {{m} \X (1..periods[w][m].used) : m \in {n \in Months : periods[w][n] # None}}

ChargedTo(w) == Cardinality(ChargesTo(w))

(* The usage rows count the certificates: each was charged to exactly one  *)
(* billing period (seal-service.ts:481-496), even when several requests of *)
(* a workspace read the same counter before any of them commits, and when  *)
(* a month ends in between.                                                *)
UsageConserved == \A w \in Workspaces : Cardinality(IssuedIn(w)) = ChargedTo(w)

(* A certificate has one 'certificate_issued' row in evidence_ledger and a *)
(* revoked one has one 'certificate_revoked' row; there is no such row for *)
(* work that was rolled back (seal-service.ts:498-513, 635-647).           *)
EvidenceMatchesSeals ==
  LET Rows(type, s) == {e \in ledger : e.event = [type |-> type, of |-> s]}
  IN \A s \in Creators :
       /\ Cardinality(Rows("certificate_issued", s)) = IF s \in Issued THEN 1 ELSE 0
       /\ Cardinality(Rows("certificate_revoked", s)) = IF s \in Revoked THEN 1 ELSE 0

(* A request whose idempotency key already belonged to a committed         *)
(* certificate when it arrived never issues another one                    *)
(* (seal-service.ts:336-363).                                              *)
RetryIssuesNothing == \A c \in Creators : late[c] => c \notin Issued

(* Once a revocation is committed, no verification or proof page that is   *)
(* requested afterwards calls the certificate valid, whichever way it      *)
(* finds the certificate (seal-service.ts:688-690, 803-824).               *)
RevocationHonoured == \A q \in Verifiers : late[q] => reply[q].status # "valid"

(* A reader never calls an issued certificate broken: hash and chain       *)
(* always recompute, also after its predecessor was revoked, and only a    *)
(* revoked certificate is hidden (seal-service.ts:692-703, 815-841).       *)
ReadersAgree ==
  \A q \in Verifiers :
    /\ reply[q].status # "invalid"
    /\ reply[q].status = "not_public" => reply[q].seal \in Revoked

(* An answered request holds no lock: every early return and every error   *)
(* of a handler ends its transaction (seal-service.ts:600-618, 533-538).   *)
LocksReleased == \A t \in Requests : pc[t] = "done" => HeldBy(t) = {}

(* The row lock of a workspace serialises its issues with one another and  *)
(* with its revocations, from before the head of evidence_ledger is read to*)
(* COMMIT: of the rows of one workspace only two revocations may follow the*)
(* same row (seal-service.ts:411-413, 623-649).                            *)
WorkspaceOf(e) == seals[e.event.of].ws

LedgerLinear ==
  \A e, f \in ledger :
    e # f /\ e.prev = f.prev =>
      WorkspaceOf(e) # WorkspaceOf(f) \/ {e.event.type, f.event.type} = {"certificate_revoked"}

(* evidence_ledger is one chain (README.md:125).                           *)
LedgerIsChain == \A e, f \in ledger : e.prev = f.prev => e = f

(* At most one certificate has an idempotency key.                         *)
KeyUsedOnce == \A s, u \in Issued : seals[s].key = seals[u].key /\ seals[s].key # None => s = u

(* Every request that is received is answered: lock waits end, those of a  *)
(* deadlock between an issue and a revocation included.                    *)
EveryRequestAnswered ==
  \A t \in Requests : pc[t] # "idle" ~> pc[t] = "done"

-----------------------------------------------------------------------------
(* The tables as a book of certificates.                                   *)
ChainOf(w) ==
  [n \in 1..Cardinality(IssuedIn(w)) |-> CHOOSE s \in IssuedIn(w) : seals[s].seq = n]

Book == INSTANCE CertificateBook
  WITH Certificates <- Creators,
       chain        <- [w \in Workspaces |-> ChainOf(w)],
       revoked      <- Revoked,
       charged      <- [w \in Workspaces |-> ChargedTo(w)],
       evidence     <- {e.event : e \in ledger}

(* Issuing and revoking are indivisible: the five tables that a request    *)
(* writes in several statements, some of them computed from what it read   *)
(* before it locked anything, change together as one entry in the book     *)
(* (seal-service.ts:409-513, 589-647).                                     *)
KeepsBook == Book!Spec

-----------------------------------------------------------------------------
(***************************************************************************)
(* The inductive invariants behind the theorems of SealPromisesProofs.     *)
(*                                                                         *)
(* ChainIntact is not inductive: what a creating request will commit was   *)
(* computed from a row it read several statements earlier.  IInv adds that *)
(* the request still holds the workspace's lock (Holding), that no two     *)
(* requests do (Exclusive), and that therefore the row it read is still    *)
(* the last one (Linked).                                                  *)
(***************************************************************************)

(* The statements between the lock and the COMMIT of an issue, and those   *)
(* that follow the reading of the last certificate.                        *)
AfterRead == {"insert", "charge", "head", "append", "commit"}
AfterLock == AfterRead \cup {"last"}

(* The domains of the state functions, and the fields of an issued row.    *)
Shape ==
  /\ DOMAIN seals = Creators
  /\ DOMAIN pc = Requests
  /\ DOMAIN req = Requests
  /\ DOMAIN reply = Requests
  /\ DOMAIN tx = Requests
  /\ \A t \in Requests : DOMAIN tx[t] = DOMAIN NoTx
  /\ \A s \in Issued : /\ seals[s].ws \in Workspaces
                       /\ seals[s].seq \in Nat \ {0}
                       /\ DOMAIN seals[s] = {"ws", "payload", "hash", "prevId", "prevHash",
                                             "seq", "status", "public", "key"}

(* The workspace row stays locked from FOR UPDATE to COMMIT.               *)
Holding(c) ==
  pc[c] \in AfterLock =>
    [owner |-> c, row |-> WorkspaceRow(req[c].ws), mode |-> "UPDATE"] \in locks

(* What was read of the last certificate is still true of the last one.    *)
Linked(c) ==
  pc[c] \in AfterRead =>
    IF IssuedIn(req[c].ws) = {}
    THEN tx[c].prevId = None /\ tx[c].prevHash = None /\ tx[c].seq = 1
    ELSE /\ IsLastSeal(tx[c].prevId, req[c].ws)
         /\ tx[c].prevHash = seals[tx[c].prevId].hash
         /\ tx[c].seq = seals[tx[c].prevId].seq + 1

(* The chain fields that a request has not read yet are unset.             *)
Fresh(c) ==
  pc[c] \notin AfterRead => tx[c].prevId = None /\ tx[c].prevHash = None

(* What is known of an issuing request.                                    *)
LocalCreate(c) ==
  /\ pc[c] \notin {"idle", "done"} => req[c] \in CreateInput
  /\ pc[c] \in AfterLock \cup {"lock", "usage"} => req[c].ws \in Workspaces
  /\ pc[c] # "done" => c \notin Issued
  /\ Holding(c)
  /\ Linked(c)
  /\ Fresh(c)

(* What is known of a revoking request: it locked a certificate that exists.*)
LocalRevoke(v) ==
  pc[v] \in {"mark", "head", "append", "commit"} => req[v].seal \in Issued

Local(t) ==
  /\ t \in Creators => LocalCreate(t)
  /\ t \in Revokers => LocalRevoke(t)

(* Sequence numbers of a workspace have a maximum.                         *)
HasLast == \A w \in Workspaces : IssuedIn(w) # {} => \E s \in Issued : IsLastSeal(s, w)

(* The inductive invariant of the certificate chain.                       *)
IInv ==
  /\ Shape
  /\ Exclusive
  /\ HasLast
  /\ ChainIntact
  /\ NoSequenceCollision
  /\ \A t \in Requests : Local(t)

-----------------------------------------------------------------------------
(* What the promises of SealProperties rest on besides IInv.               *)

(* A certificate is public until it is revoked, and digests its payload.   *)
RowsSound ==
  \A s \in Issued :
    /\ \/ seals[s].status = "sealed" /\ seals[s].public = TRUE
       \/ seals[s].status = "revoked" /\ seals[s].public = FALSE
    /\ seals[s].hash = Sha256(seals[s].payload)

(* Only transactions that have begun and not ended hold locks.             *)
InTransaction == AfterLock \cup {"mark"}

LockOwners == \A l \in locks : l.owner \in Writers /\ pc[l.owner] \in InTransaction

(* A retry of an issued key never gets beyond the idempotency check.       *)
RetryHeld(c) ==
  late[c] => /\ c \notin Issued
             /\ pc[c] \in {"dedup", "done"}
             /\ pc[c] = "dedup" => KeyIssued(req[c].key)

(* What a reader that has not answered knows of its certificate is still   *)
(* true, and a late one never gets to the publicity check.                 *)
ReaderSound(q) ==
  /\ pc[q] # "done" => reply[q] = NoReply
  /\ pc[q] \in {"proof", "public"} => req[q].seal \in Issued
  /\ pc[q] = "public" /\ ~tx[q].public => req[q].seal \in Revoked
  /\ late[q] => /\ pc[q] \in {"find", "page", "done"}
                /\ pc[q] # "done" => req[q].seal \in Revoked
                /\ reply[q].status # "valid"
  /\ reply[q].status # "invalid"
  /\ reply[q].status = "not_public" => reply[q].seal \in Revoked

PromiseOf(t) ==
  /\ t \in Creators => RetryHeld(t)
  /\ t \in Verifiers => ReaderSound(t)

(* The inductive invariant of the promises.                                *)
PInv ==
  /\ IInv
  /\ DOMAIN late = Requests
  /\ RowsSound
  /\ LockOwners
  /\ \A t \in Requests : PromiseOf(t)

-----------------------------------------------------------------------------
(* The locals of a writer have the types of the columns they end up in.    *)
TxTyped(t) ==
  /\ t \in Creators /\ pc[t] \in AfterLock \cup {"lock"} =>
       tx[t].period \in Months \cup {NoPeriod} /\ tx[t].included \in Nat
  /\ t \in Creators /\ pc[t] \in {"head", "append", "commit"} => tx[t].period \in Months
  /\ t \in Writers /\ pc[t] = "commit" => tx[t].lid \in 1..ledgerSeq

(* The inductive invariant of the types.                                   *)
TInv ==
  /\ PInv
  /\ TypeOK
  /\ \A t \in Requests : TxTyped(t)

-----------------------------------------------------------------------------
(* What a revoking request found unrevoked stays so: it keeps the row      *)
(* locked until its COMMIT, and a second revocation waits for that.        *)
Guarding(v) ==
  pc[v] \in {"mark", "head", "append", "commit"} =>
    /\ [owner |-> v, row |-> SealRow(req[v].seal), mode |-> "UPDATE"] \in locks
    /\ req[v].seal \in Issued \ Revoked

(* The evidence of an event is on record when it has happened, and once.   *)
OnRecord(type, s) == \E e \in ledger : e.event = [type |-> type, of |-> s]

EventsMatch ==
  /\ \A s \in Creators : /\ s \in Issued <=> OnRecord("certificate_issued", s)
                         /\ s \in Revoked <=> OnRecord("certificate_revoked", s)
  /\ \A e, f \in ledger : e.event = f.event => e = f

(* The inductive invariant of the evidence.                                *)
EInv ==
  /\ PInv
  /\ EventsMatch
  /\ \A v \in Revokers : Guarding(v)

-----------------------------------------------------------------------------
(* The certificates of a workspace are as many as its charges, and carry   *)
(* the numbers up to their number.                                         *)
Counted(w) ==
  LET N == Cardinality(IssuedIn(w))
  IN /\ IsFiniteSet(IssuedIn(w)) /\ IsFiniteSet(ChargesTo(w))
     /\ ChargedTo(w) = N
     /\ \A s \in IssuedIn(w) : seals[s].seq \in 1..N
     /\ \A n \in 1..N : \E s \in IssuedIn(w) : seals[s].seq = n

(* The inductive invariant of the usage and of the book.                   *)
BInv ==
  /\ TInv
  /\ EInv
  /\ \A w \in Workspaces : Counted(w)

-----------------------------------------------------------------------------
(* A row that is locked FOR UPDATE is locked by nobody else.               *)
Alone ==
  \A k, l \in locks : k.row = l.row /\ k.mode = "UPDATE" /\ l.mode \in LockMode => k.owner = l.owner

(* A revoking request share-locks the workspace of its certificate before  *)
(* it reads the head.                                                      *)
AtLedger == {"head", "append", "commit"}

Sharing(v) ==
  /\ pc[v] \in AtLedger \cup {"mark"} => seals[req[v].seal].ws = req[v].ws /\ req[v].ws \in Workspaces
  /\ pc[v] \in AtLedger =>
       [owner |-> v, row |-> WorkspaceRow(req[v].ws), mode |-> "KEY SHARE"] \in locks

(* The rows of the ledger are numbered, each of an issued certificate, and *)
(* follow Genesis or an older row.                                         *)
Recorded(e) ==
  \E s \in Issued : \E type \in {"certificate_issued", "certificate_revoked"} : e.event = [type |-> type, of |-> s]

RowsFollow ==
  /\ \A e, f \in ledger : e.id = f.id => e = f
  /\ \A e \in ledger : Recorded(e) /\ e.chain = Sha256(<<e.prev, e.event, e.ref>>)
  /\ \A e \in ledger : e.prev = Genesis \/ \E f \in ledger : f.id < e.id /\ e.prev = f.chain
  /\ ledger # {} => \E e \in ledger : \A f \in ledger : f.id <= e.id

(* A row that cannot be committed while t is between the head and COMMIT:  *)
(* of its workspace, and not both revocations.                             *)
Shuts(t, e) == WorkspaceOf(e) = req[t].ws /\ (t \in Creators \/ e.event.type = "certificate_issued")

(* The head a writer read is still no older than any row of those, and its *)
(* number is higher than that of the head, and nobody else's.              *)
AtHead(t) ==
  /\ pc[t] \in {"append", "commit"} =>
       /\ tx[t].head = Genesis \/ \E h \in ledger : tx[t].head = h.chain /\ (pc[t] = "commit" => h.id < tx[t].lid)
       /\ \A e \in ledger : Shuts(t, e) => \E h \in ledger : tx[t].head = h.chain /\ e.id <= h.id
  /\ pc[t] = "commit" => /\ \A e \in ledger : e.id # tx[t].lid
                         /\ \A u \in Writers : pc[u] = "commit" /\ tx[u].lid = tx[t].lid => u = t

(* The inductive invariant of the ledger.                                  *)
LInv ==
  /\ TInv
  /\ EInv
  /\ Alone
  /\ \A v \in Revokers : Sharing(v)
  /\ RowsFollow
  /\ LedgerLinear
  /\ \A t \in Writers : AtHead(t)

(* Whatever operators do to its status, the body of a certificate and its  *)
(* place in the chain never change, and a proof that a customer's          *)
(* revocation took offline is never published again (evidence.ts:844-868). *)
RoomKeepsBody ==
  [][\A s \in Issued :
       /\ s \in Issued'
       /\ seals'[s].payload = seals[s].payload /\ seals'[s].hash = seals[s].hash
       /\ seals'[s].seq = seals[s].seq /\ seals'[s].prevId = seals[s].prevId
       /\ seals'[s].public => seals[s].public]_seals

=============================================================================
