------------------------- MODULE SealPromisesProofs -------------------------
(***************************************************************************)
(* What customers and readers of certificates are promised, proved for any *)
(* number of workspaces, requests, keys, references and months, however    *)
(* the issuing, revoking and reading requests interleave, fail or are      *)
(* cancelled:                                                              *)
(*   - each workspace's certificates form one gapless hash chain, and the  *)
(*     unique constraint on sequence numbers never fires;                  *)
(*   - permanence, revocation, retries, verification, the release of every *)
(*     lock, and that every reachable state is well typed;                 *)
(*   - the evidence ledger records exactly what happened to certificates;  *)
(*   - every certificate is charged to one billing period;                 *)
(*   - the handlers implement the abstract book of CertificateBook;        *)
(*   - of a workspace's rows in the ledger only two revocations can have   *)
(*     one predecessor, whatever other workspaces write;                   *)
(*   - the operator routes of the Evidence room, which write the same      *)
(*     table without a transaction, cannot damage what is sealed.          *)
(***************************************************************************)
EXTENDS SealProperties, Sequences, TLAPS, FiniteSetTheorems

-----------------------------------------------------------------------------
(***************************************************************************)
(* The chain: each lemma shows that one operation keeps IInv.              *)
(***************************************************************************)

(* A step of request t that issues nothing keeps the invariant when it     *)
(* keeps what is known of t.                                               *)
LEMMA Frame ==
  ASSUME IInv,
         NEW t \in Requests,
         seals' = seals,
         Shape', Exclusive', NoSequenceCollision',
         \A l \in locks : l.owner # t => l \in locks',
         \A u \in Requests \ {t} : pc'[u] = pc[u] /\ req'[u] = req[u] /\ tx'[u] = tx[u],
         Local(t)'
  PROVE  IInv'
<1>1. HasLast' /\ ChainIntact'
  BY DEF IInv, HasLast, ChainIntact, Issued, IssuedIn, IsLastSeal
<1>2. ASSUME NEW u \in Requests, u # t
      PROVE  Local(u)'
  <2>1. Local(u) /\ pc'[u] = pc[u] /\ req'[u] = req[u] /\ tx'[u] = tx[u]
    BY <1>2 DEF IInv
  <2>2. LocalRevoke(u) => LocalRevoke(u)'
    BY <2>1 DEF LocalRevoke, Issued
  <2>3. Holding(u) => Holding(u)'
    BY <1>2, <2>1 DEF Holding
  <2>4. Linked(u) => Linked(u)'
    BY <2>1 DEF Linked, IssuedIn, Issued, IsLastSeal
  <2>5. LocalCreate(u) => LocalCreate(u)'
    BY <2>1, <2>3, <2>4 DEF LocalCreate, Fresh, Issued
  <2>6. QED
    BY <2>1, <2>2, <2>5 DEF Local
<1>3. QED
  BY <1>1, <1>2 DEF IInv

(* Answering without issuing.                                              *)
LEMMA AnswerStep ==
  ASSUME IInv,
         NEW t \in Requests, NEW status, NEW s,
         Answer(t, status, s),
         status # "sequence_collision",
         seals' = seals,
         Exclusive',
         \A l \in locks : l.owner # t => l \in locks'
  PROVE  IInv'
<1>1. /\ pc'[t] = "done"
      /\ tx'[t].prevId = None /\ tx'[t].prevHash = None
      /\ \A u \in Requests \ {t} : pc'[u] = pc[u] /\ req'[u] = req[u] /\ tx'[u] = tx[u]
  BY DEF Answer, IInv, Shape, NoTx
<1>2. Shape'
  BY DEF Answer, IInv, Shape, NoTx, Issued
<1>3. NoSequenceCollision'
  BY DEF Answer, IInv, Shape, NoSequenceCollision, Requests
<1>4. Local(t)'
  BY <1>1 DEF Local, LocalCreate, LocalRevoke, Holding, Linked, Fresh, AfterLock, AfterRead
<1>5. QED
  BY <1>1, <1>2, <1>3, <1>4, Frame

(* ROLLBACK and the answer to it.                                          *)
LEMMA RollbackStep ==
  ASSUME IInv,
         NEW t \in Requests, NEW status,
         Rollback(t, status),
         status # "sequence_collision",
         seals' = seals
  PROVE  IInv'
<1>1. Exclusive
  BY DEF IInv
<1>2. Exclusive' /\ \A l \in locks : l.owner # t => l \in locks'
  BY <1>1, ReleaseExclusive DEF Rollback
<1>3. QED
  BY <1>2, AnswerStep DEF Rollback

-----------------------------------------------------------------------------
LEMMA InitIInv == StoreInit => IInv
<1> SUFFICES ASSUME StoreInit PROVE IInv
  OBVIOUS
<1>1. Issued = {} /\ \A w \in Workspaces : IssuedIn(w) = {}
  BY DEF StoreInit, NoSeal, Issued, IssuedIn
<1>2. Shape
  BY <1>1 DEF StoreInit, Shape
<1>3. Exclusive /\ HasLast /\ ChainIntact
  BY <1>1 DEF StoreInit, Exclusive, HasLast, ChainIntact
<1>4. NoSequenceCollision
  BY DEF StoreInit, NoSequenceCollision, NoReply, Requests
<1>5. ASSUME NEW t \in Requests PROVE Local(t)
  <2>1. /\ pc[t] = "idle" /\ (t \in Creators => t \notin Issued)
        /\ tx[t].prevId = None /\ tx[t].prevHash = None
    BY DEF StoreInit, NoTx, NoSeal, Issued
  <2>2. QED
    BY <2>1 DEF Local, LocalCreate, LocalRevoke, Holding, Linked, Fresh, AfterLock, AfterRead
<1>6. QED
  BY <1>2, <1>3, <1>4, <1>5 DEF IInv

(* Receiving a request, and the early answers of all kinds.                *)
LEMMA ReceiveKeeps == ASSUME IInv, Receive PROVE IInv'
<1>1. ASSUME NEW c \in Creators, ReceiveCreate(c) PROVE IInv'
  <2>1. c \in Requests /\ c \notin Revokers
    BY StoreAssumption DEF Requests
  <2>2. PICK in \in CreateInput :
          /\ pc[c] = "idle"
          /\ pc' = [pc EXCEPT ![c] = IF in.key = None THEN "workspace" ELSE "dedup"]
          /\ req' = [req EXCEPT ![c] = in]
          /\ UNCHANGED <<seals, locks, tx, reply>>
    BY <1>1 DEF ReceiveCreate, tables
  <2>3. Shape' /\ Exclusive' /\ NoSequenceCollision'
    BY <2>2 DEF IInv, Shape, Issued, Exclusive, NoSequenceCollision
  <2>4. pc'[c] \in {"workspace", "dedup"} /\ req'[c] = in
    BY <2>1, <2>2 DEF IInv, Shape
  <2>5. Local(c)'
    BY <2>1, <2>2, <2>4 DEF IInv, Local, LocalCreate, Holding, Linked, Fresh, AfterLock, AfterRead, Issued
  <2>6. QED
    BY <2>1, <2>2, <2>3, <2>5, Frame DEF IInv, Shape
<1>2. ASSUME NEW v \in Revokers, ReceiveRevoke(v) PROVE IInv'
  <2>1. v \in Requests /\ v \notin Creators
    BY StoreAssumption DEF Requests
  <2>2. PICK in \in RevokeInput :
          /\ pc' = [pc EXCEPT ![v] = "lock"]
          /\ req' = [req EXCEPT ![v] = in]
          /\ UNCHANGED <<seals, locks, tx, reply>>
    BY <1>2 DEF ReceiveRevoke, Goto, tables
  <2>3. Shape' /\ Exclusive' /\ NoSequenceCollision'
    BY <2>2 DEF IInv, Shape, Issued, Exclusive, NoSequenceCollision
  <2>4. Local(v)'
    BY <2>1, <2>2 DEF IInv, Shape, Local, LocalRevoke
  <2>5. QED
    BY <2>1, <2>2, <2>3, <2>4, Frame DEF IInv, Shape
<1>3. ASSUME NEW q \in Verifiers, ReceiveRead(q) PROVE IInv'
  <2>1. q \in Requests /\ q \notin Creators \cup Revokers
    BY StoreAssumption DEF Requests
  <2>2. PICK in \in ReadInput :
          /\ pc' = [pc EXCEPT ![q] = IF in.by = "page" THEN "page" ELSE "find"]
          /\ req' = [req EXCEPT ![q] = in]
          /\ UNCHANGED <<seals, locks, tx, reply>>
    BY <1>3 DEF ReceiveRead, Goto, tables
  <2>3. Shape' /\ Exclusive' /\ NoSequenceCollision'
    BY <2>2 DEF IInv, Shape, Issued, Exclusive, NoSequenceCollision
  <2>4. Local(q)'
    BY <2>1 DEF Local
  <2>5. QED
    BY <2>1, <2>2, <2>3, <2>4, Frame DEF IInv, Shape
<1>4. QED
  BY <1>1, <1>2, <1>3 DEF Receive

(* A step of request t to its next statement.                              *)
LEMMA MoveStep ==
  ASSUME IInv,
         NEW t \in Requests, NEW from, NEW to,
         Goto(t, from, to),
         UNCHANGED <<seals, req, reply>>,
         DOMAIN tx' = Requests,
         \A u \in Requests \ {t} : tx'[u] = tx[u],
         DOMAIN tx'[t] = DOMAIN NoTx,
         Exclusive',
         \A l \in locks : l.owner # t => l \in locks',
         Local(t)'
  PROVE  IInv'
<1>1. \A u \in Requests \ {t} : pc'[u] = pc[u] /\ req'[u] = req[u] /\ tx'[u] = tx[u]
  BY DEF Goto, IInv, Shape
<1>2. Shape'
  BY DEF Goto, IInv, Shape, Issued
<1>3. NoSequenceCollision'
  BY DEF IInv, NoSequenceCollision
<1>4. QED
  BY <1>1, <1>2, <1>3, Frame

(* Answering outside a transaction.                                        *)
LEMMA PlainAnswer ==
  ASSUME IInv,
         NEW t \in Requests, NEW status, NEW s,
         Answer(t, status, s),
         status # "sequence_collision",
         UNCHANGED <<seals, locks>>
  PROVE  IInv'
BY AnswerStep DEF IInv, Exclusive

-----------------------------------------------------------------------------
(* The steps of an issuing request.                                        *)

LEMMA EarlyCreate ==
  ASSUME IInv, NEW c \in Creators,
         CheckIdempotency(c) \/ LoadWorkspace(c) \/ CheckUsage(c)
  PROVE  IInv'
<1>1. c \in Requests /\ c \notin Revokers
  BY StoreAssumption DEF Requests
<1>2. UNCHANGED <<seals, locks>>
  BY DEF CheckIdempotency, LoadWorkspace, CheckUsage, tables
<1>3. ASSUME \/ Goto(c, "dedup", "workspace")
             \/ Goto(c, "workspace", "usage") /\ req[c].ws # None
             \/ Goto(c, "usage", "lock"),
             UNCHANGED <<req, reply>>,
             DOMAIN tx' = Requests,
             \A u \in Requests \ {c} : tx'[u] = tx[u],
             DOMAIN tx'[c] = DOMAIN NoTx,
             tx'[c].prevId = tx[c].prevId, tx'[c].prevHash = tx[c].prevHash
      PROVE  IInv'
  <2>1. Exclusive' /\ \A l \in locks : l \in locks'
    BY <1>2 DEF IInv, Exclusive
  <2>2. LocalCreate(c)
    BY <1>1 DEF IInv, Local
  <2>3. pc[c] \in {"dedup", "workspace", "usage"} /\ pc'[c] \in {"workspace", "usage", "lock"}
    BY <1>1, <1>3 DEF Goto, IInv, Shape
  <2>4. req'[c] \in CreateInput /\ (pc'[c] \in {"usage", "lock"} => req'[c].ws \in Workspaces)
    BY <1>1, <1>3, <2>2, <2>3 DEF Goto, IInv, Shape, LocalCreate, CreateInput, AfterLock, AfterRead
  <2>5. LocalCreate(c)'
    BY <1>2, <1>3, <2>2, <2>3, <2>4 DEF LocalCreate, Holding, Linked, Fresh, AfterLock, AfterRead, Issued
  <2>6. Local(c)'
    BY <1>1, <2>5 DEF Local
  <2>7. \A from, to : Goto(c, from, to) => IInv'
    BY <1>1, <1>2, <1>3, <2>1, <2>6, MoveStep
  <2>8. QED
    BY <1>3, <2>7
<1>4. CASE CheckIdempotency(c)
  <2>1. CASE \E s \in Issued : Answer(c, "200", s)
    BY <1>1, <1>2, <2>1, PlainAnswer
  <2>2. CASE Goto(c, "dedup", "workspace") /\ UNCHANGED <<req, tx, reply>>
    BY <1>1, <1>3, <2>2 DEF IInv, Shape
  <2>3. QED
    BY <1>4, <2>1, <2>2 DEF CheckIdempotency
<1>5. CASE LoadWorkspace(c)
  <2>1. CASE Answer(c, "404", None)
    BY <1>1, <1>2, <2>1, PlainAnswer
  <2>2. CASE Goto(c, "workspace", "usage") /\ req[c].ws # None /\ UNCHANGED <<req, tx, reply>>
    BY <1>1, <1>3, <2>2 DEF IInv, Shape
  <2>3. QED
    BY <1>5, <2>1, <2>2 DEF LoadWorkspace
<1>6. CASE CheckUsage(c)
  <2>1. CASE Answer(c, "402", None)
    BY <1>1, <1>2, <2>1, PlainAnswer
  <2>2. CASE ~Answer(c, "402", None)
    <3>1. Goto(c, "usage", "lock") /\ UNCHANGED <<req, reply>>
      BY <1>6, <2>2 DEF CheckUsage
    <3>2. /\ DOMAIN tx' = Requests
          /\ \A u \in Requests \ {c} : tx'[u] = tx[u]
          /\ DOMAIN tx'[c] = DOMAIN NoTx
          /\ tx'[c].prevId = tx[c].prevId /\ tx'[c].prevHash = tx[c].prevHash
      BY <1>1, <1>6, <2>2 DEF CheckUsage, IInv, Shape, NoTx
    <3>3. QED
      BY <1>3, <3>1, <3>2
  <2>3. QED
    BY <2>1, <2>2
<1>7. QED
  BY <1>4, <1>5, <1>6

LEMMA LockWorkspaceKeeps == ASSUME IInv, NEW c \in Creators, LockWorkspace(c) PROVE IInv'
<1>1. c \in Requests /\ c \notin Revokers
  BY StoreAssumption DEF Requests
<1>2. Goto(c, "lock", "last") /\ Acquire(c, CreateLockWants(c)) /\ UNCHANGED <<seals, req, tx, reply>>
  BY DEF LockWorkspace, tables
<1>3. /\ Exclusive'
      /\ \A l \in locks : l \in locks'
      /\ \A w \in CreateLockWants(c) : [owner |-> c, row |-> w.row, mode |-> w.mode] \in locks'
  BY <1>2, AcquireExclusive DEF IInv
<1>4. Holding(c)'
  BY <1>2, <1>3 DEF Holding, CreateLockWants, Want
<1>5. Local(c)'
  BY <1>1, <1>2, <1>4 DEF IInv, Shape, Goto, Local, LocalCreate, Linked, Fresh,
                           AfterLock, AfterRead, Issued
<1>6. QED
  BY <1>1, <1>2, <1>3, <1>5, MoveStep DEF IInv, Shape

(* HasLast makes the CHOOSE of LastSeal choose a last certificate.         *)
LEMMA ReadLastSealKeeps == ASSUME IInv, NEW c \in Creators, ReadLastSeal(c) PROVE IInv'
<1>1. c \in Requests /\ c \notin Revokers
  BY StoreAssumption DEF Requests
<1> DEFINE w == req[c].ws
           s == LastSeal(w)
<1>2. /\ Goto(c, "last", "insert")
      /\ UNCHANGED <<seals, locks, req, reply>>
      /\ tx' = IF IssuedIn(w) = {}
               THEN [tx EXCEPT ![c].seq = 1]
               ELSE [tx EXCEPT ![c].prevId = s, ![c].prevHash = seals[s].hash,
                               ![c].seq = seals[s].seq + 1]
  BY DEF ReadLastSeal, tables
<1>3. LocalCreate(c) /\ pc[c] = "last" /\ pc'[c] = "insert"
  BY <1>1, <1>2 DEF IInv, Shape, Local, Goto
<1>4. w \in Workspaces
  BY <1>3 DEF LocalCreate, AfterLock
<1>5. CASE IssuedIn(w) = {}
  <2>1. Holding(c)'
    BY <1>2, <1>3 DEF LocalCreate, Holding, AfterLock, AfterRead
  <2>2. Fresh(c)
    BY <1>1, <1>3 DEF Local, IInv, LocalCreate, Fresh
  <2>3. Linked(c)'
    BY <1>1, <1>2, <1>3, <1>5, <2>2 DEF Linked, IssuedIn, Issued, Fresh, AfterRead, IInv, Shape, NoTx
  <2>4. Local(c)'
    BY <1>1, <1>2, <1>3, <1>4, <2>1, <2>3
       DEF Local, LocalCreate, AfterLock, AfterRead, Fresh, Issued
  <2>5. QED
    BY <1>1, <1>2, <1>5, <2>4, MoveStep DEF IInv, Shape, NoTx, Exclusive
<1>6. CASE IssuedIn(w) # {}
  <2>1. IsLastSeal(s, w)
    BY <1>4, <1>6 DEF IInv, HasLast, LastSeal, IsLastSeal
  <2>2. Holding(c)'
    BY <1>2, <1>3 DEF LocalCreate, Holding, AfterLock, AfterRead
  <2>3. /\ tx'[c].prevId = s
        /\ tx'[c].prevHash = seals[s].hash
        /\ tx'[c].seq = seals[s].seq + 1
    BY <1>1, <1>2, <1>6 DEF IInv, Shape, NoTx
  <2>4. Linked(c)'
    BY <1>1, <1>2, <1>6, <2>1, <2>3 DEF Linked, IssuedIn, Issued, IsLastSeal
  <2>5. Local(c)'
    BY <1>1, <1>2, <1>3, <1>4, <2>2, <2>4
       DEF Local, LocalCreate, AfterLock, AfterRead, Fresh, Issued
  <2>6. QED
    BY <1>1, <1>2, <1>6, <2>5, MoveStep DEF IInv, Shape, NoTx, Exclusive
<1>7. QED
  BY <1>5, <1>6

(* A step between two statements of a transaction that has read the last   *)
(* certificate, or between two of a revocation that has found its seal.    *)
LEMMA TransactionStep ==
  ASSUME IInv,
         NEW t \in Writers, NEW from, NEW to,
         Goto(t, from, to),
         t \in Creators => from \in AfterRead /\ to \in AfterRead,
         t \in Revokers => from \in {"mark", "head", "append"},
         UNCHANGED <<seals, req, reply>>,
         DOMAIN tx' = Requests,
         \A u \in Requests \ {t} : tx'[u] = tx[u],
         DOMAIN tx'[t] = DOMAIN NoTx,
         \A f \in {"prevId", "prevHash", "seq"} : tx'[t][f] = tx[t][f],
         Exclusive',
         \A l \in locks : l \in locks'
  PROVE  IInv'
<1>1. t \in Requests /\ Local(t)
  BY DEF IInv, Requests, Writers
<1>2. pc[t] = from /\ pc'[t] = to
  BY <1>1 DEF Goto, IInv, Shape
<1>3. CASE t \in Creators
  <2>1. LocalCreate(t) /\ t \notin Revokers
    BY <1>1, <1>3, StoreAssumption DEF Local
  <2>2. Holding(t)'
    BY <1>2, <1>3, <2>1 DEF LocalCreate, Holding, AfterLock
  <2>3. /\ tx'[t].prevId = tx[t].prevId
        /\ tx'[t].prevHash = tx[t].prevHash
        /\ tx'[t].seq = tx[t].seq
    OBVIOUS
  <2>4. Linked(t)'
    BY <1>2, <1>3, <2>1, <2>3 DEF LocalCreate, Linked, IssuedIn, Issued, IsLastSeal
  <2>5. LocalCreate(t)'
    BY <1>2, <1>3, <2>1, <2>2, <2>4 DEF LocalCreate, Fresh, AfterLock, AfterRead, Issued
  <2>6. QED
    BY <1>1, <2>1, <2>5, MoveStep DEF Local
<1>4. CASE t \in Revokers
  <2>1. LocalRevoke(t) /\ t \notin Creators
    BY <1>1, <1>4, StoreAssumption DEF Local
  <2>2. LocalRevoke(t)'
    BY <1>2, <1>4, <2>1 DEF LocalRevoke, Issued
  <2>3. QED
    BY <1>1, <2>1, <2>2, MoveStep DEF Local
<1>5. QED
  BY <1>3, <1>4 DEF Writers

(* The number a request is about to use is free: Linked says it follows    *)
(* the last one.                                                           *)
LEMMA NumberIsFree ==
  ASSUME IInv, NEW c \in Creators, pc[c] \in AfterRead
  PROVE  ~ \E s \in IssuedIn(req[c].ws) : seals[s].seq = tx[c].seq
<1>1. Linked(c)
  BY DEF IInv, Local, LocalCreate, Requests
<1>2. \A s \in Issued : seals[s].seq \in Nat
  BY DEF IInv, Shape
<1>3. CASE IssuedIn(req[c].ws) = {}
  BY <1>3
<1>4. CASE IssuedIn(req[c].ws) # {}
  <2> DEFINE p == tx[c].prevId
  <2>1. p \in IssuedIn(req[c].ws) /\ tx[c].seq = seals[p].seq + 1
    BY <1>1, <1>4 DEF Linked, IsLastSeal
  <2>2. \A s \in IssuedIn(req[c].ws) : seals[s].seq <= seals[p].seq
    BY <1>1, <1>4 DEF Linked, IsLastSeal
  <2>3. QED
    BY <1>2, <2>1, <2>2 DEF IssuedIn
<1>5. QED
  BY <1>3, <1>4

LEMMA InsertSealKeeps == ASSUME IInv, NEW c \in Creators, InsertSeal(c) PROVE IInv'
<1>1. pc[c] = "insert" /\ c \in Writers /\ c \notin Revokers
  BY StoreAssumption DEF InsertSeal, Writers
<1>2. /\ Goto(c, "insert", "charge")
      /\ Acquire(c, CreateInsertWants(c))
      /\ UNCHANGED <<seals, req, tx, reply>>
  BY <1>1, NumberIsFree DEF InsertSeal, AfterRead, tables
<1>3. Exclusive' /\ \A l \in locks : l \in locks'
  BY <1>2, AcquireExclusive DEF IInv
<1>4. QED
  BY <1>1, <1>2, <1>3, TransactionStep DEF IInv, Shape, Writers, Requests, AfterRead

LEMMA ChargeUsageKeeps == ASSUME IInv, NEW c \in Creators, ChargeUsage(c) PROVE IInv'
<1>1. c \in Writers /\ c \in Requests /\ c \notin Revokers /\ UNCHANGED seals
  BY StoreAssumption DEF ChargeUsage, Writers, Requests, tables
<1>2. CASE Rollback(c, "500")
  BY <1>1, <1>2, RollbackStep
<1>3. CASE ~Rollback(c, "500")
  <2>1. /\ Goto(c, "charge", "head")
        /\ Acquire(c, ChargeWants(c))
        /\ UNCHANGED <<req, reply>>
        /\ tx' = IF tx[c].period = NoPeriod THEN [tx EXCEPT ![c].period = clock.month] ELSE tx
    BY <1>3 DEF ChargeUsage
  <2>2. Exclusive' /\ \A l \in locks : l \in locks'
    BY <2>1, AcquireExclusive DEF IInv
  <2>3. /\ DOMAIN tx' = Requests
        /\ \A u \in Requests \ {c} : tx'[u] = tx[u]
        /\ DOMAIN tx'[c] = DOMAIN NoTx
        /\ \A f \in {"prevId", "prevHash", "seq"} : tx'[c][f] = tx[c][f]
    BY <1>1, <2>1 DEF IInv, Shape, NoTx
  <2>4. QED
    BY <1>1, <2>1, <2>2, <2>3, TransactionStep DEF AfterRead
<1>4. QED
  BY <1>2, <1>3

(* The two statements of appendEvidenceLedgerTx, for both kinds of writer. *)
LEMMA LedgerKeeps == ASSUME IInv, NEW t \in Writers, LedgerStep(t) PROVE IInv'
<1>1. t \in Requests /\ UNCHANGED seals
  BY DEF LedgerStep, ReadLedgerHead, InsertLedger, Writers, Requests, tables
<1>2. ASSUME NEW from, NEW to, Goto(t, from, to), from \in {"head", "append"},
             to \in {"append", "commit"}, UNCHANGED <<req, reply>>,
             \E f \in {"head", "lid"} : \E x \in {LedgerHead, ledgerSeq'} :
               tx' = [tx EXCEPT ![t][f] = x],
             Exclusive', \A l \in locks : l \in locks'
      PROVE  IInv'
  <2>1. /\ DOMAIN tx' = Requests
        /\ \A u \in Requests \ {t} : tx'[u] = tx[u]
        /\ DOMAIN tx'[t] = DOMAIN NoTx
        /\ \A f \in {"prevId", "prevHash", "seq"} : tx'[t][f] = tx[t][f]
    BY <1>1, <1>2 DEF IInv, Shape, NoTx
  <2>2. QED
    BY <1>1, <1>2, <2>1, TransactionStep DEF AfterRead
<1>3. CASE ReadLedgerHead(t)
  <2>1. Exclusive' /\ \A l \in locks : l \in locks'
    BY <1>3 DEF ReadLedgerHead, IInv, Exclusive
  <2>2. Goto(t, "head", "append") /\ UNCHANGED <<req, reply>> /\ tx' = [tx EXCEPT ![t]["head"] = LedgerHead]
    BY <1>3 DEF ReadLedgerHead
  <2>3. QED
    BY <1>2, <2>1, <2>2
<1>4. CASE InsertLedger(t)
  <2>1. CASE Rollback(t, "500")
    BY <1>1, <2>1, RollbackStep
  <2>2. CASE ~Rollback(t, "500")
    <3>1. /\ Goto(t, "append", "commit")
          /\ Acquire(t, {Want(RefKey(req[t].ref), "UPDATE")})
          /\ tx' = [tx EXCEPT ![t]["lid"] = ledgerSeq']
          /\ UNCHANGED <<req, reply>>
      BY <1>4, <2>2 DEF InsertLedger
    <3>2. Exclusive' /\ \A l \in locks : l \in locks'
      BY <3>1, AcquireExclusive DEF IInv
    <3>3. QED
      BY <1>2, <3>1, <3>2
  <2>3. QED
    BY <2>1, <2>2
<1>5. QED
  BY <1>3, <1>4 DEF LedgerStep

(* COMMIT of an issue.  The new certificate is the last of its workspace;  *)
(* every other request that has read a last certificate holds the lock of  *)
(* another workspace.                                                      *)
LEMMA CommitCreateKeeps == ASSUME IInv, NEW c \in Creators, CommitCreate(c) PROVE IInv'
<1>0. PICK w : w = req[c].ws
  OBVIOUS
<1>1. c \in Requests /\ c \notin Revokers
  BY StoreAssumption DEF Requests
<1>2. PICK status \in {"201", "500"}, id \in {c, None} :
        /\ pc[c] = "commit"
        /\ Release(c)
        /\ Answer(c, status, id)
        /\ seals' = [seals EXCEPT ![c] = SealOf(c)]
  BY DEF CommitCreate, Committed
<1>3. LocalCreate(c)
  BY <1>1 DEF IInv, Local
<1>4. /\ Linked(c) /\ Holding(c)
      /\ pc[c] \in AfterRead /\ pc[c] \in AfterLock
      /\ w \in Workspaces
      /\ c \notin Issued
  BY <1>0, <1>2, <1>3 DEF LocalCreate, AfterLock, AfterRead, Issued
<1>5. /\ DOMAIN SealOf(c) = {"ws", "payload", "hash", "prevId", "prevHash",
                             "seq", "status", "public", "key"}
      /\ SealOf(c).status = "sealed" /\ SealOf(c).ws = w
      /\ SealOf(c).seq = tx[c].seq
      /\ SealOf(c).prevId = tx[c].prevId
      /\ SealOf(c).prevHash = tx[c].prevHash
  BY <1>0 DEF SealOf, Payload
<1>6. /\ \A s \in Issued : s \in Issued' /\ seals'[s] = seals[s]
      /\ \A s \in Issued' : s \in Issued \/ s = c
      /\ seals'[c] = SealOf(c)
  BY <1>2, <1>4 DEF IInv, Shape, Issued
<1>7. \A x \in Workspaces : x # w => IssuedIn(x)' = IssuedIn(x)
  BY <1>4, <1>5, <1>6 DEF IssuedIn
<1>8. c \in Issued' /\ IssuedIn(w)' = IssuedIn(w) \cup {c}
  BY <1>4, <1>5, <1>6 DEF IssuedIn, Issued
<1>9. \A s \in Issued : seals[s].seq \in Nat \ {0} /\ seals[s].ws \in Workspaces
  BY DEF IInv, Shape
<1>10. tx[c].seq \in Nat \ {0} /\ \A s \in IssuedIn(w) : seals[s].seq < tx[c].seq
  <2>1. CASE IssuedIn(w) = {}
    BY <1>0, <1>4, <2>1 DEF Linked
  <2>2. CASE IssuedIn(w) # {}
    <3> DEFINE p == tx[c].prevId
    <3>1. p \in IssuedIn(w) /\ tx[c].seq = seals[p].seq + 1
          /\ \A s \in IssuedIn(w) : seals[s].seq <= seals[p].seq
      BY <1>0, <1>4, <2>2 DEF Linked, IsLastSeal
    <3>2. QED
      BY <1>9, <3>1 DEF IssuedIn
  <2>3. QED
    BY <2>1, <2>2
<1>11. Exclusive' /\ \A l \in locks : l.owner # c => l \in locks'
  BY <1>2, ReleaseExclusive DEF IInv
<1>12. Shape'
  BY <1>1, <1>2, <1>4, <1>5, <1>6, <1>10 DEF Answer, IInv, Shape, NoTx
<1>13. NoSequenceCollision'
  BY <1>2 DEF Answer, IInv, Shape, NoSequenceCollision, Requests
<1>14. HasLast'
  <2> SUFFICES ASSUME NEW x \in Workspaces, IssuedIn(x)' # {}
               PROVE  \E s \in Issued' : IsLastSeal(s, x)'
    BY DEF HasLast
  <2>1. CASE IssuedIn(x)' = IssuedIn(x)
    BY <1>6, <2>1 DEF IInv, HasLast, IsLastSeal, IssuedIn
  <2>2. CASE x = w
    <3>1. \A s \in IssuedIn(w) : seals'[s].seq <= seals'[c].seq
      BY <1>5, <1>6, <1>9, <1>10 DEF IssuedIn
    <3>2. seals'[c].seq <= seals'[c].seq
      BY <1>5, <1>6, <1>10
    <3>3. IsLastSeal(c, w)'
      BY <1>8, <2>2, <3>1, <3>2 DEF IsLastSeal
    <3>4. QED
      BY <1>8, <2>2, <3>3
  <2>3. QED
    BY <1>7, <2>1, <2>2
<1>15. ChainIntact'
  <2>1. ASSUME NEW s \in Issued'
        PROVE  (IF seals[s].seq = 1
                THEN seals[s].prevId = None /\ seals[s].prevHash = None
                ELSE /\ seals[s].prevId \in IssuedIn(seals[s].ws)
                     /\ seals[seals[s].prevId].seq = seals[s].seq - 1
                     /\ seals[s].prevHash = seals[seals[s].prevId].hash)'
    <3>1. CASE s \in Issued
      BY <1>6, <3>1 DEF IInv, ChainIntact, IssuedIn
    <3>2. CASE s = c /\ IssuedIn(w) = {}
      BY <1>0, <1>4, <1>5, <1>6, <3>2 DEF Linked
    <3>3. CASE s = c /\ IssuedIn(w) # {}
      <4> DEFINE p == tx[c].prevId
      <4>1. p \in IssuedIn(w) /\ tx[c].seq = seals[p].seq + 1 /\ tx[c].prevHash = seals[p].hash
        BY <1>0, <1>4, <3>3 DEF Linked, IsLastSeal
      <4>2. p \in IssuedIn(w)' /\ seals'[p] = seals[p] /\ seals[p].seq \in Nat \ {0}
        BY <1>6, <1>9, <4>1 DEF IssuedIn
      <4>3. QED
        BY <1>5, <1>6, <3>3, <4>1, <4>2
    <3>4. QED
      BY <1>6, <3>1, <3>2, <3>3
  <2>2. ASSUME NEW s \in Issued', NEW u \in Issued',
               seals'[s].ws = seals'[u].ws, seals'[s].seq = seals'[u].seq
        PROVE  s = u
    <3>1. CASE s \in Issued /\ u \in Issued
      BY <1>6, <2>2, <3>1 DEF IInv, ChainIntact
    <3>2. \A v \in Issued : seals[v].ws = w => seals[v].seq # tx[c].seq
      BY <1>9, <1>10 DEF IssuedIn
    <3>3. QED
      BY <1>5, <1>6, <2>2, <3>1, <3>2
  <2>3. QED
    BY <2>1, <2>2 DEF ChainIntact
<1>16. ASSUME NEW u \in Requests, u # c PROVE Local(u)'
  <2>1. Local(u) /\ pc'[u] = pc[u] /\ req'[u] = req[u] /\ tx'[u] = tx[u]
    BY <1>2, <1>16 DEF Answer, IInv, Shape
  <2>2. CASE u \in Revokers
    BY <1>6, <2>1, <2>2, StoreAssumption DEF Local, LocalRevoke
  <2>3. CASE u \in Creators
    <3>1. LocalCreate(u) /\ u \notin Revokers
      BY <2>1, <2>3, StoreAssumption DEF Local
    <3>2. Holding(u)'
      BY <1>11, <1>16, <2>1, <3>1 DEF LocalCreate, Holding
    <3>3. pc[u] \in AfterRead => req[u].ws # w
      BY <1>0, <1>4, <1>16, <3>1 DEF IInv, Exclusive, LocalCreate, Holding, WorkspaceRow, AfterLock
    <3>4. pc[u] \in AfterRead => IssuedIn(req[u].ws)' = IssuedIn(req[u].ws)
      <4>1. PICK x : x = req[u].ws /\ x = req'[u].ws
        BY <2>1
      <4>2. pc[u] \in AfterRead => x \in Workspaces /\ IssuedIn(x)' = IssuedIn(x)
        BY <1>7, <3>1, <3>3, <4>1 DEF LocalCreate, AfterLock
      <4>3. QED
        BY <4>1, <4>2 DEF IssuedIn
    <3>5. Linked(u)'
      BY <1>6, <2>1, <3>1, <3>4 DEF LocalCreate, Linked, IsLastSeal, IssuedIn
    <3>6. LocalCreate(u)'
      BY <1>2, <1>16, <2>1, <2>3, <3>1, <3>2, <3>5 DEF LocalCreate, Fresh, IInv, Shape, Issued
    <3>7. QED
      BY <3>1, <3>6 DEF Local
  <2>4. QED
    BY <2>2, <2>3 DEF Local
<1>17. Local(c)'
  <2>1. pc'[c] = "done" /\ tx'[c] = NoTx
    BY <1>1, <1>2 DEF Answer, IInv, Shape
  <2>2. QED
    BY <1>1, <2>1 DEF Local, LocalCreate, Holding, Linked, Fresh, AfterLock, AfterRead, NoTx
<1>18. QED
  BY <1>11, <1>12, <1>13, <1>14, <1>15, <1>16, <1>17 DEF IInv

-----------------------------------------------------------------------------
(* The steps of a revoking request.                                        *)

LEMMA LockSealKeeps == ASSUME IInv, NEW v \in Revokers, LockSeal(v) PROVE IInv'
<1>1. v \in Requests /\ v \notin Creators /\ UNCHANGED seals
  BY StoreAssumption DEF LockSeal, Requests, tables
<1>2. CASE \E status \in {"404", "403", "already_revoked"} : Rollback(v, status)
  BY <1>1, <1>2, RollbackStep
<1>3. CASE /\ Goto(v, "lock", "mark")
           /\ Acquire(v, RevokeLockWants(v))
           /\ req[v].seal \in Issued
           /\ UNCHANGED <<req, tx, reply>>
  <2>1. Exclusive' /\ \A l \in locks : l \in locks'
    BY <1>3, AcquireExclusive DEF IInv
  <2>2. Local(v)'
    BY <1>1, <1>3 DEF Local, LocalRevoke, Issued
  <2>3. QED
    BY <1>1, <1>3, <2>1, <2>2, MoveStep DEF IInv, Shape
<1>4. QED
  BY <1>2, <1>3 DEF LockSeal

LEMMA MarkRevokedKeeps == ASSUME IInv, NEW v \in Revokers, MarkRevoked(v) PROVE IInv'
<1>1. v \in Writers /\ v \in Requests /\ v \notin Creators
  BY StoreAssumption DEF Writers, Requests
<1>2. /\ Goto(v, "mark", "head")
      /\ Acquire(v, RevokeMarkWants(v))
      /\ UNCHANGED <<seals, req, tx, reply>>
  BY DEF MarkRevoked, tables
<1>3. Exclusive' /\ \A l \in locks : l \in locks'
  BY <1>2, AcquireExclusive DEF IInv
<1>4. QED
  BY <1>1, <1>2, <1>3, TransactionStep DEF IInv, Shape

(* COMMIT of a revocation changes nothing that the chain is made of.       *)
LEMMA CommitRevokeKeeps == ASSUME IInv, NEW v \in Revokers, CommitRevoke(v) PROVE IInv'
<1>1. v \in Requests /\ v \notin Creators
  BY StoreAssumption DEF Requests
<1> PICK r : r = req[v].seal
  OBVIOUS
<1>2. PICK status \in {"200", "500"} :
        /\ pc[v] = "commit"
        /\ Release(v)
        /\ \E id : Answer(v, status, id)
        /\ seals' = [seals EXCEPT ![r].status = "revoked", ![r].public = FALSE]
  BY DEF CommitRevoke, Committed
<1>3. r \in Issued
  BY <1>1, <1>2 DEF IInv, Local, LocalRevoke
<1>4. /\ DOMAIN seals' = Creators
      /\ \A s \in Creators : DOMAIN seals'[s] = DOMAIN seals[s]
      /\ \A s \in Issued :
           \A f \in {"ws", "payload", "hash", "prevId", "prevHash", "seq", "key"} :
             seals'[s][f] = seals[s][f]
  BY <1>2 DEF IInv, Shape, Issued
<1>5. /\ Issued' = Issued
      /\ \A s \in Issued : /\ seals'[s].ws = seals[s].ws
                           /\ seals'[s].seq = seals[s].seq
                           /\ seals'[s].prevId = seals[s].prevId
                           /\ seals'[s].prevHash = seals[s].prevHash
                           /\ seals'[s].hash = seals[s].hash
  <2>1. \A s \in Creators : s # r => seals'[s] = seals[s]
    BY <1>2 DEF IInv, Shape
  <2>2. r \in Issued'
    BY <1>2, <1>3 DEF IInv, Shape, Issued
  <2>3. QED
    BY <1>3, <1>4, <2>1, <2>2 DEF Issued
<1>6. Exclusive' /\ \A l \in locks : l.owner # v => l \in locks'
  BY <1>2, ReleaseExclusive DEF IInv
<1>7. Shape'
  <2>1. DOMAIN tx' = Requests /\ \A t \in Requests : DOMAIN tx'[t] = DOMAIN NoTx
    BY <1>2 DEF Answer, IInv, Shape
  <2>2. DOMAIN pc' = Requests /\ DOMAIN req' = Requests /\ DOMAIN reply' = Requests
    BY <1>2 DEF Answer, IInv, Shape
  <2>3. \A s \in Issued' : /\ seals'[s].ws \in Workspaces
                           /\ seals'[s].seq \in Nat \ {0}
                           /\ DOMAIN seals'[s] = {"ws", "payload", "hash", "prevId", "prevHash",
                                                  "seq", "status", "public", "key"}
    BY <1>4, <1>5 DEF IInv, Shape, Issued
  <2>4. QED
    BY <1>4, <2>1, <2>2, <2>3 DEF Shape
<1>8. NoSequenceCollision'
  BY <1>2 DEF Answer, IInv, Shape, NoSequenceCollision, Requests
<1>9. \A w : IssuedIn(w)' = IssuedIn(w)
  BY <1>5 DEF IssuedIn
<1>10. HasLast' /\ ChainIntact'
  <2>1. HasLast'
    BY <1>5, <1>9 DEF IInv, HasLast, IsLastSeal, IssuedIn
  <2>2. ASSUME NEW s \in Issued
        PROVE  (IF seals[s].seq = 1
                THEN seals[s].prevId = None /\ seals[s].prevHash = None
                ELSE /\ seals[s].prevId \in IssuedIn(seals[s].ws)
                     /\ seals[seals[s].prevId].seq = seals[s].seq - 1
                     /\ seals[s].prevHash = seals[seals[s].prevId].hash)'
    BY <1>5 DEF IInv, ChainIntact, IssuedIn
  <2>3. ASSUME NEW s \in Issued, NEW u \in Issued,
               seals'[s].ws = seals'[u].ws, seals'[s].seq = seals'[u].seq
        PROVE  s = u
    BY <1>5, <2>3 DEF IInv, ChainIntact
  <2>4. QED
    BY <1>5, <2>1, <2>2, <2>3 DEF ChainIntact
<1>11. ASSUME NEW u \in Requests, u # v PROVE Local(u)'
  <2>1. Local(u) /\ pc'[u] = pc[u] /\ req'[u] = req[u] /\ tx'[u] = tx[u]
    BY <1>2, <1>11 DEF Answer, IInv, Shape
  <2>2. CASE u \in Revokers
    BY <1>5, <2>1, <2>2, StoreAssumption DEF Local, LocalRevoke
  <2>3. CASE u \in Creators
    <3>1. LocalCreate(u) /\ u \notin Revokers
      BY <2>1, <2>3, StoreAssumption DEF Local
    <3>2. Holding(u)'
      BY <1>6, <1>11, <2>1, <3>1 DEF LocalCreate, Holding
    <3>3. Linked(u)'
      <4>1. PICK x : x = req[u].ws /\ x = req'[u].ws
        BY <2>1
      <4>2. pc[u] \in AfterRead => IF IssuedIn(x) = {}
              THEN tx[u].prevId = None /\ tx[u].prevHash = None /\ tx[u].seq = 1
              ELSE /\ IsLastSeal(tx[u].prevId, x)
                   /\ tx[u].prevHash = seals[tx[u].prevId].hash
                   /\ tx[u].seq = seals[tx[u].prevId].seq + 1
        BY <3>1, <4>1 DEF LocalCreate, Linked
      <4>3. QED
        BY <1>5, <1>9, <2>1, <4>1, <4>2 DEF Linked, IsLastSeal, IssuedIn
    <3>4. LocalCreate(u)'
      BY <1>5, <2>1, <3>1, <3>2, <3>3 DEF LocalCreate, Fresh
    <3>5. QED
      BY <3>1, <3>4 DEF Local
  <2>4. QED
    BY <2>2, <2>3 DEF Local
<1>12. Local(v)'
  <2>1. pc'[v] = "done"
    BY <1>1, <1>2 DEF Answer, IInv, Shape
  <2>2. QED
    BY <1>1, <2>1 DEF Local, LocalRevoke
<1>13. QED
  BY <1>6, <1>7, <1>8, <1>10, <1>11, <1>12 DEF IInv

-----------------------------------------------------------------------------
(* The readers change no table.                                            *)
LEMMA ReadKeeps == ASSUME IInv, NEW q \in Verifiers, ReadStep(q) PROVE IInv'
<1>1. q \in Requests /\ q \notin Creators \cup Revokers
  BY StoreAssumption DEF Requests
<1>2. UNCHANGED <<seals, locks>>
  BY DEF ReadStep, FindSeal, FindProof, FindPage, CheckProof, tables
<1>3. Exclusive' /\ \A l \in locks : l \in locks'
  BY <1>2 DEF IInv, Exclusive
<1>4. Local(q)'
  BY <1>1 DEF Local
<1>5. ASSUME NEW from, NEW to, Goto(q, from, to), UNCHANGED <<req, reply>>,
             NEW b, tx' = [tx EXCEPT ![q].public = b]
      PROVE  IInv'
  BY <1>1, <1>2, <1>3, <1>4, <1>5, MoveStep DEF IInv, Shape, NoTx
<1>6. ASSUME NEW status, NEW s, Answer(q, status, s), status # "sequence_collision"
      PROVE  IInv'
  BY <1>1, <1>2, <1>6, PlainAnswer
<1>7. CASE FindSeal(q)
  BY <1>5, <1>6, <1>7 DEF FindSeal
<1>8. CASE FindProof(q)
  BY <1>5, <1>8 DEF FindProof
<1>9. CASE FindPage(q)
  BY <1>5, <1>6, <1>9 DEF FindPage
<1>10. CASE CheckProof(q)
  BY <1>6, <1>10 DEF CheckProof
<1>11. QED
  BY <1>7, <1>8, <1>9, <1>10 DEF ReadStep

-----------------------------------------------------------------------------
LEMMA NextKeepsIInv == IInv /\ [Next]_vars => IInv'
<1> SUFFICES ASSUME IInv, [Next]_vars PROVE IInv'
  OBVIOUS
<1>1. CASE Receive
  BY <1>1, ReceiveKeeps
<1>2. ASSUME NEW t \in Requests, Progress(t) PROVE IInv'
  <2>1. CASE t \in Creators /\ CreateStep(t)
    BY <2>1, EarlyCreate, LockWorkspaceKeeps, ReadLastSealKeeps, InsertSealKeeps,
       ChargeUsageKeeps, CommitCreateKeeps DEF CreateStep
  <2>2. CASE t \in Revokers /\ RevokeStep(t)
    BY <2>2, LockSealKeeps, MarkRevokedKeeps, CommitRevokeKeeps DEF RevokeStep
  <2>3. CASE t \in Writers /\ LedgerStep(t)
    BY <2>3, LedgerKeeps
  <2>4. CASE t \in Writers /\ CancelDeadlocked(t)
    BY <2>4, RollbackStep DEF CancelDeadlocked, tables
  <2>5. CASE t \in Verifiers /\ ReadStep(t)
    BY <2>5, ReadKeeps
  <2>6. QED
    BY <1>2, <2>1, <2>2, <2>3, <2>4, <2>5 DEF Progress
<1>3. ASSUME NEW t \in Requests, Fault(t) PROVE IInv'
  BY <1>3, RollbackStep DEF Fault, tables
<1>4. ASSUME NEW t \in Requests, Refuse(t) PROVE IInv'
  BY <1>4, PlainAnswer DEF Refuse, tables
<1>5. ASSUME UNCHANGED <<seals, locks, pc, req, tx, reply>> PROVE IInv'
  <2>1. Shape' /\ Exclusive' /\ NoSequenceCollision'
    BY <1>5 DEF IInv, Shape, Issued, Exclusive, NoSequenceCollision
  <2>2. HasLast' /\ ChainIntact'
    BY <1>5 DEF IInv, HasLast, ChainIntact, Issued, IssuedIn, IsLastSeal
  <2>3. \A t \in Requests : Local(t)'
    BY <1>5 DEF IInv, Local, LocalCreate, LocalRevoke, Holding, Linked, Fresh,
                Issued, IssuedIn, IsLastSeal
  <2>4. QED
    BY <2>1, <2>2, <2>3 DEF IInv
<1>6. CASE Tick
  BY <1>5, <1>6 DEF Tick, tables
<1>7. CASE UNCHANGED vars
  BY <1>5, <1>7 DEF vars
<1>8. QED
  BY <1>1, <1>2, <1>3, <1>4, <1>6, <1>7 DEF Next, Finished

(* The inductive invariant holds in every reachable state.                 *)
THEOREM SpecIInv == Spec => []IInv
<1>1. QED
  BY InitIInv, NextKeepsIInv, PTL DEF Spec

(* The certificates of every workspace form one gapless, unforked hash     *)
(* chain in every reachable state, for any number of workspaces and of     *)
(* concurrent requests (seal-service.ts:409-449).                          *)
THEOREM ChainTheorem == Spec => []ChainIntact
<1>1. IInv => ChainIntact
  BY DEF IInv
<1>2. QED
  BY <1>1, SpecIInv, PTL

(* The row lock on the workspace keeps two requests from ever computing    *)
(* the same sequence number (seal-service.ts:411-422).                     *)
THEOREM NoCollisionTheorem == Spec => []NoSequenceCollision
<1>1. IInv => NoSequenceCollision
  BY DEF IInv
<1>2. QED
  BY <1>1, SpecIInv, PTL

-----------------------------------------------------------------------------
(***************************************************************************)
(* The promises, on top of the chain.                                      *)
(***************************************************************************)

(* The steps that write tables.                                            *)
LEMMA TableSteps ==
  ASSUME Next
  PROVE  \/ UNCHANGED tables
         \/ \E c \in Creators : CommitCreate(c)
         \/ \E v \in Revokers : CommitRevoke(v)
         \/ \E t \in Writers : InsertLedger(t)
<1>1. CASE Receive
  BY <1>1 DEF Receive, ReceiveCreate, ReceiveRevoke, ReceiveRead, tables
<1>2. CASE \E t \in Requests : Progress(t)
  <2> PICK t \in Requests : Progress(t)
    BY <1>2
  <2>1. CASE t \in Creators /\ CreateStep(t)
    BY <2>1 DEF CreateStep, CheckIdempotency, LoadWorkspace, CheckUsage, LockWorkspace,
                ReadLastSeal, InsertSeal, ChargeUsage, tables
  <2>2. CASE t \in Revokers /\ RevokeStep(t)
    BY <2>2 DEF RevokeStep, LockSeal, MarkRevoked, tables
  <2>3. CASE t \in Writers /\ LedgerStep(t)
    BY <2>3 DEF LedgerStep, ReadLedgerHead, tables
  <2>4. CASE CancelDeadlocked(t) \/ ReadStep(t)
    BY <2>4 DEF CancelDeadlocked, ReadStep, FindSeal, FindProof, FindPage, CheckProof, tables
  <2>5. QED
    BY <2>1, <2>2, <2>3, <2>4 DEF Progress
<1>3. CASE (\E t \in Requests : Fault(t) \/ Refuse(t)) \/ Tick \/ Finished
  BY <1>3 DEF Fault, Refuse, Tick, Finished, vars, tables
<1>4. QED
  BY <1>1, <1>2, <1>3 DEF Next

(* Only two steps write certificates.                                      *)
LEMMA RowSteps ==
  ASSUME Next
  PROVE  \/ UNCHANGED seals
         \/ \E c \in Creators : CommitCreate(c)
         \/ \E v \in Revokers : CommitRevoke(v)
BY TableSteps DEF InsertLedger, tables

(* What every step does to the certificates.                               *)
LEMMA RowsGrow ==
  ASSUME PInv, [Next]_vars
  PROVE  /\ RowsSound'
         /\ \A s \in Issued :
              /\ s \in Issued'
              /\ [seals'[s] EXCEPT !.status = "sealed", !.public = TRUE]
                   = [seals[s] EXCEPT !.status = "sealed", !.public = TRUE]
              /\ s \in Revoked => s \in Revoked'
              /\ seals'[s].key = seals[s].key
         /\ \A s \in Issued' : s \in Issued \/ CommitCreate(s)
<1>1. CASE UNCHANGED seals
  BY <1>1 DEF PInv, RowsSound, Issued, Revoked
<1>2. ASSUME NEW c \in Creators, CommitCreate(c)
      PROVE  /\ seals' = [seals EXCEPT ![c] = SealOf(c)]
             /\ c \notin Issued
  <2>1. c \in Requests /\ pc[c] = "commit"
    BY <1>2 DEF CommitCreate, Committed, Requests
  <2>2. LocalCreate(c)
    BY <2>1 DEF PInv, IInv, Local
  <2>3. QED
    BY <1>2, <2>1, <2>2 DEF CommitCreate, LocalCreate
<1>3. CASE \E c \in Creators : CommitCreate(c)
  <2> PICK c \in Creators : CommitCreate(c)
    BY <1>3
  <2>1. \A s \in Issued : seals'[s] = seals[s] /\ s \in Issued'
    BY <1>2 DEF PInv, IInv, Shape, Issued
  <2>2. /\ SealOf(c).status = "sealed" /\ SealOf(c).public = TRUE
        /\ SealOf(c).hash = Sha256(SealOf(c).payload)
    BY DEF SealOf
  <2>3. \A s \in Issued' : s \in Issued \/ s = c
    BY <1>2 DEF PInv, IInv, Shape, Issued
  <2>4. RowsSound'
    BY <1>2, <2>1, <2>2, <2>3 DEF PInv, IInv, Shape, RowsSound
  <2>5. QED
    BY <2>1, <2>3, <2>4 DEF Revoked
<1>4. CASE \E v \in Revokers : CommitRevoke(v)
  <2> PICK v \in Revokers : CommitRevoke(v)
    BY <1>4
  <2> PICK r : r = req[v].seal
    OBVIOUS
  <2>1. seals' = [seals EXCEPT ![r].status = "revoked", ![r].public = FALSE] /\ r \in Issued
    BY DEF CommitRevoke, Committed, PInv, IInv, Local, LocalRevoke, Requests
  <2>2. \A s \in Issued : s # r => seals'[s] = seals[s]
    BY <2>1 DEF PInv, IInv, Shape, Issued
  <2>3. seals'[r] = [seals[r] EXCEPT !.status = "revoked", !.public = FALSE]
    BY <2>1 DEF PInv, IInv, Shape, Issued
  <2>4. Issued' = Issued
    BY <2>1, <2>2, <2>3 DEF PInv, IInv, Shape, Issued
  <2>5. /\ seals'[r].status = "revoked" /\ seals'[r].public = FALSE
        /\ seals'[r].hash = seals[r].hash /\ seals'[r].payload = seals[r].payload
        /\ seals'[r].key = seals[r].key
        /\ [seals'[r] EXCEPT !.status = "sealed", !.public = TRUE]
             = [seals[r] EXCEPT !.status = "sealed", !.public = TRUE]
    BY <2>1, <2>3 DEF PInv, IInv, Shape
  <2>6. \A s \in Revoked : s \in Revoked'
    BY <2>2, <2>4, <2>5 DEF Revoked
  <2>7. ASSUME NEW s \in Issued'
        PROVE  /\ \/ seals'[s].status = "sealed" /\ seals'[s].public = TRUE
                  \/ seals'[s].status = "revoked" /\ seals'[s].public = FALSE
               /\ seals'[s].hash = Sha256(seals'[s].payload)
    <3>1. CASE s = r
      BY <2>1, <2>5, <3>1 DEF PInv, RowsSound
    <3>2. CASE s # r
      BY <2>2, <2>4, <3>2 DEF PInv, RowsSound
    <3>3. QED
      BY <3>1, <3>2
  <2>8. RowsSound'
    BY <2>7 DEF RowsSound
  <2>9. QED
    BY <2>2, <2>4, <2>5, <2>6, <2>8
<1>5. QED
  BY <1>1, <1>3, <1>4, RowSteps DEF vars

-----------------------------------------------------------------------------
(* Requests other than t stand still.                                      *)
OthersStand(t) ==
  \A u \in Requests \ {t} :
    /\ pc'[u] = pc[u]
    /\ req'[u] = req[u]
    /\ tx'[u] = tx[u]
    /\ reply'[u] = reply[u]
    /\ late'[u] = late[u]

(* What a step of another request leaves of a request's promise.           *)
LEMMA PromiseOfOthers ==
  ASSUME PInv, [Next]_vars, NEW t \in Requests, OthersStand(t),
         NEW u \in Requests \ {t}
  PROVE  PromiseOf(u)'
<1>1. /\ pc'[u] = pc[u] /\ req'[u] = req[u] /\ tx'[u] = tx[u]
      /\ reply'[u] = reply[u] /\ late'[u] = late[u]
  BY DEF OthersStand
<1>2. \A s \in Issued : s \in Issued' /\ (s \in Revoked => s \in Revoked') /\ seals'[s].key = seals[s].key
  BY RowsGrow
<1>3. u \in Creators /\ u \notin Issued => u \notin Issued'
  <2>1. CommitCreate(u) => pc[u] = "commit" /\ pc'[u] = "done"
    BY DEF CommitCreate, Committed, Answer, PInv, IInv, Shape
  <2>2. QED
    BY <1>1, <2>1, RowsGrow
<1>4. u \in Creators /\ RetryHeld(u) => RetryHeld(u)'
  <2>1. \A k : KeyIssued(k) => KeyIssued(k)'
    BY <1>2 DEF KeyIssued
  <2>2. KeyIssued(req[u].key) => KeyIssued(req[u].key)'
    BY <1>1, <2>1 DEF KeyIssued
  <2>3. QED
    BY <1>1, <1>3, <2>2 DEF RetryHeld
<1>5. u \in Verifiers /\ ReaderSound(u) => ReaderSound(u)'
  BY <1>1, <1>2 DEF ReaderSound, Revoked
<1>6. PromiseOf(u)
  BY DEF PInv
<1>7. QED
  BY <1>4, <1>5, <1>6 DEF PromiseOf

(* Ending a transaction, and taking a step inside one.                     *)
LEMMA OwnersAfterRelease ==
  ASSUME PInv, NEW t \in Requests, Release(t), OthersStand(t)
  PROVE  LockOwners'
BY DEF Release, OthersStand, PInv, LockOwners, Writers, Requests

LEMMA OwnersAfterMove ==
  ASSUME PInv, NEW t \in Requests, OthersStand(t),
         \/ UNCHANGED locks /\ (pc[t] \in InTransaction => pc'[t] \in InTransaction)
         \/ t \in Writers /\ pc'[t] \in InTransaction /\ \E wants : Acquire(t, wants)
  PROVE  LockOwners'
BY DEF Acquire, OthersStand, PInv, LockOwners, Writers, Requests

(* The step of a request that answers it.                                  *)
LEMMA AnswerPromise ==
  ASSUME PInv, NEW t \in Requests, NEW status, NEW s, Answer(t, status, s),
         UNCHANGED seals,
         t \in Verifiers => /\ late[t] => status # "valid"
                            /\ status # "invalid"
                            /\ status = "not_public" => s \in Revoked
  PROVE  OthersStand(t) /\ PromiseOf(t)' /\ DOMAIN late' = Requests
<1>1. /\ OthersStand(t) /\ DOMAIN late' = Requests
      /\ pc'[t] = "done" /\ late'[t] = late[t]
      /\ reply'[t].status = status /\ reply'[t].seal = s
  BY DEF Answer, OthersStand, PInv, IInv, Shape
<1>2. t \in Creators => RetryHeld(t)'
  BY <1>1 DEF RetryHeld, PInv, PromiseOf, Issued
<1>3. t \in Verifiers => ReaderSound(t)'
  BY <1>1 DEF ReaderSound, Revoked, Issued
<1>4. QED
  BY <1>1, <1>2, <1>3 DEF PromiseOf

-----------------------------------------------------------------------------
(* Every step is the step of one request, and keeps that request's promise *)
(* and the ownership of locks.                                             *)
StepSound(t) ==
  /\ OthersStand(t)
  /\ PromiseOf(t)'
  /\ LockOwners'
  /\ DOMAIN late' = Requests

LEMMA RollbackPromise ==
  ASSUME PInv, NEW t \in Requests, t \notin Verifiers, NEW status, Rollback(t, status),
         UNCHANGED seals
  PROVE  StepSound(t)
BY AnswerPromise, OwnersAfterRelease DEF Rollback, StepSound

(* An answer outside a transaction.                                        *)
LEMMA EarlyAnswerPromise ==
  ASSUME PInv, NEW t \in Requests, pc[t] \notin InTransaction,
         NEW status, NEW s, Answer(t, status, s), UNCHANGED <<seals, locks>>,
         t \in Verifiers => /\ late[t] => status # "valid"
                            /\ status # "invalid"
                            /\ status = "not_public" => s \in Revoked
  PROVE  StepSound(t)
BY AnswerPromise, OwnersAfterMove DEF StepSound

(* A move of a creating or revoking request to its next statement.  A late *)
(* retry makes none: it is answered by the idempotency check.              *)
LEMMA MovePromise ==
  ASSUME PInv, NEW t \in Writers, NEW from, NEW to, Goto(t, from, to),
         from \notin {"idle", "done"},
         t \in Creators /\ from = "dedup" => ~late[t],
         UNCHANGED <<seals, req, reply, late>>,
         \A u \in Requests \ {t} : tx'[u] = tx[u],
         \/ UNCHANGED locks /\ (from \in InTransaction => to \in InTransaction)
         \/ to \in InTransaction /\ \E wants : Acquire(t, wants)
  PROVE  StepSound(t)
<1>1. /\ t \in Requests /\ t \notin Verifiers
      /\ pc[t] = from /\ pc'[t] = to /\ late'[t] = late[t]
      /\ OthersStand(t) /\ DOMAIN late' = Requests
  BY StoreAssumption DEF Goto, OthersStand, PInv, IInv, Shape, Writers, Requests
<1>2. t \in Creators => RetryHeld(t)'
  <2>1. t \in Creators => RetryHeld(t)
    BY <1>1 DEF PInv, PromiseOf
  <2>2. QED
    BY <1>1, <2>1 DEF RetryHeld
<1>3. LockOwners'
  BY <1>1, OwnersAfterMove
<1>4. QED
  BY <1>1, <1>2, <1>3 DEF StepSound, PromiseOf

LEMMA ReceivePromise == ASSUME PInv, Receive PROVE \E t \in Requests : StepSound(t)
<1>1. ASSUME NEW t \in Requests, pc[t] = "idle",
             NEW in, NEW to, NEW b,
             pc' = [pc EXCEPT ![t] = to],
             to \in {"workspace", "dedup", "lock", "find", "page"},
             req' = [req EXCEPT ![t] = in],
             late' = [late EXCEPT ![t] = b],
             t \in Creators => (b => to = "dedup" /\ KeyIssued(in.key)),
             t \in Verifiers => /\ to \in {"find", "page"}
                                /\ b => in.seal \in Revoked,
             UNCHANGED <<seals, locks, tx, reply>>
      PROVE  StepSound(t)
  <2>1. /\ pc'[t] = to /\ req'[t] = in /\ (late'[t] <=> b)
        /\ OthersStand(t) /\ DOMAIN late' = Requests
    BY <1>1 DEF OthersStand, PInv, IInv, Shape
  <2>2. LockOwners'
    BY <1>1, <2>1, OwnersAfterMove DEF InTransaction, AfterLock, AfterRead
  <2>3. t \in Creators => RetryHeld(t)'
    <3>1. t \in Creators => t \notin Issued
      BY <1>1 DEF PInv, IInv, Local, LocalCreate
    <3>2. KeyIssued(in.key) => KeyIssued(req[t].key)'
      BY <1>1, <2>1 DEF KeyIssued, Issued
    <3>3. QED
      BY <1>1, <2>1, <3>1, <3>2 DEF RetryHeld, Issued
  <2>4. t \in Verifiers => ReaderSound(t)'
    <3>1. t \in Verifiers => reply'[t] = NoReply
      BY <1>1 DEF PInv, PromiseOf, ReaderSound
    <3>2. QED
      BY <1>1, <2>1, <3>1 DEF ReaderSound, Revoked, Issued, NoReply
  <2>5. QED
    BY <2>1, <2>2, <2>3, <2>4 DEF StepSound, PromiseOf
<1>2. ASSUME NEW c \in Creators, ReceiveCreate(c) PROVE StepSound(c)
  <2>1. c \in Requests /\ c \notin Verifiers
    BY StoreAssumption DEF Requests
  <2>2. PICK in \in CreateInput :
          /\ pc[c] = "idle"
          /\ pc' = [pc EXCEPT ![c] = IF in.key = None THEN "workspace" ELSE "dedup"]
          /\ req' = [req EXCEPT ![c] = in]
          /\ late' = [late EXCEPT ![c] = in.key # None /\ KeyIssued(in.key)]
          /\ UNCHANGED <<seals, locks, tx, reply>>
    BY <1>2 DEF ReceiveCreate, tables
  <2>3. QED
    BY <1>1, <2>1, <2>2
<1>3. ASSUME NEW v \in Revokers, ReceiveRevoke(v) PROVE StepSound(v)
  <2>1. v \in Requests /\ v \notin Creators \cup Verifiers
    BY StoreAssumption DEF Requests
  <2>2. PICK in \in RevokeInput :
          /\ pc[v] = "idle"
          /\ pc' = [pc EXCEPT ![v] = "lock"]
          /\ req' = [req EXCEPT ![v] = in]
          /\ UNCHANGED <<seals, locks, tx, reply, late>>
    BY <1>3 DEF ReceiveRevoke, Goto, tables
  <2>3. OthersStand(v) /\ DOMAIN late' = Requests /\ pc'[v] = "lock"
    BY <2>1, <2>2 DEF OthersStand, PInv, IInv, Shape
  <2>4. LockOwners'
    BY <2>1, <2>2, <2>3, OwnersAfterMove DEF InTransaction, AfterLock, AfterRead
  <2>5. QED
    BY <2>1, <2>3, <2>4 DEF StepSound, PromiseOf
<1>4. ASSUME NEW q \in Verifiers, ReceiveRead(q) PROVE StepSound(q)
  <2>1. q \in Requests /\ q \notin Creators
    BY StoreAssumption DEF Requests
  <2>2. PICK in \in ReadInput :
          /\ pc[q] = "idle"
          /\ pc' = [pc EXCEPT ![q] = IF in.by = "page" THEN "page" ELSE "find"]
          /\ req' = [req EXCEPT ![q] = in]
          /\ late' = [late EXCEPT ![q] = in.seal \in Revoked]
          /\ UNCHANGED <<seals, locks, tx, reply>>
    BY <1>4 DEF ReceiveRead, Goto, tables
  <2>3. QED
    BY <1>1, <2>1, <2>2
<1>5. QED
  BY <1>2, <1>3, <1>4 DEF Receive, Requests

LEMMA CreatePromise == ASSUME PInv, [Next]_vars, NEW c \in Creators, CreateStep(c) PROVE StepSound(c)
<1>1. c \in Requests /\ c \in Writers /\ c \notin Verifiers
  BY StoreAssumption DEF Requests, Writers
<1>2. CASE CheckIdempotency(c)
  <2>1. pc[c] = "dedup" /\ UNCHANGED <<seals, locks>>
    BY <1>2 DEF CheckIdempotency, tables
  <2>2. CASE \E s \in Issued : Answer(c, "200", s)
    BY <1>1, <2>1, <2>2, EarlyAnswerPromise DEF InTransaction, AfterLock, AfterRead
  <2>3. CASE ~KeyIssued(req[c].key) /\ Goto(c, "dedup", "workspace") /\ UNCHANGED <<req, tx, reply, late>>
    <3>1. ~late[c]
      BY <1>1, <2>1, <2>3 DEF PInv, PromiseOf, RetryHeld
    <3>2. QED
      BY <1>1, <2>1, <2>3, <3>1, MovePromise DEF InTransaction, AfterLock, AfterRead
  <2>4. QED
    BY <1>2, <2>2, <2>3 DEF CheckIdempotency
<1>3. CASE LoadWorkspace(c)
  <2>1. pc[c] = "workspace" /\ UNCHANGED <<seals, locks>>
    BY <1>3 DEF LoadWorkspace, tables
  <2>2. CASE Answer(c, "404", None)
    BY <1>1, <2>1, <2>2, EarlyAnswerPromise DEF InTransaction, AfterLock, AfterRead
  <2>3. CASE Goto(c, "workspace", "usage") /\ UNCHANGED <<req, tx, reply, late>>
    BY <1>1, <2>1, <2>3, MovePromise DEF InTransaction, AfterLock, AfterRead
  <2>4. QED
    BY <1>3, <2>2, <2>3 DEF LoadWorkspace
<1>4. CASE CheckUsage(c)
  <2>1. pc[c] = "usage" /\ UNCHANGED <<seals, locks>>
    BY <1>4 DEF CheckUsage, tables
  <2>2. CASE Answer(c, "402", None)
    BY <1>1, <2>1, <2>2, EarlyAnswerPromise DEF InTransaction, AfterLock, AfterRead
  <2>3. CASE ~Answer(c, "402", None)
    <3>1. /\ Goto(c, "usage", "lock")
          /\ UNCHANGED <<req, reply, late>>
          /\ \A u \in Requests \ {c} : tx'[u] = tx[u]
      BY <1>1, <1>4, <2>3 DEF CheckUsage, PInv, IInv, Shape
    <3>2. QED
      BY <1>1, <2>1, <3>1, MovePromise DEF InTransaction, AfterLock, AfterRead
  <2>4. QED
    BY <2>2, <2>3
<1>5. CASE LockWorkspace(c)
  BY <1>1, <1>5, MovePromise DEF LockWorkspace, tables, InTransaction, AfterLock, AfterRead
<1>6. CASE ReadLastSeal(c)
  <2>1. /\ Goto(c, "last", "insert")
        /\ UNCHANGED <<seals, locks, req, reply, late>>
        /\ \A u \in Requests \ {c} : tx'[u] = tx[u]
    BY <1>1, <1>6 DEF ReadLastSeal, tables, PInv, IInv, Shape
  <2>2. QED
    BY <1>1, <2>1, MovePromise DEF InTransaction, AfterLock, AfterRead
<1>7. CASE InsertSeal(c)
  <2>1. CASE Rollback(c, "sequence_collision")
    BY <1>1, <1>7, <2>1, RollbackPromise DEF InsertSeal, tables
  <2>2. CASE ~Rollback(c, "sequence_collision")
    BY <1>1, <1>7, <2>2, MovePromise DEF InsertSeal, tables, InTransaction, AfterLock, AfterRead
  <2>3. QED
    BY <2>1, <2>2
<1>8. CASE ChargeUsage(c)
  <2>1. CASE Rollback(c, "500")
    BY <1>1, <1>8, <2>1, RollbackPromise DEF ChargeUsage, tables
  <2>2. CASE ~Rollback(c, "500")
    <3>1. /\ Goto(c, "charge", "head")
          /\ Acquire(c, ChargeWants(c))
          /\ UNCHANGED <<seals, req, reply, late>>
          /\ \A u \in Requests \ {c} : tx'[u] = tx[u]
      BY <1>1, <1>8, <2>2 DEF ChargeUsage, tables, PInv, IInv, Shape
    <3>2. QED
      BY <1>1, <3>1, MovePromise DEF InTransaction, AfterLock, AfterRead
  <2>3. QED
    BY <2>1, <2>2
<1>9. CASE CommitCreate(c)
  <2>1. PICK status, id : pc[c] = "commit" /\ Release(c) /\ Answer(c, status, id)
    BY <1>9 DEF CommitCreate, Committed
  <2>2. OthersStand(c) /\ DOMAIN late' = Requests /\ late'[c] = late[c]
    BY <2>1 DEF Answer, OthersStand, PInv, IInv, Shape
  <2>3. ~late[c]
    BY <1>1, <2>1 DEF PInv, PromiseOf, RetryHeld
  <2>4. LockOwners'
    BY <1>1, <2>1, <2>2, OwnersAfterRelease
  <2>5. QED
    BY <1>1, <2>2, <2>3, <2>4 DEF StepSound, PromiseOf, RetryHeld
<1>10. QED
  BY <1>2, <1>3, <1>4, <1>5, <1>6, <1>7, <1>8, <1>9 DEF CreateStep

LEMMA RevokePromise == ASSUME PInv, NEW v \in Revokers, RevokeStep(v) PROVE StepSound(v)
<1>1. v \in Requests /\ v \in Writers /\ v \notin Creators \cup Verifiers
  BY StoreAssumption DEF Requests, Writers
<1>2. CASE LockSeal(v)
  <2>1. CASE \E status : Rollback(v, status)
    BY <1>1, <1>2, <2>1, RollbackPromise DEF LockSeal, tables
  <2>2. CASE /\ Goto(v, "lock", "mark")
             /\ Acquire(v, RevokeLockWants(v))
             /\ UNCHANGED <<req, tx, reply, late>>
    BY <1>1, <1>2, <2>2, MovePromise DEF LockSeal, tables, InTransaction
  <2>3. QED
    BY <1>2, <2>1, <2>2 DEF LockSeal
<1>3. CASE MarkRevoked(v)
  BY <1>1, <1>3, MovePromise DEF MarkRevoked, tables, InTransaction, AfterLock, AfterRead
<1>4. CASE CommitRevoke(v)
  <2>1. PICK status, id : Release(v) /\ Answer(v, status, id)
    BY <1>4 DEF CommitRevoke, Committed
  <2>2. OthersStand(v) /\ DOMAIN late' = Requests
    BY <2>1 DEF Answer, OthersStand, PInv, IInv, Shape
  <2>3. LockOwners'
    BY <1>1, <2>1, <2>2, OwnersAfterRelease
  <2>4. QED
    BY <1>1, <2>2, <2>3 DEF StepSound, PromiseOf
<1>5. QED
  BY <1>2, <1>3, <1>4 DEF RevokeStep

LEMMA LedgerPromise == ASSUME PInv, NEW t \in Writers, LedgerStep(t) PROVE StepSound(t)
<1>1. t \in Requests /\ t \notin Verifiers
  BY StoreAssumption DEF Requests, Writers
<1>2. CASE ReadLedgerHead(t)
  <2>1. /\ Goto(t, "head", "append")
        /\ UNCHANGED <<seals, locks, req, reply, late>>
        /\ \A u \in Requests \ {t} : tx'[u] = tx[u]
    BY <1>1, <1>2 DEF ReadLedgerHead, tables, PInv, IInv, Shape
  <2>2. QED
    BY <2>1, MovePromise DEF InTransaction, AfterLock, AfterRead
<1>3. CASE InsertLedger(t)
  <2>1. CASE Rollback(t, "500")
    BY <1>1, <1>3, <2>1, RollbackPromise DEF InsertLedger
  <2>2. CASE ~Rollback(t, "500")
    <3>1. /\ Goto(t, "append", "commit")
          /\ Acquire(t, {Want(RefKey(req[t].ref), "UPDATE")})
          /\ UNCHANGED <<seals, req, reply, late>>
          /\ \A u \in Requests \ {t} : tx'[u] = tx[u]
      BY <1>1, <1>3, <2>2 DEF InsertLedger, PInv, IInv, Shape
    <3>2. QED
      BY <3>1, MovePromise DEF InTransaction, AfterLock, AfterRead
  <2>3. QED
    BY <2>1, <2>2
<1>4. QED
  BY <1>2, <1>3 DEF LedgerStep

(* A certificate's digest recomputes (RowsSound), and its predecessor is   *)
(* there to be found (ChainIntact).                                        *)
LEMMA IssuedVerifies == ASSUME PInv, NEW s \in Issued PROVE HashValid(s) /\ ChainValid(s)
<1>1. HashValid(s)
  BY DEF HashValid, PInv, RowsSound
<1>2. ChainValid(s)
  BY DEF ChainValid, PInv, IInv, ChainIntact, IssuedIn
<1>3. QED
  BY <1>1, <1>2

LEMMA ReadPromise == ASSUME PInv, NEW q \in Verifiers, ReadStep(q) PROVE StepSound(q)
<1> DEFINE s == req[q].seal
<1>1. q \in Requests /\ q \notin Creators /\ q \notin Writers
  BY StoreAssumption DEF Requests, Writers
<1>2. ReaderSound(q) /\ UNCHANGED <<seals, locks>>
  BY <1>1 DEF PInv, PromiseOf, ReadStep, FindSeal, FindProof, FindPage, CheckProof, tables
<1>3. \A x \in Issued : (x \in Revoked <=> ~seals[x].public)
  BY DEF PInv, RowsSound, Revoked
<1>4. ASSUME NEW status, NEW id, Answer(q, status, id),
             pc[q] \in {"find", "page", "public"},
             status = "valid" => ~late[q], status # "invalid",
             status = "not_public" => id \in Revoked
      PROVE  StepSound(q)
  BY <1>1, <1>2, <1>4, EarlyAnswerPromise DEF InTransaction, AfterLock, AfterRead
<1>5. ASSUME NEW to \in {"proof", "public"},
             pc[q] \in {"find", "proof", "page"},
             pc' = [pc EXCEPT ![q] = to],
             \A u \in Requests \ {q} : tx'[u] = tx[u],
             UNCHANGED <<req, reply, late>>,
             s \in Issued, ~late[q], ~tx'[q].public => s \in Revoked
      PROVE  StepSound(q)
  <2>1. /\ OthersStand(q) /\ DOMAIN late' = Requests
        /\ pc'[q] = to
    BY <1>1, <1>5 DEF OthersStand, PInv, IInv, Shape
  <2>2. LockOwners'
    BY <1>1, <1>2, <1>5, <2>1, OwnersAfterMove DEF InTransaction, AfterLock, AfterRead
  <2>3. ReaderSound(q)'
    BY <1>2, <1>5, <2>1 DEF ReaderSound, Revoked, Issued
  <2>4. QED
    BY <1>1, <2>1, <2>2, <2>3 DEF StepSound, PromiseOf
<1>6. CASE FindSeal(q)
  <2>1. CASE (\E id : Answer(q, "404", id)) \/ (\E id : Answer(q, "revoked", id))
    BY <1>4, <1>6, <2>1 DEF FindSeal
  <2>2. CASE /\ s \in Issued \ Revoked
             /\ Goto(q, "find", IF req[q].by = "hash" THEN "proof" ELSE "public")
             /\ tx' = [tx EXCEPT ![q].public = seals[s].public]
             /\ UNCHANGED <<req, reply, late>>
    <3>1. ~late[q]
      BY <1>2, <2>2 DEF Goto, ReaderSound
    <3>2. tx'[q].public = seals[s].public /\ \A u \in Requests \ {q} : tx'[u] = tx[u]
      BY <1>1, <2>2 DEF PInv, IInv, Shape, NoTx
    <3>3. QED
      BY <1>3, <1>5, <2>2, <3>1, <3>2 DEF Goto
  <2>3. QED
    BY <1>6, <2>1, <2>2 DEF FindSeal
<1>7. CASE FindProof(q)
  <2>1. s \in Issued /\ ~late[q]
    BY <1>2, <1>7 DEF FindProof, Goto, ReaderSound
  <2>2. tx'[q].public = seals[s].public /\ \A u \in Requests \ {q} : tx'[u] = tx[u]
    BY <1>1, <1>7 DEF FindProof, PInv, IInv, Shape, NoTx
  <2>3. QED
    BY <1>3, <1>5, <1>7, <2>1, <2>2 DEF FindProof, Goto
<1>8. CASE FindPage(q)
  <2>1. CASE Answer(q, "404", None)
    BY <1>4, <1>8, <2>1 DEF FindPage
  <2>2. CASE /\ s \in Published
             /\ Goto(q, "page", "public")
             /\ tx' = [tx EXCEPT ![q].public = TRUE]
             /\ UNCHANGED <<req, reply, late>>
    <3>1. s \in Issued /\ ~late[q]
      BY <1>2, <1>3, <2>2 DEF Goto, ReaderSound, Published
    <3>2. tx'[q].public = TRUE /\ \A u \in Requests \ {q} : tx'[u] = tx[u]
      BY <1>1, <2>2 DEF PInv, IInv, Shape, NoTx
    <3>3. QED
      BY <1>5, <2>2, <3>1, <3>2 DEF Goto
  <2>3. QED
    BY <1>8, <2>1, <2>2 DEF FindPage
<1>9. CASE CheckProof(q)
  <2>1. pc[q] = "public" /\ s \in Issued /\ ~late[q]
    BY <1>2, <1>9 DEF CheckProof, ReaderSound
  <2>2. CASE ~tx[q].public /\ Answer(q, "not_public", s)
    BY <1>2, <1>4, <2>1, <2>2 DEF ReaderSound
  <2>3. CASE Answer(q, "valid", s)
    BY <1>4, <2>1, <2>3
  <2>4. QED
    BY <1>9, <2>1, <2>2, <2>3, IssuedVerifies DEF CheckProof
<1>10. QED
  BY <1>6, <1>7, <1>8, <1>9 DEF ReadStep

-----------------------------------------------------------------------------
LEMMA InitPInv == StoreInit => PInv
<1> SUFFICES ASSUME StoreInit PROVE PInv
  OBVIOUS
<1>1. Issued = {}
  BY DEF StoreInit, NoSeal, Issued
<1>2. \A t \in Requests : pc[t] = "idle" /\ reply[t] = NoReply /\ late[t] = FALSE
  BY DEF StoreInit
<1>3. \A t \in Requests : PromiseOf(t)
  BY <1>2 DEF PromiseOf, RetryHeld, ReaderSound, NoReply
<1>4. QED
  BY <1>1, <1>3, InitIInv DEF PInv, RowsSound, LockOwners, StoreInit

LEMMA NextKeepsPInv == PInv /\ [Next]_vars => PInv'
<1> SUFFICES ASSUME PInv, [Next]_vars PROVE PInv'
  OBVIOUS
<1>1. IInv' /\ RowsSound'
  BY NextKeepsIInv, RowsGrow DEF PInv
<1>2. ASSUME NEW t \in Requests, StepSound(t) PROVE PInv'
  BY <1>1, <1>2, PromiseOfOthers DEF StepSound, PInv
<1>3. CASE Receive
  BY <1>2, <1>3, ReceivePromise
<1>4. ASSUME NEW t \in Requests, Progress(t) PROVE PInv'
  <2>1. CASE t \in Creators /\ CreateStep(t)
    BY <1>2, <2>1, CreatePromise
  <2>2. CASE t \in Revokers /\ RevokeStep(t)
    BY <1>2, <2>2, RevokePromise
  <2>3. CASE t \in Writers /\ LedgerStep(t)
    BY <1>2, <2>3, LedgerPromise
  <2>4. CASE t \in Writers /\ CancelDeadlocked(t)
    <3>1. t \notin Verifiers
      BY <2>4, StoreAssumption DEF Writers
    <3>2. QED
      BY <1>2, <2>4, <3>1, RollbackPromise DEF CancelDeadlocked, tables
  <2>5. CASE t \in Verifiers /\ ReadStep(t)
    BY <1>2, <2>5, ReadPromise
  <2>6. QED
    BY <1>4, <2>1, <2>2, <2>3, <2>4, <2>5 DEF Progress
<1>5. ASSUME NEW t \in Requests, Fault(t) PROVE PInv'
  <2>1. Rollback(t, "500") /\ UNCHANGED seals
    BY <1>5 DEF Fault, tables
  <2>2. OthersStand(t) /\ PromiseOf(t)' /\ DOMAIN late' = Requests
    BY <2>1, AnswerPromise DEF Rollback
  <2>3. LockOwners'
    BY <2>1, <2>2, OwnersAfterRelease DEF Rollback
  <2>4. QED
    BY <1>2, <2>2, <2>3 DEF StepSound
<1>6. ASSUME NEW t \in Requests, Refuse(t) PROVE PInv'
  BY <1>2, <1>6, EarlyAnswerPromise DEF Refuse, tables, InTransaction, AfterLock, AfterRead
<1>7. CASE UNCHANGED <<seals, locks, pc, req, tx, reply, late>>
  <2>1. DOMAIN late' = Requests /\ LockOwners'
    BY <1>7 DEF PInv, LockOwners
  <2>2. \A t \in Requests : PromiseOf(t)'
    BY <1>7 DEF PInv, PromiseOf, RetryHeld, ReaderSound, KeyIssued, Issued, Revoked
  <2>3. QED
    BY <1>1, <2>1, <2>2 DEF PInv
<1>8. CASE Tick \/ Finished \/ UNCHANGED vars
  BY <1>7, <1>8 DEF Tick, Finished, vars, tables
<1>9. QED
  BY <1>3, <1>4, <1>5, <1>6, <1>8 DEF Next

(* The inductive invariant of the promises holds in every reachable state. *)
THEOREM SpecPInv == Spec => []PInv
<1>1. QED
  BY InitPInv, NextKeepsPInv, PTL DEF Spec

(* No step ever rewrites an issued certificate, but to revoke it; and no   *)
(* step brings a revoked one back (seal-service.ts:620-621).               *)
THEOREM PermanenceTheorem == Spec => SealedIsPermanent
<1>1. ASSUME PInv, [Next]_vars
      PROVE  [\A s \in Issued :
                /\ s \in Issued'
                /\ [seals'[s] EXCEPT !.status = "sealed", !.public = TRUE]
                     = [seals[s] EXCEPT !.status = "sealed", !.public = TRUE]
                /\ s \in Revoked => s \in Revoked' /\ ~seals'[s].public]_seals
  BY <1>1, RowsGrow DEF RowsSound, Revoked
<1>2. QED
  BY <1>1, SpecPInv, PTL DEF Spec, SealedIsPermanent

(* A retry that arrives after its key's certificate was committed issues   *)
(* nothing, however many retries there are (seal-service.ts:336-363).      *)
THEOREM RetryTheorem == Spec => []RetryIssuesNothing
<1>1. PInv => RetryIssuesNothing
  BY DEF PInv, PromiseOf, RetryHeld, RetryIssuesNothing, Requests
<1>2. QED
  BY <1>1, SpecPInv, PTL

(* A reader that asks after a revocation was committed is never told that  *)
(* the certificate is valid (seal-service.ts:688-690, 803-824).            *)
THEOREM RevocationTheorem == Spec => []RevocationHonoured
<1>1. PInv => RevocationHonoured
  BY DEF PInv, PromiseOf, ReaderSound, RevocationHonoured, Requests
<1>2. QED
  BY <1>1, SpecPInv, PTL

(* No reader ever finds an issued certificate's digest or chain broken, or *)
(* one that was not revoked hidden (seal-service.ts:692-703, 815-841).     *)
THEOREM ReadersTheorem == Spec => []ReadersAgree
<1>1. PInv => ReadersAgree
  BY DEF PInv, PromiseOf, ReaderSound, ReadersAgree, Requests
<1>2. QED
  BY <1>1, SpecPInv, PTL

(* Every path out of a handler ends its transaction: an answered request   *)
(* holds no lock (seal-service.ts:600-618, 533-538).                       *)
THEOREM LocksTheorem == Spec => []LocksReleased
<1>1. PInv => LocksReleased
  BY DEF PInv, LockOwners, LocksReleased, HeldBy, InTransaction, AfterLock, AfterRead
<1>2. QED
  BY <1>1, SpecPInv, PTL

-----------------------------------------------------------------------------
(***************************************************************************)
(* Type correctness of SealService for every value of the constants, on    *)
(* top of the invariants of the other two proof modules.                   *)
(***************************************************************************)

(* What a request that is about to COMMIT an issue knows.                  *)
LEMMA AtCommit ==
  ASSUME TInv, NEW c \in Creators, pc[c] = "commit"
  PROVE  /\ req[c].ws \in Workspaces /\ req[c].key \in Keys \cup {None}
         /\ tx[c].period \in Months /\ tx[c].included \in Nat
         /\ tx[c].seq \in Nat \ {0} /\ tx[c].prevId \in Creators \cup {None}
<1>1. c \in Requests /\ c \in Writers
  BY DEF Requests, Writers
<1>2. LocalCreate(c) /\ TxTyped(c)
  BY <1>1 DEF TInv, PInv, IInv, Local
<1>3. req[c] \in CreateInput /\ req[c].ws \in Workspaces
  BY <1>2 DEF LocalCreate, AfterLock, AfterRead
<1>4. Linked(c) /\ \A s \in Issued : seals[s].seq \in Nat
  BY <1>2 DEF LocalCreate, TInv, PInv, IInv, Shape
<1>5. tx[c].seq \in Nat \ {0} /\ tx[c].prevId \in Creators \cup {None}
  BY <1>4 DEF Linked, AfterRead, IsLastSeal, IssuedIn, Issued
<1>6. QED
  BY <1>1, <1>2, <1>3, <1>5 DEF TxTyped, AfterLock, AfterRead, CreateInput

LEMMA SealRowsStep == ASSUME TInv, [Next]_vars PROVE SealRowsTyped'
<1>1. CASE UNCHANGED seals
  BY <1>1 DEF TInv, TypeOK, SealRowsTyped, Issued
<1>2. ASSUME NEW c \in Creators, CommitCreate(c) PROVE SealRowsTyped'
  <2>1. seals' = [seals EXCEPT ![c] = SealOf(c)] /\ pc[c] = "commit"
    BY <1>2 DEF CommitCreate, Committed
  <2>2. /\ SealOf(c).ws = req[c].ws /\ SealOf(c).seq = tx[c].seq
        /\ SealOf(c).prevId = tx[c].prevId /\ SealOf(c).status = "sealed"
        /\ SealOf(c).public = TRUE /\ SealOf(c).key = req[c].key
    BY DEF SealOf
  <2>3. ASSUME NEW s \in Issued'
        PROVE  /\ seals'[s].ws \in Workspaces
               /\ seals'[s].seq \in Nat \ {0}
               /\ seals'[s].prevId \in Creators \cup {None}
               /\ seals'[s].status \in {"sealed", "revoked"}
               /\ seals'[s].public \in BOOLEAN
               /\ seals'[s].key \in Keys \cup {None}
    <3>1. CASE s = c
      BY <2>1, <2>2, <3>1, AtCommit DEF TInv, TypeOK
    <3>2. CASE s # c
      BY <2>1, <3>2 DEF TInv, TypeOK, SealRowsTyped, Issued
    <3>3. QED
      BY <3>1, <3>2
  <2>4. QED
    BY <2>3 DEF SealRowsTyped
<1>3. ASSUME NEW v \in Revokers, CommitRevoke(v) PROVE SealRowsTyped'
  <2>1. PICK r : r \in Issued /\ seals' = [seals EXCEPT ![r].status = "revoked", ![r].public = FALSE]
    BY <1>3 DEF CommitRevoke, Committed, TInv, PInv, IInv, Local, LocalRevoke, Requests
  <2>2. ASSUME NEW s \in Issued'
        PROVE  /\ seals'[s].ws \in Workspaces
               /\ seals'[s].seq \in Nat \ {0}
               /\ seals'[s].prevId \in Creators \cup {None}
               /\ seals'[s].status \in {"sealed", "revoked"}
               /\ seals'[s].public \in BOOLEAN
               /\ seals'[s].key \in Keys \cup {None}
    <3>1. CASE s = r
      BY <2>1, <3>1 DEF TInv, PInv, IInv, Shape, TypeOK, SealRowsTyped, Issued
    <3>2. CASE s # r
      BY <2>1, <3>2 DEF TInv, TypeOK, SealRowsTyped, Issued
    <3>3. QED
      BY <3>1, <3>2
  <2>3. QED
    BY <2>2 DEF SealRowsTyped
<1>4. QED
  BY <1>1, <1>2, <1>3, RowSteps DEF vars

LEMMA PeriodRowsStep == ASSUME TInv, [Next]_vars PROVE PeriodRowsTyped'
<1>1. CASE UNCHANGED periods
  BY <1>1 DEF TInv, TypeOK, PeriodRowsTyped
<1>2. ASSUME NEW c \in Creators, CommitCreate(c) PROVE PeriodRowsTyped'
  <2>1. /\ pc[c] = "commit"
        /\ periods' = [periods EXCEPT ![req[c].ws][tx[c].period] = Charged(c)]
    BY <1>2 DEF CommitCreate, Committed
  <2>2. PICK w \in Workspaces, m \in Months : w = req[c].ws /\ m = tx[c].period
    BY <2>1, AtCommit
  <2>3. /\ DOMAIN Charged(c) = {"included", "used"}
        /\ Charged(c).included \in Nat /\ Charged(c).used \in Nat
    BY <2>1, <2>2, AtCommit DEF Charged, TInv, TypeOK, PeriodRowsTyped
  <2>4. \A x \in Workspaces, y \in Months :
          periods'[x][y] = IF x = w /\ y = m THEN Charged(c) ELSE periods[x][y]
    BY <2>1, <2>2 DEF TInv, TypeOK, PeriodRowsTyped
  <2>5. DOMAIN periods' = Workspaces /\ \A x \in Workspaces : DOMAIN periods'[x] = Months
    BY <2>1, <2>2 DEF TInv, TypeOK, PeriodRowsTyped
  <2>6. QED
    BY <2>3, <2>4, <2>5 DEF TInv, TypeOK, PeriodRowsTyped
<1>3. QED
  BY <1>1, <1>2, TableSteps DEF CommitRevoke, InsertLedger, tables, vars

(* The BIGSERIAL only grows, and a row's id was drawn from it.             *)
LEMMA LedgerRowsStep ==
  ASSUME TInv, [Next]_vars
  PROVE  LedgerRowsTyped' /\ \A n \in 1..ledgerSeq : n \in 1..ledgerSeq'
<1>1. CASE UNCHANGED <<ledger, ledgerSeq>>
  BY <1>1 DEF TInv, TypeOK, LedgerRowsTyped
<1>2. ASSUME NEW t \in Writers, pc[t] = "commit", UNCHANGED ledgerSeq,
             NEW event, PublishLedger(t, event)
      PROVE  LedgerRowsTyped'
  <2>1. tx[t].lid \in 1..ledgerSeq
    BY <1>2 DEF TInv, TxTyped, Requests, Writers
  <2>2. LedgerRow(tx[t].lid, req[t].ref, event, tx[t].head).id = tx[t].lid
    BY DEF LedgerRow
  <2>3. QED
    BY <1>2, <2>1, <2>2 DEF PublishLedger, TInv, TypeOK, LedgerRowsTyped
<1>3. CASE \E c \in Creators : CommitCreate(c)
  BY <1>2, <1>3 DEF CommitCreate, Committed, Writers
<1>4. CASE \E v \in Revokers : CommitRevoke(v)
  BY <1>2, <1>4 DEF CommitRevoke, Committed, Writers
<1>5. CASE \E t \in Writers : InsertLedger(t)
  BY <1>5 DEF InsertLedger, TInv, TypeOK, LedgerRowsTyped
<1>6. CASE (\E c \in Creators : CommitCreate(c)) \/ (\E v \in Revokers : CommitRevoke(v))
  BY <1>3, <1>4, <1>6 DEF CommitCreate, CommitRevoke
<1>7. QED
  BY <1>1, <1>5, <1>6, TableSteps DEF tables, vars

-----------------------------------------------------------------------------
(* The answer of a step has one of the statuses of the handlers.           *)
Statuses == {"none", "refused"} \cup ReadStatus \cup WriteStatus

LEMMA AnswerTyped ==
  ASSUME TInv, NEW t \in Requests, NEW status \in Statuses, NEW s, Answer(t, status, s)
  PROVE  RequestsTyped'
BY DEF Answer, TInv, TypeOK, RequestsTyped, PInv, IInv, Shape, Statuses

LEMMA SilentTyped ==
  ASSUME TInv, UNCHANGED <<req, reply, late>>
  PROVE  RequestsTyped'
BY DEF TInv, TypeOK, RequestsTyped

LEMMA RequestsStep == ASSUME TInv, [Next]_vars PROVE RequestsTyped'
<1> USE DEF Statuses, ReadStatus, WriteStatus
<1>1. CASE Receive
  <2>1. ASSUME NEW t \in Requests, NEW in, NEW b \in BOOLEAN,
               req' = [req EXCEPT ![t] = in],
               late' = [late EXCEPT ![t] = b],
               UNCHANGED reply,
               t \in Creators => in \in CreateInput,
               t \in Revokers => in \in RevokeInput,
               t \in Verifiers => in \in ReadInput
        PROVE  RequestsTyped'
    BY <2>1 DEF TInv, TypeOK, RequestsTyped, PInv, IInv, Shape
  <2>2. ASSUME NEW c \in Creators, ReceiveCreate(c) PROVE RequestsTyped'
    <3>1. c \in Requests /\ c \notin Revokers /\ c \notin Verifiers
      BY StoreAssumption DEF Requests
    <3>2. QED
      BY <2>1, <2>2, <3>1 DEF ReceiveCreate
  <2>3. ASSUME NEW v \in Revokers, ReceiveRevoke(v) PROVE RequestsTyped'
    <3>1. v \in Requests /\ v \notin Creators /\ v \notin Verifiers
      BY StoreAssumption DEF Requests
    <3>2. late' = [late EXCEPT ![v] = late[v]] /\ late[v] \in BOOLEAN
      BY <2>3, <3>1 DEF ReceiveRevoke, TInv, TypeOK, RequestsTyped
    <3>3. QED
      BY <2>1, <2>3, <3>1, <3>2 DEF ReceiveRevoke
  <2>4. ASSUME NEW q \in Verifiers, ReceiveRead(q) PROVE RequestsTyped'
    <3>1. q \in Requests /\ q \notin Creators /\ q \notin Revokers
      BY StoreAssumption DEF Requests
    <3>2. PICK in \in ReadInput : /\ req' = [req EXCEPT ![q] = in]
                                  /\ late' = [late EXCEPT ![q] = in.seal \in Revoked]
                                  /\ UNCHANGED reply
      BY <2>4 DEF ReceiveRead
    <3>3. (in.seal \in Revoked) \in BOOLEAN
      OBVIOUS
    <3>4. QED
      BY <2>1, <3>1, <3>2, <3>3
  <2>5. QED
    BY <1>1, <2>2, <2>3, <2>4 DEF Receive
<1>2. ASSUME NEW t \in Requests, Progress(t) PROVE RequestsTyped'
  <2>1. CASE t \in Creators /\ CreateStep(t)
    BY <1>2, <2>1, AnswerTyped, SilentTyped
       DEF CreateStep, CheckIdempotency, LoadWorkspace, CheckUsage, LockWorkspace,
           ReadLastSeal, InsertSeal, ChargeUsage, CommitCreate, Committed, Rollback
  <2>2. CASE t \in Revokers /\ RevokeStep(t)
    BY <2>2, AnswerTyped, SilentTyped
       DEF RevokeStep, LockSeal, MarkRevoked, CommitRevoke, Committed, Rollback
  <2>3. CASE t \in Writers /\ LedgerStep(t)
    BY <2>3, AnswerTyped, SilentTyped DEF LedgerStep, ReadLedgerHead, InsertLedger, Rollback
  <2>4. CASE CancelDeadlocked(t)
    BY <2>4, AnswerTyped DEF CancelDeadlocked, Rollback
  <2>5. CASE t \in Verifiers /\ ReadStep(t)
    BY <2>5, AnswerTyped, SilentTyped DEF ReadStep, FindSeal, FindProof, FindPage, CheckProof
  <2>6. QED
    BY <1>2, <2>1, <2>2, <2>3, <2>4, <2>5 DEF Progress
<1>3. ASSUME NEW t \in Requests, Fault(t) \/ Refuse(t) PROVE RequestsTyped'
  BY <1>3, AnswerTyped DEF Fault, Refuse, Rollback
<1>4. CASE Tick \/ Finished \/ UNCHANGED vars
  BY <1>4, SilentTyped DEF Tick, Finished, vars
<1>5. QED
  BY <1>1, <1>2, <1>3, <1>4 DEF Next

-----------------------------------------------------------------------------
(* Locks are only ever asked for in one of the three modes.                *)
LEMMA AcquireModes ==
  ASSUME NEW t, NEW wants, Acquire(t, wants),
         \A w \in wants : w.mode \in LockMode,
         \A l \in locks : l.mode \in LockMode
  PROVE  \A l \in locks' : l.mode \in LockMode
BY DEF Acquire

LEMMA WantedModes ==
  ASSUME NEW row, NEW mode \in LockMode
  PROVE  Want(row, mode).mode \in LockMode
BY DEF Want

(* Every step takes locks away, or asks for some in those modes.           *)
LEMMA LockSteps ==
  ASSUME [Next]_vars
  PROVE  \/ locks' \subseteq locks
         \/ \E t, wants : Acquire(t, wants) /\ \A w \in wants : w.mode \in LockMode
<1> DEFINE Asks(t, wants) == Acquire(t, wants) /\ \A w \in wants : w.mode \in LockMode
           Goal == locks' \subseteq locks \/ \E t, wants : Asks(t, wants)
<1>1. ASSUME NEW t, NEW wants, Acquire(t, wants), \A w \in wants : w.mode \in LockMode
      PROVE  Goal
  BY <1>1
<1>2. ASSUME NEW t \in Requests, Progress(t) PROVE Goal
  <2>1. CASE t \in Creators /\ CreateStep(t)
    <3>1. /\ \A w \in CreateLockWants(t) : w.mode \in LockMode
          /\ \A w \in CreateInsertWants(t) : w.mode \in LockMode
          /\ \A w \in ChargeWants(t) : w.mode \in LockMode
      BY WantedModes DEF CreateLockWants, CreateInsertWants, ChargeWants, LockMode
    <3>2. CASE LockWorkspace(t) \/ InsertSeal(t) \/ ChargeUsage(t)
      <4>1. \/ locks' \subseteq locks
            \/ Acquire(t, CreateLockWants(t))
            \/ Acquire(t, CreateInsertWants(t))
            \/ Acquire(t, ChargeWants(t))
        BY <3>2 DEF LockWorkspace, InsertSeal, ChargeUsage, Rollback, Release
      <4>2. QED
        BY <1>1, <3>1, <4>1
    <3>3. QED
      BY <2>1, <3>2
         DEF CreateStep, CheckIdempotency, LoadWorkspace, CheckUsage, ReadLastSeal,
             CommitCreate, Committed, Release
  <2>2. CASE t \in Revokers /\ RevokeStep(t)
    <3>1. /\ \A w \in RevokeLockWants(t) : w.mode \in LockMode
          /\ \A w \in RevokeMarkWants(t) : w.mode \in LockMode
      BY WantedModes DEF RevokeLockWants, RevokeMarkWants, LockMode
    <3>2. \/ locks' \subseteq locks
          \/ Acquire(t, RevokeLockWants(t))
          \/ Acquire(t, RevokeMarkWants(t))
      BY <2>2 DEF RevokeStep, LockSeal, MarkRevoked, CommitRevoke, Committed, Rollback, Release
    <3>3. QED
      BY <1>1, <3>1, <3>2
  <2>3. CASE LedgerStep(t)
    <3>1. \A w \in {Want(RefKey(req[t].ref), "UPDATE")} : w.mode \in LockMode
      BY WantedModes DEF LockMode
    <3>2. QED
      BY <1>1, <2>3, <3>1 DEF LedgerStep, ReadLedgerHead, InsertLedger, Rollback, Release
  <2>4. CASE CancelDeadlocked(t) \/ ReadStep(t)
    BY <2>4 DEF CancelDeadlocked, Rollback, Release, ReadStep, FindSeal, FindProof, FindPage, CheckProof
  <2>5. QED
    BY <1>2, <2>1, <2>2, <2>3, <2>4 DEF Progress
<1>3. ASSUME NEW t \in Requests, Fault(t) \/ Refuse(t) PROVE Goal
  BY <1>3 DEF Fault, Refuse, Rollback, Release
<1>4. CASE Receive \/ Tick \/ Finished \/ UNCHANGED vars
  BY <1>4 DEF Receive, ReceiveCreate, ReceiveRevoke, ReceiveRead, Tick, Finished, vars
<1>5. QED
  BY <1>2, <1>3, <1>4 DEF Next

LEMMA LockModesStep ==
  ASSUME TInv, [Next]_vars
  PROVE  \A l \in locks' : l.mode \in LockMode
<1>1. \A l \in locks : l.mode \in LockMode
  BY DEF TInv, TypeOK
<1>2. QED
  BY <1>1, LockSteps, AcquireModes

LEMMA ClockStep ==
  ASSUME TInv, [Next]_vars
  PROVE  clock' \in [month : Months, open : BOOLEAN]
<1>1. CASE Tick
  <2>1. clock.month \in Months /\ MaxMonth \in Nat
    BY StoreAssumption DEF TInv, TypeOK
  <2>2. clock.month < MaxMonth => clock.month + 1 \in Months
    BY <2>1 DEF Months
  <2>3. clock \in [month : Months, open : BOOLEAN]
    BY DEF TInv, TypeOK
  <2>4. \/ clock' = [clock EXCEPT !.open = FALSE]
        \/ clock' = [month |-> clock.month + 1, open |-> TRUE] /\ clock.month < MaxMonth
    BY <1>1 DEF Tick
  <2>5. CASE clock' = [clock EXCEPT !.open = FALSE]
    BY <2>3, <2>5
  <2>6. CASE clock' = [month |-> clock.month + 1, open |-> TRUE] /\ clock.month < MaxMonth
    <3>1. PICK n \in Months : n = clock.month + 1
      BY <2>2, <2>6
    <3>2. clock' = [month |-> n, open |-> TRUE]
      BY <2>6, <3>1
    <3>3. QED
      BY <3>2
  <2>7. QED
    BY <2>4, <2>5, <2>6
<1>2. CASE UNCHANGED clock
  BY <1>2 DEF TInv, TypeOK
<1>3. CASE \E t \in Requests : Progress(t)
  BY <1>2, <1>3
     DEF Progress, CreateStep, CheckIdempotency, LoadWorkspace, CheckUsage, LockWorkspace,
         ReadLastSeal, InsertSeal, ChargeUsage, CommitCreate, RevokeStep, LockSeal,
         MarkRevoked, CommitRevoke, LedgerStep, ReadLedgerHead, InsertLedger,
         CancelDeadlocked, ReadStep, FindSeal, FindProof, FindPage, CheckProof,
         Committed, Rollback, Answer
<1>4. CASE Receive \/ Finished \/ UNCHANGED vars \/ \E t \in Requests : Fault(t) \/ Refuse(t)
  BY <1>2, <1>4 DEF Receive, ReceiveCreate, ReceiveRevoke, ReceiveRead, Fault, Refuse,
                    Rollback, Answer, Finished, vars
<1>5. QED
  BY <1>1, <1>3, <1>4 DEF Next

-----------------------------------------------------------------------------
(* The locals of t keep their types when t answers, and those of the other *)
(* requests when they stand still.                                         *)
LEMMA TxAnswer ==
  ASSUME TInv, NEW t \in Requests, NEW status, NEW s, Answer(t, status, s)
  PROVE  TxTyped(t)'
<1>1. pc'[t] = "done"
  BY DEF Answer, TInv, PInv, IInv, Shape
<1>2. QED
  BY <1>1 DEF TxTyped, AfterLock, AfterRead

LEMMA TxOthers ==
  ASSUME TInv, [Next]_vars, NEW t \in Requests, TxTyped(t)',
         \A u \in Requests \ {t} : pc'[u] = pc[u] /\ tx'[u] = tx[u]
  PROVE  \A u \in Requests : TxTyped(u)'
<1> SUFFICES ASSUME NEW u \in Requests, u # t PROVE TxTyped(u)'
  OBVIOUS
<1>1. TxTyped(u) /\ pc'[u] = pc[u] /\ tx'[u] = tx[u]
  BY DEF TInv
<1>2. \A n \in 1..ledgerSeq : n \in 1..ledgerSeq'
  BY LedgerRowsStep
<1>3. QED
  BY <1>1, <1>2 DEF TxTyped

LEMMA TxAnswerAll ==
  ASSUME TInv, [Next]_vars, NEW t \in Requests, NEW status, NEW s, Answer(t, status, s)
  PROVE  \A u \in Requests : TxTyped(u)'
<1>1. \A u \in Requests \ {t} : pc'[u] = pc[u] /\ tx'[u] = tx[u]
  BY DEF Answer, TInv, PInv, IInv, Shape
<1>2. QED
  BY <1>1, TxAnswer, TxOthers

(* A move that leaves the locals of t as they are, to a statement that     *)
(* asks no more of them.                                                   *)
LEMMA TxMove ==
  ASSUME TInv, [Next]_vars, NEW t \in Requests, NEW to,
         pc' = [pc EXCEPT ![t] = to],
         \A u \in Requests \ {t} : tx'[u] = tx[u],
         t \in Creators /\ to \in AfterLock \cup {"lock"} =>
           tx'[t].period \in Months \cup {NoPeriod} /\ tx'[t].included \in Nat,
         t \in Creators /\ to \in {"head", "append", "commit"} => tx'[t].period \in Months,
         t \in Writers /\ to = "commit" => tx'[t].lid \in 1..ledgerSeq'
  PROVE  \A u \in Requests : TxTyped(u)'
<1>1. pc'[t] = to /\ \A u \in Requests \ {t} : pc'[u] = pc[u]
  BY DEF TInv, PInv, IInv, Shape
<1>2. TxTyped(t)'
  BY <1>1 DEF TxTyped
<1>3. QED
  BY <1>1, <1>2, TxOthers

LEMMA TxCreate ==
  ASSUME TInv, [Next]_vars, NEW c \in Creators, CreateStep(c)
  PROVE  \A u \in Requests : TxTyped(u)'
<1> USE DEF AfterLock, AfterRead
<1>1. c \in Requests /\ LocalCreate(c) /\ TxTyped(c)
  BY DEF TInv, PInv, IInv, Local, Requests
<1>2. CASE \E status, s : Answer(c, status, s)
  BY <1>1, <1>2, TxAnswerAll
<1>3. CASE CheckIdempotency(c) \/ LoadWorkspace(c)
  BY <1>1, <1>2, <1>3, TxMove DEF CheckIdempotency, LoadWorkspace, Goto
<1>4. CASE CheckUsage(c) /\ ~ \E status, s : Answer(c, status, s)
  <2> DEFINE w == req[c].ws
             m == CurrentPeriod(w)
             used == IF m = NoPeriod THEN 0 ELSE periods[w][m].used
             included == IF m = NoPeriod THEN PlanLimit[w] ELSE periods[w][m].included
  <2>1. /\ pc[c] = "usage" /\ pc' = [pc EXCEPT ![c] = "lock"]
        /\ tx' = [tx EXCEPT ![c].period = m, ![c].included = included, ![c].used = used]
    BY <1>4 DEF CheckUsage, Goto
  <2>2. w \in Workspaces /\ clock.month \in Months
    BY <1>1, <2>1 DEF LocalCreate, TInv, TypeOK
  <2>3. m \in Months \cup {NoPeriod}
    BY <2>2 DEF CurrentPeriod
  <2>4. included \in Nat
    <3>1. CASE m = NoPeriod
      BY <2>2, <3>1, StoreAssumption
    <3>2. CASE m # NoPeriod
      <4>1. m = clock.month /\ periods[w][m] # None
        BY <3>2 DEF CurrentPeriod
      <4>2. QED
        BY <2>2, <3>2, <4>1 DEF TInv, TypeOK, PeriodRowsTyped
    <3>3. QED
      BY <3>1, <3>2
  <2>5. /\ tx'[c].period = m /\ tx'[c].included = included
        /\ \A u \in Requests \ {c} : tx'[u] = tx[u]
    BY <1>1, <2>1 DEF TInv, PInv, IInv, Shape, NoTx
  <2>6. QED
    BY <1>1, <2>1, <2>3, <2>4, <2>5, TxMove
<1>5. CASE LockWorkspace(c) \/ (InsertSeal(c) /\ ~ \E status, s : Answer(c, status, s))
  <2>1. /\ pc[c] \in {"lock", "insert"} /\ UNCHANGED tx
        /\ \E to \in {"last", "charge"} : pc' = [pc EXCEPT ![c] = to]
    BY <1>5 DEF LockWorkspace, InsertSeal, Goto, Rollback
  <2>2. QED
    BY <1>1, <2>1, TxMove DEF TxTyped
<1>6. CASE ReadLastSeal(c)
  <2>1. /\ pc[c] = "last" /\ pc' = [pc EXCEPT ![c] = "insert"]
        /\ \A u \in Requests \ {c} : tx'[u] = tx[u]
        /\ tx'[c].period = tx[c].period /\ tx'[c].included = tx[c].included
    BY <1>1, <1>6 DEF ReadLastSeal, Goto, TInv, PInv, IInv, Shape, NoTx
  <2>2. QED
    BY <1>1, <2>1, TxMove DEF TxTyped
<1>7. CASE ChargeUsage(c) /\ ~ \E status, s : Answer(c, status, s)
  <2>1. /\ pc[c] = "charge" /\ pc' = [pc EXCEPT ![c] = "head"]
        /\ tx' = IF tx[c].period = NoPeriod THEN [tx EXCEPT ![c].period = clock.month] ELSE tx
    BY <1>7 DEF ChargeUsage, Goto, Rollback
  <2>2. /\ \A u \in Requests \ {c} : tx'[u] = tx[u]
        /\ tx'[c].period = IF tx[c].period = NoPeriod THEN clock.month ELSE tx[c].period
        /\ tx'[c].included = tx[c].included
    BY <1>1, <2>1 DEF TInv, PInv, IInv, Shape, NoTx
  <2>3. clock.month \in Months
    BY DEF TInv, TypeOK
  <2>4. QED
    BY <1>1, <2>1, <2>2, <2>3, TxMove DEF TxTyped
<1>8. CASE CommitCreate(c)
  BY <1>2, <1>8 DEF CommitCreate, Committed
<1>9. QED
  BY <1>2, <1>3, <1>4, <1>5, <1>6, <1>7, <1>8 DEF CreateStep

LEMMA TxRevoke ==
  ASSUME TInv, [Next]_vars, NEW v \in Revokers, RevokeStep(v)
  PROVE  \A u \in Requests : TxTyped(u)'
<1>1. v \in Requests /\ v \notin Creators
  BY StoreAssumption DEF Requests
<1>2. CASE \E status, s : Answer(v, status, s)
  BY <1>1, <1>2, TxAnswerAll
<1>3. CASE \E to \in {"mark", "head"} : pc' = [pc EXCEPT ![v] = to] /\ UNCHANGED tx
  BY <1>1, <1>3, TxMove
<1>4. QED
  BY <1>2, <1>3 DEF RevokeStep, LockSeal, MarkRevoked, CommitRevoke, Committed, Rollback, Goto

LEMMA TxLedger ==
  ASSUME TInv, [Next]_vars, NEW t \in Writers, LedgerStep(t)
  PROVE  \A u \in Requests : TxTyped(u)'
<1> USE DEF AfterLock, AfterRead
<1>1. t \in Requests /\ TxTyped(t)
  BY DEF TInv, Requests, Writers
<1>2. CASE Rollback(t, "500")
  BY <1>1, <1>2, TxAnswerAll DEF Rollback
<1>3. CASE ReadLedgerHead(t)
  <2>1. /\ pc[t] = "head" /\ pc' = [pc EXCEPT ![t] = "append"]
        /\ \A u \in Requests \ {t} : tx'[u] = tx[u]
        /\ tx'[t].period = tx[t].period /\ tx'[t].included = tx[t].included
    BY <1>1, <1>3 DEF ReadLedgerHead, Goto, TInv, PInv, IInv, Shape, NoTx
  <2>2. QED
    BY <1>1, <2>1, TxMove DEF TxTyped
<1>4. CASE InsertLedger(t) /\ ~Rollback(t, "500")
  <2>1. /\ pc[t] = "append" /\ pc' = [pc EXCEPT ![t] = "commit"]
        /\ tx' = [tx EXCEPT ![t].lid = ledgerSeq']
        /\ ledgerSeq' = ledgerSeq + 1
    BY <1>4 DEF InsertLedger, Goto
  <2>2. /\ \A u \in Requests \ {t} : tx'[u] = tx[u]
        /\ tx'[t].period = tx[t].period /\ tx'[t].included = tx[t].included
        /\ tx'[t].lid = ledgerSeq'
    BY <1>1, <2>1 DEF TInv, PInv, IInv, Shape, NoTx
  <2>3. ledgerSeq' \in 1..ledgerSeq'
    BY <2>1 DEF TInv, TypeOK, LedgerRowsTyped
  <2>4. QED
    BY <1>1, <2>1, <2>2, <2>3, TxMove DEF TxTyped
<1>5. QED
  BY <1>2, <1>3, <1>4 DEF LedgerStep

LEMMA TxStep == ASSUME TInv, [Next]_vars PROVE \A u \in Requests : TxTyped(u)'
<1> USE DEF AfterLock, AfterRead
<1>1. CASE Receive
  <2>1. ASSUME NEW t \in Requests, NEW to \in {"workspace", "dedup", "find", "page"},
               pc' = [pc EXCEPT ![t] = to], UNCHANGED tx
        PROVE  \A u \in Requests : TxTyped(u)'
    BY <2>1, TxMove
  <2>2. ASSUME NEW v \in Revokers, ReceiveRevoke(v) PROVE \A u \in Requests : TxTyped(u)'
    <3>1. v \in Requests /\ v \notin Creators
      BY StoreAssumption DEF Requests
    <3>2. QED
      BY <2>2, <3>1, TxMove DEF ReceiveRevoke, Goto
  <2>3. QED
    BY <1>1, <2>1, <2>2 DEF Receive, ReceiveCreate, ReceiveRead, Goto, Requests
<1>2. ASSUME NEW t \in Requests, Progress(t) PROVE \A u \in Requests : TxTyped(u)'
  <2>1. CASE t \in Verifiers /\ ReadStep(t)
    <3>1. t \notin Writers /\ t \notin Creators
      BY <2>1, StoreAssumption DEF Writers
    <3>2. CASE \E status, s : Answer(t, status, s)
      BY <3>2, TxAnswerAll
    <3>3. CASE \E to \in {"proof", "public"} : \E b :
                 pc' = [pc EXCEPT ![t] = to] /\ tx' = [tx EXCEPT ![t].public = b]
      <4>1. \A u \in Requests \ {t} : tx'[u] = tx[u]
        BY <3>3 DEF TInv, PInv, IInv, Shape
      <4>2. QED
        BY <3>1, <3>3, <4>1, TxMove
    <3>4. QED
      BY <2>1, <3>2, <3>3 DEF ReadStep, FindSeal, FindProof, FindPage, CheckProof, Goto
  <2>2. CASE CancelDeadlocked(t)
    BY <2>2, TxAnswerAll DEF CancelDeadlocked, Rollback
  <2>3. QED
    BY <1>2, <2>1, <2>2, TxCreate, TxRevoke, TxLedger DEF Progress
<1>3. ASSUME NEW t \in Requests, Fault(t) \/ Refuse(t) PROVE \A u \in Requests : TxTyped(u)'
  BY <1>3, TxAnswerAll DEF Fault, Refuse, Rollback
<1>4. CASE UNCHANGED <<pc, tx, ledgerSeq>>
  BY <1>4 DEF TInv, TxTyped
<1>5. CASE Tick \/ Finished \/ UNCHANGED vars
  BY <1>4, <1>5 DEF Tick, Finished, vars, tables
<1>6. QED
  BY <1>1, <1>2, <1>3, <1>5 DEF Next

-----------------------------------------------------------------------------
LEMMA InitTInv == StoreInit => TInv
<1> SUFFICES ASSUME StoreInit PROVE TInv
  OBVIOUS
<1>1. Issued = {}
  BY DEF StoreInit, NoSeal, Issued
<1>2. /\ SealRowsTyped /\ LedgerRowsTyped /\ PeriodRowsTyped
      /\ DOMAIN seals = Creators /\ DOMAIN pc = Requests
  BY <1>1 DEF StoreInit, SealRowsTyped, LedgerRowsTyped, PeriodRowsTyped
<1>3. RequestsTyped
  BY DEF StoreInit, RequestsTyped, NoReply, Requests
<1>4. clock \in [month : Months, open : BOOLEAN]
  <2>1. 1 \in Months
    BY StoreAssumption DEF Months
  <2>2. QED
    BY <2>1 DEF StoreInit
<1>5. \A t \in Requests : TxTyped(t)
  BY DEF StoreInit, TxTyped, AfterLock, AfterRead
<1>6. QED
  BY <1>2, <1>3, <1>4, <1>5, InitPInv DEF TInv, TypeOK, StoreInit

LEMMA NextKeepsTInv == TInv /\ [Next]_vars => TInv'
<1> SUFFICES ASSUME TInv, [Next]_vars PROVE TInv'
  OBVIOUS
<1>1. PInv'
  BY NextKeepsPInv DEF TInv
<1>2. TypeOK'
  BY <1>1, SealRowsStep, PeriodRowsStep, LedgerRowsStep, RequestsStep, LockModesStep, ClockStep
     DEF TypeOK, PInv, IInv, Shape, LockOwners
<1>3. QED
  BY <1>1, <1>2, TxStep DEF TInv

(* Every reachable state is well typed, for every value of the constants.  *)
THEOREM TypeTheorem == Spec => []TypeOK
<1>1. TInv => TypeOK
  BY DEF TInv
<1>2. QED
  BY <1>1, InitTInv, NextKeepsTInv, PTL DEF Spec

-----------------------------------------------------------------------------
(* A lock goes only with the transaction of its owner.                     *)
LEMMA LocksStay ==
  ASSUME PInv, [Next]_vars, NEW l \in locks
  PROVE  l \in locks' \/ pc'[l.owner] = "done"
<1>1. ASSUME NEW t \in Requests, Release(t), NEW status, NEW s, Answer(t, status, s)
      PROVE  l \in locks' \/ pc'[l.owner] = "done"
  BY <1>1 DEF Release, Answer, PInv, IInv, Shape
<1>2. ASSUME NEW t, NEW wants, Acquire(t, wants) PROVE l \in locks'
  BY <1>2 DEF Acquire
<1>3. CASE UNCHANGED locks
  BY <1>3
<1>4. ASSUME NEW t \in Requests, Progress(t) PROVE l \in locks' \/ pc'[l.owner] = "done"
  <2>1. CASE t \in Creators /\ CreateStep(t)
    BY <1>1, <1>2, <1>3, <2>1
       DEF CreateStep, CheckIdempotency, LoadWorkspace, CheckUsage, LockWorkspace, ReadLastSeal,
           InsertSeal, ChargeUsage, CommitCreate, Committed, Rollback
  <2>2. CASE t \in Revokers /\ RevokeStep(t)
    BY <1>1, <1>2, <1>3, <2>2
       DEF RevokeStep, LockSeal, MarkRevoked, CommitRevoke, Committed, Rollback
  <2>3. CASE LedgerStep(t) \/ CancelDeadlocked(t)
    BY <1>1, <1>2, <1>3, <2>3
       DEF LedgerStep, ReadLedgerHead, InsertLedger, CancelDeadlocked, Rollback
  <2>4. CASE ReadStep(t)
    BY <1>3, <2>4 DEF ReadStep, FindSeal, FindProof, FindPage, CheckProof
  <2>5. QED
    BY <1>4, <2>1, <2>2, <2>3, <2>4 DEF Progress
<1>5. ASSUME NEW t \in Requests, Fault(t) \/ Refuse(t)
      PROVE  l \in locks' \/ pc'[l.owner] = "done"
  BY <1>1, <1>3, <1>5 DEF Fault, Refuse, Rollback
<1>6. CASE Receive \/ Tick \/ Finished \/ UNCHANGED vars
  BY <1>3, <1>6 DEF Receive, ReceiveCreate, ReceiveRevoke, ReceiveRead, Tick, Finished, vars
<1>7. QED
  BY <1>4, <1>5, <1>6 DEF Next

(* A step of a request is a step of no other request.                      *)
LEMMA OneMoves ==
  ASSUME PInv, [Next]_vars, NEW t \in Requests, Progress(t) \/ Fault(t) \/ Refuse(t)
  PROVE  OthersStand(t)
<1>1. CASE t \in Creators /\ CreateStep(t)
  BY <1>1, CreatePromise DEF StepSound
<1>2. CASE t \in Revokers /\ RevokeStep(t)
  BY <1>2, RevokePromise DEF StepSound
<1>3. CASE t \in Writers /\ LedgerStep(t)
  BY <1>3, LedgerPromise DEF StepSound
<1>4. CASE t \in Verifiers /\ ReadStep(t)
  BY <1>4, ReadPromise DEF StepSound
<1>5. CASE CancelDeadlocked(t) \/ Fault(t) \/ Refuse(t)
  BY <1>5 DEF CancelDeadlocked, Fault, Refuse, Rollback, Answer, OthersStand, PInv, IInv, Shape
<1>6. QED
  BY <1>1, <1>2, <1>3, <1>4, <1>5 DEF Progress

(* How a revoking request gets into and through its transaction.           *)
LEMMA RevokerMoves ==
  ASSUME PInv, [Next]_vars, NEW v \in Revokers,
         pc'[v] \in {"mark", "head", "append", "commit"}
  PROVE  \/ LockSeal(v) /\ Goto(v, "lock", "mark")
         \/ /\ pc[v] \in {"mark", "head", "append", "commit"} /\ req'[v] = req[v]
            /\ pc[v] = "mark" => pc'[v] = "mark" \/ MarkRevoked(v)
<1>1. v \in Requests /\ v \notin Creators \cup Verifiers
  BY StoreAssumption DEF Requests
<1> DEFINE Goal == \/ LockSeal(v) /\ Goto(v, "lock", "mark")
                   \/ /\ pc[v] \in {"mark", "head", "append", "commit"} /\ req'[v] = req[v]
                      /\ pc[v] = "mark" => pc'[v] = "mark" \/ MarkRevoked(v)
<1>2. ASSUME NEW t \in Requests, OthersStand(t), t # v PROVE Goal
  BY <1>1, <1>2 DEF OthersStand
<1>3. ~ \E status, s : Answer(v, status, s)
  BY <1>1 DEF Answer, PInv, IInv, Shape
<1>4. CASE Receive
  BY <1>1, <1>4 DEF Receive, ReceiveCreate, ReceiveRevoke, ReceiveRead, Goto, PInv, IInv, Shape
<1>5. ASSUME NEW t \in Requests, Progress(t) PROVE Goal
  <2>1. CASE t # v
    <3>1. OthersStand(t)
      BY <1>5, OneMoves
    <3>2. QED
      BY <1>2, <2>1, <3>1
  <2>2. CASE RevokeStep(v)
    BY <1>1, <1>3, <2>2
       DEF RevokeStep, LockSeal, MarkRevoked, CommitRevoke, Committed, Rollback, Goto
  <2>3. CASE LedgerStep(v) \/ CancelDeadlocked(v)
    BY <1>1, <1>3, <2>3
       DEF LedgerStep, ReadLedgerHead, InsertLedger, CancelDeadlocked, Rollback, Goto
  <2>4. QED
    BY <1>1, <1>5, <2>1, <2>2, <2>3 DEF Progress
<1>6. ASSUME NEW t \in Requests, Fault(t) \/ Refuse(t) PROVE Goal
  <2>1. \E status, s : Answer(t, status, s)
    BY <1>6 DEF Fault, Refuse, Rollback
  <2>2. t # v
    BY <1>3, <2>1
  <2>3. OthersStand(t)
    BY <1>6, OneMoves
  <2>4. QED
    BY <1>2, <2>2, <2>3
<1>7. CASE Tick \/ Finished \/ UNCHANGED vars
  BY <1>7 DEF Tick, Finished, vars
<1>8. QED
  BY <1>4, <1>5, <1>6, <1>7 DEF Next

(* Two revoking requests in a transaction are about different certificates.*)
LEMMA OneRevocation ==
  ASSUME EInv, NEW u \in Revokers, NEW v \in Revokers,
         pc[u] \in {"mark", "head", "append", "commit"},
         pc[v] \in {"mark", "head", "append", "commit"},
         req[u].seal = req[v].seal
  PROVE  u = v
<1> DEFINE k == [owner |-> u, row |-> SealRow(req[u].seal), mode |-> "UPDATE"]
           l == [owner |-> v, row |-> SealRow(req[v].seal), mode |-> "UPDATE"]
<1>1. k \in locks /\ l \in locks
  BY DEF EInv, Guarding
<1>2. k.row = l.row /\ k.mode = "UPDATE" /\ l.mode = "UPDATE"
  OBVIOUS
<1>3. k.owner = l.owner
  BY <1>1, <1>2 DEF EInv, PInv, IInv, Exclusive
<1>4. QED
  BY <1>3

(* Which certificates a step revokes.                                      *)
LEMMA RevokedSteps ==
  ASSUME PInv, [Next]_vars
  PROVE  \/ Issued' = Issued /\ Revoked' = Revoked /\ UNCHANGED ledger
         \/ \E c \in Creators :
              /\ CommitCreate(c) /\ c \notin Issued
              /\ Issued' = Issued \cup {c} /\ Revoked' = Revoked
         \/ \E v \in Revokers :
              /\ CommitRevoke(v) /\ pc[v] = "commit" /\ pc'[v] = "done"
              /\ Issued' = Issued /\ Revoked' = Revoked \cup {req[v].seal}
<1>1. CASE UNCHANGED <<seals, ledger>>
  BY <1>1 DEF Issued, Revoked
<1>2. ASSUME NEW c \in Creators, CommitCreate(c)
      PROVE  c \notin Issued /\ Issued' = Issued \cup {c} /\ Revoked' = Revoked
  <2>1. c \in Requests /\ pc[c] = "commit"
    BY <1>2 DEF CommitCreate, Committed, Requests
  <2>2. c \notin Issued /\ seals' = [seals EXCEPT ![c] = SealOf(c)]
    BY <1>2, <2>1 DEF CommitCreate, PInv, IInv, Local, LocalCreate
  <2>3. SealOf(c).status = "sealed"
    BY DEF SealOf
  <2>4. QED
    BY <2>2, <2>3 DEF Issued, Revoked, PInv, IInv, Shape
<1>3. ASSUME NEW v \in Revokers, CommitRevoke(v)
      PROVE  /\ pc[v] = "commit" /\ pc'[v] = "done"
             /\ Issued' = Issued /\ Revoked' = Revoked \cup {req[v].seal}
  <2> PICK r : r = req[v].seal
    OBVIOUS
  <2>1. v \in Requests /\ pc[v] = "commit"
    BY <1>3 DEF CommitRevoke, Committed, Requests
  <2>2. pc'[v] = "done"
    BY <1>3, <2>1 DEF CommitRevoke, Committed, Answer, PInv, IInv, Shape
  <2>3. r \in Issued
    BY <2>1 DEF PInv, IInv, Local, LocalRevoke
  <2>4. seals' = [seals EXCEPT ![r].status = "revoked", ![r].public = FALSE]
    BY <1>3 DEF CommitRevoke
  <2>5. \A s \in Creators : s # r => seals'[s] = seals[s]
    BY <2>4 DEF PInv, IInv, Shape
  <2>6. seals'[r].status = "revoked"
    BY <2>3, <2>4 DEF PInv, IInv, Shape, Issued
  <2>7. Issued' = Issued
    BY <2>3, <2>5, <2>6 DEF Issued
  <2>8. Revoked' = Revoked \cup {r}
    <3>1. Issued \subseteq Creators
      BY DEF Issued
    <3>2. \A s \in Issued : seals'[s].status = "revoked" <=> seals[s].status = "revoked" \/ s = r
      BY <2>5, <2>6, <3>1
    <3>3. \A s : s \in Revoked' <=> s \in Issued /\ seals'[s].status = "revoked"
      BY <2>7 DEF Revoked
    <3>4. \A s : s \in Revoked <=> s \in Issued /\ seals[s].status = "revoked"
      BY DEF Revoked
    <3>5. \A s : s \in Revoked' <=> s \in Revoked \/ s = r
      BY <2>3, <3>2, <3>3, <3>4
    <3>6. QED
      BY <3>5
  <2>9. QED
    BY <2>1, <2>2, <2>7, <2>8
<1>4. CASE \E c \in Creators : CommitCreate(c)
  BY <1>2, <1>4
<1>5. CASE \E v \in Revokers : CommitRevoke(v)
  BY <1>3, <1>5
<1>6. CASE \E t \in Writers : InsertLedger(t)
  BY <1>1, <1>6 DEF InsertLedger
<1>7. QED
  BY <1>1, <1>4, <1>5, <1>6, TableSteps DEF vars, tables

(* A revoking request keeps what it found locked.                          *)
LEMMA GuardingStep ==
  ASSUME EInv, [Next]_vars, NEW v \in Revokers
  PROVE  Guarding(v)'
<1> SUFFICES ASSUME pc'[v] \in {"mark", "head", "append", "commit"}
             PROVE  /\ [owner |-> v, row |-> SealRow(req'[v].seal), mode |-> "UPDATE"] \in locks'
                    /\ req'[v].seal \in Issued' \ Revoked'
  BY DEF Guarding, SealRow
<1> USE DEF EInv
<1>1. CASE LockSeal(v) /\ Goto(v, "lock", "mark")
  <2>1. /\ req[v].seal \in Issued \ Revoked
        /\ Acquire(v, RevokeLockWants(v)) /\ req' = req /\ UNCHANGED seals
    <3>1. pc'[v] # "done"
      OBVIOUS
    <3>2. ~ \E status : Rollback(v, status)
      BY <3>1 DEF Rollback, Answer, PInv, IInv, Shape, Requests
    <3>3. QED
      BY <1>1, <3>2 DEF LockSeal, Issued, Revoked, tables
  <2>2. Want(SealRow(req[v].seal), "UPDATE") \in RevokeLockWants(v)
    BY <2>1 DEF RevokeLockWants
  <2>3. [owner |-> v, row |-> SealRow(req[v].seal), mode |-> "UPDATE"] \in locks'
    BY <2>1, <2>2 DEF Acquire, Want
  <2>4. Issued' = Issued /\ Revoked' = Revoked
    BY <2>1 DEF Issued, Revoked
  <2>5. QED
    BY <2>1, <2>3, <2>4
<1>2. CASE pc[v] \in {"mark", "head", "append", "commit"} /\ req'[v] = req[v]
  <2>1. /\ [owner |-> v, row |-> SealRow(req[v].seal), mode |-> "UPDATE"] \in locks
        /\ req[v].seal \in Issued \ Revoked
    BY <1>2 DEF Guarding
  <2>2. [owner |-> v, row |-> SealRow(req[v].seal), mode |-> "UPDATE"] \in locks'
    BY <2>1, LocksStay
  <2>3. req[v].seal \in Issued' \ Revoked'
    <3>1. ASSUME NEW u \in Revokers, pc[u] = "commit", pc'[u] = "done"
          PROVE  req[u].seal # req[v].seal
      BY <1>2, <3>1, OneRevocation
    <3>2. QED
      BY <2>1, <3>1, RevokedSteps
  <2>4. QED
    BY <1>2, <2>2, <2>3
<1>3. QED
  BY <1>1, <1>2, RevokerMoves

(* COMMIT puts the event it committed on record, and no other.             *)
LEMMA PublishStep ==
  ASSUME EventsMatch, NEW t, NEW type, NEW s,
         PublishLedger(t, [type |-> type, of |-> s]),
         ~OnRecord(type, s)
  PROVE  /\ \A e, f \in ledger' : e.event = f.event => e = f
         /\ \A x, y : OnRecord(x, y)' <=> OnRecord(x, y) \/ (x = type /\ y = s)
<1> PICK row : /\ row.event = [type |-> type, of |-> s]
               /\ ledger' = ledger \cup {row}
  BY DEF PublishLedger, LedgerRow
<1>1. \A e \in ledger : e.event # row.event
  BY DEF OnRecord
<1>2. QED
  BY <1>1 DEF EventsMatch, OnRecord

LEMMA EventsStep == ASSUME EInv, [Next]_vars PROVE EventsMatch'
<1> USE DEF EInv
<1>1. CASE Issued' = Issued /\ Revoked' = Revoked /\ UNCHANGED ledger
  BY <1>1 DEF EventsMatch, OnRecord
<1>2. ASSUME NEW c \in Creators, CommitCreate(c), c \notin Issued,
             Issued' = Issued \cup {c}, Revoked' = Revoked
      PROVE  EventsMatch'
  <2>1. /\ PublishLedger(c, [type |-> "certificate_issued", of |-> c])
        /\ ~OnRecord("certificate_issued", c)
    BY <1>2 DEF CommitCreate, EventsMatch
  <2>2. /\ \A e, f \in ledger' : e.event = f.event => e = f
        /\ \A x, y : OnRecord(x, y)' <=> OnRecord(x, y) \/ (x = "certificate_issued" /\ y = c)
    BY <2>1, PublishStep
  <2>3. QED
    BY <1>2, <2>2 DEF EventsMatch
<1>3. ASSUME NEW v \in Revokers, CommitRevoke(v), pc[v] = "commit",
             Issued' = Issued, Revoked' = Revoked \cup {req[v].seal}
      PROVE  EventsMatch'
  <2> PICK r : r = req[v].seal
    OBVIOUS
  <2>1. r \in Issued \ Revoked
    BY <1>3 DEF Guarding
  <2>2. /\ PublishLedger(v, [type |-> "certificate_revoked", of |-> r])
        /\ ~OnRecord("certificate_revoked", r)
    BY <1>3, <2>1 DEF CommitRevoke, EventsMatch, Issued
  <2>3. /\ \A e, f \in ledger' : e.event = f.event => e = f
        /\ \A x, y : OnRecord(x, y)' <=> OnRecord(x, y) \/ (x = "certificate_revoked" /\ y = r)
    BY <2>2, PublishStep
  <2>4. QED
    BY <1>3, <2>3 DEF EventsMatch
<1>4. QED
  BY <1>1, <1>2, <1>3, RevokedSteps

LEMMA InitEInv == StoreInit => EInv
<1> SUFFICES ASSUME StoreInit PROVE EInv
  OBVIOUS
<1>1. Issued = {} /\ Revoked = {} /\ ledger = {}
  BY DEF StoreInit, NoSeal, Issued, Revoked
<1>2. \A v \in Revokers : pc[v] = "idle"
  BY DEF StoreInit, Requests
<1>3. QED
  BY <1>1, <1>2, InitPInv DEF EInv, EventsMatch, OnRecord, Guarding

LEMMA NextKeepsEInv == EInv /\ [Next]_vars => EInv'
<1> SUFFICES ASSUME EInv, [Next]_vars PROVE EInv'
  OBVIOUS
<1>1. QED
  BY NextKeepsPInv, EventsStep, GuardingStep DEF EInv

(* A certificate has one 'certificate_issued' row in the evidence ledger,  *)
(* a revoked one has one 'certificate_revoked' row, and nothing that was   *)
(* rolled back has any, however many requests revoke the same certificate  *)
(* (seal-service.ts:498-513, 635-647).                                     *)
THEOREM EvidenceTheorem == Spec => []EvidenceMatchesSeals
<1>1. EInv => EvidenceMatchesSeals
  <2> SUFFICES ASSUME EInv PROVE EvidenceMatchesSeals
    OBVIOUS
  <2> DEFINE Rows(type, s) == {e \in ledger : e.event = [type |-> type, of |-> s]}
  <2>1. ASSUME NEW type, NEW s
        PROVE  Cardinality(Rows(type, s)) = IF OnRecord(type, s) THEN 1 ELSE 0
    <3>1. CASE OnRecord(type, s)
      <4> PICK e \in ledger : e.event = [type |-> type, of |-> s]
        BY <3>1 DEF OnRecord
      <4>1. Rows(type, s) = {e}
        BY DEF EInv, EventsMatch
      <4>2. QED
        BY <3>1, <4>1, FS_Singleton
    <3>2. CASE ~OnRecord(type, s)
      <4>1. Rows(type, s) = {}
        BY <3>2 DEF OnRecord
      <4>2. QED
        BY <3>2, <4>1, FS_EmptySet
    <3>3. QED
      BY <3>1, <3>2
  <2>2. QED
    BY <2>1 DEF EInv, EventsMatch, EvidenceMatchesSeals
<1>2. QED
  BY <1>1, InitEInv, NextKeepsEInv, PTL DEF Spec

-----------------------------------------------------------------------------
(* The charges of a workspace, one by one.                                 *)
LEMMA ChargesAre ==
  ASSUME NEW w
  PROVE  /\ \A m, n : <<m, n>> \in ChargesTo(w)
                        <=> m \in Months /\ periods[w][m] # None /\ n \in 1..periods[w][m].used
         /\ \A x \in ChargesTo(w) : \E m, n : x = <<m, n>>
<1> DEFINE Rows == {m \in Months : periods[w][m] # None}
           Of(m) == {m} \X (1..periods[w][m].used)
<1>1. ChargesTo(w) = UNION {Of(m) : m \in Rows}
  BY DEF ChargesTo
<1>2. \A x : x \in ChargesTo(w) <=> \E m \in Rows : x \in Of(m)
  BY <1>1
<1>3. \A m, x : x \in Of(m) <=> \E n \in 1..periods[w][m].used : x = <<m, n>>
  OBVIOUS
<1>4. QED
  BY <1>2, <1>3

LEMMA ChargesStep ==
  ASSUME TInv, NEW c \in Creators, CommitCreate(c), NEW w \in Workspaces, w = req[c].ws
  PROVE  /\ \E x : x \notin ChargesTo(w) /\ ChargesTo(w)' = ChargesTo(w) \cup {x}
         /\ \A y \in Workspaces : y # w => ChargesTo(y)' = ChargesTo(y)
<1>1. /\ pc[c] = "commit"
      /\ periods' = [periods EXCEPT ![req[c].ws][tx[c].period] = Charged(c)]
  BY DEF CommitCreate, Committed
<1> PICK m \in Months : m = tx[c].period
  BY <1>1, AtCommit
<1> DEFINE old == periods[w][m]
           n == IF old = None THEN 1 ELSE old.used + 1
<1>2. old # None => DOMAIN old = {"included", "used"} /\ old.included \in Nat /\ old.used \in Nat
  BY DEF TInv, TypeOK, PeriodRowsTyped
<1>3. Charged(c) \in [included : Nat, used : Nat] /\ Charged(c).used = n
  <2>1. tx[c].included \in Nat
    BY <1>1, AtCommit
  <2>2. Charged(c) = IF old = None THEN [included |-> tx[c].included, used |-> 1]
                                   ELSE [old EXCEPT !.used = @ + 1]
    BY DEF Charged
  <2>3. CASE old = None
    BY <2>1, <2>2, <2>3
  <2>4. CASE old # None
    BY <1>2, <2>2, <2>4
  <2>5. QED
    BY <2>3, <2>4
<1>4. \A y \in Workspaces, a \in Months :
        periods'[y][a] = IF y = w /\ a = m THEN Charged(c) ELSE periods[y][a]
  BY <1>1 DEF TInv, TypeOK, PeriodRowsTyped
<1>5. Charged(c) # None
  BY <1>3, NullAssumption
<1> HIDE DEF n
<1>6. n \in Nat \ {0} /\ \A k : k \in 1..n <=> (old # None /\ k \in 1..old.used) \/ k = n
  <2>1. CASE old = None
    <3>1. n = 1
      BY <2>1 DEF n
    <3>2. QED
      BY <2>1, <3>1
  <2>2. CASE old # None
    <3>1. n = old.used + 1 /\ old.used \in Nat
      BY <1>2, <2>2 DEF n
    <3>2. QED
      BY <2>2, <3>1
  <2>3. QED
    BY <2>1, <2>2
<1>7. <<m, n>> \notin ChargesTo(w)
  <2>1. old # None => n \notin 1..old.used
    BY <1>2 DEF n
  <2>2. QED
    BY <2>1, ChargesAre
<1>8. \A y : /\ \A a, k : <<a, k>> \in ChargesTo(y)'
                           <=> a \in Months /\ periods'[y][a] # None /\ k \in 1..periods'[y][a].used
             /\ \A x \in ChargesTo(y)' : \E a, k : x = <<a, k>>
  BY ChargesAre DEF ChargesTo
<1>9. ChargesTo(w)' = ChargesTo(w) \cup {<<m, n>>}
  <2>1. \A a, k : <<a, k>> \in ChargesTo(w)' <=> <<a, k>> \in ChargesTo(w) \/ (a = m /\ k = n)
    <3>1. ASSUME NEW a, NEW k
          PROVE  /\ <<a, k>> \in ChargesTo(w)' <=>
                      a \in Months /\ periods'[w][a] # None /\ k \in 1..periods'[w][a].used
                 /\ <<a, k>> \in ChargesTo(w) <=>
                      a \in Months /\ periods[w][a] # None /\ k \in 1..periods[w][a].used
      BY <1>8, ChargesAre
    <3>2. \A a \in Months : a # m => periods'[w][a] = periods[w][a]
      BY <1>4
    <3>3. periods'[w][m].used = n /\ periods'[w][m] # None
      BY <1>3, <1>4, <1>5
    <3>4. QED
      BY <1>6, <3>1, <3>2, <3>3
  <2>2. \A x \in ChargesTo(w) : \E a, k : x = <<a, k>>
    BY ChargesAre
  <2>3. \A x \in ChargesTo(w)' : \E a, k : x = <<a, k>>
    BY <1>8
  <2>4. \A x \in ChargesTo(w)' : x \in ChargesTo(w) \cup {<<m, n>>}
    BY <2>1, <2>3
  <2>5. \A x \in ChargesTo(w) \cup {<<m, n>>} : x \in ChargesTo(w)'
    BY <2>1, <2>2
  <2>6. QED
    BY <2>4, <2>5
<1>10. ASSUME NEW y \in Workspaces, y # w PROVE ChargesTo(y)' = ChargesTo(y)
  <2>1. \A a \in Months : periods'[y][a] = periods[y][a]
    BY <1>4, <1>10
  <2>2. QED
    BY <2>1 DEF ChargesTo
<1>11. QED
  BY <1>7, <1>9, <1>10

(* What the COMMIT of an issue and of a revocation do to the chains.       *)
LEMMA CreateRows ==
  ASSUME PInv, NEW c \in Creators, CommitCreate(c)
  PROVE  /\ pc[c] = "commit" /\ req[c].ws \in Workspaces /\ Linked(c)
         /\ c \notin Issued /\ Issued' = Issued \cup {c}
         /\ \A s \in Issued : seals'[s] = seals[s]
         /\ seals'[c].ws = req[c].ws /\ seals'[c].seq = tx[c].seq
         /\ \A w : IssuedIn(w)' = IF w = req[c].ws THEN IssuedIn(w) \cup {c} ELSE IssuedIn(w)
         /\ Revoked' = Revoked
<1>1. c \in Requests /\ pc[c] = "commit" /\ seals' = [seals EXCEPT ![c] = SealOf(c)]
  BY DEF CommitCreate, Committed, Requests
<1>2. LocalCreate(c)
  BY <1>1 DEF PInv, IInv, Local
<1>3. req[c].ws \in Workspaces /\ Linked(c) /\ c \notin Issued
  BY <1>1, <1>2 DEF LocalCreate, AfterLock, AfterRead
<1>4. SealOf(c).status = "sealed" /\ SealOf(c).ws = req[c].ws /\ SealOf(c).seq = tx[c].seq
  BY DEF SealOf
<1>5. seals'[c] = SealOf(c) /\ \A s \in Creators : s # c => seals'[s] = seals[s]
  BY <1>1 DEF PInv, IInv, Shape
<1>6. Issued' = Issued \cup {c} /\ \A s \in Issued : seals'[s] = seals[s]
  BY <1>3, <1>4, <1>5 DEF Issued
<1>7. \A w : IssuedIn(w)' = IF w = req[c].ws THEN IssuedIn(w) \cup {c} ELSE IssuedIn(w)
  BY <1>3, <1>4, <1>5, <1>6 DEF IssuedIn
<1>8. Revoked' = Revoked
  BY <1>3, <1>4, <1>5, <1>6 DEF Revoked
<1>9. QED
  BY <1>1, <1>3, <1>4, <1>5, <1>6, <1>7, <1>8

LEMMA RevokeRows ==
  ASSUME PInv, NEW v \in Revokers, CommitRevoke(v)
  PROVE  /\ pc[v] = "commit"
         /\ \A w : IssuedIn(w)' = IssuedIn(w)
         /\ \A s \in Issued : seals'[s].seq = seals[s].seq
         /\ Revoked' = Revoked \cup {req[v].seal}
<1> PICK r : r = req[v].seal
  OBVIOUS
<1>1. v \in Requests /\ pc[v] = "commit"
  BY DEF CommitRevoke, Committed, Requests
<1>2. r \in Issued /\ seals' = [seals EXCEPT ![r].status = "revoked", ![r].public = FALSE]
  BY <1>1 DEF CommitRevoke, PInv, IInv, Local, LocalRevoke
<1>3. \A s \in Creators : s # r => seals'[s] = seals[s]
  BY <1>2 DEF PInv, IInv, Shape
<1>4. /\ seals'[r].status = "revoked" /\ seals'[r].ws = seals[r].ws /\ seals'[r].seq = seals[r].seq
  BY <1>2 DEF PInv, IInv, Shape, Issued
<1>5. Issued' = Issued /\ \A s \in Issued : seals'[s].ws = seals[s].ws /\ seals'[s].seq = seals[s].seq
  BY <1>2, <1>3, <1>4 DEF Issued
<1>6. \A w : IssuedIn(w)' = IssuedIn(w)
  BY <1>5 DEF IssuedIn
<1>7. Revoked' = Revoked \cup {r}
  <2>1. \A s \in Issued : seals'[s].status = "revoked" <=> seals[s].status = "revoked" \/ s = r
    BY <1>3, <1>4 DEF Issued
  <2>2. \A s : s \in Revoked' <=> s \in Revoked \/ s = r
    BY <1>2, <1>5, <2>1 DEF Revoked
  <2>3. QED
    BY <2>2
<1>8. QED
  BY <1>1, <1>5, <1>6, <1>7

(* The number that an issue commits is the next one.                       *)
LEMMA NextNumber ==
  ASSUME BInv, NEW c \in Creators, CommitCreate(c), NEW w \in Workspaces, w = req[c].ws
  PROVE  tx[c].seq = Cardinality(IssuedIn(w)) + 1
<1> DEFINE N == Cardinality(IssuedIn(w))
<1>1. Linked(c) /\ pc[c] \in AfterRead
  BY CreateRows DEF BInv, EInv, AfterRead
<1>2. /\ N \in Nat /\ IsFiniteSet(IssuedIn(w))
      /\ \A s \in IssuedIn(w) : seals[s].seq \in 1..N
      /\ \A n \in 1..N : \E s \in IssuedIn(w) : seals[s].seq = n
  BY FS_CardinalityType DEF BInv, Counted
<1>3. CASE IssuedIn(w) = {}
  BY <1>1, <1>3, FS_EmptySet DEF Linked
<1>4. CASE IssuedIn(w) # {}
  <2> DEFINE p == tx[c].prevId
  <2>1. /\ p \in IssuedIn(w) /\ tx[c].seq = seals[p].seq + 1
        /\ \A s \in IssuedIn(w) : seals[s].seq <= seals[p].seq
    BY <1>1, <1>4 DEF Linked, IsLastSeal
  <2>2. N # 0
    BY <1>2, <1>4, FS_EmptySet
  <2>3. PICK s \in IssuedIn(w) : seals[s].seq = N
    BY <1>2, <2>2
  <2>4. seals[p].seq = N
    BY <1>2, <2>1, <2>3
  <2>5. QED
    BY <2>1, <2>4
<1>5. QED
  BY <1>3, <1>4

LEMMA CountedStep ==
  ASSUME BInv, [Next]_vars, NEW w \in Workspaces
  PROVE  Counted(w)'
<1> DEFINE N == Cardinality(IssuedIn(w))
<1>1. /\ IsFiniteSet(IssuedIn(w)) /\ IsFiniteSet(ChargesTo(w)) /\ N \in Nat
      /\ Cardinality(ChargesTo(w)) = N
      /\ \A s \in IssuedIn(w) : seals[s].seq \in 1..N
      /\ \A n \in 1..N : \E s \in IssuedIn(w) : seals[s].seq = n
  BY FS_CardinalityType DEF BInv, Counted, ChargedTo
<1>2. ASSUME IssuedIn(w)' = IssuedIn(w), ChargesTo(w)' = ChargesTo(w),
             \A s \in IssuedIn(w) : seals'[s].seq = seals[s].seq
      PROVE  Counted(w)'
  BY <1>1, <1>2 DEF Counted, ChargedTo
<1>3. CASE UNCHANGED <<seals, periods>>
  BY <1>2, <1>3 DEF IssuedIn, Issued, ChargesTo
<1>4. ASSUME NEW v \in Revokers, CommitRevoke(v) PROVE Counted(w)'
  <2>1. UNCHANGED periods
    BY <1>4 DEF CommitRevoke
  <2>2. QED
    BY <1>2, <1>4, <2>1, RevokeRows DEF ChargesTo, IssuedIn, BInv, EInv
<1>5. ASSUME NEW c \in Creators, CommitCreate(c), req[c].ws # w PROVE Counted(w)'
  <2>1. PICK x \in Workspaces : x = req[c].ws
    BY <1>5, CreateRows DEF BInv, EInv
  <2>2. ChargesTo(w)' = ChargesTo(w)
    BY <1>5, <2>1, ChargesStep DEF BInv
  <2>3. QED
    BY <1>2, <1>5, <2>2, CreateRows DEF IssuedIn, BInv, EInv
<1>6. ASSUME NEW c \in Creators, CommitCreate(c), req[c].ws = w PROVE Counted(w)'
  <2>1. /\ IssuedIn(w)' = IssuedIn(w) \cup {c} /\ c \notin IssuedIn(w)
        /\ \A s \in IssuedIn(w) : seals'[s] = seals[s]
        /\ seals'[c].seq = N + 1
    BY <1>6, CreateRows, NextNumber DEF IssuedIn, BInv, EInv
  <2>2. IsFiniteSet(IssuedIn(w)') /\ Cardinality(IssuedIn(w)') = N + 1
    BY <1>1, <2>1, FS_AddElement
  <2>3. PICK x : x \notin ChargesTo(w) /\ ChargesTo(w)' = ChargesTo(w) \cup {x}
    BY <1>6, ChargesStep DEF BInv
  <2>4. IsFiniteSet(ChargesTo(w)') /\ Cardinality(ChargesTo(w)') = N + 1
    BY <1>1, <2>3, FS_AddElement
  <2>5. \A s \in IssuedIn(w)' : seals'[s].seq \in 1..(N + 1)
    BY <1>1, <2>1
  <2>6. \A n \in 1..(N + 1) : \E s \in IssuedIn(w)' : seals'[s].seq = n
    BY <1>1, <2>1
  <2>7. QED
    BY <2>2, <2>4, <2>5, <2>6 DEF Counted, ChargedTo
<1>7. QED
  BY <1>3, <1>4, <1>5, <1>6, TableSteps DEF InsertLedger, tables, vars

LEMMA InitBInv == StoreInit => BInv
<1> SUFFICES ASSUME StoreInit PROVE BInv
  OBVIOUS
<1>1. ASSUME NEW w \in Workspaces PROVE Counted(w)
  <2>1. IssuedIn(w) = {} /\ ChargesTo(w) = {}
    BY DEF StoreInit, NoSeal, IssuedIn, Issued, ChargesTo
  <2>2. Cardinality({}) = 0 /\ IsFiniteSet({})
    BY FS_EmptySet
  <2>3. QED
    BY <2>1, <2>2 DEF Counted, ChargedTo
<1>2. QED
  BY <1>1, InitTInv, InitEInv DEF BInv

LEMMA NextKeepsBInv == BInv /\ [Next]_vars => BInv'
<1> SUFFICES ASSUME BInv, [Next]_vars PROVE BInv'
  OBVIOUS
<1>1. TInv' /\ EInv'
  BY NextKeepsTInv, NextKeepsEInv DEF BInv
<1>2. QED
  BY <1>1, CountedStep DEF BInv

(* The counters, the ledger and the certificates keep in step: BInv holds  *)
(* in every reachable state, from which the next two theorems follow.      *)
THEOREM SpecBInv == Spec => []BInv
BY InitBInv, NextKeepsBInv, PTL DEF Spec

(* However many requests of a workspace read the same counter before any   *)
(* of them commits, and when a month ends in between, every certificate is *)
(* charged to exactly one billing period (seal-service.ts:481-496).        *)
THEOREM UsageTheorem == Spec => []UsageConserved
<1>1. BInv => UsageConserved
  BY DEF BInv, Counted, UsageConserved
<1>2. QED
  BY <1>1, SpecBInv, PTL

-----------------------------------------------------------------------------
LEMMA SequenceOf ==
  ASSUME NEW S, NEW n \in Nat, NEW f \in [1..n -> S]
  PROVE  f \in Seq(S) /\ Len(f) = n
OBVIOUS

(* The chain of a workspace in the book holds its certificates in order.   *)
LEMMA ChainIs ==
  ASSUME BInv, NEW w \in Workspaces
  PROVE  /\ Cardinality(IssuedIn(w)) \in Nat
         /\ ChainOf(w) \in Seq(IssuedIn(w)) /\ Len(ChainOf(w)) = Cardinality(IssuedIn(w))
         /\ \A n \in 1..Cardinality(IssuedIn(w)) :
              ChainOf(w)[n] \in IssuedIn(w) /\ seals[ChainOf(w)[n]].seq = n
<1> DEFINE N == Cardinality(IssuedIn(w))
           chain == ChainOf(w)
<1>1. N \in Nat /\ \A n \in 1..N : \E s \in IssuedIn(w) : seals[s].seq = n
  BY FS_CardinalityType DEF BInv, Counted
<1>2. \A n \in 1..N : chain[n] \in IssuedIn(w) /\ seals[chain[n]].seq = n
  BY <1>1 DEF ChainOf
<1>3. chain \in [1..N -> IssuedIn(w)]
  BY <1>2 DEF ChainOf
<1> HIDE DEF chain
<1>4. chain \in Seq(IssuedIn(w)) /\ Len(chain) = N
  BY <1>1, <1>3, SequenceOf
<1>5. QED
  BY <1>1, <1>2, <1>4 DEF chain

LEMMA InBookIs == ASSUME BInv PROVE Book!InBook = Issued
<1> DEFINE chain == [w \in Workspaces |-> ChainOf(w)]
<1>1. Book!InBook = UNION {{chain[w][n] : n \in 1..Len(chain[w])} : w \in Workspaces}
  BY DEF Book!InBook, Book!InChain
<1>2. \A w \in Workspaces : chain[w] = ChainOf(w)
  OBVIOUS
<1>3. \A s : s \in Book!InBook <=>
             \E w \in Workspaces : \E n \in 1..Len(ChainOf(w)) : s = ChainOf(w)[n]
  BY <1>1, <1>2
<1>4. ASSUME NEW s \in Book!InBook PROVE s \in Issued
  <2> PICK w \in Workspaces : \E n \in 1..Len(ChainOf(w)) : s = ChainOf(w)[n]
    BY <1>3, <1>4
  <2> PICK n \in 1..Len(ChainOf(w)) : s = ChainOf(w)[n]
    OBVIOUS
  <2>1. ChainOf(w)[n] \in IssuedIn(w)
    BY ChainIs
  <2>2. QED
    BY <2>1 DEF IssuedIn
<1>5. ASSUME NEW s \in Issued PROVE s \in Book!InBook
  <2> DEFINE w == seals[s].ws
             n == seals[s].seq
  <2>1. w \in Workspaces /\ s \in IssuedIn(w)
    BY DEF BInv, EInv, PInv, IInv, Shape, IssuedIn
  <2>2. n \in 1..Cardinality(IssuedIn(w))
    BY <2>1 DEF BInv, Counted
  <2>3. ChainOf(w)[n] \in IssuedIn(w) /\ seals[ChainOf(w)[n]].seq = n /\ n \in 1..Len(ChainOf(w))
    BY <2>1, <2>2, ChainIs
  <2>4. ChainOf(w)[n] = s
    BY <2>1, <2>3 DEF BInv, EInv, PInv, IInv, ChainIntact, IssuedIn
  <2>5. QED
    BY <1>3, <2>1, <2>3, <2>4
<1>6. QED
  BY <1>4, <1>5

LEMMA ChainAppends ==
  ASSUME BInv, BInv', NEW c \in Creators, CommitCreate(c), NEW w \in Workspaces, w = req[c].ws
  PROVE  ChainOf(w)' = Append(ChainOf(w), c)
<1> DEFINE N == Cardinality(IssuedIn(w))
           chain == ChainOf(w)
<1>1. /\ IssuedIn(w)' = IssuedIn(w) \cup {c} /\ c \notin IssuedIn(w)
      /\ \A s \in IssuedIn(w) : seals'[s] = seals[s]
      /\ seals'[c].seq = N + 1
  BY CreateRows, NextNumber DEF IssuedIn, BInv, EInv
<1>2. Counted(w) /\ Counted(w)'
  BY DEF BInv
<1>3. Cardinality(IssuedIn(w)') = N + 1
  BY <1>1, <1>2, FS_AddElement DEF Counted
<1>4. /\ N \in Nat /\ chain \in Seq(IssuedIn(w)) /\ Len(chain) = N
      /\ \A n \in 1..N : chain[n] \in IssuedIn(w) /\ seals[chain[n]].seq = n
  BY ChainIs
<1>5. /\ chain' \in Seq(IssuedIn(w)') /\ Len(chain') = N + 1
      /\ \A n \in 1..(N + 1) : chain'[n] \in IssuedIn(w)' /\ seals'[chain'[n]].seq = n
  <2>1. N + 1 \in Nat /\ \A n \in 1..(N + 1) : \E s \in IssuedIn(w)' : seals'[s].seq = n
    BY <1>2, <1>3, <1>4 DEF Counted
  <2>2. chain' = [n \in 1..(N + 1) |-> CHOOSE s \in IssuedIn(w)' : seals'[s].seq = n]
    BY <1>3 DEF ChainOf
  <2>3. \A n \in 1..(N + 1) : chain'[n] \in IssuedIn(w)' /\ seals'[chain'[n]].seq = n
    BY <2>1, <2>2
  <2>4. chain' \in [1..(N + 1) -> IssuedIn(w)']
    BY <2>2, <2>3
  <2> HIDE DEF chain
  <2>5. QED
    BY <2>1, <2>3, <2>4, SequenceOf
<1>6. \A s, u \in IssuedIn(w)' : seals'[s].seq = seals'[u].seq => s = u
  BY DEF BInv, EInv, PInv, IInv, ChainIntact, IssuedIn
<1>7. ASSUME NEW n \in 1..(N + 1) PROVE chain'[n] = Append(chain, c)[n]
  <2>1. CASE n \in 1..N
    <3>1. Append(chain, c)[n] = chain[n]
      BY <1>4, <2>1
    <3>2. chain[n] \in IssuedIn(w)' /\ seals'[chain[n]].seq = n
      BY <1>1, <1>4, <2>1
    <3>3. QED
      BY <1>5, <1>6, <3>1, <3>2
  <2>2. CASE n = N + 1
    <3>1. Append(chain, c)[n] = c
      BY <1>4, <2>2
    <3>2. c \in IssuedIn(w)' /\ seals'[c].seq = n
      BY <1>1, <2>2
    <3>3. QED
      BY <1>5, <1>6, <3>1, <3>2
  <2>3. QED
    BY <1>4, <2>1, <2>2
<1> HIDE DEF chain
<1>8. Append(chain, c) \in Seq(IssuedIn(w)') /\ Len(Append(chain, c)) = N + 1
  BY <1>1, <1>4
<1>9. chain' = Append(chain, c)
  BY <1>4, <1>5, <1>7, <1>8
<1>10. QED
  BY <1>9 DEF chain

LEMMA ChainStays ==
  ASSUME NEW w, IssuedIn(w)' = IssuedIn(w),
         \A s \in IssuedIn(w) : seals'[s].seq = seals[s].seq
  PROVE  ChainOf(w)' = ChainOf(w)
<1>1. ASSUME NEW n
      PROVE  (CHOOSE s \in IssuedIn(w)' : seals'[s].seq = n)
               = CHOOSE s \in IssuedIn(w) : seals[s].seq = n
  <2>1. \A s : s \in IssuedIn(w)' /\ seals'[s].seq = n <=> s \in IssuedIn(w) /\ seals[s].seq = n
    OBVIOUS
  <2>2. QED
    BY <2>1, Zenon
<1>2. QED
  BY <1>1 DEF ChainOf

(* Every step of the handlers is an entry in the book, or none.            *)
LEMMA BookStep ==
  ASSUME BInv, BInv', [Next]_vars
  PROVE  [Book!Next]_(Book!book)
<1> DEFINE chain == [w \in Workspaces |-> ChainOf(w)]
           charged == [w \in Workspaces |-> ChargedTo(w)]
           evidence == {e.event : e \in ledger}
<1>1. CASE UNCHANGED <<seals, periods, ledger>>
  BY <1>1 DEF Book!book, ChainOf, ChargedTo, ChargesTo, IssuedIn, Issued, Revoked
<1>2. ASSUME NEW c \in Creators, CommitCreate(c) PROVE Book!Next
  <2> PICK w \in Workspaces : w = req[c].ws
    BY <1>2, CreateRows DEF BInv, EInv
  <2>1. c \notin Issued /\ \A x : x # w => IssuedIn(x)' = IssuedIn(x)
    BY <1>2, CreateRows DEF BInv, EInv
  <2>2. chain' = [chain EXCEPT ![w] = Append(@, c)]
    <3>1. ChainOf(w)' = Append(ChainOf(w), c)
      BY <1>2, ChainAppends
    <3>2. ASSUME NEW x \in Workspaces, x # w PROVE ChainOf(x)' = ChainOf(x)
      BY <1>2, <2>1, <3>2, ChainStays, CreateRows DEF BInv, EInv, IssuedIn
    <3>3. QED
      BY <3>1, <3>2
  <2>3. charged' = [charged EXCEPT ![w] = @ + 1]
    <3>1. \A x \in Workspaces : x # w => ChargedTo(x)' = ChargedTo(x)
      BY <1>2, ChargesStep DEF BInv, ChargedTo
    <3>2. PICK x : x \notin ChargesTo(w) /\ ChargesTo(w)' = ChargesTo(w) \cup {x}
      BY <1>2, ChargesStep DEF BInv
    <3>3. ChargedTo(w)' = ChargedTo(w) + 1
      <4>1. IsFiniteSet(ChargesTo(w))
        BY DEF BInv, Counted
      <4>2. QED
        BY <3>2, <4>1, FS_AddElement DEF ChargedTo
    <3>4. QED
      BY <3>1, <3>3
  <2>4. evidence' = evidence \cup {[type |-> "certificate_issued", of |-> c]}
    <3> PICK row : /\ row.event = [type |-> "certificate_issued", of |-> c]
                   /\ ledger' = ledger \cup {row}
      BY <1>2 DEF CommitCreate, PublishLedger, LedgerRow
    <3>1. QED
      OBVIOUS
  <2>5. Revoked' = Revoked
    BY <1>2, CreateRows DEF BInv, EInv
  <2>6. Book!Issue(w, c)
    BY <2>1, <2>2, <2>3, <2>4, <2>5, InBookIs DEF Book!Issue
  <2>7. QED
    BY <2>6 DEF Book!Next
<1>3. ASSUME NEW v \in Revokers, CommitRevoke(v) PROVE Book!Next
  <2> PICK r : r = req[v].seal
    OBVIOUS
  <2>1. r \in Issued \ Revoked /\ r \in Creators
    BY <1>3, RevokeRows DEF BInv, EInv, Guarding, Issued
  <2>2. chain' = chain
    BY <1>3, RevokeRows, ChainStays DEF BInv, EInv, IssuedIn
  <2>3. charged' = charged
    BY <1>3 DEF CommitRevoke, ChargedTo, ChargesTo
  <2>4. evidence' = evidence \cup {[type |-> "certificate_revoked", of |-> r]}
    <3> PICK row : /\ row.event = [type |-> "certificate_revoked", of |-> r]
                   /\ ledger' = ledger \cup {row}
      BY <1>3 DEF CommitRevoke, PublishLedger, LedgerRow
    <3>1. QED
      OBVIOUS
  <2>5. Revoked' = Revoked \cup {r}
    BY <1>3, RevokeRows DEF BInv, EInv
  <2>6. Book!Revoke(r)
    BY <2>1, <2>2, <2>3, <2>4, <2>5, InBookIs DEF Book!Revoke
  <2>7. QED
    BY <2>1, <2>6 DEF Book!Next
<1>4. QED
  BY <1>1, <1>2, <1>3, TableSteps DEF InsertLedger, tables, vars

(* Issuing and revoking are indivisible: whatever the interleaving of      *)
(* their statements, requests change the five tables as one entry in a     *)
(* book of certificates (seal-service.ts:409-513, 589-647).                *)
THEOREM BookTheorem == Spec => KeepsBook
<1>1. StoreInit => Book!Init
  <2> SUFFICES ASSUME StoreInit PROVE Book!Init
    OBVIOUS
  <2>1. \A w \in Workspaces : IssuedIn(w) = {} /\ ChargesTo(w) = {}
    BY DEF StoreInit, NoSeal, IssuedIn, Issued, ChargesTo
  <2>2. \A w \in Workspaces : ChainOf(w) = <<>> /\ ChargedTo(w) = 0
    <3>1. Cardinality({}) = 0
      BY FS_EmptySet
    <3>2. ASSUME NEW w \in Workspaces PROVE ChainOf(w) = <<>>
      <4>1. ChainOf(w) = [n \in 1..0 |-> CHOOSE s \in IssuedIn(w) : seals[s].seq = n]
        BY <2>1, <3>1 DEF ChainOf
      <4>2. DOMAIN ChainOf(w) = {}
        BY <4>1
      <4>3. ChainOf(w) \in [1..0 -> {}]
        BY <4>1, <4>2
      <4>4. ChainOf(w) \in Seq({}) /\ Len(ChainOf(w)) = 0
        BY <4>3, SequenceOf
      <4>5. QED
        BY <4>4
    <3>3. QED
      BY <2>1, <3>1, <3>2 DEF ChargedTo
  <2>3. Revoked = {} /\ {e.event : e \in ledger} = {}
    BY DEF StoreInit, NoSeal, Revoked, Issued
  <2>4. QED
    BY <2>2, <2>3 DEF Book!Init
<1>2. BInv /\ BInv' /\ [Next]_vars => [Book!Next]_(Book!book)
  BY BookStep
<1>3. QED
  BY <1>1, <1>2, SpecBInv, PTL DEF Spec, KeepsBook, Book!Spec

-----------------------------------------------------------------------------
(* A lock FOR UPDATE is granted next to no other, and no other next to it. *)
LEMMA AloneStep == ASSUME TInv, Alone, [Next]_vars PROVE Alone'
<1>1. CASE locks' \subseteq locks
  BY <1>1 DEF Alone
<1>2. ASSUME NEW t, NEW wants, Acquire(t, wants), \A w \in wants : w.mode \in LockMode
      PROVE  Alone'
  <2> DEFINE New == {[owner |-> t, row |-> w.row, mode |-> w.mode] : w \in wants}
  <2>1. locks' = locks \cup New
    BY <1>2 DEF Acquire
  <2>2. ASSUME NEW k \in locks, NEW w \in wants, k.row = w.row,
               k.mode \in ConflictsWith(w.mode)
        PROVE  k.owner = t
    BY <1>2, <2>2 DEF Acquire, Blockers
  <2>3. /\ \A m \in LockMode : "UPDATE" \in ConflictsWith(m)
        /\ ConflictsWith("UPDATE") = LockMode
    BY DEF ConflictsWith, LockMode
  <2>4. \A k \in locks, l \in New :
          k.row = l.row /\ (k.mode = "UPDATE" \/ (l.mode = "UPDATE" /\ k.mode \in LockMode))
            => k.owner = l.owner
    BY <1>2, <2>2, <2>3
  <2>5. \A k, l \in New : k.owner = l.owner
    OBVIOUS
  <2> HIDE DEF New
  <2>6. \A l \in locks : l.mode \in LockMode
    BY DEF TInv, TypeOK
  <2>7. ASSUME NEW k \in locks', NEW l \in locks',
               k.row = l.row, k.mode = "UPDATE", l.mode \in LockMode
        PROVE  k.owner = l.owner
    <3>1. CASE k \in locks /\ l \in locks
      BY <2>7, <3>1 DEF Alone
    <3>2. CASE k \in New /\ l \in New
      BY <2>5, <3>2
    <3>3. CASE (k \in locks /\ l \in New) \/ (k \in New /\ l \in locks)
      BY <2>4, <2>6, <2>7, <3>3
    <3>4. QED
      BY <2>1, <3>1, <3>2, <3>3
  <2>8. QED
    BY <2>7 DEF Alone
<1>3. QED
  BY <1>1, <1>2, LockSteps

(* A certificate stays in its workspace.                                   *)
LEMMA PlacesStay ==
  ASSUME PInv, [Next]_vars
  PROVE  \A s \in Issued : s \in Issued' /\ seals'[s].ws = seals[s].ws
<1>1. CASE \E c \in Creators : CommitCreate(c)
  BY <1>1, CreateRows
<1>2. CASE \E v \in Revokers : CommitRevoke(v)
  <2> PICK v \in Revokers : CommitRevoke(v)
    BY <1>2
  <2>1. seals' = [seals EXCEPT ![req[v].seal].status = "revoked", ![req[v].seal].public = FALSE]
    BY DEF CommitRevoke
  <2>2. DOMAIN seals = Creators /\ \A s \in Issued : DOMAIN seals[s] =
          {"ws", "payload", "hash", "prevId", "prevHash", "seq", "status", "public", "key"}
    BY DEF PInv, IInv, Shape
  <2>3. QED
    BY <2>1, <2>2 DEF Issued
<1>3. CASE UNCHANGED seals
  BY <1>3 DEF Issued
<1>4. QED
  BY <1>1, <1>2, <1>3, TableSteps DEF tables, vars, InsertLedger

(* A revoking request keeps its lock on the workspace's row.               *)
LEMMA SharingStep ==
  ASSUME PInv, [Next]_vars, NEW v \in Revokers, Sharing(v)
  PROVE  Sharing(v)'
<1> SUFFICES ASSUME pc'[v] \in {"mark", "head", "append", "commit"}
             PROVE  /\ seals'[req'[v].seal].ws = req'[v].ws /\ req'[v].ws \in Workspaces
                    /\ pc'[v] # "mark" =>
                         [owner |-> v, row |-> WorkspaceRow(req'[v].ws), mode |-> "KEY SHARE"] \in locks'
  BY DEF Sharing, AtLedger, WorkspaceRow
<1> DEFINE l == [owner |-> v, row |-> WorkspaceRow(req[v].ws), mode |-> "KEY SHARE"]
<1>1. CASE LockSeal(v) /\ Goto(v, "lock", "mark")
  <2>1. v \in Requests /\ pc'[v] = "mark"
    BY <1>1 DEF Goto, PInv, IInv, Shape, Requests
  <2>2. ~ \E status : Rollback(v, status)
    BY <2>1 DEF Rollback, Answer, PInv, IInv, Shape
  <2>3. req' = req /\ seals' = seals /\ req[v].seal \in Issued /\ seals[req[v].seal].ws = req[v].ws
    BY <1>1, <2>2 DEF LockSeal, tables
  <2>4. QED
    BY <2>1, <2>3 DEF PInv, IInv, Shape
<1>2. CASE /\ pc[v] \in {"mark", "head", "append", "commit"} /\ req'[v] = req[v]
           /\ pc[v] = "mark" => pc'[v] = "mark" \/ MarkRevoked(v)
  <2>1. req[v].ws \in Workspaces /\ seals'[req[v].seal].ws = req[v].ws
    <3>1. seals[req[v].seal].ws = req[v].ws /\ req[v].ws \in Workspaces
      BY <1>2 DEF Sharing, AtLedger
    <3>2. req[v].seal \in Issued
      BY <1>2 DEF PInv, IInv, Local, LocalRevoke, Requests
    <3>3. QED
      BY <3>1, <3>2, PlacesStay
  <2>2. CASE pc[v] = "mark" /\ MarkRevoked(v)
    <3>1. ASSUME NEW m, Want(WorkspaceRow(req[v].ws), m) \in RevokeMarkWants(v)
          PROVE  [owner |-> v, row |-> WorkspaceRow(req[v].ws), mode |-> m] \in locks'
      BY <2>2, <3>1 DEF MarkRevoked, Acquire, Want
    <3>2. l \in locks'
      <4>1. Want(WorkspaceRow(req[v].ws), "KEY SHARE") \in RevokeMarkWants(v)
        BY DEF RevokeMarkWants
      <4>2. QED
        BY <3>1, <4>1, Zenon
    <3>3. QED
      BY <1>2, <2>1, <3>2
  <2>3. CASE pc[v] # "mark"
    <3>1. l \in locks
      BY <1>2, <2>3 DEF Sharing, AtLedger
    <3>2. l \in locks'
      BY <3>1, LocksStay
    <3>3. QED
      BY <1>2, <2>1, <3>2
  <2>4. QED
    BY <1>2, <2>1, <2>2, <2>3
<1>3. QED
  BY <1>1, <1>2, RevokerMoves

(* So next to an issue no writer of its workspace is between the head and  *)
(* its COMMIT.                                                             *)
LEMMA OneAtLedger ==
  ASSUME LInv, NEW c \in Creators, NEW u \in Writers, req[c].ws = req[u].ws,
         pc[c] \in AtLedger, pc[u] \in AtLedger
  PROVE  c = u
<1>1. ASSUME NEW x \in Creators, pc[x] \in AtLedger
      PROVE  [owner |-> x, row |-> WorkspaceRow(req[x].ws), mode |-> "UPDATE"] \in locks
  <2>1. LocalCreate(x)
    BY DEF LInv, EInv, PInv, IInv, Local, Requests
  <2>2. QED
    BY <1>1, <2>1 DEF LocalCreate, Holding, AtLedger, AfterLock, AfterRead
<1>2. ASSUME NEW v \in Revokers, pc[v] \in AtLedger
      PROVE  [owner |-> v, row |-> WorkspaceRow(req[v].ws), mode |-> "KEY SHARE"] \in locks
  BY <1>2 DEF LInv, Sharing
<1> PICK m \in LockMode : [owner |-> u, row |-> WorkspaceRow(req[c].ws), mode |-> m] \in locks
  BY <1>1, <1>2 DEF Writers, LockMode
<1> DEFINE k == [owner |-> c, row |-> WorkspaceRow(req[c].ws), mode |-> "UPDATE"]
           l == [owner |-> u, row |-> WorkspaceRow(req[c].ws), mode |-> m]
<1>3. k \in locks /\ l \in locks /\ k.row = l.row /\ k.mode = "UPDATE" /\ l.mode \in LockMode
  BY <1>1
<1>4. k.owner = l.owner
  BY <1>3 DEF LInv, Alone
<1>5. QED
  BY <1>4

(* How a writer gets to the insertion of its row, and to its COMMIT.       *)
LEMMA HeadMoves ==
  ASSUME PInv, [Next]_vars, NEW t \in Writers, pc'[t] \in {"append", "commit"}
  PROVE  \/ ReadLedgerHead(t)
         \/ InsertLedger(t) /\ Goto(t, "append", "commit") /\ tx' = [tx EXCEPT ![t].lid = ledgerSeq']
         \/ pc'[t] = pc[t] /\ tx'[t] = tx[t]
<1>1. t \in Requests /\ t \notin Verifiers
  BY StoreAssumption DEF Requests, Writers
<1> DEFINE Goal == \/ ReadLedgerHead(t)
                   \/ /\ InsertLedger(t) /\ Goto(t, "append", "commit")
                      /\ tx' = [tx EXCEPT ![t].lid = ledgerSeq']
                   \/ pc'[t] = pc[t] /\ tx'[t] = tx[t]
<1>2. ~ \E status, s : Answer(t, status, s)
  BY <1>1 DEF Answer, PInv, IInv, Shape
<1>3. ASSUME NEW from, NEW to, to \notin {"append", "commit"} PROVE ~Goto(t, from, to)
  BY <1>1, <1>3 DEF Goto, PInv, IInv, Shape
<1>4. ASSUME NEW u \in Requests, Progress(u) \/ Fault(u) \/ Refuse(u), u # t PROVE Goal
  BY <1>1, <1>4, OneMoves DEF OthersStand
<1>5. CASE Progress(t)
  <2>1. CASE t \in Creators /\ CreateStep(t)
    BY <1>2, <1>3, <2>1
       DEF CreateStep, CheckIdempotency, LoadWorkspace, CheckUsage, LockWorkspace, ReadLastSeal,
           InsertSeal, ChargeUsage, CommitCreate, Committed, Rollback
  <2>2. CASE RevokeStep(t)
    BY <1>2, <1>3, <2>2 DEF RevokeStep, LockSeal, MarkRevoked, CommitRevoke, Committed, Rollback
  <2>3. CASE LedgerStep(t) \/ CancelDeadlocked(t)
    BY <1>2, <2>3 DEF LedgerStep, InsertLedger, CancelDeadlocked, Rollback
  <2>4. QED
    BY <1>1, <1>5, <2>1, <2>2, <2>3 DEF Progress
<1>6. CASE Fault(t) \/ Refuse(t)
  BY <1>2, <1>6 DEF Fault, Refuse, Rollback
<1>7. CASE Receive
  BY <1>7, <1>1 DEF Receive, ReceiveCreate, ReceiveRevoke, ReceiveRead, Goto, PInv, IInv, Shape
<1>8. CASE Tick \/ Finished \/ UNCHANGED vars
  BY <1>8 DEF Tick, Finished, vars
<1>9. QED
  BY <1>4, <1>5, <1>6, <1>7, <1>8 DEF Next

(* Only a COMMIT writes the ledger: one row, of an event that had none, on *)
(* a certificate of the writer's workspace.                                *)
Publishes(t, event) ==
  /\ pc[t] = "commit" /\ pc'[t] = "done"
  /\ PublishLedger(t, event)
  /\ \A e \in ledger : e.event # event
  /\ \E s \in Issued' : /\ seals'[s].ws = req[t].ws
                       /\ event = [type |-> IF t \in Creators THEN "certificate_issued" ELSE "certificate_revoked",
                                   of |-> s]

LEMMA LedgerSteps ==
  ASSUME EInv, \A v \in Revokers : Sharing(v), [Next]_vars
  PROVE  UNCHANGED ledger \/ \E t \in Writers : \E event : Publishes(t, event)
<1>1. ASSUME NEW c \in Creators, CommitCreate(c), c \notin Issued
      PROVE  c \in Writers /\ Publishes(c, [type |-> "certificate_issued", of |-> c])
  <2>1. ~OnRecord("certificate_issued", c)
    BY <1>1 DEF EInv, EventsMatch
  <2>2. c \in Issued' /\ seals'[c].ws = req[c].ws
    BY <1>1, CreateRows DEF EInv
  <2>3. QED
    BY <1>1, <2>1, <2>2 DEF Publishes, CommitCreate, Committed, Answer, OnRecord, Writers, Requests,
                            EInv, PInv, IInv, Shape
<1>2. ASSUME NEW v \in Revokers, CommitRevoke(v), pc[v] = "commit", pc'[v] = "done"
      PROVE  v \in Writers /\ Publishes(v, [type |-> "certificate_revoked", of |-> req[v].seal])
  <2> PICK r : r = req[v].seal
    OBVIOUS
  <2>1. r \in Issued \ Revoked
    BY <1>2 DEF EInv, Guarding
  <2>2. ~OnRecord("certificate_revoked", r)
    BY <2>1 DEF EInv, EventsMatch, Issued
  <2>3. v \notin Creators /\ v \in Writers
    BY StoreAssumption DEF Writers
  <2>4. r \in Issued' /\ seals'[r].ws = req[v].ws
    BY <1>2, <2>1, PlacesStay DEF EInv, Sharing, AtLedger
  <2>5. QED
    BY <1>2, <2>2, <2>3, <2>4 DEF Publishes, CommitRevoke, OnRecord
<1>3. QED
  BY <1>1, <1>2, RevokedSteps DEF EInv

(* What a row says of its certificate's workspace stays.                   *)
LEMMA RowsStay ==
  ASSUME LInv, [Next]_vars
  PROVE  /\ \A e \in ledger : e \in ledger' /\ Recorded(e)' /\ WorkspaceOf(e)' = WorkspaceOf(e)
         /\ \A e \in ledger : e.id \in Nat /\ e.id <= ledgerSeq
<1>1. ledger \subseteq ledger'
  BY LedgerSteps DEF LInv, Publishes, PublishLedger
<1>2. ASSUME NEW e \in ledger PROVE Recorded(e)' /\ WorkspaceOf(e)' = WorkspaceOf(e)
  <2>1. PICK s \in Issued, type \in {"certificate_issued", "certificate_revoked"} : e.event = [type |-> type, of |-> s]
    BY DEF LInv, RowsFollow, Recorded
  <2>2. s \in Issued' /\ seals'[s].ws = seals[s].ws
    BY PlacesStay DEF LInv, EInv
  <2>3. QED
    BY <2>1, <2>2 DEF Recorded, WorkspaceOf
<1>3. QED
  BY <1>1, <1>2 DEF LInv, TInv, TypeOK, LedgerRowsTyped

(* A writer at the ledger keeps its workspace.                             *)
LEMMA WriterStays ==
  ASSUME PInv, [Next]_vars, NEW t \in Writers, pc[t] \in AtLedger, pc'[t] \in AtLedger
  PROVE  req'[t].ws = req[t].ws
<1>1. t \in Requests /\ t \notin Verifiers
  BY StoreAssumption DEF Requests, Writers
<1>2. ASSUME NEW u \in Requests, Progress(u) \/ Fault(u) \/ Refuse(u) PROVE req'[t] = req[t]
  BY <1>1, <1>2
     DEF Progress, CreateStep, CheckIdempotency, LoadWorkspace, CheckUsage, LockWorkspace, ReadLastSeal,
         InsertSeal, ChargeUsage, CommitCreate, RevokeStep, LockSeal, MarkRevoked, CommitRevoke,
         LedgerStep, ReadLedgerHead, InsertLedger, CancelDeadlocked, ReadStep, FindSeal, FindProof, FindPage,
         CheckProof, Committed, Rollback, Answer, Fault, Refuse
<1>3. CASE Receive
  BY <1>1, <1>3 DEF Receive, ReceiveCreate, ReceiveRevoke, ReceiveRead, Goto, AtLedger, PInv, IInv, Shape
<1>4. CASE Tick \/ Finished \/ UNCHANGED vars
  BY <1>4 DEF Tick, Finished, vars
<1>5. QED
  BY <1>2, <1>3, <1>4 DEF Next

(* The head of the ledger is the chain hash of its newest row.             *)
LEMMA HeadIs ==
  ASSUME RowsFollow
  PROVE  IF ledger = {} THEN LedgerHead = Genesis
         ELSE \E h \in ledger : LedgerHead = h.chain /\ \A f \in ledger : f.id <= h.id
BY DEF RowsFollow, LedgerHead

(* What a writer knows of the head stays true until its COMMIT.            *)
LEMMA AtHeadStep ==
  ASSUME LInv, [Next]_vars, NEW t \in Writers
  PROVE  AtHead(t)'
<1> SUFFICES ASSUME pc'[t] \in {"append", "commit"} PROVE AtHead(t)'
  BY DEF AtHead
<1> USE DEF LInv, EInv
<1>1. t \in Requests
  BY DEF Requests, Writers
<1>2. ASSUME pc[t] \in AtLedger PROVE req'[t].ws = req[t].ws
  BY <1>2, WriterStays DEF AtLedger
<1>3. ASSUME UNCHANGED ledger, pc[t] \in AtLedger, NEW e \in ledger PROVE Shuts(t, e)' <=> Shuts(t, e)
  BY <1>2, <1>3, RowsStay DEF Shuts
<1>4. CASE ReadLedgerHead(t)
  <2>1. UNCHANGED ledger /\ pc[t] = "head" /\ pc'[t] = "append" /\ tx'[t].head = LedgerHead
    BY <1>1, <1>4 DEF ReadLedgerHead, Goto, tables, PInv, IInv, Shape, NoTx
  <2>2. QED
    BY <2>1, HeadIs DEF AtHead
<1>5. CASE InsertLedger(t) /\ Goto(t, "append", "commit") /\ tx' = [tx EXCEPT ![t].lid = ledgerSeq']
  <2>1. UNCHANGED ledger /\ ledgerSeq' = ledgerSeq + 1 /\ pc[t] = "append" /\ pc'[t] = "commit"
    BY <1>1, <1>5 DEF InsertLedger, Goto, PInv, IInv, Shape
  <2>2. tx'[t].lid = ledgerSeq + 1 /\ tx'[t].head = tx[t].head
    BY <1>1, <1>5, <2>1 DEF PInv, IInv, Shape, NoTx
  <2>3. ledgerSeq \in Nat /\ \A e \in ledger : e.id \in Nat /\ e.id <= ledgerSeq
    BY RowsStay DEF TInv, TypeOK, LedgerRowsTyped
  <2>4. ASSUME NEW u \in Writers, pc'[u] = "commit", u # t PROVE tx'[u].lid # ledgerSeq + 1
    <3>1. u \in Requests /\ pc[u] = "commit" /\ tx'[u] = tx[u]
      BY <1>1, <1>5, <2>4 DEF Goto, Requests, Writers, PInv, IInv, Shape
    <3>2. tx[u].lid \in 1 .. ledgerSeq
      BY <3>1 DEF TInv, TxTyped
    <3>3. QED
      BY <2>3, <3>1, <3>2
  <2>5. ASSUME NEW e \in ledger, Shuts(t, e)' PROVE \E h \in ledger : tx[t].head = h.chain /\ e.id <= h.id
    BY <1>3, <2>1, <2>5 DEF AtHead, AtLedger
  <2>6. tx[t].head = Genesis \/ \E h \in ledger : tx[t].head = h.chain
    BY <2>1 DEF AtHead
  <2>7. /\ tx'[t].head = Genesis \/ \E h \in ledger : tx'[t].head = h.chain /\ h.id < tx'[t].lid
        /\ \A e \in ledger : e.id # tx'[t].lid
    BY <2>2, <2>3, <2>6
  <2>8. QED
    BY <2>1, <2>2, <2>4, <2>5, <2>7 DEF AtHead
<1>6. CASE pc'[t] = pc[t] /\ tx'[t] = tx[t]
  <2>1. AtHead(t)
    OBVIOUS
  <2>2. \A h \in ledger : h \in ledger'
    BY RowsStay
  <2>3. tx[t].head = Genesis \/ \E h \in ledger' : tx[t].head = h.chain /\ (pc[t] = "commit" => h.id < tx[t].lid)
    BY <1>6, <2>1, <2>2 DEF AtHead
  <2>4. ASSUME pc[t] = "commit", NEW u \in Writers, pc'[u] = "commit", tx'[u].lid = tx[t].lid PROVE u = t
    <3>1. u \in Requests
      BY DEF Requests, Writers
    <3>2. CASE pc'[u] = pc[u] /\ tx'[u] = tx[u]
      BY <2>1, <2>4, <3>2 DEF AtHead
    <3>3. CASE InsertLedger(u) /\ Goto(u, "append", "commit") /\ tx' = [tx EXCEPT ![u].lid = ledgerSeq']
      <4>1. tx'[u].lid = ledgerSeq + 1 /\ ledgerSeq \in Nat
        BY <3>1, <3>3 DEF InsertLedger, PInv, IInv, Shape, NoTx, TInv, TypeOK, LedgerRowsTyped
      <4>2. tx[t].lid \in 1 .. ledgerSeq
        BY <2>4 DEF TInv, TxTyped, Requests, Writers
      <4>3. QED
        BY <2>4, <4>1, <4>2
    <3>4. ~ReadLedgerHead(u)
      BY <2>4, <3>1 DEF ReadLedgerHead, Goto, PInv, IInv, Shape
    <3>5. QED
      BY <2>4, <3>2, <3>3, <3>4, HeadMoves
  <2>5. CASE UNCHANGED ledger
    <3>1. \A e \in ledger' : Shuts(t, e)' => \E h \in ledger' : tx[t].head = h.chain /\ e.id <= h.id
      BY <1>3, <1>6, <2>1, <2>5 DEF AtHead, AtLedger
    <3>2. pc[t] = "commit" => \A e \in ledger' : e.id # tx[t].lid
      BY <2>1, <2>5 DEF AtHead
    <3>3. QED
      BY <1>6, <2>3, <2>4, <3>1, <3>2 DEF AtHead
  <2>6. ASSUME NEW u \in Writers, NEW event, Publishes(u, event) PROVE AtHead(t)'
    <3> PICK row : row = LedgerRow(tx[u].lid, req[u].ref, event, tx[u].head)
      OBVIOUS
    <3>1. ledger' = ledger \cup {row} /\ row.id = tx[u].lid /\ row.event = event /\ u # t /\ pc[u] = "commit"
      BY <1>6, <2>6 DEF Publishes, PublishLedger, LedgerRow
    <3>2. ~Shuts(t, row)'
      <4>1. PICK s \in Issued' : /\ seals'[s].ws = req[u].ws
                                /\ event = [type |-> IF u \in Creators THEN "certificate_issued"
                                                                      ELSE "certificate_revoked", of |-> s]
        BY <2>6 DEF Publishes
      <4>2. WorkspaceOf(row)' = req[u].ws
        BY <3>1, <4>1 DEF WorkspaceOf
      <4>3. req'[t].ws = req[t].ws /\ pc[t] \in AtLedger /\ pc[u] \in AtLedger
        BY <1>2, <1>6, <3>1 DEF AtLedger
      <4>4. req[t].ws = req[u].ws => t \notin Creators /\ u \notin Creators
        BY <3>1, <4>3, OneAtLedger DEF Writers
      <4>5. QED
        BY <3>1, <4>1, <4>2, <4>3, <4>4 DEF Shuts
    <3>3. ASSUME NEW e \in ledger', Shuts(t, e)' PROVE \E h \in ledger' : tx[t].head = h.chain /\ e.id <= h.id
      <4>1. e \in ledger
        BY <3>1, <3>2, <3>3
      <4>2. Shuts(t, e)
        BY <1>2, <1>6, <3>3, <4>1, RowsStay DEF Shuts, AtLedger
      <4>3. QED
        BY <1>6, <2>1, <2>2, <4>1, <4>2 DEF AtHead
    <3>4. pc[t] = "commit" => \A e \in ledger' : e.id # tx[t].lid
      BY <2>1, <3>1 DEF AtHead
    <3>5. QED
      BY <1>6, <2>3, <2>4, <3>3, <3>4 DEF AtHead
  <2>7. QED
    BY <2>5, <2>6, LedgerSteps
<1>7. QED
  BY <1>4, <1>5, <1>6, HeadMoves

(* What a COMMIT adds continues the ledger, and no row it is serialised    *)
(* with follows the same one: that head was no older than any of them.     *)
LEMMA AppendFollows ==
  ASSUME LInv, [Next]_vars, NEW t \in Writers, NEW event, Publishes(t, event)
  PROVE  RowsFollow' /\ LedgerLinear'
<1> PICK row : row = LedgerRow(tx[t].lid, req[t].ref, event, tx[t].head)
  OBVIOUS
<1>1. /\ row.id = tx[t].lid /\ row.prev = tx[t].head /\ row.event = event
      /\ row.chain = Sha256(<<row.prev, row.event, row.ref>>)
      /\ ledger' = ledger \cup {row} /\ row \notin ledger
  BY DEF LedgerRow, Publishes, PublishLedger
<1>2. /\ AtHead(t) /\ pc[t] = "commit" /\ row.id \in Nat
      /\ \A e \in ledger : e.id \in Nat /\ e.id # row.id
  BY <1>1, RowsStay DEF LInv, Publishes, AtHead, TInv, TxTyped, Requests, Writers
<1>3. PICK s \in Issued' : /\ seals'[s].ws = req[t].ws
                          /\ event = [type |-> IF t \in Creators THEN "certificate_issued"
                                                                ELSE "certificate_revoked", of |-> s]
  BY DEF Publishes
<1>4. WorkspaceOf(row)' = req[t].ws /\ Recorded(row)'
  BY <1>1, <1>3 DEF WorkspaceOf, Recorded
<1>5. RowsFollow'
  <2>1. \A e, f \in ledger' : e.id = f.id => e = f
    BY <1>1, <1>2 DEF LInv, RowsFollow
  <2>2. \A e \in ledger' : Recorded(e)' /\ e.chain = Sha256(<<e.prev, e.event, e.ref>>)
    BY <1>1, <1>4, RowsStay DEF LInv, RowsFollow
  <2>3. \A e \in ledger' : e.prev = Genesis \/ \E f \in ledger' : f.id < e.id /\ e.prev = f.chain
    BY <1>1, <1>2 DEF LInv, RowsFollow, AtHead
  <2>4. \E e \in ledger' : \A f \in ledger' : f.id <= e.id
    <3>1. CASE ledger = {}
      BY <1>1, <1>2, <3>1
    <3>2. CASE ledger # {}
      <4>1. PICK h \in ledger : \A f \in ledger : f.id <= h.id
        BY <3>2 DEF LInv, RowsFollow
      <4>2. CASE row.id <= h.id
        BY <1>1, <4>1, <4>2
      <4>3. CASE ~(row.id <= h.id)
        <5>1. \A f \in ledger' : f.id <= row.id
          BY <1>1, <1>2, <4>1, <4>3
        <5>2. QED
          BY <1>1, <5>1
      <4>4. QED
        BY <4>2, <4>3
    <3>3. QED
      BY <3>1, <3>2
  <2>5. QED
    BY <2>1, <2>2, <2>3, <2>4 DEF RowsFollow
<1>6. ASSUME NEW e \in ledger, Shuts(t, e) PROVE e.prev # row.prev
  <2>1. PICK h \in ledger : tx[t].head = h.chain /\ e.id <= h.id
    BY <1>2, <1>6 DEF AtHead
  <2>2. h.chain = Sha256(<<h.prev, h.event, h.ref>>)
    BY DEF LInv, RowsFollow
  <2>3. CASE e.prev = Genesis
    BY <1>1, <2>1, <2>2, <2>3 DEF Genesis, Sha256
  <2>4. CASE e.prev # Genesis
    <3>1. PICK f \in ledger : f.id < e.id /\ e.prev = f.chain
      BY <2>4 DEF LInv, RowsFollow
    <3>2. f.chain = Sha256(<<f.prev, f.event, f.ref>>)
      BY DEF LInv, RowsFollow
    <3>3. f.chain = h.chain => f.event = h.event
      BY <2>2, <3>2 DEF Sha256
    <3>4. f.chain = h.chain => f = h
      BY <3>3 DEF LInv, EInv, EventsMatch
    <3>5. f # h
      BY <1>2, <2>1, <3>1
    <3>6. QED
      BY <1>1, <2>1, <3>1, <3>4, <3>5
  <2>5. QED
    BY <2>3, <2>4
<1>7. ASSUME NEW e \in ledger, e.prev = row.prev
      PROVE  WorkspaceOf(e)' # WorkspaceOf(row)' \/ {e.event.type, row.event.type} = {"certificate_revoked"}
  <2>1. WorkspaceOf(e)' = WorkspaceOf(e) /\ Recorded(e)
    BY RowsStay DEF LInv, RowsFollow
  <2>2. e.event.type \in {"certificate_issued", "certificate_revoked"}
    BY <2>1 DEF Recorded
  <2>3. ~Shuts(t, e)
    BY <1>6, <1>7
  <2>4. QED
    BY <1>1, <1>3, <1>4, <2>1, <2>2, <2>3 DEF Shuts
<1>8. ASSUME NEW e \in ledger, NEW f \in ledger, e # f, e.prev = f.prev
      PROVE  WorkspaceOf(e)' # WorkspaceOf(f)' \/ {e.event.type, f.event.type} = {"certificate_revoked"}
  BY <1>8, RowsStay DEF LInv, LedgerLinear
<1>9. LedgerLinear'
  BY <1>1, <1>7, <1>8 DEF LedgerLinear
<1>10. QED
  BY <1>5, <1>9

LEMMA NextKeepsLInv == ASSUME LInv, [Next]_vars PROVE LInv'
<1>1. TInv' /\ EInv'
  BY NextKeepsTInv, NextKeepsEInv DEF LInv
<1>2. Alone' /\ \A v \in Revokers : Sharing(v)'
  BY AloneStep, SharingStep DEF LInv, EInv
<1>3. \A t \in Writers : AtHead(t)'
  BY AtHeadStep
<1>4. RowsFollow' /\ LedgerLinear'
  <2>1. CASE UNCHANGED ledger
    <3>1. \A e \in ledger : Recorded(e)' /\ WorkspaceOf(e)' = WorkspaceOf(e)
      BY RowsStay
    <3>2. RowsFollow'
      BY <2>1, <3>1 DEF LInv, RowsFollow
    <3>3. LedgerLinear'
      BY <2>1, <3>1 DEF LInv, LedgerLinear
    <3>4. QED
      BY <3>2, <3>3
  <2>2. QED
    BY <2>1, LedgerSteps, AppendFollows DEF LInv
<1>5. QED
  BY <1>1, <1>2, <1>3, <1>4 DEF LInv

LEMMA InitLInv == StoreInit => LInv
<1> SUFFICES ASSUME StoreInit PROVE LInv
  OBVIOUS
<1>1. ledger = {} /\ locks = {} /\ \A t \in Requests : pc[t] = "idle"
  BY DEF StoreInit
<1>2. Revokers \subseteq Requests /\ Writers \subseteq Requests
  BY DEF Requests, Writers
<1>3. QED
  BY <1>1, <1>2, InitTInv, InitEInv
     DEF LInv, Alone, Sharing, AtLedger, RowsFollow, LedgerLinear, AtHead

(* Whatever the workspaces and the requests: of the rows of one workspace  *)
(* in evidence_ledger only two revocations have one predecessor, although  *)
(* the head is read and the row inserted by two statements, next to those  *)
(* of other workspaces (seal-service.ts:411-413, evidence-ledger.ts:43).   *)
THEOREM LinearTheorem == Spec => []LedgerLinear
<1>1. LInv /\ [Next]_vars => LInv'
  BY NextKeepsLInv
<1>2. LInv => LedgerLinear
  BY DEF LInv
<1>3. QED
  BY <1>1, <1>2, InitLInv, PTL DEF Spec

-----------------------------------------------------------------------------
(* The operator routes.  They change nothing that the chain is made of.    *)
LEMMA StatusStep ==
  ASSUME IInv, NEW s \in Creators, NEW status \in {"sealed", "revoked"}, SetStatus(s, status)
  PROVE  /\ Issued' = Issued /\ DOMAIN seals' = Creators
         /\ \A x \in Issued :
              /\ DOMAIN seals'[x] = DOMAIN seals[x]
              /\ seals'[x].ws = seals[x].ws /\ seals'[x].seq = seals[x].seq
              /\ seals'[x].prevId = seals[x].prevId /\ seals'[x].prevHash = seals[x].prevHash
              /\ seals'[x].payload = seals[x].payload /\ seals'[x].hash = seals[x].hash
              /\ seals'[x].public = seals[x].public
         /\ UNCHANGED <<locks, pc, req, tx, reply>>
<1>1. s \in Issued /\ seals' = [seals EXCEPT ![s].status = status]
  BY DEF SetStatus
<1>2. \A x \in Creators : x # s => seals'[x] = seals[x]
  BY <1>1 DEF IInv, Shape
<1>3. seals'[s] = [seals[s] EXCEPT !.status = status]
  BY <1>1 DEF IInv, Shape, Issued
<1>4. /\ DOMAIN seals'[s] = DOMAIN seals[s] /\ seals'[s].status = status
      /\ seals'[s].ws = seals[s].ws /\ seals'[s].seq = seals[s].seq
      /\ seals'[s].prevId = seals[s].prevId /\ seals'[s].prevHash = seals[s].prevHash
      /\ seals'[s].payload = seals[s].payload /\ seals'[s].hash = seals[s].hash
      /\ seals'[s].public = seals[s].public
  BY <1>1, <1>3 DEF IInv, Shape
<1>5. Issued' = Issued
  BY <1>1, <1>2, <1>4 DEF Issued
<1>6. QED
  BY <1>1, <1>2, <1>4, <1>5 DEF SetStatus, IInv, Shape, Issued

LEMMA OperatorKeepsIInv == ASSUME IInv, OperatorNext PROVE IInv'
<1> PICK s \in Creators, status \in {"sealed", "revoked"} : SetStatus(s, status)
  BY DEF OperatorNext, OperatorVerify, OperatorRevoke
<1>1. /\ Issued' = Issued /\ DOMAIN seals' = Creators
      /\ \A x \in Issued :
           /\ DOMAIN seals'[x] = DOMAIN seals[x]
           /\ seals'[x].ws = seals[x].ws /\ seals'[x].seq = seals[x].seq
           /\ seals'[x].prevId = seals[x].prevId /\ seals'[x].prevHash = seals[x].prevHash
           /\ seals'[x].hash = seals[x].hash
      /\ UNCHANGED <<locks, pc, req, tx, reply>>
  BY StatusStep
<1>2. \A w : IssuedIn(w)' = IssuedIn(w)
  BY <1>1 DEF IssuedIn
<1>3. \A x, w : IsLastSeal(x, w)' <=> IsLastSeal(x, w)
  BY <1>1, <1>2 DEF IsLastSeal, IssuedIn
<1>4. Shape'
  BY <1>1 DEF IInv, Shape
<1>5. Exclusive' /\ NoSequenceCollision'
  BY <1>1 DEF IInv, Exclusive, NoSequenceCollision
<1>6. HasLast'
  BY <1>1, <1>2, <1>3 DEF IInv, HasLast
<1>7. ChainIntact'
  BY <1>1, <1>2 DEF IInv, ChainIntact, IssuedIn
<1>8. ASSUME NEW t \in Requests PROVE Local(t)'
  <2>1. Local(t)
    BY DEF IInv
  <2>2. t \in Creators => LocalCreate(t)'
    <3>1. Linked(t) => Linked(t)'
      BY <1>1, <1>2, <1>3 DEF Linked, IsLastSeal, IssuedIn
    <3>2. QED
      BY <1>1, <2>1, <3>1 DEF Local, LocalCreate, Holding, Fresh
  <2>3. t \in Revokers => LocalRevoke(t)'
    BY <1>1, <2>1 DEF Local, LocalRevoke
  <2>4. QED
    BY <2>2, <2>3 DEF Local
<1>9. QED
  BY <1>4, <1>5, <1>6, <1>7, <1>8 DEF IInv

(* What a step of the service leaves of a certificate, whatever operators  *)
(* did to its status before.                                               *)
LEMMA ServiceKeepsBody ==
  ASSUME IInv, Next, NEW s \in Issued
  PROVE  /\ s \in Issued'
         /\ seals'[s].payload = seals[s].payload /\ seals'[s].hash = seals[s].hash
         /\ seals'[s].seq = seals[s].seq /\ seals'[s].prevId = seals[s].prevId
         /\ seals'[s].public => seals[s].public
<1>1. CASE UNCHANGED seals
  BY <1>1 DEF Issued
<1>2. ASSUME NEW c \in Creators, CommitCreate(c) PROVE seals'[s] = seals[s] /\ s \in Issued'
  <2>1. c \in Requests /\ pc[c] = "commit" /\ seals' = [seals EXCEPT ![c] = SealOf(c)]
    BY <1>2 DEF CommitCreate, Committed, Requests
  <2>2. c \notin Issued
    BY <2>1 DEF IInv, Local, LocalCreate
  <2>3. QED
    BY <2>1, <2>2 DEF IInv, Shape, Issued
<1>3. ASSUME NEW v \in Revokers, CommitRevoke(v)
      PROVE  \/ seals'[s] = seals[s] /\ s \in Issued'
             \/ seals'[s] = [seals[s] EXCEPT !.status = "revoked", !.public = FALSE]
  <2> PICK r : r = req[v].seal
    OBVIOUS
  <2>1. seals' = [seals EXCEPT ![r].status = "revoked", ![r].public = FALSE]
    BY <1>3 DEF CommitRevoke
  <2>2. QED
    BY <2>1 DEF IInv, Shape, Issued
<1>4. CASE seals'[s] = [seals[s] EXCEPT !.status = "revoked", !.public = FALSE]
  <2>1. DOMAIN seals[s] = {"ws", "payload", "hash", "prevId", "prevHash",
                           "seq", "status", "public", "key"}
    BY DEF IInv, Shape
  <2>2. /\ seals'[s].status = "revoked" /\ seals'[s].public = FALSE
        /\ seals'[s].payload = seals[s].payload /\ seals'[s].hash = seals[s].hash
        /\ seals'[s].seq = seals[s].seq /\ seals'[s].prevId = seals[s].prevId
    BY <1>4, <2>1
  <2>3. QED
    BY <2>2 DEF Issued
<1>5. QED
  BY <1>1, <1>2, <1>3, <1>4, RowSteps

(* The chain invariant survives the operators of the Evidence room.        *)
THEOREM RoomIInv == RoomSpec => []IInv
<1>1. IInv /\ [RoomNext]_vars => IInv'
  <2> SUFFICES ASSUME IInv, [RoomNext]_vars PROVE IInv'
    OBVIOUS
  <2>1. CASE OperatorNext
    BY <2>1, OperatorKeepsIInv
  <2>2. CASE [Next]_vars
    BY <2>2, NextKeepsIInv
  <2>3. QED
    BY <2>1, <2>2 DEF RoomNext
<1>2. QED
  BY <1>1, InitIInv, PTL DEF RoomSpec

(* The hash chains stay intact next to the operators' routes, which write  *)
(* the seals table in single statements (evidence.ts:844-868).             *)
THEOREM RoomChainTheorem == RoomSpec => []ChainIntact
<1>1. IInv => ChainIntact
  BY DEF IInv
<1>2. QED
  BY <1>1, RoomIInv, PTL

(* Whatever operators do to its status, the body of a certificate and its  *)
(* place in the chain never change, and a proof that a customer's          *)
(* revocation took offline is never published again (evidence.ts:844-868). *)
THEOREM RoomTheorem == RoomSpec => RoomKeepsBody
<1> DEFINE Kept == \A s \in Issued :
                     /\ s \in Issued'
                     /\ seals'[s].payload = seals[s].payload /\ seals'[s].hash = seals[s].hash
                     /\ seals'[s].seq = seals[s].seq /\ seals'[s].prevId = seals[s].prevId
                     /\ seals'[s].public => seals[s].public
<1>1. IInv /\ [RoomNext]_vars => [Kept]_seals
  <2> SUFFICES ASSUME IInv, [RoomNext]_vars PROVE [Kept]_seals
    OBVIOUS
  <2>1. CASE OperatorNext
    <3> PICK s \in Creators, status \in {"sealed", "revoked"} : SetStatus(s, status)
      BY <2>1 DEF OperatorNext, OperatorVerify, OperatorRevoke
    <3>1. QED
      BY StatusStep
  <2>2. CASE Next
    BY <2>2, ServiceKeepsBody
  <2>3. CASE UNCHANGED vars
    BY <2>3 DEF vars
  <2>4. QED
    BY <2>1, <2>2, <2>3 DEF RoomNext
<1>2. QED
  BY <1>1, RoomIInv, PTL DEF RoomSpec, RoomKeepsBody
=============================================================================
