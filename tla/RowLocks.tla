------------------------------ MODULE RowLocks ------------------------------
(***************************************************************************)
(* PostgreSQL row locks, as the handlers of server/api use them.           *)
(*                                                                         *)
(* The database is not part of the repository; what is modelled is what    *)
(* the SQL statements of the handlers rely on: a statement waits while     *)
(* another transaction holds a conflicting lock on the row it names, and a *)
(* transaction keeps its locks until COMMIT or ROLLBACK.                   *)
(*                                                                         *)
(*   "KEY SHARE"      a foreign-key check of an INSERT, on the parent row  *)
(*   "NO KEY UPDATE"  an UPDATE of the row                                 *)
(*   "UPDATE"         SELECT ... FOR UPDATE; also the insertion of a key   *)
(*                    into a unique index, which a second insertion of the *)
(*                    same key waits for                                   *)
(***************************************************************************)
EXTENDS TLAPS

VARIABLE locks      \* the granted locks: a set of [owner, row, mode]

LockMode == {"KEY SHARE", "NO KEY UPDATE", "UPDATE"}

(* The modes that a lock of mode m cannot be granted next to.              *)
ConflictsWith(m) ==
  CASE m = "KEY SHARE"     -> {"UPDATE"}
    [] m = "NO KEY UPDATE" -> {"NO KEY UPDATE", "UPDATE"}
    [] m = "UPDATE"        -> LockMode

Want(row, mode) == [row |-> row, mode |-> mode]

(* The transactions that t must wait for before it gets what it wants.     *)
Blockers(t, wants) ==
  {l.owner : l \in {k \in locks :
                      /\ k.owner # t
                      /\ \E w \in wants : /\ k.row = w.row
                                          /\ k.mode \in ConflictsWith(w.mode)}}

Acquire(t, wants) ==
  /\ Blockers(t, wants) = {}
  /\ locks' = locks \cup {[owner |-> t, row |-> w.row, mode |-> w.mode] : w \in wants}

(* COMMIT and ROLLBACK.                                                    *)
Release(t) == locks' = {l \in locks : l.owner # t}

HeldBy(t) == {l \in locks : l.owner = t}

-----------------------------------------------------------------------------
(* At most one transaction has a row locked FOR UPDATE.                    *)
Exclusive ==
  \A k, l \in locks :
    k.row = l.row /\ k.mode = "UPDATE" /\ l.mode = "UPDATE" => k.owner = l.owner

(* Acquiring locks keeps the exclusive ones exclusive, and what it acquires*)
(* and what others hold is held afterwards.                                *)
LEMMA AcquireExclusive ==
  ASSUME NEW t, NEW wants, Exclusive, Acquire(t, wants)
  PROVE  /\ Exclusive'
         /\ \A l \in locks : l \in locks'
         /\ \A w \in wants : [owner |-> t, row |-> w.row, mode |-> w.mode] \in locks'
<1>1. \A k \in locks : \A w \in wants :
        k.row = w.row /\ k.mode = "UPDATE" /\ w.mode = "UPDATE" => k.owner = t
  BY DEF Acquire, Blockers, ConflictsWith, LockMode
<1>2. ASSUME NEW k \in locks', NEW l \in locks',
             k.row = l.row, k.mode = "UPDATE", l.mode = "UPDATE"
      PROVE  k.owner = l.owner
  <2> DEFINE New == {[owner |-> t, row |-> w.row, mode |-> w.mode] : w \in wants}
  <2>1. locks' = locks \cup New
    BY DEF Acquire
  <2>2. CASE k \in locks /\ l \in locks
    BY <1>2, <2>2 DEF Exclusive
  <2>3. CASE k \in New /\ l \in New
    BY <2>3
  <2>4. CASE k \in locks /\ l \in New
    BY <1>1, <1>2, <2>4
  <2>5. CASE k \in New /\ l \in locks
    BY <1>1, <1>2, <2>5
  <2>6. QED
    BY <2>1, <2>2, <2>3, <2>4, <2>5
<1>3. QED
  BY <1>2 DEF Exclusive, Acquire

(* Ending a transaction takes only its own locks away.                     *)
LEMMA ReleaseExclusive ==
  ASSUME NEW t, Exclusive, Release(t)
  PROVE  /\ Exclusive'
         /\ \A l \in locks : l.owner # t => l \in locks'
BY DEF Exclusive, Release

=============================================================================
