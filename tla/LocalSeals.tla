------------------------------ MODULE LocalSeals ------------------------------
(***************************************************************************)
(* The local seal store (server/seal-api.ts): a chain of seals in an       *)
(* append-only journal, with a copy of it in memory.  A request reads the  *)
(* last chain hash, appends its seal to the journal and then changes the   *)
(* copy; requests overlap at the append.  The process may crash, an append *)
(* may fail, and both may leave a part of a line in the journal.           *)
(*                                                                         *)
(* A chain hash is the sequence of the seals it was computed over, "sha256"*)
(* being free of collisions; usage tiers never refuse (checkUsage).  The   *)
(* proofs, the list, the usage and the hash lookup read the copy.          *)
(***************************************************************************)
EXTENDS Integers, Sequences, FiniteSets

CONSTANTS
  Sealings,     \* requests; each makes one seal, under a sealId of its own
  SpaceOf,      \* its workspace
  FreeSeals,    \* seals of a workspace that cost nothing (100)
  DefaultList, MostList,   \* limits of a list (50, 200)
  MaxFaults     \* crashes and failing appends (bound)

ASSUME LocalSealsAssumption ==
  /\ {FreeSeals, MaxFaults} \subseteq Nat /\ {DefaultList, MostList} \subseteq Nat \ {0} /\ DefaultList <= MostList
  /\ "part" \notin Sealings

VARIABLES
  journal,      \* the lines of the file, each the pieces that were written to it
  lineEnded,    \* the last line has its newline
  copy,         \* sealStore, workspaceUsage and lastHash
  sealing,      \* for each request: how far it has come, its chain hash and the tier it is told
  sealServer,   \* "up", "down", or "stuck": it cannot read the journal
  faults

localVars == <<journal, lineEnded, copy, sealing, sealServer, faults>>

Spaces == {SpaceOf[q] : q \in Sealings}
Genesis == <<>>
EmptyCopy == [store |-> <<>>, usage |-> [w \in Spaces |-> 0], last |-> Genesis]
Part == <<"part">>       \* a piece of a line that is no record
NewSeal == [at |-> "new", chain |-> Genesis, tier |-> "none"]

LocalInit ==
  /\ journal = <<>> /\ lineEnded = TRUE
  /\ copy = EmptyCopy
  /\ sealing = [q \in Sealings |-> NewSeal]
  /\ sealServer = "up" /\ faults = 0

-----------------------------------------------------------------------------
(* A line that holds one record and nothing else is read back.             *)
Readable(line) == Len(line) = 1 /\ line[1] # Part

(* appendFile: a piece begins a line unless the last one has not ended.    *)
Appended(piece) ==
  IF lineEnded THEN Append(journal, <<piece>>)
  ELSE [journal EXCEPT ![Len(journal)] = Append(@, piece)]

Kept(state, q, chain) ==
  [store |-> Append(state.store, q), usage |-> [state.usage EXCEPT ![SpaceOf[q]] = @ + 1], last |-> chain]

(* checkUsage *)
TierAt(count) == IF count < FreeSeals THEN "free" ELSE "growth"

(* Mutant: the last hash moves on before the seal is in the journal.       *)
BeginSealMovingOn(q) ==
  /\ sealServer = "up" /\ sealing[q].at = "new"
  /\ sealing' = [sealing EXCEPT ![q] = [at |-> "appending", chain |-> Append(copy.last, q),
                                     tier |-> TierAt(copy.usage[SpaceOf[q]])]]
  /\ copy' = [copy EXCEPT !.last = Append(copy.last, q)]
  /\ UNCHANGED <<journal, lineEnded, sealServer, faults>>

(* POST /api/v1/seal, up to the append.                                    *)
BeginSeal(q) ==
  /\ sealServer = "up" /\ sealing[q].at = "new"
  /\ sealing' = [sealing EXCEPT ![q] = [at |-> "appending", chain |-> Append(copy.last, q),
                                     tier |-> TierAt(copy.usage[SpaceOf[q]])]]
  /\ UNCHANGED <<journal, lineEnded, copy, sealServer, faults>>

(* POST /api/v1/seals does the same.                                       *)
BeginSealPlural(q) == BeginSeal(q)

(* The line reaches the file, before the request hears of it.              *)
Reaches(q) ==
  /\ sealing[q].at = "appending"
  /\ journal' = Appended(sealing[q].chain) /\ lineEnded' = TRUE
  /\ sealing' = [sealing EXCEPT ![q].at = "appended"]
  /\ UNCHANGED <<copy, sealServer, faults>>

(* ... after the append.                                                   *)
EndSeal(q) ==
  /\ sealing[q].at = "appended"
  /\ copy' = Kept(copy, q, sealing[q].chain)
  /\ sealing' = [sealing EXCEPT ![q].at = "answered"]
  /\ UNCHANGED <<journal, lineEnded, sealServer, faults>>

(* What an append that does not finish leaves: nothing, a part of the      *)
(* line, or all of it but the newline.                                     *)
TornAppend(q) ==
  \/ UNCHANGED <<journal, lineEnded>>
  \/ /\ journal' \in {Appended(Part), Appended(sealing[q].chain)}
     /\ lineEnded' = FALSE

AppendFails(q) ==
  /\ sealing[q].at = "appending" /\ faults < MaxFaults
  /\ TornAppend(q)
  /\ sealing' = [sealing EXCEPT ![q].at = "failed"]
  /\ faults' = faults + 1
  /\ UNCHANGED <<copy, sealServer>>

Crash ==
  /\ sealServer = "up" /\ faults < MaxFaults
  /\ \/ UNCHANGED <<journal, lineEnded>>
     \/ \E q \in Sealings : sealing[q].at = "appending" /\ TornAppend(q)
  /\ sealing' = [q \in Sealings |-> IF sealing[q].at \in {"appending", "appended"}
                                    THEN [sealing[q] EXCEPT !.at = "failed"] ELSE sealing[q]]
  /\ copy' = EmptyCopy /\ sealServer' = "down" /\ faults' = faults + 1

Counted(ids) == [w \in Spaces |-> Cardinality({i \in 1 .. Len(ids) : SpaceOf[ids[i]] = w})]

(* Mutant: lines that cannot be read are passed over.                      *)
RestartPassingOver ==
  LET good == SelectSeq(journal, Readable)
      ids == [i \in 1 .. Len(good) |-> good[i][1][Len(good[i][1])]]
  IN /\ sealServer = "down"
     /\ sealServer' = "up"
     /\ copy' = [store |-> ids, usage |-> Counted(ids),
                 last |-> IF good = <<>> THEN Genesis ELSE good[Len(good)][1]]
     /\ UNCHANGED <<journal, lineEnded, sealing, faults>>

(* loadState: the copy is what the journal says, unless a line cannot be   *)
(* read: then the server does not start.                                   *)
Restart ==
  LET ids == [i \in 1 .. Len(journal) |-> journal[i][1][Len(journal[i][1])]]
  IN /\ sealServer = "down"
     /\ IF \A i \in 1 .. Len(journal) : Readable(journal[i])
        THEN /\ sealServer' = "up"
             /\ copy' = [store |-> ids, usage |-> Counted(ids),
                         last |-> IF journal = <<>> THEN Genesis ELSE journal[Len(journal)][1]]
        ELSE sealServer' = "stuck" /\ UNCHANGED copy
     /\ UNCHANGED <<journal, lineEnded, sealing, faults>>

-----------------------------------------------------------------------------
(* clampLimit; 0 stands for a limit that is missing or no number.          *)
ListLimit(raw) == IF raw <= 0 THEN DefaultList ELSE IF raw > MostList THEN MostList ELSE raw

(* The seals of the copy, and those of a workspace in their order.         *)
Stored == {copy.store[i] : i \in DOMAIN copy.store}

OfSpace(w) ==
  LET own == {i \in DOMAIN copy.store : SpaceOf[copy.store[i]] = w}
      Rank(i) == Cardinality({j \in own : j <= i})
  IN [n \in 1 .. Cardinality(own) |-> copy.store[CHOOSE i \in own : Rank(i) = n]]

(* Mutant: the first seals are listed in place of the last.                *)
FirstSeals(w, raw) ==
  LET seals == OfSpace(w)
      limit == ListLimit(raw)
  IN SubSeq(seals, 1, IF Len(seals) < limit THEN Len(seals) ELSE limit)

(* GET /api/v1/seals                                                       *)
SealList(w, raw) ==
  LET seals == OfSpace(w)
      limit == ListLimit(raw)
  IN SubSeq(seals, IF Len(seals) < limit THEN 1 ELSE Len(seals) - limit + 1, Len(seals))

(* Mutant: the seal that a workspace reaches its limit with is not billed. *)
UsageFromLimit(w) ==
  LET count == copy.usage[w]
  IN [total |-> count, billable |-> IF count > FreeSeals + 1 THEN count - FreeSeals - 1 ELSE 0,
      remaining |-> IF count < FreeSeals THEN FreeSeals - count ELSE 0]

(* GET /api/v1/usage                                                       *)
UsageAnswer(w) ==
  LET count == copy.usage[w]
  IN [total |-> count, billable |-> IF count > FreeSeals THEN count - FreeSeals ELSE 0,
      remaining |-> IF count < FreeSeals THEN FreeSeals - count ELSE 0]

(* GET /api/v1/verify/:hash, for the chain hash of a seal: the seals that  *)
(* are found; a payload hash finds its own seal in the same way.           *)
FoundBy(chain) == {q \in Stored : sealing[q].chain = chain}

(* GET /proof/:sealId and GET /api/v1/proofs/:proofId: the payload in the  *)
(* copy is the one that was hashed, so the recomputed hash is the same.    *)
ProofPageOf(q) == IF q \in Stored THEN "PASS" ELSE "404"
ProofOf(q) == ProofPageOf(q)

LocalNext ==
  \/ \E q \in Sealings : BeginSeal(q) \/ BeginSealPlural(q) \/ Reaches(q) \/ EndSeal(q) \/ AppendFails(q)
  \/ Crash \/ Restart

LocalSpec == LocalInit /\ [][LocalNext]_localVars

-----------------------------------------------------------------------------
Lines == 1 .. Len(journal)

(* Every seal of the journal continues the chain of one written before it, *)
(* also after appends that failed and across restarts; overlapping         *)
(* requests make it a tree (seal-api.ts:188-207).                          *)
ContinuesAnEarlierOne ==
  \A i \in Lines : Readable(journal[i]) =>
    LET chain == journal[i][1]
        previous == SubSeq(chain, 1, Len(chain) - 1)
    IN previous = Genesis \/ \E j \in 1 .. i - 1 : previous \in {journal[j][n] : n \in 1 .. Len(journal[j])}

(* Every answered seal is in the journal, though perhaps in a line that    *)
(* cannot be read any more; the server that is up counts it once for its   *)
(* workspace, has a proof of it and finds it, and nothing else, by its     *)
(* chain hash, across restarts (seal-api.ts:91-94,121-144,224,339).        *)
AnsweredSealsAreKept ==
  \A q \in Sealings : sealing[q].at = "answered" =>
    /\ \E i \in Lines : \E n \in 1 .. Len(journal[i]) : journal[i][n] = sealing[q].chain
    /\ sealServer = "up" => ProofOf(q) = "PASS" /\ FoundBy(sealing[q].chain) = {q}

UsageCountsStore ==
  sealServer = "up" => copy.usage = Counted(copy.store) /\ Cardinality(Stored) = Len(copy.store)

(* A list ends with the newest seal the server holds and leaves none out   *)
(* unless it is full; what was answered as beyond the free seals is        *)
(* billed, though overlapping requests are told "free" for more seals than *)
(* are (seal-api.ts:96,297-337).                                           *)
ListsAndBillsAgree ==
  sealServer = "up" => \A w \in Spaces :
    /\ \A raw \in -1 .. MostList + 1 :
         LET list == SealList(w, raw)
         IN /\ Len(list) = ListLimit(raw) \/ Len(list) = UsageAnswer(w).total
            /\ UsageAnswer(w).total > 0 => list[Len(list)] = OfSpace(w)[Len(OfSpace(w))]
    /\ UsageAnswer(w).billable >=
         Cardinality({q \in Sealings : SpaceOf[q] = w /\ sealing[q].at = "answered" /\ sealing[q].tier = "growth"})

(* The journal keeps what was answered; lists and bills follow it.         *)
LocalSealsSound ==
  ContinuesAnEarlierOne /\ AnsweredSealsAreKept /\ UsageCountsStore /\ ListsAndBillsAgree
=============================================================================
