--------------------------- MODULE ServicesProofs ---------------------------
(***************************************************************************)
(* The services that share no state: what NodesKept, PhaseHonest,          *)
(* DeskKept, StationTruthful, LocalChainKept, SeedSound and CeoKept say    *)
(* holds for every registry, fleet, backend, table, station, journal, list *)
(* of booting servers, set of requests and of callers, whatever the        *)
(* bounds.  The inductive invariants are those of ServiceInvariants and    *)
(* ServerInvariants, and that of the lane agents, which is first.          *)
(***************************************************************************)
EXTENDS MCServices, ServiceInvariants, ServerInvariants

-----------------------------------------------------------------------------
(***************************************************************************)
(* The lane agents: their lists, commands and recordings (bin/*.py).       *)
(***************************************************************************)

LaneIds == {wanted[c].id : c \in LaneCalls}
LaneItems == [id : LaneIds, title : LaneCalls, made : LaneCalls]
LanePhases == {"new", "made", "changed", "opened", "speaking", "asked", "ran", "told"}
LaneReplies == {"none", "refused", "failed", "accepted", "lost", "absent", "running", "exited"}
Containers == {"absent", "running", "exited"}
Sights == Containers \cup {"not inspected"}

LaneTyped ==
  /\ sheets \in [Sheets -> [legible : BOOLEAN, items : Seq(LaneItems)]]
  /\ call \in [LaneCalls -> [at : LanePhases, copy : Seq(LaneItems), under : Nat, name : Nat,
                             saw : SUBSET (Nat \cup Sights), answer : LaneReplies]]
  /\ container \in Containers /\ laneMs \in Nat

(* What a request is of that is in hand.                                   *)
OpOfPhase ==
  \A c \in LaneCalls :
    /\ call[c].at \in {"changed", "opened"} => wanted[c].op \in {"upsert", "clone"}
    /\ call[c].at = "made" => wanted[c].op = "clone" /\ wanted[c].id \in voiced
    /\ call[c].at = "speaking" => wanted[c].op = "speak"
    /\ call[c].at \in {"asked", "ran"} => wanted[c].op \in AdminOps

DistinctIds(items) == \A m, n \in DOMAIN items : items[m].id = items[n].id => m = n
IdsIn(items) == {items[n].id : n \in DOMAIN items}

(* Lists and copies have one item of an id, a copy has its own, and voices *)
(* were made.                                                              *)
ListsDistinct ==
  /\ \A s \in Sheets : DistinctIds(sheets[s].items)
  /\ \A c \in LaneCalls : DistinctIds(call[c].copy) /\ (call[c].at # "opened" => call[c].under = 0)
  /\ \A c \in LaneCalls : call[c].at \in {"changed", "opened"} => wanted[c].id \in IdsIn(call[c].copy)
  /\ IdsIn(sheets["voices"].items) \subseteq voiced
  /\ \A c \in LaneCalls : Sheet(c) = "voices" => IdsIn(call[c].copy) \subseteq voiced

(* The ids of accepted requests.                                           *)
KnownIds(s) == {wanted[c].id : c \in {d \in Accepted("upsert") \cup Accepted("clone") : Sheet(d) = s}}

(* A sheet that was changed by one at a time has every accepted id, or is  *)
(* about to.                                                               *)
QuietSheet(s) ==
  /\ \A c, d \in InSheet(s) : c = d
  /\ \A c \in InSheet(s) : call[c].under = 0 /\ KnownIds(s) \subseteq IdsIn(call[c].copy)
  /\ (\A c \in InSheet(s) : call[c].at # "opened") =>
        sheets[s].legible /\ KnownIds(s) \subseteq IdsIn(sheets[s].items)
  /\ (\E c \in InSheet(s) : call[c].at = "opened") => sheets[s].items = <<>>

QuietSheets == \A s \in Sheets \ clashed : QuietSheet(s)

(* An entry was made by the first request accepted for it.                 *)
MadeByFirst ==
  /\ \A n \in DOMAIN sheets["calendar"].items :
       LET i == sheets["calendar"].items[n] IN i.id \in DOMAIN firsts /\ i.made = firsts[i.id]
  /\ \A c \in InSheet("calendar") : \A n \in DOMAIN call[c].copy :
       LET i == call[c].copy[n]
       IN IF i.id \in DOMAIN firsts THEN i.made = firsts[i.id] ELSE i.id = wanted[c].id /\ i.made = c

FirstsKept ==
  /\ DOMAIN firsts = KnownIds("calendar")
  /\ "calendar" \notin clashed => MadeByFirst

(* A file of speech is of a request that saw its millisecond.              *)
SpeechFiled ==
  /\ \A c \in LaneCalls :
       /\ call[c].at = "speaking" => call[c].saw = {call[c].name}
       /\ c \in Accepted("speak") => call[c].saw = {call[c].name} /\ call[c].name \in DOMAIN spoken
  /\ \A n \in DOMAIN spoken :
       spoken[n] \in LaneCalls /\ wanted[spoken[n]].op = "speak" /\ call[spoken[n]].saw = {n}
       /\ call[spoken[n]].at = "told"

(* What a command saw of the container.                                    *)
StateFits(k) == k.answer \in k.saw \/ (k.answer = "absent" /\ "not inspected" \in k.saw)

CommandsSaw ==
  \A c \in LaneCalls :
    /\ call[c].at \in {"asked", "ran"} =>
         container \in call[c].saw /\ (container = "absent" /\ wanted[c].op # "status" => call[c].saw = {"absent"})
    /\ call[c].at = "ran" /\ wanted[c].op = "start" => "running" \in call[c].saw
    /\ call[c].at = "ran" /\ wanted[c].op = "restart" => call[c].saw = {"absent"} \/ "running" \in call[c].saw
    /\ call[c].at = "ran" /\ wanted[c].op = "status" => StateFits(call[c])
    /\ call[c].at = "told" =>
         /\ c \in Accepted("start") => "running" \in call[c].saw
         /\ c \in Accepted("restart") => call[c].saw = {"absent"} \/ "running" \in call[c].saw
         /\ wanted[c].op = "status" /\ call[c].answer # "refused" => StateFits(call[c])

LaneInv == /\ LaneTyped /\ OpOfPhase /\ ListsDistinct /\ QuietSheets /\ FirstsKept /\ SpeechFiled /\ CommandsSaw
-----------------------------------------------------------------------------

(* The invariant holds of lanes that were not asked yet.                   *)
LEMMA LanesStart == LanesInit => LaneInv
<1> SUFFICES ASSUME LanesInit PROVE LaneInv
  OBVIOUS
<1> USE DEF LanesInit
<1>1. LaneTyped
  <2> DEFINE I == LaneItems
  <2>1. <<>> \in Seq(I)
    OBVIOUS
  <2> HIDE DEF I
  <2>2. <<>> \in Seq(LaneItems)
    BY <2>1 DEF I
  <2>3. sheets \in [Sheets -> [legible : BOOLEAN, items : Seq(LaneItems)]]
    BY <2>2, Zenon DEF Sheets
  <2> HIDE DEF I
  <2>4. call \in [LaneCalls -> [at : LanePhases, copy : Seq(LaneItems), under : Nat, name : Nat,
                             saw : SUBSET (Nat \cup Sights), answer : LaneReplies]]
    BY <2>2 DEF LanePhases, LaneReplies, Containers
  <2> QED
    BY <2>3, <2>4 DEF LaneTyped, Containers
<1>2. OpOfPhase
  BY DEF OpOfPhase
<1>3. ListsDistinct
  BY DEF ListsDistinct, DistinctIds, IdsIn, Sheets
<1>4. \A s : InSheet(s) = {} /\ KnownIds(s) = {}
  BY DEF InSheet, KnownIds, Accepted
<1>5. QuietSheets
  BY <1>4 DEF QuietSheets, QuietSheet
<1>6. FirstsKept
  BY <1>4 DEF FirstsKept, MadeByFirst, Sheets
<1>7. SpeechFiled
  BY DEF SpeechFiled, Accepted
<1>8. CommandsSaw
  BY DEF CommandsSaw, Accepted
<1> QED
  BY <1>1, <1>2, <1>3, <1>5, <1>6, <1>7, <1>8 DEF LaneInv

(* The numbering of the positions that stay.                               *)
Numbers(items, stay, f) ==
  /\ f \in [1 .. Cardinality(stay) -> stay]
  /\ Those(items, stay) = [r \in 1 .. Cardinality(stay) |-> items[f[r]]]
  /\ \A q, r \in 1 .. Cardinality(stay) : f[q] = f[r] => q = r
  /\ \A n \in stay : \E r \in 1 .. Cardinality(stay) : f[r] = n

(* The members of a list whose positions stay, in their order.             *)
LEMMA ThoseAre ==
  ASSUME NEW items, NEW length \in Nat, NEW stay, stay \subseteq 1 .. length
  PROVE  /\ Cardinality(stay) \in Nat
         /\ \E f : Numbers(items, stay, f)
<1> DEFINE B == [n \in stay |-> {m \in stay : m <= n}]
           P == 1 .. Cardinality(stay)
           f == [r \in P |-> CHOOSE n \in stay : Cardinality(B[n]) = r]
<1>1. IsFiniteSet(stay)
  <2>1. IsFiniteSet(1 .. length)
    BY FS_Interval
  <2> QED
    BY <2>1, FS_Subset
<1>2. stay \subseteq Int
  OBVIOUS
<1>3. /\ B \in [stay -> SUBSET stay]
      /\ \A n \in stay : n \in B[n]
      /\ \A m, n \in stay : m \in B[n] => B[m] \subseteq B[n]
      /\ \A m, n \in stay : m \in B[n] \/ n \in B[m]
      /\ \A m, n \in stay : m \in B[n] /\ n \in B[m] => m = n
  <2>1. \A m, n \in stay : m \in B[n] <=> m <= n
    OBVIOUS
  <2>2. B \in [stay -> SUBSET stay]
    OBVIOUS
  <2> HIDE DEF B
  <2>3. ASSUME NEW m \in stay, NEW n \in stay, m \in B[n], NEW x \in B[m] PROVE x \in B[n]
    BY <2>2, <2>3, <2>1, <1>2
  <2>4. \A m, n \in stay : m \in B[n] => B[m] \subseteq B[n]
    BY <2>3
  <2>5. \A i, j \in Int : (i <= j \/ j <= i) /\ (i <= j /\ j <= i => i = j) /\ i <= i
    OBVIOUS
  <2>6. /\ \A n \in stay : n \in B[n]
        /\ \A m, n \in stay : m \in B[n] \/ n \in B[m]
        /\ \A m, n \in stay : m \in B[n] /\ n \in B[m] => m = n
    BY <1>2, <2>1, <2>5
  <2> QED
    BY <2>2, <2>4, <2>6
<1>4. /\ Cardinality(stay) \in Nat
      /\ \A n \in stay : Cardinality(B[n]) \in P
      /\ \A m, n \in stay : Cardinality(B[m]) = Cardinality(B[n]) => m = n
      /\ \A r \in P : \E n \in stay : Cardinality(B[n]) = r
  <2> HIDE DEF B
  <2> QED
    BY <1>1, <1>3, Ranks
<1>5. \A r \in P : f[r] \in stay /\ Cardinality(B[f[r]]) = r
  <2> HIDE DEF B
  <2> QED
    BY <1>4
<1>6. Those(items, stay) = [r \in P |-> items[f[r]]]
  <2>1. \A n \in stay : B[n] = {m \in stay : m <= n}
    OBVIOUS
  <2> HIDE DEF B
  <2>2. \A n \in stay : Cardinality({m \in stay : m <= n}) = Cardinality(B[n])
    BY <2>1
  <2>3. \A r \in P : (CHOOSE n \in stay : Cardinality({m \in stay : m <= n}) = r)
                     = (CHOOSE n \in stay : Cardinality(B[n]) = r)
    BY <2>2
  <2>4. \A r \in P : f[r] = (CHOOSE n \in stay : Cardinality({m \in stay : m <= n}) = r)
    BY <2>3
  <2> HIDE DEF f
  <2>5. \A r \in P : items[CHOOSE n \in stay : Cardinality({m \in stay : m <= n}) = r] = items[f[r]]
    BY <2>4
  <2>6. [r \in P |-> items[CHOOSE n \in stay : Cardinality({m \in stay : m <= n}) = r]] = [r \in P |-> items[f[r]]]
    BY <2>5, Zenon
  <2> QED
    BY <2>6, Zenon DEF Those
<1>7. f \in [P -> stay]
  BY <1>5
<1>8. \A q, r \in P : f[q] = f[r] => q = r
  BY <1>5
<1>9. \A n \in stay : \E r \in P : f[r] = n
  BY <1>4, <1>5
<1> HIDE DEF f, B
<1> QED
  BY <1>4, <1>6, <1>7, <1>8, <1>9, Zenon DEF Numbers

(* What a list gives for an id once it is put there.                       *)
LEMMA UpsertedIs ==
  ASSUME NEW c \in LaneCalls, NEW items \in Seq(LaneItems), DistinctIds(items)
  PROVE  LET new == Upserted(c, items)
         IN  /\ new \in Seq(LaneItems) /\ DistinctIds(new)
             /\ IdsIn(new) = IdsIn(items) \cup {wanted[c].id}
             /\ \A n \in DOMAIN new :
                  \/ \E m \in DOMAIN items : items[m].id = new[n].id /\ items[m].made = new[n].made
                  \/ new[n].id = wanted[c].id /\ new[n].made = c /\ new[n].id \notin IdsIn(items)
<1> DEFINE new == Upserted(c, items)
           L == Len(items)
           I == LaneItems
<1>1. Item(c) \in I /\ Item(c).id = wanted[c].id /\ Item(c).made = c
  BY DEF Item, LaneItems, LaneIds
<1>2. \A i \in I : i.made \in LaneCalls
  BY DEF LaneItems
<1>3. \A i \in I : [Item(c) EXCEPT !.made = i.made] \in I
  BY DEF Item, LaneItems, LaneIds
<1>4. \A i \in I : [Item(c) EXCEPT !.made = i.made].id = wanted[c].id /\ [Item(c) EXCEPT !.made = i.made].made = i.made
  BY DEF Item
<1>5. items \in Seq(I)
  OBVIOUS
<1> HIDE DEF I
<1>6. L \in Nat /\ DOMAIN items = 1 .. L /\ \A n \in 1 .. L : items[n] \in I
  BY <1>5
<1>7. CASE \E n \in DOMAIN items : items[n].id = wanted[c].id
  <2> DEFINE g == [n \in DOMAIN items |-> IF items[n].id = wanted[c].id THEN [Item(c) EXCEPT !.made = items[n].made]
                                          ELSE items[n]]
  <2>1. new = g
    BY <1>7 DEF Upserted
  <2>2. /\ DOMAIN g = 1 .. L
        /\ \A n \in 1 .. L : g[n] \in I /\ g[n].id = items[n].id /\ g[n].made = items[n].made
    BY <1>3, <1>4, <1>6
  <2>3. g \in Seq(I)
    BY <1>3, <1>6
  <2> HIDE DEF g
  <2>4. DistinctIds(g)
    BY <2>2, <1>6 DEF DistinctIds
  <2>5. IdsIn(g) = IdsIn(items) /\ wanted[c].id \in IdsIn(items)
    BY <2>2, <1>6, <1>7 DEF IdsIn
  <2>6. \A n \in DOMAIN g : \E m \in DOMAIN items : items[m].id = g[n].id /\ items[m].made = g[n].made
    BY <2>2, <1>6
  <2> QED
    BY <2>1, <2>3, <2>4, <2>5, <2>6 DEF I
<1>8. CASE ~ \E n \in DOMAIN items : items[n].id = wanted[c].id
  <2>1. new = Append(items, Item(c))
    BY <1>8 DEF Upserted
  <2> HIDE DEF new
  <2>2. /\ new \in Seq(I) /\ DOMAIN new = 1 .. L + 1 /\ new[L + 1] = Item(c)
        /\ \A n \in 1 .. L : new[n] = items[n]
    BY <2>1, <1>1, <1>5, <1>6
  <2>3. wanted[c].id \notin IdsIn(items)
    BY <1>8 DEF IdsIn
  <2>4. DistinctIds(new)
    BY <2>2, <1>1, <1>6, <1>8 DEF DistinctIds
  <2>5. IdsIn(new) = IdsIn(items) \cup {wanted[c].id}
    BY <1>6, <2>2, <1>1 DEF IdsIn
  <2>6. \A n \in DOMAIN new :
                  \/ \E m \in DOMAIN items : items[m].id = new[n].id /\ items[m].made = new[n].made
                  \/ new[n].id = wanted[c].id /\ new[n].made = c /\ new[n].id \notin IdsIn(items)
    BY <2>2, <2>3, <1>1, <1>6
  <2> QED
    BY <2>2, <2>4, <2>5, <2>6 DEF new, I
<1> QED
  BY <1>7, <1>8

(* A registered voice takes the place of those of its id, once.            *)
LEMMA RegisteredIs ==
  ASSUME NEW c \in LaneCalls, NEW items \in Seq(LaneItems), DistinctIds(items)
  PROVE  LET new == Registered(c, items)
         IN  /\ new \in Seq(LaneItems) /\ DistinctIds(new)
             /\ IdsIn(new) = IdsIn(items) \cup {wanted[c].id}
<1> DEFINE new == Registered(c, items)
           L == Len(items)
           I == LaneItems
           stay == {n \in DOMAIN items : items[n].id # wanted[c].id}
           K == Cardinality(stay)
           t == Those(items, stay)
<1>1. Item(c) \in I /\ Item(c).id = wanted[c].id
  BY DEF Item, LaneItems, LaneIds
<1>2. items \in Seq(I)
  OBVIOUS
<1> HIDE DEF I
<1>3. L \in Nat /\ DOMAIN items = 1 .. L /\ \A n \in 1 .. L : items[n] \in I
  BY <1>2
<1>4. stay \subseteq 1 .. L
  BY <1>3
<1>5. new = Append(t, Item(c))
  BY DEF Registered
<1>6. \A n \in stay : n \in 1 .. L /\ items[n].id # wanted[c].id
  BY <1>3
<1>7. \A n \in 1 .. L : n \in stay \/ items[n].id = wanted[c].id
  BY <1>3
<1> HIDE DEF L, stay
<1>8. K \in Nat /\ \E f : Numbers(items, stay, f)
  BY <1>3, <1>4, ThoseAre, Zenon
<1>9. PICK f : /\ f \in [1 .. K -> stay]
               /\ t = [r \in 1 .. K |-> items[f[r]]]
               /\ \A q, r \in 1 .. K : f[q] = f[r] => q = r
               /\ \A n \in stay : \E r \in 1 .. K : f[r] = n
  BY <1>8, Zenon DEF Numbers
<1> HIDE DEF K, t, new
<1>10. \A r \in 1 .. K : f[r] \in stay /\ t[r] = items[f[r]] /\ t[r] \in I /\ t[r].id # wanted[c].id
  BY <1>9, <1>6, <1>3
<1>11. t \in Seq(I) /\ Len(t) = K
  BY <1>10, <1>8, <1>9
<1>12. /\ new \in Seq(I) /\ DOMAIN new = 1 .. K + 1 /\ new[K + 1] = Item(c)
       /\ \A r \in 1 .. K : new[r] = t[r]
  BY <1>5, <1>11, <1>1, <1>8
<1>13. \A r \in 1 .. K + 1 : r \in 1 .. K \/ r = K + 1
  BY <1>8
<1>14. 1 .. K \subseteq 1 .. K + 1 /\ K + 1 \in 1 .. K + 1
  BY <1>8
<1>15. \A q, r \in 1 .. K : t[q].id = t[r].id => q = r
  BY <1>9, <1>10, <1>6, <1>3 DEF DistinctIds
<1>16. DistinctIds(new)
  <2>1. ASSUME NEW q \in DOMAIN new, NEW r \in DOMAIN new, new[q].id = new[r].id PROVE q = r
    BY <2>1, <1>12, <1>15, <1>10, <1>1, <1>13
  <2> QED
    BY <2>1, Zenon DEF DistinctIds
<1>17. IdsIn(new) = IdsIn(items) \cup {wanted[c].id}
  <2>1. ASSUME NEW n \in DOMAIN new PROVE new[n].id \in IdsIn(items) \cup {wanted[c].id}
    BY <2>1, <1>1, <1>3, <1>6, <1>10, <1>12, <1>13 DEF IdsIn
  <2>2. ASSUME NEW n \in DOMAIN items PROVE \E m \in DOMAIN new : new[m].id = items[n].id
    <3>1. CASE n \in stay
      BY <3>1, <1>9, <1>10, <1>12, <1>14
    <3>2. CASE items[n].id = wanted[c].id
      BY <3>2, <1>12, <1>14, <1>1
    <3> QED
      BY <3>1, <3>2, <1>7, <1>3
  <2>3. wanted[c].id \in IdsIn(new)
    BY <1>12, <1>14, <1>1 DEF IdsIn
  <2> QED
    BY <2>1, <2>2, <2>3 DEF IdsIn
<1> QED
  BY <1>12, <1>16, <1>17 DEF new, I

LaneRecords == [at : LanePhases, copy : Seq(LaneItems), under : Nat, name : Nat,
                saw : SUBSET (Nat \cup Sights), answer : LaneReplies]

(* The types survive a step.                                               *)
LEMMA LaneTypesStep == LaneTyped /\ OpOfPhase /\ ListsDistinct /\ LanesNext => LaneTyped'
<1> SUFFICES ASSUME LaneTyped, OpOfPhase, ListsDistinct, LanesNext PROVE LaneTyped'
  OBVIOUS
<1> DEFINE S == [legible : BOOLEAN, items : Seq(LaneItems)]
<1>0. wanted' = wanted
  BY DEF LanesNext, Refuses, ClonesVoice, ReadsSheet, OpensSheet, FillsSheet, GetsCalendar, Speaks, AdminBegins, AdminRuns,
         AdminAnswers, MillisecondPasses, LaneCrash
<1>1. LaneItems' = LaneItems
  BY <1>0 DEF LaneItems, LaneIds
<1>2. /\ sheets \in [Sheets -> S] /\ call \in [LaneCalls -> LaneRecords] /\ container \in Containers /\ laneMs \in Nat
  BY DEF LaneTyped, LaneRecords
<1>3. SUFFICES /\ sheets' \in [Sheets -> S] /\ call' \in [LaneCalls -> LaneRecords]
               /\ container' \in Containers /\ laneMs' \in Nat
  BY <1>1, Zenon DEF LaneTyped, LaneRecords
<1>4. <<>> \in Seq(LaneItems)
  <2> DEFINE I == LaneItems
  <2> HIDE DEF I
  <2>1. <<>> \in Seq(I)
    OBVIOUS
  <2> QED
    BY <2>1 DEF I
<1>5. \A s \in Sheets : Reading(s) \in Seq(LaneItems) /\ DistinctIds(Reading(s))
  <2> SUFFICES ASSUME NEW s \in Sheets PROVE Reading(s) \in Seq(LaneItems) /\ DistinctIds(Reading(s))
    OBVIOUS
  <2>1. CASE sheets[s].legible
    BY <2>1, <1>2 DEF Reading, ListsDistinct
  <2>2. CASE ~sheets[s].legible
    BY <2>2, <1>4 DEF Reading, DistinctIds
  <2> QED
    BY <2>1, <2>2
<1>6. \A c : Sheet(c) \in Sheets
  BY DEF Sheet, Sheets
<1>7. ASSUME NEW c \in LaneCalls, NEW at \in LanePhases, NEW answer \in LaneReplies, NEW saw \in SUBSET (Nat \cup Sights),
             NEW draft \in Seq(LaneItems), NEW under \in Nat, NEW name \in Nat
      PROVE  /\ [call EXCEPT ![c] = [call[c] EXCEPT !.at = at]] \in [LaneCalls -> LaneRecords]
             /\ [call[c] EXCEPT !.at = at, !.saw = saw, !.answer = answer] \in LaneRecords
             /\ [call[c] EXCEPT !.saw = saw] \in LaneRecords
             /\ [call[c] EXCEPT !.at = at, !.answer = answer, !.copy = <<>>, !.under = 0] \in LaneRecords
             /\ [call[c] EXCEPT !.at = at, !.copy = draft] \in LaneRecords
             /\ [call[c] EXCEPT !.under = under] \in LaneRecords
             /\ [call[c] EXCEPT !.at = at, !.name = name, !.saw = saw] \in LaneRecords
             /\ [call[c] EXCEPT !.at = at, !.saw = saw] \in LaneRecords
  <2> DEFINE Q == Seq(LaneItems)
  <2>1. <<>> \in Q /\ draft \in Q
    BY <1>4
  <2>2. LaneRecords = [at : LanePhases, copy : Q, under : Nat, name : Nat,
                       saw : SUBSET (Nat \cup Sights), answer : LaneReplies]
    BY DEF LaneRecords
  <2> HIDE DEF Q
  <2> QED
    BY <2>1, <2>2, <1>2
<1>8. ASSUME NEW c \in LaneCalls, NEW next \in LaneRecords PROVE Leads(c, next) => call' \in [LaneCalls -> LaneRecords]
  BY <1>2 DEF Leads
<1>9. ASSUME NEW c \in LaneCalls, NEW answer \in LaneReplies PROVE Tells(c, answer) => call' \in [LaneCalls -> LaneRecords]
  BY <1>4, <1>7, <1>8 DEF LanePhases, Tells
<1>10. /\ {"refused", "failed", "accepted", "lost"} \subseteq LaneReplies
       /\ {"made", "changed", "opened", "speaking", "asked", "ran", "told"} \subseteq LanePhases
       /\ Containers \subseteq LaneReplies
  BY DEF LaneReplies, LanePhases, Containers
<1>11. ASSUME NEW c \in LaneCalls, NEW at \in LanePhases PROVE [call[c] EXCEPT !.at = at] \in LaneRecords
  <2> DEFINE Q == Seq(LaneItems)
  <2>1. LaneRecords = [at : LanePhases, copy : Q, under : Nat, name : Nat,
                       saw : SUBSET (Nat \cup Sights), answer : LaneReplies]
    BY DEF LaneRecords
  <2> HIDE DEF Q
  <2> QED
    BY <2>1, <1>2
<1>12. 0 \in Nat /\ {} \in SUBSET (Nat \cup Sights)
  OBVIOUS
<1>13. ASSUME NEW c \in LaneCalls, Refuses(c) PROVE call' \in [LaneCalls -> LaneRecords] /\ UNCHANGED <<sheets, container, laneMs>>
  BY <1>13, <1>9, <1>10 DEF Refuses
<1>14. ASSUME NEW c \in LaneCalls, ClonesVoice(c)
       PROVE call' \in [LaneCalls -> LaneRecords] /\ UNCHANGED <<sheets, container, laneMs>>
  BY <1>14, <1>8, <1>9, <1>10, <1>11 DEF ClonesVoice
<1>15. ASSUME NEW c \in LaneCalls, ReadsSheet(c)
       PROVE call' \in [LaneCalls -> LaneRecords] /\ UNCHANGED <<sheets, container, laneMs>>
  <2> DEFINE items == Reading(Sheet(c))
             draft == IF Sheet(c) = "calendar" THEN Upserted(c, items) ELSE Registered(c, items)
  <2>1. items \in Seq(LaneItems) /\ DistinctIds(items)
    BY <1>5, <1>6
  <2> HIDE DEF items
  <2>2. draft \in Seq(LaneItems)
    BY <2>1, UpsertedIs, RegisteredIs, Zenon
  <2>3. Leads(c, [call[c] EXCEPT !.at = "changed", !.copy = draft]) /\ UNCHANGED <<sheets, container, laneMs>>
    BY <1>15 DEF ReadsSheet, items
  <2> HIDE DEF draft
  <2>4. [call[c] EXCEPT !.at = "changed", !.copy = draft] \in LaneRecords
    BY <2>2, <1>7, <1>10, <1>12
  <2> QED
    BY <2>3, <2>4, <1>8
<1>16. ASSUME NEW c \in LaneCalls, OpensSheet(c)
       PROVE call' \in [LaneCalls -> LaneRecords] /\ sheets' \in [Sheets -> S] /\ UNCHANGED <<container, laneMs>>
  <2>1. [legible |-> FALSE, items |-> <<>>] \in S
    BY <1>4
  <2>2. sheets' \in [Sheets -> S]
    <3> HIDE DEF S
    <3> QED
      BY <1>16, <2>1, <1>2 DEF OpensSheet
  <2> QED
    BY <1>16, <2>2, <1>8, <1>10, <1>11 DEF OpensSheet
<1>17. ASSUME NEW c \in LaneCalls, FillsSheet(c)
       PROVE call' \in [LaneCalls -> LaneRecords] /\ sheets' \in [Sheets -> S] /\ UNCHANGED <<container, laneMs>>
  <2> DEFINE Q == Seq(LaneItems)
             long == Len(call[c].copy)
  <2>1. call[c].copy \in Q /\ call[c].under \in Nat
    BY <1>2 DEF LaneRecords
  <2>2. long \in Nat
    BY <2>1
  <2>3. [legible |-> call[c].under <= long, items |-> call[c].copy] \in S
    BY <2>1, <2>2
  <2>4. sheets' \in [Sheets -> S]
    <3>1. sheets' = [sheets EXCEPT ![Sheet(c)] = [legible |-> call[c].under <= long, items |-> call[c].copy]]
      BY <1>17 DEF FillsSheet
    <3> HIDE DEF S, long
    <3> QED
      BY <3>1, <2>3, <1>2
  <2>5. call' = [d \in LaneCalls |->
                   IF d = c THEN [call[c] EXCEPT !.at = "told", !.answer = "accepted", !.copy = <<>>, !.under = 0]
                   ELSE IF Overlaid(d, c) /\ call[d].under < long THEN [call[d] EXCEPT !.under = long] ELSE call[d]]
    BY <1>17 DEF FillsSheet
  <2>6. [call[c] EXCEPT !.at = "told", !.answer = "accepted", !.copy = <<>>, !.under = 0] \in LaneRecords
    BY <1>4, <1>7, <1>10, <1>12
  <2>7. \A d \in LaneCalls : [call[d] EXCEPT !.under = long] \in LaneRecords /\ call[d] \in LaneRecords
    <3>1. LaneRecords = [at : LanePhases, copy : Q, under : Nat, name : Nat,
                         saw : SUBSET (Nat \cup Sights), answer : LaneReplies]
      BY DEF LaneRecords
    <3> HIDE DEF Q, long
    <3> QED
      BY <3>1, <1>2, <2>2
  <2>8. call' \in [LaneCalls -> LaneRecords]
    <3> HIDE DEF long
    <3> QED
      BY <2>5, <2>6, <2>7
  <2> QED
    BY <1>17, <2>4, <2>8 DEF FillsSheet
<1>18. ASSUME NEW c \in LaneCalls, GetsCalendar(c)
       PROVE call' \in [LaneCalls -> LaneRecords] /\ UNCHANGED <<sheets, container, laneMs>>
  BY <1>18, <1>9, <1>10 DEF GetsCalendar
<1>19. ASSUME NEW c \in LaneCalls, Speaks(c)
       PROVE call' \in [LaneCalls -> LaneRecords] /\ UNCHANGED <<sheets, container, laneMs>>
  <2>1. [call[c] EXCEPT !.at = "speaking", !.name = SpeechFile(c), !.saw = {laneMs}] \in LaneRecords
    <3>1. SpeechFile(c) \in Nat /\ {laneMs} \in SUBSET (Nat \cup Sights)
      BY <1>2 DEF SpeechFile
    <3> QED
      BY <3>1, <1>4, <1>7, <1>10
  <2> QED
    BY <1>19, <2>1, <1>8, <1>9, <1>10 DEF Speaks
<1>20. ASSUME NEW c \in LaneCalls, AdminBegins(c)
       PROVE call' \in [LaneCalls -> LaneRecords] /\ UNCHANGED <<sheets, container, laneMs>>
  <2>1. [call[c] EXCEPT !.at = "asked", !.saw = {container}] \in LaneRecords
    <3>1. {container} \in SUBSET (Nat \cup Sights)
      BY <1>2 DEF Sights
    <3> QED
      BY <3>1, <1>4, <1>7, <1>10
  <2> QED
    BY <1>20, <2>1, <1>8 DEF AdminBegins
<1>21. ASSUME NEW c \in LaneCalls, AdminRuns(c)
       PROVE call' \in [LaneCalls -> LaneRecords] /\ container' \in Containers /\ UNCHANGED <<sheets, laneMs>>
  <2> DEFINE next == Command(wanted[c].op, container)
  <2>1. CASE container' = next /\
             call' = [d \in LaneCalls |->
                      IF d = c THEN [call[c] EXCEPT !.at = "ran", !.saw = @ \cup {container'},
                                             !.answer = IF wanted[c].op = "status" THEN container ELSE "accepted"]
                      ELSE IF call[d].at \in {"asked", "ran"} THEN [call[d] EXCEPT !.saw = @ \cup {container'}]
                      ELSE call[d]]
    <3>1. wanted[c].op \in AdminOps
      BY <1>21 DEF AdminRuns, OpOfPhase
    <3>2. next \in Containers
      BY <3>1, <1>2 DEF Command, AdminOps, Containers
    <3>3. \A d \in LaneCalls : call[d] \in LaneRecords /\ call[d].saw \cup {container'} \in SUBSET (Nat \cup Sights)
      <4>1. \A d \in LaneCalls : call[d] \in LaneRecords /\ call[d].saw \in SUBSET (Nat \cup Sights)
        BY <1>2 DEF LaneRecords
      <4> HIDE DEF next
      <4> QED
        BY <4>1, <3>2, <2>1 DEF Sights
    <3> DEFINE reply == IF wanted[c].op = "status" THEN container ELSE "accepted"
    <3>4. reply \in LaneReplies
      BY <1>10, <1>2
    <3> HIDE DEF reply, next
    <3>5. [call[c] EXCEPT !.at = "ran", !.saw = call[c].saw \cup {container'}, !.answer = reply] \in LaneRecords
      BY <3>3, <3>4, <1>4, <1>7, <1>10
    <3>6. \A d \in LaneCalls : [call[d] EXCEPT !.saw = call[d].saw \cup {container'}] \in LaneRecords
      BY <3>3, <1>4, <1>7, <1>10, <1>12
    <3>7. call' = [d \in LaneCalls |->
                      IF d = c THEN [call[c] EXCEPT !.at = "ran", !.saw = call[c].saw \cup {container'}, !.answer = reply]
                      ELSE IF call[d].at \in {"asked", "ran"} THEN [call[d] EXCEPT !.saw = call[d].saw \cup {container'}]
                      ELSE call[d]]
      BY <2>1 DEF reply
    <3>8. call' \in [LaneCalls -> LaneRecords]
      BY <3>3, <3>5, <3>6, <3>7
    <3> QED
      BY <3>2, <3>8, <2>1, <1>21 DEF AdminRuns
  <2>2. CASE UNCHANGED container /\ Tells(c, "failed")
    BY <2>2, <1>2, <1>9, <1>10, <1>21 DEF AdminRuns
  <2>3. CASE UNCHANGED container /\ Leads(c, [call[c] EXCEPT !.at = "ran", !.saw = @ \cup {"not inspected"}, !.answer = "absent"])
    <3> DEFINE saw == call[c].saw \cup {"not inspected"}
    <3>1. saw \in SUBSET (Nat \cup Sights) /\ "absent" \in LaneReplies
      BY <1>2 DEF LaneRecords, Sights, LaneReplies
    <3> HIDE DEF saw
    <3>2. [call[c] EXCEPT !.at = "ran", !.saw = saw, !.answer = "absent"] \in LaneRecords
      BY <3>1, <1>4, <1>7, <1>10, <1>12
    <3> USE DEF saw
    <3> QED
      BY <2>3, <3>2, <1>2, <1>8, <1>21 DEF AdminRuns
  <2> QED
    BY <1>21, <2>1, <2>2, <2>3 DEF AdminRuns
<1>22. ASSUME NEW c \in LaneCalls, AdminAnswers(c)
       PROVE call' \in [LaneCalls -> LaneRecords] /\ UNCHANGED <<sheets, container, laneMs>>
  BY <1>22, <1>8, <1>10, <1>11 DEF AdminAnswers
<1>23. ASSUME MillisecondPasses PROVE laneMs' \in Nat /\ UNCHANGED <<sheets, container, call>>
  BY <1>23, <1>2 DEF MillisecondPasses
<1>24. ASSUME NEW s \in Sheets, LaneCrash(s)
       PROVE call' \in [LaneCalls -> LaneRecords] /\ UNCHANGED <<sheets, container, laneMs>>
  BY <1>2, <1>4, <1>7, <1>10, <1>12, <1>24 DEF LaneCrash
<1> HIDE DEF S
<1> QED
  BY <1>2, <1>13, <1>14, <1>15, <1>16, <1>17, <1>18, <1>19, <1>20, <1>21, <1>22, <1>23, <1>24 DEF LanesNext

(* One request becomes another record, the others are what they were.      *)
CallTurns(c, at, draft, under, name, saw, answer) ==
  /\ \A d \in LaneCalls : d # c => call'[d] = call[d]
  /\ call'[c].at = at /\ call'[c].copy = draft /\ call'[c].under = under /\ call'[c].name = name
  /\ call'[c].saw = saw /\ call'[c].answer = answer

(* What the steps of a request do to the requests.                         *)
LEMMA LaneMoves ==
  ASSUME LaneTyped, NEW c \in LaneCalls
  PROVE  LET k == call[c]
             items == Reading(Sheet(c))
         IN  /\ Refuses(c) => CallTurns(c, "told", <<>>, 0, k.name, k.saw, "refused")
             /\ ClonesVoice(c) => \/ CallTurns(c, "made", k.copy, k.under, k.name, k.saw, k.answer) /\ voiced' = voiced \cup {wanted[c].id}
                                  \/ CallTurns(c, "told", <<>>, 0, k.name, k.saw, "failed") /\ voiced' = voiced
             /\ ReadsSheet(c) =>
                  CallTurns(c, "changed", IF Sheet(c) = "calendar" THEN Upserted(c, items) ELSE Registered(c, items),
                        k.under, k.name, k.saw, k.answer)
             /\ OpensSheet(c) => CallTurns(c, "opened", k.copy, k.under, k.name, k.saw, k.answer)
             /\ GetsCalendar(c) => CallTurns(c, "told", <<>>, 0, k.name, k.saw, "accepted")
             /\ Speaks(c) => \/ k.at = "new" /\ CallTurns(c, "speaking", k.copy, k.under, laneMs, {laneMs}, k.answer) /\ spoken' = spoken
                             \/ /\ k.at = "speaking" /\ CallTurns(c, "told", <<>>, 0, k.name, k.saw, "accepted")
                                /\ spoken' = [n \in DOMAIN spoken \cup {k.name} |-> IF n = k.name THEN c ELSE spoken[n]]
                             \/ k.at = "speaking" /\ CallTurns(c, "told", <<>>, 0, k.name, k.saw, "failed") /\ spoken' = spoken
             /\ AdminBegins(c) => CallTurns(c, "asked", k.copy, k.under, k.name, {container}, k.answer)
             /\ AdminAnswers(c) => CallTurns(c, "told", k.copy, k.under, k.name, k.saw, k.answer)
<1> DEFINE Q == Seq(LaneItems)
           N == SUBSET (Nat \cup Sights)
           R == [at : LanePhases, copy : Q, under : Nat, name : Nat, saw : N, answer : LaneReplies]
<1>1. call \in [LaneCalls -> R]
  BY DEF LaneTyped
<1> HIDE DEF Q, N
<1>2. ASSUME NEW next, Leads(c, next) PROVE call'[c] = next /\ \A d \in LaneCalls : d # c => call'[d] = call[d]
  BY <1>1, <1>2 DEF Leads
<1>3. call[c] \in R
  BY <1>1
<1>4. ASSUME NEW answer, Tells(c, answer) PROVE CallTurns(c, "told", <<>>, 0, call[c].name, call[c].saw, answer)
  <2>1. call'[c] = [call[c] EXCEPT !.at = "told", !.answer = answer, !.copy = <<>>, !.under = 0] /\ \A d \in LaneCalls : d # c => call'[d] = call[d]
    BY <1>4, <1>2, Zenon DEF Tells
  <2> QED
    BY <2>1, <1>3 DEF CallTurns
<1>5. ASSUME NEW at, Leads(c, [call[c] EXCEPT !.at = at])
      PROVE  CallTurns(c, at, call[c].copy, call[c].under, call[c].name, call[c].saw, call[c].answer)
  BY <1>2, <1>3, <1>5 DEF CallTurns
<1>6. ASSUME NEW at, NEW draft, Leads(c, [call[c] EXCEPT !.at = at, !.copy = draft])
      PROVE  CallTurns(c, at, draft, call[c].under, call[c].name, call[c].saw, call[c].answer)
  <2>1. call'[c] = [call[c] EXCEPT !.at = at, !.copy = draft] /\ \A d \in LaneCalls : d # c => call'[d] = call[d]
    BY <1>6, <1>2, Zenon
  <2> QED
    BY <2>1, <1>3 DEF CallTurns
<1>7. ASSUME NEW at, NEW saw, Leads(c, [call[c] EXCEPT !.at = at, !.saw = saw])
      PROVE  CallTurns(c, at, call[c].copy, call[c].under, call[c].name, saw, call[c].answer)
  <2>1. call'[c] = [call[c] EXCEPT !.at = at, !.saw = saw] /\ \A d \in LaneCalls : d # c => call'[d] = call[d]
    BY <1>7, <1>2, Zenon
  <2> QED
    BY <2>1, <1>3 DEF CallTurns
<1>8. ASSUME NEW at, NEW name, NEW saw, Leads(c, [call[c] EXCEPT !.at = at, !.name = name, !.saw = saw])
      PROVE  CallTurns(c, at, call[c].copy, call[c].under, name, saw, call[c].answer)
  <2>1. call'[c] = [call[c] EXCEPT !.at = at, !.name = name, !.saw = saw] /\ \A d \in LaneCalls : d # c => call'[d] = call[d]
    BY <1>8, <1>2, Zenon
  <2> QED
    BY <2>1, <1>3 DEF CallTurns
<1> HIDE DEF R
<1>9. Refuses(c) => CallTurns(c, "told", <<>>, 0, call[c].name, call[c].saw, "refused")
  BY <1>4 DEF Refuses
<1>10. ClonesVoice(c) =>
         \/ CallTurns(c, "made", call[c].copy, call[c].under, call[c].name, call[c].saw, call[c].answer) /\ voiced' = voiced \cup {wanted[c].id}
         \/ CallTurns(c, "told", <<>>, 0, call[c].name, call[c].saw, "failed") /\ voiced' = voiced
  BY <1>4, <1>5 DEF ClonesVoice
<1>11. ReadsSheet(c) =>
                  CallTurns(c, "changed", IF Sheet(c) = "calendar" THEN Upserted(c, Reading(Sheet(c))) ELSE Registered(c, Reading(Sheet(c))),
                        call[c].under, call[c].name, call[c].saw, call[c].answer)
  <2> SUFFICES ASSUME ReadsSheet(c)
               PROVE  CallTurns(c, "changed", IF Sheet(c) = "calendar" THEN Upserted(c, Reading(Sheet(c))) ELSE Registered(c, Reading(Sheet(c))),
                        call[c].under, call[c].name, call[c].saw, call[c].answer)
    OBVIOUS
  <2> DEFINE draft == IF Sheet(c) = "calendar" THEN Upserted(c, Reading(Sheet(c))) ELSE Registered(c, Reading(Sheet(c)))
  <2>1. Leads(c, [call[c] EXCEPT !.at = "changed", !.copy = draft])
    BY DEF ReadsSheet
  <2> HIDE DEF draft
  <2>2. CallTurns(c, "changed", draft, call[c].under, call[c].name, call[c].saw, call[c].answer)
    BY <2>1, <1>6
  <2> QED
    BY <2>2 DEF draft
<1>12. OpensSheet(c) => CallTurns(c, "opened", call[c].copy, call[c].under, call[c].name, call[c].saw, call[c].answer)
  BY <1>5 DEF OpensSheet
<1>13. GetsCalendar(c) => CallTurns(c, "told", <<>>, 0, call[c].name, call[c].saw, "accepted")
  BY <1>4 DEF GetsCalendar
<1>14. Speaks(c) =>
         \/ call[c].at = "new" /\ CallTurns(c, "speaking", call[c].copy, call[c].under, laneMs, {laneMs}, call[c].answer) /\ spoken' = spoken
         \/ /\ call[c].at = "speaking" /\ CallTurns(c, "told", <<>>, 0, call[c].name, call[c].saw, "accepted")
            /\ spoken' = [n \in DOMAIN spoken \cup {call[c].name} |-> IF n = call[c].name THEN c ELSE spoken[n]]
         \/ call[c].at = "speaking" /\ CallTurns(c, "told", <<>>, 0, call[c].name, call[c].saw, "failed") /\ spoken' = spoken
  BY <1>4, <1>8, Zenon DEF Speaks, SpeechFile
<1>15. AdminBegins(c) => CallTurns(c, "asked", call[c].copy, call[c].under, call[c].name, {container}, call[c].answer)
  BY <1>7 DEF AdminBegins
<1>16. AdminAnswers(c) => CallTurns(c, "told", call[c].copy, call[c].under, call[c].name, call[c].saw, call[c].answer)
  BY <1>5 DEF AdminAnswers
<1> QED
  BY <1>9, <1>10, <1>11, <1>12, <1>13, <1>14, <1>15, <1>16

(* A filled sheet, and what it covers.                                     *)
LEMMA FillMoves ==
  ASSUME LaneTyped, NEW c \in LaneCalls, FillsSheet(c)
  PROVE  /\ call[c].at = "opened" /\ sheets'[Sheet(c)] = [legible |-> call[c].under <= Len(call[c].copy), items |-> call[c].copy]
         /\ \A s \in Sheets : s # Sheet(c) => sheets'[s] = sheets[s]
         /\ call'[c].at = "told" /\ call'[c].answer = "accepted" /\ call'[c].copy = <<>> /\ call'[c].under = 0
         /\ call'[c].saw = call[c].saw /\ call'[c].name = call[c].name
         /\ \A d \in LaneCalls : d # c =>
              /\ call'[d].at = call[d].at /\ call'[d].answer = call[d].answer /\ call'[d].copy = call[d].copy
              /\ call'[d].saw = call[d].saw /\ call'[d].name = call[d].name
              /\ ~(call[d].at = "opened" /\ Sheet(d) = Sheet(c)) => call'[d].under = call[d].under
<1> DEFINE Q == Seq(LaneItems)
           N == SUBSET (Nat \cup Sights)
           R == [at : LanePhases, copy : Q, under : Nat, name : Nat, saw : N, answer : LaneReplies]
           long == Len(call[c].copy)
<1>1. call \in [LaneCalls -> R] /\ sheets \in [Sheets -> [legible : BOOLEAN, items : Q]] /\ Sheet(c) \in Sheets
  BY DEF LaneTyped, Sheet, Sheets
<1>2. /\ call[c].at = "opened"
      /\ sheets' = [sheets EXCEPT ![Sheet(c)] = [legible |-> call[c].under <= long, items |-> call[c].copy]]
      /\ call' = [d \in LaneCalls |->
                   IF d = c THEN [call[c] EXCEPT !.at = "told", !.answer = "accepted", !.copy = <<>>, !.under = 0]
                   ELSE IF Overlaid(d, c) /\ call[d].under < long THEN [call[d] EXCEPT !.under = long] ELSE call[d]]
  BY DEF FillsSheet
<1> HIDE DEF Q, N
<1>3. \A d \in LaneCalls : call[d] \in R
  BY <1>1
<1>4. call'[c] = [call[c] EXCEPT !.at = "told", !.answer = "accepted", !.copy = <<>>, !.under = 0]
  BY <1>2, Zenon
<1>5. ASSUME NEW d \in LaneCalls, d # c
      PROVE  call'[d] = IF Overlaid(d, c) /\ call[d].under < long THEN [call[d] EXCEPT !.under = long] ELSE call[d]
  BY <1>2, <1>5, Zenon
<1> HIDE DEF long
<1>6. ASSUME NEW d \in LaneCalls, d # c
      PROVE /\ call'[d].at = call[d].at /\ call'[d].answer = call[d].answer /\ call'[d].copy = call[d].copy
            /\ call'[d].saw = call[d].saw /\ call'[d].name = call[d].name
            /\ ~(call[d].at = "opened" /\ Sheet(d) = Sheet(c)) => call'[d].under = call[d].under
  BY <1>3, <1>5, <1>6 DEF Overlaid
<1>7. call'[c].at = "told" /\ call'[c].answer = "accepted" /\ call'[c].copy = <<>> /\ call'[c].under = 0
      /\ call'[c].saw = call[c].saw /\ call'[c].name = call[c].name
  BY <1>3, <1>4
<1>8. sheets'[Sheet(c)] = [legible |-> call[c].under <= long, items |-> call[c].copy]
      /\ \A s \in Sheets : s # Sheet(c) => sheets'[s] = sheets[s]
  <2> DEFINE new == [legible |-> call[c].under <= long, items |-> call[c].copy]
  <2>1. sheets' = [sheets EXCEPT ![Sheet(c)] = new]
    BY <1>2
  <2> HIDE DEF new
  <2>2. sheets'[Sheet(c)] = new /\ \A s \in Sheets : s # Sheet(c) => sheets'[s] = sheets[s]
    BY <2>1, <1>1
  <2> QED
    BY <2>2 DEF new
<1> QED
  BY <1>2, <1>6, <1>7, <1>8, Zenon DEF long

(* A command of the admin, and who sees it.                                *)
LEMMA AdminMoves ==
  ASSUME LaneTyped, NEW c \in LaneCalls, AdminRuns(c)
  PROVE  \/ /\ container' = Command(wanted[c].op, container)
            /\ call'[c].at = "ran" /\ call'[c].saw = call[c].saw \cup {container'} /\ call'[c].name = call[c].name
            /\ call'[c].copy = call[c].copy /\ call'[c].under = call[c].under
            /\ call'[c].answer = (IF wanted[c].op = "status" THEN container ELSE "accepted")
            /\ \A d \in LaneCalls : d # c =>
                 /\ call'[d].at = call[d].at /\ call'[d].answer = call[d].answer /\ call'[d].copy = call[d].copy
                 /\ call'[d].name = call[d].name /\ call'[d].under = call[d].under
                 /\ call'[d].saw = IF call[d].at \in {"asked", "ran"} THEN call[d].saw \cup {container'} ELSE call[d].saw
                 /\ call[d].at \notin {"asked", "ran"} => call'[d] = call[d]
         \/ /\ container' = container /\ wanted[c].op # "status"
            /\ CallTurns(c, "told", <<>>, 0, call[c].name, call[c].saw, "failed")
         \/ /\ container' = container /\ wanted[c].op = "status"
            /\ CallTurns(c, "ran", call[c].copy, call[c].under, call[c].name, call[c].saw \cup {"not inspected"}, "absent")
<1> DEFINE Q == Seq(LaneItems)
           N == SUBSET (Nat \cup Sights)
           R == [at : LanePhases, copy : Q, under : Nat, name : Nat, saw : N, answer : LaneReplies]
           now == Command(wanted[c].op, container)
           reply == IF wanted[c].op = "status" THEN container ELSE "accepted"
<1>1. call \in [LaneCalls -> R]
  BY DEF LaneTyped
<1> HIDE DEF Q, N
<1>2. \A d \in LaneCalls : call[d] \in R
  BY <1>1
<1>3. CASE container' = container /\ wanted[c].op # "status" /\ Tells(c, "failed")
  BY <1>1, <1>2, <1>3 DEF Tells, Leads, CallTurns
<1>4. CASE container' = now /\
           call' = [d \in LaneCalls |->
                      IF d = c THEN [call[c] EXCEPT !.at = "ran", !.saw = @ \cup {container'}, !.answer = reply]
                      ELSE IF call[d].at \in {"asked", "ran"} THEN [call[d] EXCEPT !.saw = @ \cup {container'}]
                      ELSE call[d]]
  <2> HIDE DEF now, reply
  <2>1. call'[c] = [call[c] EXCEPT !.at = "ran", !.saw = @ \cup {container'}, !.answer = reply]
    BY <1>4, Zenon
  <2>2. \A d \in LaneCalls : d # c => call'[d] = IF call[d].at \in {"asked", "ran"} THEN [call[d] EXCEPT !.saw = @ \cup {container'}]
                                                 ELSE call[d]
    BY <1>4, Zenon
  <2>3. /\ call'[c].at = "ran" /\ call'[c].saw = call[c].saw \cup {container'} /\ call'[c].name = call[c].name
        /\ call'[c].copy = call[c].copy /\ call'[c].under = call[c].under /\ call'[c].answer = reply
    BY <2>1, <1>2
  <2>4. \A d \in LaneCalls : d # c =>
                 /\ call'[d].at = call[d].at /\ call'[d].answer = call[d].answer /\ call'[d].copy = call[d].copy
                 /\ call'[d].name = call[d].name /\ call'[d].under = call[d].under
                 /\ call'[d].saw = IF call[d].at \in {"asked", "ran"} THEN call[d].saw \cup {container'} ELSE call[d].saw
                 /\ call[d].at \notin {"asked", "ran"} => call'[d] = call[d]
    BY <2>2, <1>2
  <2> QED
    BY <1>4, <2>3, <2>4 DEF now, reply
<1>5. CASE container' = container /\ wanted[c].op = "status"
           /\ Leads(c, [call[c] EXCEPT !.at = "ran", !.saw = @ \cup {"not inspected"}, !.answer = "absent"])
  BY <1>1, <1>2, <1>5 DEF Leads, CallTurns
<1> QED
  BY <1>3, <1>4, <1>5 DEF AdminRuns

(* What a crash ends.                                                      *)
LEMMA CrashMoves ==
  ASSUME LaneTyped, NEW s \in Sheets, LaneCrash(s)
  PROVE  \A d \in LaneCalls :
           \/ /\ Sheet(d) = s /\ call[d].at \in {"made", "changed", "opened"}
              /\ call'[d].at = "told" /\ call'[d].answer = "lost" /\ call'[d].copy = <<>> /\ call'[d].under = 0
              /\ call'[d].name = call[d].name /\ call'[d].saw = call[d].saw
           \/ ~(Sheet(d) = s /\ call[d].at \in {"made", "changed", "opened"}) /\ call'[d] = call[d]
<1> DEFINE Q == Seq(LaneItems)
           N == SUBSET (Nat \cup Sights)
           R == [at : LanePhases, copy : Q, under : Nat, name : Nat, saw : N, answer : LaneReplies]
<1>1. call \in [LaneCalls -> R]
  BY DEF LaneTyped
<1> HIDE DEF Q, N
<1>2. \A d \in LaneCalls : call[d] \in R
  BY <1>1
<1>3. \A d \in LaneCalls : call'[d] = IF Sheet(d) = s /\ call[d].at \in {"made", "changed", "opened"}
                                  THEN [call[d] EXCEPT !.at = "told", !.answer = "lost", !.copy = <<>>, !.under = 0]
                                  ELSE call[d]
  BY Zenon DEF LaneCrash
<1> QED
  BY <1>2, <1>3

(* Every phase is one of its operation.                                    *)
LEMMA LanePhasesStep == LaneTyped /\ OpOfPhase /\ LanesNext => OpOfPhase'
<1> SUFFICES ASSUME LaneTyped, OpOfPhase, LanesNext PROVE OpOfPhase'
  OBVIOUS
<1>0. wanted' = wanted
  BY DEF LanesNext, Refuses, ClonesVoice, ReadsSheet, OpensSheet, FillsSheet, GetsCalendar, Speaks, AdminBegins, AdminRuns,
         AdminAnswers, MillisecondPasses, LaneCrash
<1>1. voiced \subseteq voiced'
  BY DEF LanesNext, Refuses, ClonesVoice, ReadsSheet, OpensSheet, FillsSheet, GetsCalendar, Speaks, AdminBegins, AdminRuns,
         AdminAnswers, MillisecondPasses, LaneCrash
<1> DEFINE Fits(d, at) ==
             /\ at \in {"changed", "opened"} => wanted[d].op \in {"upsert", "clone"}
             /\ at = "made" => wanted[d].op = "clone" /\ wanted[d].id \in voiced'
             /\ at = "speaking" => wanted[d].op = "speak"
             /\ at \in {"asked", "ran"} => wanted[d].op \in AdminOps
<1>2. \A d \in LaneCalls : Fits(d, call[d].at)
  BY <1>1 DEF OpOfPhase
<1>3. \A d : Fits(d, "told")
  OBVIOUS
<1>4. SUFFICES \A d \in LaneCalls : Fits(d, call'[d].at)
  BY <1>0 DEF OpOfPhase
<1>5. ASSUME NEW c \in LaneCalls, Refuses(c) \/ GetsCalendar(c) \/ AdminAnswers(c) PROVE \A d \in LaneCalls : Fits(d, call'[d].at)
  <2> HIDE DEF Fits
  <2> QED
    BY <1>5, <1>2, <1>3, LaneMoves DEF CallTurns
<1>6. ASSUME NEW c \in LaneCalls, ClonesVoice(c) PROVE \A d \in LaneCalls : Fits(d, call'[d].at)
  <2>1. call'[c].at = "told" \/ (call'[c].at = "made" /\ wanted[c].id \in voiced')
    BY <1>6, LaneMoves DEF CallTurns
  <2>2. \A d \in LaneCalls : d # c => call'[d] = call[d]
    BY <1>6, LaneMoves DEF CallTurns
  <2>3. Fits(c, call'[c].at)
    BY <2>1, <1>6 DEF ClonesVoice
  <2> HIDE DEF Fits
  <2> QED
    BY <2>2, <2>3, <1>2
<1>7. ASSUME NEW c \in LaneCalls, ReadsSheet(c) \/ OpensSheet(c) \/ Speaks(c) \/ AdminBegins(c)
      PROVE \A d \in LaneCalls : Fits(d, call'[d].at)
  <2>1. \A d \in LaneCalls : d # c => call'[d] = call[d]
    BY <1>7, LaneMoves DEF CallTurns
  <2>2. Fits(c, call'[c].at)
    BY LaneMoves, <1>2, <1>7 DEF CallTurns, ReadsSheet, OpensSheet, Speaks, AdminBegins
  <2> HIDE DEF Fits
  <2> QED
    BY <2>1, <2>2, <1>2
<1>8. ASSUME NEW c \in LaneCalls, FillsSheet(c) PROVE \A d \in LaneCalls : Fits(d, call'[d].at)
  <2>1. \A d \in LaneCalls : call'[d].at = call[d].at \/ call'[d].at = "told"
    BY <1>8, FillMoves
  <2> HIDE DEF Fits
  <2> QED
    BY <2>1, <1>2, <1>3
<1>9. ASSUME NEW c \in LaneCalls, AdminRuns(c) PROVE \A d \in LaneCalls : Fits(d, call'[d].at)
  <2>1. \A d \in LaneCalls : call'[d].at = call[d].at \/ call'[d].at = "told" \/ (d = c /\ call'[c].at = "ran")
    BY <1>9, AdminMoves DEF CallTurns
  <2>2. Fits(c, "ran")
    BY <1>9, <1>2 DEF AdminRuns
  <2> HIDE DEF Fits
  <2> QED
    BY <2>1, <2>2, <1>2, <1>3
<1>10. ASSUME NEW s \in Sheets, LaneCrash(s) PROVE \A d \in LaneCalls : Fits(d, call'[d].at)
  <2>1. \A d \in LaneCalls : call'[d].at = call[d].at \/ call'[d].at = "told"
    BY <1>10, CrashMoves
  <2> HIDE DEF Fits
  <2> QED
    BY <2>1, <1>2, <1>3
<1>11. CASE MillisecondPasses
  BY <1>11, <1>2 DEF MillisecondPasses
<1> HIDE DEF Fits
<1> QED
  BY <1>5, <1>6, <1>7, <1>8, <1>9, <1>10, <1>11 DEF LanesNext

(* Speech stays filed.                                                     *)
LEMMA SpeechStep == LaneTyped /\ OpOfPhase /\ SpeechFiled /\ LanesNext => SpeechFiled'
<1> SUFFICES ASSUME LaneTyped, OpOfPhase, SpeechFiled, LanesNext PROVE SpeechFiled'
  OBVIOUS
<1>0. wanted' = wanted
  BY DEF LanesNext, Refuses, ClonesVoice, ReadsSheet, OpensSheet, FillsSheet, GetsCalendar, Speaks, AdminBegins, AdminRuns,
         AdminAnswers, MillisecondPasses, LaneCrash
<1> DEFINE Hold(d, at, answer, saw, name) ==
             /\ at = "speaking" => saw = {name}
             /\ wanted[d].op = "speak" /\ at = "told" /\ answer = "accepted" => saw = {name} /\ name \in DOMAIN spoken
           Holds(d) == Hold(d, call'[d].at, call'[d].answer, call'[d].saw, call'[d].name)
           Answering(d) == call'[d].at = "told" /\ call'[d].saw = call[d].saw
<1>1. \A d \in LaneCalls : Hold(d, call[d].at, call[d].answer, call[d].saw, call[d].name)
  BY DEF SpeechFiled, Accepted
<1>2. \A n \in DOMAIN spoken :
       spoken[n] \in LaneCalls /\ wanted[spoken[n]].op = "speak" /\ call[spoken[n]].saw = {n} /\ call[spoken[n]].at = "told"
  BY DEF SpeechFiled
<1>3. ASSUME spoken' = spoken, \A d \in LaneCalls : Holds(d), \A d \in LaneCalls : call[d].at = "told" => Answering(d)
      PROVE  SpeechFiled'
  BY <1>0, <1>2, <1>3 DEF SpeechFiled, Accepted
<1>4. ASSUME NEW c \in LaneCalls, Refuses(c) \/ GetsCalendar(c) \/ AdminAnswers(c) \/ ClonesVoice(c) \/ ReadsSheet(c)
             \/ OpensSheet(c) \/ AdminBegins(c)
      PROVE  SpeechFiled'
  <2>1. spoken' = spoken /\ call[c].at # "told"
    BY <1>4 DEF Refuses, GetsCalendar, AdminAnswers, ClonesVoice, ReadsSheet, OpensSheet, AdminBegins
  <2>2. \A d \in LaneCalls : d # c => call'[d] = call[d]
    BY <1>4, LaneMoves DEF CallTurns
  <2>3. call'[c].at # "speaking"
    BY <1>4, LaneMoves DEF CallTurns
  <2>4. ~(wanted[c].op = "speak" /\ call'[c].at = "told" /\ call'[c].answer = "accepted")
    BY LaneMoves, <1>4 DEF CallTurns, GetsCalendar, AdminAnswers, OpOfPhase, AdminOps
  <2>5. \A d \in LaneCalls : Holds(d)
    BY <2>2, <2>3, <2>4, <1>1
  <2>6. \A d \in LaneCalls : call[d].at = "told" => Answering(d)
    BY <2>1, <2>2
  <2> HIDE DEF Holds, Answering
  <2> QED
    BY <2>1, <2>5, <2>6, <1>3
<1>5. ASSUME NEW c \in LaneCalls, Speaks(c) PROVE SpeechFiled'
  <2>0. wanted[c].op = "speak"
    BY <1>5 DEF Speaks
  <2>1. CASE call[c].at = "new" /\ CallTurns(c, "speaking", call[c].copy, call[c].under, laneMs, {laneMs}, call[c].answer) /\ spoken' = spoken
    <3>1. \A d \in LaneCalls : Holds(d)
      BY <2>1, <1>1 DEF CallTurns
    <3>2. \A d \in LaneCalls : call[d].at = "told" => Answering(d)
      BY <2>1 DEF CallTurns
    <3> HIDE DEF Holds, Answering
    <3> QED
      BY <2>1, <3>1, <3>2, <1>3
  <2>2. CASE call[c].at = "speaking" /\ CallTurns(c, "told", <<>>, 0, call[c].name, call[c].saw, "failed") /\ spoken' = spoken
    <3>1. \A d \in LaneCalls : Holds(d)
      BY <2>2, <1>1 DEF CallTurns
    <3>2. \A d \in LaneCalls : call[d].at = "told" => Answering(d)
      BY <2>2 DEF CallTurns
    <3> HIDE DEF Holds, Answering
    <3> QED
      BY <2>2, <3>1, <3>2, <1>3
  <2>3. CASE /\ call[c].at = "speaking" /\ CallTurns(c, "told", <<>>, 0, call[c].name, call[c].saw, "accepted")
             /\ spoken' = [n \in DOMAIN spoken \cup {call[c].name} |-> IF n = call[c].name THEN c ELSE spoken[n]]
    BY <2>3, <1>1, <2>0, <1>2, <1>0 DEF CallTurns, SpeechFiled, Accepted
  <2> HIDE DEF Hold
  <2> QED
    BY <1>5, <2>1, <2>2, <2>3, LaneMoves
<1>6. ASSUME NEW c \in LaneCalls, FillsSheet(c) PROVE SpeechFiled'
  <2>1. wanted[c].op # "speak" /\ spoken' = spoken /\ call[c].at = "opened"
    BY <1>6 DEF FillsSheet, OpOfPhase
  <2>2. \A d \in LaneCalls : Holds(d)
    BY <1>6, <2>1, <1>1, FillMoves, ZenonT(30)
  <2>3. \A d \in LaneCalls : call[d].at = "told" => Answering(d)
    BY <1>6, <2>1, FillMoves
  <2> HIDE DEF Holds, Answering
  <2> QED
    BY <2>1, <2>2, <2>3, <1>3
<1>7. ASSUME NEW c \in LaneCalls, AdminRuns(c) PROVE SpeechFiled'
  <2>1. spoken' = spoken /\ call[c].at = "asked"
    BY <1>7 DEF AdminRuns
  <2>2. \A d \in LaneCalls : call[d].at \in {"asked", "ran"} => wanted[d].op # "speak"
    BY DEF OpOfPhase, AdminOps
  <2>3. \A d \in LaneCalls : Holds(d)
    BY <1>7, <2>1, <2>2, <1>1, AdminMoves DEF CallTurns
  <2>4. \A d \in LaneCalls : call[d].at = "told" => Answering(d)
    BY <1>7, <2>1, AdminMoves DEF CallTurns
  <2> HIDE DEF Holds, Answering
  <2> QED
    BY <2>1, <2>3, <2>4, <1>3
<1>8. ASSUME NEW s \in Sheets, LaneCrash(s) PROVE SpeechFiled'
  <2>1. spoken' = spoken
    BY <1>8 DEF LaneCrash
  <2>2. \A d \in LaneCalls : Holds(d)
    BY <1>8, <1>1, CrashMoves
  <2>3. \A d \in LaneCalls : call[d].at = "told" => Answering(d)
    BY <1>8, CrashMoves
  <2> HIDE DEF Holds, Answering
  <2> QED
    BY <2>1, <2>2, <2>3, <1>3
<1>9. CASE MillisecondPasses
  BY <1>9, <1>0, <1>3, <1>1, Zenon DEF MillisecondPasses
<1> QED
  BY <1>4, <1>5, <1>6, <1>7, <1>8, <1>9 DEF LanesNext

(* What commands saw stays true.                                           *)
LEMMA CommandsStep == LaneTyped /\ OpOfPhase /\ CommandsSaw /\ LanesNext => CommandsSaw'
<1> SUFFICES ASSUME LaneTyped, OpOfPhase, CommandsSaw, LanesNext PROVE CommandsSaw'
  OBVIOUS
<1>0. wanted' = wanted
  BY DEF LanesNext, Refuses, ClonesVoice, ReadsSheet, OpensSheet, FillsSheet, GetsCalendar, Speaks, AdminBegins, AdminRuns,
         AdminAnswers, MillisecondPasses, LaneCrash
<1> DEFINE Saw(d, k, now) ==
             /\ k.at \in {"asked", "ran"} => now \in k.saw /\ (now = "absent" /\ wanted[d].op # "status" => k.saw = {"absent"})
             /\ k.at = "ran" /\ wanted[d].op = "start" => "running" \in k.saw
             /\ k.at = "ran" /\ wanted[d].op = "restart" => k.saw = {"absent"} \/ "running" \in k.saw
             /\ k.at = "ran" /\ wanted[d].op = "status" => StateFits(k)
             /\ k.at = "told" =>
                  /\ wanted[d].op = "start" /\ k.answer = "accepted" => "running" \in k.saw
                  /\ wanted[d].op = "restart" /\ k.answer = "accepted" => k.saw = {"absent"} \/ "running" \in k.saw
                  /\ wanted[d].op = "status" /\ k.answer # "refused" => StateFits(k)
<1>1. \A d \in LaneCalls : Saw(d, call[d], container)
  BY DEF CommandsSaw, Accepted
<1>2. SUFFICES \A d \in LaneCalls : Saw(d, call'[d], container')
  BY <1>0 DEF CommandsSaw, Accepted
<1>3. ASSUME NEW c \in LaneCalls, Refuses(c) PROVE \A d \in LaneCalls : Saw(d, call'[d], container')
  <2>1. Saw(c, call'[c], container')
    BY <1>3, LaneMoves DEF CallTurns
  <2>2. \A d \in LaneCalls : d # c => call'[d] = call[d]
    BY <1>3, LaneMoves DEF CallTurns
  <2>3. container' = container
    BY <1>3 DEF Refuses
  <2> HIDE DEF Saw
  <2> QED
    BY <2>1, <2>2, <2>3, <1>1
<1>4. ASSUME NEW c \in LaneCalls, GetsCalendar(c) \/ ClonesVoice(c) \/ ReadsSheet(c) \/ OpensSheet(c) \/ Speaks(c)
      PROVE  \A d \in LaneCalls : Saw(d, call'[d], container')
  <2>1. wanted[c].op \notin AdminOps /\ container' = container
    BY <1>4 DEF GetsCalendar, ClonesVoice, ReadsSheet, OpensSheet, Speaks, OpOfPhase, AdminOps
  <2>2. \A d \in LaneCalls : d # c => call'[d] = call[d]
    BY <1>4, LaneMoves DEF CallTurns
  <2>3. call'[c].at \notin {"asked", "ran"}
    BY <1>4, LaneMoves DEF CallTurns
  <2>4. Saw(c, call'[c], container')
    BY <2>1, <2>3 DEF AdminOps
  <2> HIDE DEF Saw
  <2> QED
    BY <2>1, <2>2, <2>4, <1>1
<1>5. ASSUME NEW c \in LaneCalls, AdminBegins(c) PROVE \A d \in LaneCalls : Saw(d, call'[d], container')
  <2>1. container' = container
    BY <1>5 DEF AdminBegins
  <2>2. \A d \in LaneCalls : d # c => call'[d] = call[d]
    BY <1>5, LaneMoves DEF CallTurns
  <2>3. call'[c].at = "asked" /\ call'[c].saw = {container}
    BY <1>5, LaneMoves DEF CallTurns
  <2>4. Saw(c, call'[c], container')
    BY <2>1, <2>3
  <2> HIDE DEF Saw
  <2> QED
    BY <2>1, <2>2, <2>4, <1>1
<1>6. ASSUME NEW c \in LaneCalls, AdminAnswers(c) PROVE \A d \in LaneCalls : Saw(d, call'[d], container')
  <2>1. container' = container /\ call[c].at = "ran"
    BY <1>6 DEF AdminAnswers
  <2>2. \A d \in LaneCalls : d # c => call'[d] = call[d]
    BY <1>6, LaneMoves DEF CallTurns
  <2>3. call'[c].at = "told" /\ call'[c].saw = call[c].saw /\ call'[c].answer = call[c].answer
    BY <1>6, LaneMoves DEF CallTurns
  <2>4. Saw(c, call'[c], container')
    BY <2>1, <2>3, <1>1 DEF StateFits
  <2> HIDE DEF Saw
  <2> QED
    BY <2>1, <2>2, <2>4, <1>1
<1>7. ASSUME NEW c \in LaneCalls, AdminRuns(c) PROVE \A d \in LaneCalls : Saw(d, call'[d], container')
  <2>0. call[c].at = "asked" /\ wanted[c].op \in AdminOps
    BY <1>7 DEF AdminRuns, OpOfPhase
  <2>1. CASE container' = container /\ wanted[c].op # "status"
             /\ CallTurns(c, "told", <<>>, 0, call[c].name, call[c].saw, "failed")
    <3>1. Saw(c, call'[c], container')
      BY <2>1 DEF CallTurns
    <3>2. \A d \in LaneCalls : d # c => call'[d] = call[d]
      BY <2>1 DEF CallTurns
    <3> HIDE DEF Saw
    <3> QED
      BY <2>1, <3>1, <3>2, <1>1
  <2>2. CASE /\ container' = Command(wanted[c].op, container)
             /\ call'[c].at = "ran" /\ call'[c].saw = call[c].saw \cup {container'}
             /\ call'[c].answer = (IF wanted[c].op = "status" THEN container ELSE "accepted")
             /\ \A d \in LaneCalls : d # c =>
                  /\ call'[d].at = call[d].at /\ call'[d].answer = call[d].answer
                  /\ call'[d].saw = IF call[d].at \in {"asked", "ran"} THEN call[d].saw \cup {container'} ELSE call[d].saw
    <3>1. /\ container' = "absent" => container = "absent"
          /\ wanted[c].op = "start" => container' = "running"
          /\ wanted[c].op = "restart" => container' = "running" \/ (container' = "absent" /\ container = "absent")
          /\ container = "absent" => container' \in {"absent", "running"}
          /\ wanted[c].op = "status" => container' = container
      BY <2>0, <2>2 DEF Command, AdminOps
    <3>2. Saw(c, call'[c], container')
      BY <2>0, <1>1, <2>2, <3>1 DEF StateFits
    <3>3. ASSUME NEW d \in LaneCalls, d # c PROVE Saw(d, call'[d], container')
      <4>1. CASE call[d].at \in {"asked", "ran"}
        BY <2>2, <3>3, <4>1, <1>1, <3>1 DEF StateFits
      <4>2. CASE call[d].at \notin {"asked", "ran"}
        BY <2>2, <3>3, <4>2, <1>1 DEF StateFits
      <4> QED
        BY <4>1, <4>2
    <3> HIDE DEF Saw
    <3> QED
      BY <3>2, <3>3
  <2>3. CASE /\ container' = container /\ wanted[c].op = "status"
             /\ CallTurns(c, "ran", call[c].copy, call[c].under, call[c].name, call[c].saw \cup {"not inspected"}, "absent")
    <3>1. Saw(c, call'[c], container')
      BY <2>0, <2>3, <1>1 DEF CallTurns, StateFits
    <3>2. \A d \in LaneCalls : d # c => call'[d] = call[d]
      BY <2>3 DEF CallTurns
    <3> HIDE DEF Saw
    <3> QED
      BY <2>3, <3>1, <3>2, <1>1
  <2> HIDE DEF Saw
  <2> QED
    BY <1>7, <2>1, <2>2, <2>3, AdminMoves, Zenon
<1>8. ASSUME NEW c \in LaneCalls, FillsSheet(c) PROVE \A d \in LaneCalls : Saw(d, call'[d], container')
  <2>1. wanted[c].op \notin AdminOps /\ container' = container
    BY <1>8 DEF FillsSheet, OpOfPhase, AdminOps
  <2>2. Saw(c, call'[c], container')
    BY <1>8, <2>1, FillMoves DEF AdminOps
  <2>3. ASSUME NEW d \in LaneCalls, d # c PROVE Saw(d, call'[d], container')
    <3>1. call'[d].at = call[d].at /\ call'[d].saw = call[d].saw /\ call'[d].answer = call[d].answer
      BY <1>8, <2>3, FillMoves
    <3> QED
      BY <3>1, <2>1, <1>1 DEF StateFits
  <2> HIDE DEF Saw
  <2> QED
    BY <2>2, <2>3
<1>9. ASSUME NEW s \in Sheets, LaneCrash(s) PROVE \A d \in LaneCalls : Saw(d, call'[d], container')
  <2>0. container' = container
    BY <1>9 DEF LaneCrash
  <2>1. ASSUME NEW d \in LaneCalls PROVE Saw(d, call'[d], container')
    BY <2>0, <1>1, <1>9, CrashMoves DEF OpOfPhase
  <2> HIDE DEF Saw
  <2> QED
    BY <2>1
<1>10. CASE MillisecondPasses
  BY <1>10, <1>1 DEF MillisecondPasses
<1> HIDE DEF Saw
<1> QED
  BY <1>3, <1>4, <1>5, <1>6, <1>7, <1>8, <1>9, <1>10 DEF LanesNext

(* Lists and copies stay distinct.                                         *)
LEMMA ListsStep == LaneTyped /\ OpOfPhase /\ ListsDistinct /\ LanesNext => ListsDistinct'
<1> SUFFICES ASSUME LaneTyped, OpOfPhase, ListsDistinct, LanesNext PROVE ListsDistinct'
  OBVIOUS
<1>0. wanted' = wanted /\ voiced \subseteq voiced'
  BY DEF LanesNext, Refuses, ClonesVoice, ReadsSheet, OpensSheet, FillsSheet, GetsCalendar, Speaks, AdminBegins, AdminRuns,
         AdminAnswers, MillisecondPasses, LaneCrash
<1> DEFINE Fine(d, k) ==
             /\ DistinctIds(k.copy) /\ (k.at # "opened" => k.under = 0)
             /\ k.at \in {"changed", "opened"} => wanted[d].id \in IdsIn(k.copy)
             /\ Sheet(d) = "voices" => IdsIn(k.copy) \subseteq voiced'
           Listable == \A s \in Sheets : DistinctIds(sheets'[s].items) /\ (s = "voices" => IdsIn(sheets'[s].items) \subseteq voiced')
<1>1. DistinctIds(<<>>) /\ IdsIn(<<>>) = {}
  BY DEF DistinctIds, IdsIn
<1>2. \A d : Sheet(d)' = Sheet(d)
  BY <1>0 DEF Sheet
<1>3. \A d \in LaneCalls : Fine(d, call[d])
  <2>1. ASSUME NEW d \in LaneCalls PROVE Fine(d, call[d])
    BY <1>0 DEF ListsDistinct
  <2> QED
    BY <2>1
<1>4. \A s \in Sheets : DistinctIds(sheets[s].items) /\ (s = "voices" => IdsIn(sheets[s].items) \subseteq voiced)
  BY Zenon DEF ListsDistinct
<1>5. sheets' = sheets => Listable
  BY <1>4, <1>0
<1>6. SUFFICES Listable /\ \A d \in LaneCalls : Fine(d, call'[d])
  <2>1. /\ \A s \in Sheets : DistinctIds(sheets'[s].items)
        /\ IdsIn(sheets'["voices"].items) \subseteq voiced'
    BY <1>6 DEF Sheets
  <2>2. \A d \in LaneCalls :
             /\ DistinctIds(call'[d].copy) /\ (call'[d].at # "opened" => call'[d].under = 0)
             /\ call'[d].at \in {"changed", "opened"} => wanted'[d].id \in IdsIn(call'[d].copy)
             /\ Sheet(d)' = "voices" => IdsIn(call'[d].copy) \subseteq voiced'
    BY <1>6, <1>0, <1>2
  <2>3. \A x : DistinctIds(x)' = DistinctIds(x) /\ IdsIn(x)' = IdsIn(x)
    BY DEF DistinctIds, IdsIn
  <2> HIDE DEF Listable, Fine
  <2> QED
    BY <2>1, <2>2, Zenon DEF ListsDistinct, DistinctIds, IdsIn
<1>7. ASSUME NEW c \in LaneCalls, Refuses(c) \/ ClonesVoice(c) \/ OpensSheet(c) \/ GetsCalendar(c) \/ Speaks(c) \/ AdminBegins(c)
             \/ AdminAnswers(c)
      PROVE  \A d \in LaneCalls : Fine(d, call'[d])
  <2>1. \A d \in LaneCalls : d # c => call'[d] = call[d]
    BY <1>7, LaneMoves DEF CallTurns
  <2>2. \/ call'[c].copy = <<>> /\ call'[c].under = 0 /\ call'[c].at \notin {"changed", "opened"}
        \/ call'[c].copy = call[c].copy /\ call'[c].under = call[c].under /\ call'[c].at \notin {"changed", "opened"}
           /\ call[c].at # "opened"
        \/ /\ call'[c].copy = call[c].copy /\ call'[c].under = call[c].under
           /\ call'[c].at = "opened" /\ call[c].at = "changed"
    <3>1. CASE Refuses(c) \/ GetsCalendar(c)
      BY <3>1, LaneMoves DEF CallTurns
    <3>2. CASE ClonesVoice(c)
      BY <3>2, LaneMoves DEF ClonesVoice, CallTurns
    <3>3. CASE OpensSheet(c)
      BY <3>3, LaneMoves DEF OpensSheet, CallTurns
    <3>4. CASE Speaks(c)
      BY <3>4, LaneMoves DEF Speaks, CallTurns
    <3>5. CASE AdminBegins(c) \/ AdminAnswers(c)
      BY <3>5, LaneMoves DEF AdminBegins, AdminAnswers, CallTurns
    <3> QED
      BY <1>7, <3>1, <3>2, <3>3, <3>4, <3>5
  <2>3. Fine(c, call'[c])
    BY <1>3, <2>2, <1>1
  <2> HIDE DEF Fine
  <2> QED
    BY <2>1, <2>3, <1>3
<1>8. ASSUME NEW c \in LaneCalls, ReadsSheet(c) PROVE \A d \in LaneCalls : Fine(d, call'[d])
  <2> DEFINE items == Reading(Sheet(c))
             draft == IF Sheet(c) = "calendar" THEN Upserted(c, items) ELSE Registered(c, items)
  <2>1. /\ \A d \in LaneCalls : d # c => call'[d] = call[d]
        /\ call'[c].at = "changed" /\ call'[c].copy = draft /\ call'[c].under = call[c].under
    BY <1>8, LaneMoves DEF CallTurns
  <2>2. Sheet(c) \in Sheets
    BY DEF Sheet, Sheets
  <2>3. items \in Seq(LaneItems) /\ DistinctIds(items) /\ (Sheet(c) = "voices" => IdsIn(items) \subseteq voiced)
    <3>1. sheets[Sheet(c)].items \in Seq(LaneItems)
      <4> DEFINE Q == Seq(LaneItems)
      <4>1. sheets \in [Sheets -> [legible : BOOLEAN, items : Q]]
        BY DEF LaneTyped
      <4> HIDE DEF Q
      <4>2. sheets[Sheet(c)].items \in Q
        BY <4>1, <2>2
      <4> QED
        BY <4>2 DEF Q
    <3>2. <<>> \in Seq(LaneItems)
      <4> DEFINE I == LaneItems
      <4> HIDE DEF I
      <4>1. <<>> \in Seq(I)
        OBVIOUS
      <4> QED
        BY <4>1 DEF I
    <3>3. items = sheets[Sheet(c)].items \/ items = <<>>
      BY DEF Reading
    <3>4. DistinctIds(sheets[Sheet(c)].items) /\ (Sheet(c) = "voices" => IdsIn(sheets[Sheet(c)].items) \subseteq voiced)
      BY <1>4, <2>2
    <3> HIDE DEF items
    <3> QED
      BY <3>1, <3>2, <3>3, <3>4, <1>1
  <2>4. Sheet(c) = "voices" => wanted[c].id \in voiced
    BY <1>8 DEF Sheet, ReadsSheet, OpOfPhase
  <2> HIDE DEF items
  <2>5. DistinctIds(draft) /\ IdsIn(draft) = IdsIn(items) \cup {wanted[c].id}
    BY <2>3, UpsertedIs, RegisteredIs, Zenon
  <2>6. call[c].under = 0
    BY <1>8, <1>3 DEF ReadsSheet
  <2> HIDE DEF draft
  <2>7. Fine(c, call'[c])
    BY <2>1, <2>3, <2>4, <2>5, <2>6, <1>0
  <2> HIDE DEF Fine
  <2> QED
    BY <2>1, <2>7, <1>3
<1>9. ASSUME NEW c \in LaneCalls, FillsSheet(c) PROVE Listable /\ \A d \in LaneCalls : Fine(d, call'[d])
  <2>0. Sheet(c) \in Sheets
    BY DEF Sheet, Sheets
  <2>1. /\ sheets'[Sheet(c)] = [legible |-> call[c].under <= Len(call[c].copy), items |-> call[c].copy]
        /\ \A s \in Sheets : s # Sheet(c) => sheets'[s] = sheets[s]
    BY <1>9, FillMoves
  <2>2. sheets'[Sheet(c)].items = call[c].copy
    BY <2>1
  <2>3. Fine(c, call[c])
    BY <1>3
  <2>4. ASSUME NEW s \in Sheets
        PROVE  DistinctIds(sheets'[s].items) /\ (s = "voices" => IdsIn(sheets'[s].items) \subseteq voiced')
    <3>1. CASE s = Sheet(c)
      BY <2>3, <3>1, <2>2
    <3>2. CASE s # Sheet(c)
      BY <1>4, <3>2, <2>1, <1>0
    <3> QED
      BY <3>1, <3>2
  <2>5. ASSUME NEW d \in LaneCalls PROVE Fine(d, call'[d])
    <3>1. CASE d = c
      BY <1>9, FillMoves, <3>1, <1>1
    <3>2. CASE d # c
      <4>1. /\ call'[d].at = call[d].at /\ call'[d].copy = call[d].copy
            /\ call[d].at # "opened" => call'[d].under = call[d].under
        BY <1>9, <3>2, FillMoves
      <4>2. Fine(d, call[d])
        BY <1>3
      <4> QED
        BY <4>1, <4>2
    <3> QED
      BY <3>1, <3>2
  <2> QED
    BY <2>4, <2>5
<1>10. ASSUME NEW c \in LaneCalls, AdminRuns(c) PROVE \A d \in LaneCalls : Fine(d, call'[d])
  <2>1. call[c].at = "asked"
    BY <1>10 DEF AdminRuns
  <2>2. ASSUME NEW d \in LaneCalls
        PROVE  \/ call'[d].copy = <<>> /\ call'[d].under = 0 /\ call'[d].at \notin {"changed", "opened"}
               \/ call'[d].copy = call[d].copy /\ call'[d].under = call[d].under /\ call'[d].at = "ran" /\ call[d].at = "asked"
               \/ call'[d].copy = call[d].copy /\ call'[d].under = call[d].under /\ call'[d].at = call[d].at
    BY <1>10, <2>1, AdminMoves DEF CallTurns
  <2>3. ASSUME NEW d \in LaneCalls PROVE Fine(d, call'[d])
    BY <1>3, <2>2, <1>1
  <2> HIDE DEF Fine
  <2> QED
    BY <2>3
<1>11. ASSUME NEW s \in Sheets, LaneCrash(s) PROVE \A d \in LaneCalls : Fine(d, call'[d])
  <2>1. ASSUME NEW d \in LaneCalls PROVE Fine(d, call'[d])
    <3>1. Fine(d, call[d])
      BY <1>3
    <3>2. call'[d] = call[d] \/ (call'[d].at = "told" /\ call'[d].copy = <<>> /\ call'[d].under = 0)
      BY <1>11, CrashMoves
    <3>3. call'[d].at = "told" /\ call'[d].copy = <<>> /\ call'[d].under = 0 => Fine(d, call'[d])
      BY <1>1
    <3> HIDE DEF Fine
    <3> QED
      BY <3>1, <3>2, <3>3
  <2> HIDE DEF Fine
  <2> QED
    BY <2>1
<1>12. ASSUME MillisecondPasses PROVE \A d \in LaneCalls : Fine(d, call'[d])
  <2>1. call' = call
    BY <1>12 DEF MillisecondPasses
  <2> HIDE DEF Fine
  <2> QED
    BY <2>1, <1>3
<1>13. ASSUME NEW c \in LaneCalls, OpensSheet(c) PROVE Listable
  <2>1. Sheet(c) \in Sheets /\ \A s \in Sheets : sheets'[s] = IF s = Sheet(c) THEN [legible |-> FALSE, items |-> <<>>] ELSE sheets[s]
    BY <1>13 DEF OpensSheet, LaneTyped, Sheet, Sheets
  <2>2. ASSUME NEW s \in Sheets
        PROVE  DistinctIds(sheets'[s].items) /\ (s = "voices" => IdsIn(sheets'[s].items) \subseteq voiced')
    BY <2>1, <1>4, <1>1, <1>0
  <2> QED
    BY <2>2
<1>14. \/ sheets' = sheets \/ \E c \in LaneCalls : OpensSheet(c) \/ FillsSheet(c)
  BY DEF LanesNext, Refuses, ClonesVoice, ReadsSheet, GetsCalendar, Speaks, AdminBegins, AdminRuns,
         AdminAnswers, MillisecondPasses, LaneCrash
<1>15. Listable
  <2> HIDE DEF Listable, Fine
  <2> QED
    BY <1>5, <1>9, <1>13, <1>14
<1> HIDE DEF Listable, Fine
<1> QED
  BY <1>15, <1>7, <1>8, <1>9, <1>10, <1>11, <1>12 DEF LanesNext

(* A request whose id is known to the list.                                *)
Listing(d) == wanted[d].op \in {"upsert", "clone"} /\ call[d].at = "told" /\ call[d].answer = "accepted"

(* The ids that a list may hold are those of the calls it served.          *)
LEMMA KnownIdsAre == \A s : KnownIds(s) = {wanted[d].id : d \in {e \in LaneCalls : Listing(e) /\ Sheet(e) = s}}
BY DEF Accepted, Listing, KnownIds

(* Known ids change when a request is accepted.                            *)
LEMMA KnownIdsStay ==
  ASSUME wanted' = wanted, NEW s, \A d \in LaneCalls : Sheet(d) = s => (Listing(d)' <=> Listing(d))
  PROVE  KnownIds(s)' = KnownIds(s)
BY KnownIdsAre DEF Sheet, KnownIds, Accepted, Listing

(* A step that does not touch a sheet leaves it as quiet as it was.        *)
LEMMA QuietFrame ==
  ASSUME wanted' = wanted, NEW s \in Sheets, sheets'[s] = sheets[s],
         \A d \in LaneCalls : Sheet(d) = s =>
           /\ call'[d].at \in {"changed", "opened"} <=> call[d].at \in {"changed", "opened"}
           /\ call[d].at \in {"changed", "opened"} => call'[d] = call[d]
           /\ Listing(d)' <=> Listing(d)
  PROVE  /\ QuietSheet(s) => QuietSheet(s)'
         /\ KnownIds(s)' = KnownIds(s)
         /\ s = "calendar" /\ firsts' = firsts /\ MadeByFirst => MadeByFirst'
BY KnownIdsStay DEF Sheet, InSheet, QuietSheet, IdsIn, MadeByFirst

(* Sheets stay as quiet as they were, and firsts those of the entries.     *)
LEMMA QuietStep == LaneTyped /\ OpOfPhase /\ ListsDistinct /\ QuietSheets /\ FirstsKept /\ LanesNext => QuietSheets' /\ FirstsKept'
<1> SUFFICES ASSUME LaneTyped, OpOfPhase, ListsDistinct, QuietSheets, FirstsKept, LanesNext PROVE QuietSheets' /\ FirstsKept'
  OBVIOUS
<1>0. wanted' = wanted /\ clashed \subseteq clashed'
  BY DEF LanesNext, Refuses, ClonesVoice, ReadsSheet, OpensSheet, FillsSheet, GetsCalendar, Speaks, AdminBegins, AdminRuns,
         AdminAnswers, MillisecondPasses, LaneCrash
<1>1. \A d : Sheet(d)' = Sheet(d) /\ Sheet(d) \in Sheets
  BY <1>0 DEF Sheet, Sheets
<1> DEFINE Frame == \A d \in LaneCalls :
                      /\ call'[d].at \in {"changed", "opened"} <=> call[d].at \in {"changed", "opened"}
                      /\ call[d].at \in {"changed", "opened"} => call'[d] = call[d]
                      /\ Listing(d)' <=> Listing(d)
<1> DEFINE FrameOf(s) == \A d \in LaneCalls : Sheet(d) = s =>
                      /\ call'[d].at \in {"changed", "opened"} <=> call[d].at \in {"changed", "opened"}
                      /\ call[d].at \in {"changed", "opened"} => call'[d] = call[d]
                      /\ Listing(d)' <=> Listing(d)
<1>11. ASSUME NEW s \in Sheets, FrameOf(s), sheets'[s] = sheets[s]
       PROVE  /\ QuietSheet(s) => QuietSheet(s)'
              /\ KnownIds(s)' = KnownIds(s)
              /\ s = "calendar" /\ firsts' = firsts /\ MadeByFirst => MadeByFirst'
  BY <1>11, <1>0, QuietFrame, Zenon
<1>12. "calendar" \in Sheets
  BY DEF Sheets
<1>2. ASSUME Frame, sheets' = sheets, clashed' = clashed, firsts' = firsts PROVE QuietSheets' /\ FirstsKept'
  <2>1. \A s \in Sheets : FrameOf(s) /\ sheets'[s] = sheets[s]
    BY <1>2
  <2> HIDE DEF FrameOf
  <2>2. ASSUME NEW s \in Sheets, s \notin clashed PROVE QuietSheet(s)'
    BY <2>2, <2>1, <1>11 DEF QuietSheets
  <2>3. clashed' = clashed
    BY <1>2
  <2>4. QuietSheets'
    BY <2>2, <2>3 DEF QuietSheets
  <2>5. /\ KnownIds("calendar")' = KnownIds("calendar")
        /\ "calendar" = "calendar" /\ firsts' = firsts /\ MadeByFirst => MadeByFirst'
    BY <2>1, <1>11, <1>12
  <2>6. FirstsKept'
    BY <2>5, <1>2 DEF FirstsKept
  <2> QED
    BY <2>4, <2>6
<1>3. ASSUME NEW c \in LaneCalls, \/ Refuses(c) \/ ClonesVoice(c) \/ GetsCalendar(c) \/ Speaks(c) \/ AdminBegins(c)
                                 \/ AdminAnswers(c)
      PROVE  Frame
  <2>1. \A d \in LaneCalls : d # c => call'[d] = call[d]
    BY <1>3, LaneMoves DEF CallTurns
  <2>2. call'[c].at \notin {"changed", "opened"} /\ call[c].at \notin {"changed", "opened", "told"}
    BY <1>3, LaneMoves DEF CallTurns, Refuses, ClonesVoice, GetsCalendar, Speaks, AdminBegins, AdminAnswers
  <2>3. ~(wanted[c].op \in {"upsert", "clone"} /\ call'[c].at = "told" /\ call'[c].answer = "accepted")
    BY LaneMoves, <1>3 DEF CallTurns, GetsCalendar, Speaks, AdminAnswers, OpOfPhase, AdminOps
  <2> QED
    BY <2>1, <2>2, <2>3, <1>0 DEF Listing
<1>4. ASSUME NEW c \in LaneCalls, AdminRuns(c) PROVE Frame
  <2>1. call[c].at = "asked" /\ wanted[c].op \in AdminOps
    BY <1>4 DEF AdminRuns, OpOfPhase
  <2>2. \A d \in LaneCalls : call[d].at \in {"asked", "ran"} => wanted[d].op \notin {"upsert", "clone"}
    BY DEF OpOfPhase, AdminOps
  <2>3. CASE CallTurns(c, "told", <<>>, 0, call[c].name, call[c].saw, "failed")
    BY <2>1, <2>3, <1>0 DEF CallTurns, Listing
  <2>4. CASE /\ call'[c].at = "ran"
             /\ \A d \in LaneCalls : d # c => /\ call'[d].at = call[d].at /\ call'[d].answer = call[d].answer
                                             /\ (call[d].at \notin {"asked", "ran"} => call'[d] = call[d])
    BY <2>4, <1>0, <2>1 DEF Listing
  <2> QED
    BY <1>4, <2>3, <2>4, AdminMoves DEF CallTurns
<1>13. ASSUME NEW s0 \in Sheets, \A s \in Sheets : s # s0 => FrameOf(s) /\ sheets'[s] = sheets[s],
              s0 \notin clashed' => QuietSheet(s0)',
              s0 # "calendar" => firsts' = firsts, s0 = "calendar" => FirstsKept',
              \A s \in Sheets : s # s0 => (s \in clashed' <=> s \in clashed)
       PROVE  QuietSheets' /\ FirstsKept'
  <2> HIDE DEF FrameOf
  <2>1. ASSUME NEW s \in Sheets, s \notin clashed' PROVE QuietSheet(s)'
    <3>1. CASE s = s0
      BY <3>1, <2>1, <1>13
    <3>2. CASE s # s0
      BY <3>2, <2>1, <1>13, <1>11 DEF QuietSheets
    <3> QED
      BY <3>1, <3>2
  <2>2. QuietSheets'
    BY <2>1 DEF QuietSheets
  <2>3. FirstsKept'
    <3>1. CASE s0 # "calendar"
      BY <3>1, <1>13, <1>12, <1>11 DEF FirstsKept
    <3> QED
      BY <3>1, <1>13
  <2> QED
    BY <2>2, <2>3
<1>14. ASSUME NEW c \in LaneCalls, \A d \in LaneCalls : d # c => call'[d] = call[d]
       PROVE  \A s \in Sheets : s # Sheet(c) => FrameOf(s)
  BY <1>14, <1>0 DEF Listing
<1>5. ASSUME NEW c \in LaneCalls, ReadsSheet(c) PROVE QuietSheets' /\ FirstsKept'
  <2>0. PICK s0 \in Sheets : s0 = Sheet(c)
    BY <1>1
  <2> USE <2>0
  <2> DEFINE items == Reading(s0)
             draft == IF s0 = "calendar" THEN Upserted(c, items) ELSE Registered(c, items)
  <2>1. /\ \A d \in LaneCalls : d # c => call'[d] = call[d]
        /\ call'[c].at = "changed" /\ call'[c].copy = draft /\ call'[c].under = call[c].under
    BY <1>5, LaneMoves DEF CallTurns
  <2>2. /\ sheets' = sheets /\ firsts' = firsts /\ clashed' = (IF InSheet(s0) = {} THEN clashed ELSE clashed \cup {s0})
        /\ call[c].at \in {"new", "made"}
    BY <1>5 DEF ReadsSheet
  <2>3. s0 \in Sheets
    BY <1>1
  <2>4. call[c].under = 0
    BY <2>2, Zenon DEF ListsDistinct
  <2>5. KnownIds(s0)' = KnownIds(s0)
    BY <2>1, <2>2, <1>0, KnownIdsStay DEF Listing
  <2>6. \A s \in Sheets : s # s0 => FrameOf(s) /\ sheets'[s] = sheets[s]
    <3>1. \A s \in Sheets : s # s0 => FrameOf(s)
      BY <2>1, <1>14
    <3> HIDE DEF FrameOf
    <3> QED
      BY <3>1, <2>2
  <2> HIDE DEF FrameOf
  <2>7. ASSUME s0 \notin clashed' PROVE QuietSheet(s0)' /\ (s0 = "calendar" => MadeByFirst')
    <3>1. InSheet(s0) = {} /\ s0 \notin clashed
      BY <2>7, <2>2
    <3>2. QuietSheet(s0)
      BY <3>1, <2>3 DEF QuietSheets
    <3>3. InSheet(s0)' = {c}
      BY <3>1, <2>1, <1>1 DEF InSheet
    <3>4. sheets[s0].legible /\ KnownIds(s0) \subseteq IdsIn(sheets[s0].items)
      BY <3>1, <3>2 DEF QuietSheet
    <3>5. items = sheets[s0].items
      BY <3>4 DEF Reading
    <3>6. items \in Seq(LaneItems) /\ DistinctIds(items)
      <4> DEFINE Q == Seq(LaneItems)
      <4>1. sheets \in [Sheets -> [legible : BOOLEAN, items : Q]]
        BY DEF LaneTyped
      <4> HIDE DEF Q
      <4>2. sheets[s0].items \in Q
        BY <4>1, <2>3
      <4>3. DistinctIds(sheets[s0].items)
        BY <2>3 DEF ListsDistinct
      <4> QED
        BY <4>2, <4>3, <3>5 DEF Q
    <3> HIDE DEF items
    <3>7. IdsIn(draft) = IdsIn(items) \cup {wanted[c].id}
      BY <3>6, UpsertedIs, RegisteredIs, Zenon
    <3>8. s0 = "calendar" => \A n \in DOMAIN draft :
                  \/ \E m \in DOMAIN items : items[m].id = draft[n].id /\ items[m].made = draft[n].made
                  \/ draft[n].id = wanted[c].id /\ draft[n].made = c /\ draft[n].id \notin IdsIn(items)
      <4>1. ASSUME s0 = "calendar" PROVE draft = Upserted(c, items)
        BY <4>1
      <4> HIDE DEF draft
      <4>2. \A n \in DOMAIN Upserted(c, items) :
                  \/ \E m \in DOMAIN items : items[m].id = Upserted(c, items)[n].id /\ items[m].made = Upserted(c, items)[n].made
                  \/ Upserted(c, items)[n].id = wanted[c].id /\ Upserted(c, items)[n].made = c /\ Upserted(c, items)[n].id \notin IdsIn(items)
        BY <3>6, UpsertedIs, Zenon
      <4> QED
        BY <4>1, <4>2
    <3> HIDE DEF draft
    <3>9. QuietSheet(s0)'
      BY <3>4, <3>5, <3>7, <2>1, <2>4, <1>1, <3>3, <2>5, <2>2 DEF QuietSheet, IdsIn
    <3>10. ASSUME s0 = "calendar" PROVE MadeByFirst'
      <4>1. DOMAIN firsts = KnownIds("calendar") /\ MadeByFirst
        BY <3>10, <3>1 DEF FirstsKept
      <4>2. InSheet("calendar")' = {c}
        BY <3>10, <3>3
      <4>3. ASSUME NEW n \in DOMAIN draft
            PROVE  IF draft[n].id \in DOMAIN firsts THEN draft[n].made = firsts[draft[n].id]
                   ELSE draft[n].id = wanted[c].id /\ draft[n].made = c
        BY <4>1, <3>5, <3>10, <3>4, <3>8 DEF MadeByFirst
      <4>4. call'[c].copy = draft
        BY <2>1
      <4> QED
        BY <4>1, <4>2, <4>3, <4>4, <2>2, <1>0 DEF MadeByFirst
    <3> QED
      BY <3>9, <3>10
  <2>8. s0 = "calendar" => FirstsKept'
    <3>1. ASSUME s0 = "calendar" PROVE FirstsKept'
      BY <2>5, <3>1, <2>7, <2>2 DEF FirstsKept
    <3> QED
      BY <3>1
  <2>9. \A s \in Sheets : s # s0 => (s \in clashed' <=> s \in clashed)
    BY <2>2
  <2> HIDE DEF items, draft
  <2> QED
    BY <2>2, <2>3, <2>6, <2>7, <2>8, <2>9, <1>13
<1>6. ASSUME NEW c \in LaneCalls, OpensSheet(c) PROVE QuietSheets' /\ FirstsKept'
  <2>0. PICK s0 \in Sheets : s0 = Sheet(c)
    BY <1>1
  <2> USE <2>0
  <2>1. /\ \A d \in LaneCalls : d # c => call'[d] = call[d]
        /\ call'[c].at = "opened" /\ call'[c].copy = call[c].copy /\ call'[c].under = call[c].under
    BY <1>6, LaneMoves DEF CallTurns
  <2>2. /\ firsts' = firsts /\ clashed' = clashed /\ call[c].at = "changed"
        /\ sheets' = [sheets EXCEPT ![s0] = [legible |-> FALSE, items |-> <<>>]]
    BY <1>6 DEF OpensSheet
  <2>3. s0 \in Sheets
    BY <1>1
  <2>4. sheets'[s0] = [legible |-> FALSE, items |-> <<>>] /\ \A s \in Sheets : s # s0 => sheets'[s] = sheets[s]
    BY <2>2, <2>3 DEF LaneTyped
  <2>5. KnownIds(s0)' = KnownIds(s0)
    BY <2>1, <2>2, <1>0, KnownIdsStay DEF Listing
  <2>6. \A s \in Sheets : s # s0 => FrameOf(s) /\ sheets'[s] = sheets[s]
    <3>1. \A s \in Sheets : s # s0 => FrameOf(s)
      BY <2>1, <1>14
    <3> HIDE DEF FrameOf
    <3> QED
      BY <3>1, <2>4
  <2> HIDE DEF FrameOf
  <2>7. InSheet(s0)' = InSheet(s0) /\ c \in InSheet(s0)
    BY <2>1, <2>2, <1>1 DEF InSheet
  <2>8. \A d \in InSheet(s0) : d \in LaneCalls /\ call'[d].copy = call[d].copy /\ call'[d].under = call[d].under
    BY <2>1 DEF InSheet
  <2>9. s0' = s0
    BY <1>1
  <2>10. ASSUME s0 \notin clashed PROVE QuietSheet(s0)'
    BY <2>10, <2>3, <2>7, <2>5, <2>8, <2>1, <2>4, <2>9 DEF QuietSheets, QuietSheet, IdsIn
  <2>11. ASSUME s0 = "calendar" PROVE FirstsKept'
    BY <2>5, <2>11, <2>4, <2>7, <2>8, <2>2, <1>0 DEF MadeByFirst, FirstsKept
  <2> QED
    BY <2>2, <2>3, <2>6, <2>10, <2>11, <1>13
<1>7. ASSUME NEW c \in LaneCalls, FillsSheet(c) PROVE QuietSheets' /\ FirstsKept'
  <2>0. PICK s0 \in Sheets : s0 = Sheet(c)
    BY <1>1
  <2> USE <2>0
  <2> DEFINE draft == call[c].copy
             id == wanted[c].id
  <2>1. /\ call[c].at = "opened" /\ sheets'[s0] = [legible |-> call[c].under <= Len(draft), items |-> draft]
        /\ \A s \in Sheets : s # s0 => sheets'[s] = sheets[s]
        /\ call'[c].at = "told" /\ call'[c].answer = "accepted"
    BY <1>7, FillMoves
  <2>2. \A d \in LaneCalls : d # c => call'[d].at = call[d].at /\ call'[d].answer = call[d].answer
    BY <1>7, FillMoves
  <2>3. \A d \in LaneCalls : Sheet(d) # s0 => call'[d] = call[d]
    BY <1>7 DEF FillsSheet, Overlaid
  <2>4. clashed' = clashed /\ s0 \in Sheets /\ wanted[c].op \in {"upsert", "clone"}
    BY <1>7, <2>1, <1>1 DEF FillsSheet, OpOfPhase
  <2>5. (s0 # "calendar" => firsts' = firsts)
        /\ (s0 = "calendar" => firsts' = [i \in DOMAIN firsts \cup {id} |-> IF i \in DOMAIN firsts THEN firsts[i] ELSE c])
    BY <1>7, <2>4 DEF FillsSheet, Sheets
  <2>6. Listing(c)' /\ \A d \in LaneCalls : d # c => (Listing(d)' <=> Listing(d))
    BY <2>1, <2>2, <2>4, <1>0 DEF Listing
  <2>7. KnownIds(s0)' = KnownIds(s0) \cup {id}
    <3>1. KnownIds(s0) = {wanted[d].id : d \in {e \in LaneCalls : Listing(e) /\ Sheet(e) = s0}}
      BY KnownIdsAre
    <3>2. KnownIds(s0)' = {wanted'[d].id : d \in {e \in LaneCalls : Listing(e)' /\ Sheet(e)' = s0'}}
      BY <1>1, Zenon DEF KnownIds, Accepted, Listing, Sheet
    <3>3. s0' = s0
      BY <1>1
    <3>4. {e \in LaneCalls : Listing(e)' /\ Sheet(e)' = s0'} = {e \in LaneCalls : Listing(e) /\ Sheet(e) = s0} \cup {c}
      BY <2>1, <2>6, <3>3, <1>1 DEF Listing
    <3> QED
      BY <3>1, <3>2, <3>4, <1>0
  <2>8. \A s \in Sheets : s # s0 => FrameOf(s) /\ sheets'[s] = sheets[s]
    BY <2>1, <2>3, <2>6, <2>2
  <2> HIDE DEF FrameOf
  <2>9. \A d \in LaneCalls : call'[d].at \in {"changed", "opened"} <=> call[d].at \in {"changed", "opened"} /\ d # c
    BY <2>1, <2>2
  <2>10. InSheet(s0)' = InSheet(s0) \ {c} /\ c \in InSheet(s0)
    BY <2>9, <2>1, <1>1 DEF InSheet
  <2>11. id \in IdsIn(draft) /\ draft \in Seq(LaneItems)
    <3>1. id \in IdsIn(draft)
      BY <2>1, Zenon DEF ListsDistinct
    <3> DEFINE Q == Seq(LaneItems)
    <3>2. call \in [LaneCalls -> [at : LanePhases, copy : Q, under : Nat, name : Nat,
                             saw : SUBSET (Nat \cup Sights), answer : LaneReplies]]
      BY DEF LaneTyped
    <3> HIDE DEF Q
    <3>3. draft \in Q
      BY <3>2
    <3> QED
      BY <3>1, <3>3 DEF Q
  <2>12. s0' = s0 /\ sheets'[s0].items = draft /\ sheets'[s0].legible = (call[c].under <= Len(draft))
    BY <2>1, <1>1
  <2> HIDE DEF draft
  <2>13. ASSUME s0 \notin clashed PROVE QuietSheet(s0)' /\ InSheet(s0)' = {}
    <3>1. QuietSheet(s0)
      BY <2>13, <2>4 DEF QuietSheets
    <3>2. call[c].under = 0 /\ KnownIds(s0) \subseteq IdsIn(draft) /\ \A d \in InSheet(s0) : d = c
      BY <3>1, <2>10 DEF QuietSheet, draft
    <3>3. InSheet(s0)' = {}
      BY <3>2, <2>10
    <3>4. sheets'[s0].legible
      <4>1. Len(draft) \in Nat
        BY <2>11
      <4>2. call[c].under <= Len(draft)
        BY <4>1, <3>2
      <4> QED
        BY <4>2, <2>12, Zenon
    <3>5. KnownIds(s0)' \subseteq IdsIn(sheets'[s0].items)
      BY <3>2, <2>7, <2>11, <2>12
    <3>6. QuietSheet(s0)'
      BY <3>3, <3>4, <3>5, <2>12 DEF QuietSheet, IdsIn
    <3> QED
      BY <3>3, <3>6
  <2>14. ASSUME s0 = "calendar" PROVE FirstsKept'
    <3>1. DOMAIN firsts = KnownIds("calendar") /\ ("calendar" \notin clashed => MadeByFirst)
      BY DEF FirstsKept
    <3>2. firsts' = [i \in DOMAIN firsts \cup {id} |-> IF i \in DOMAIN firsts THEN firsts[i] ELSE c]
      BY <2>5, <2>14
    <3>3. DOMAIN firsts' = DOMAIN firsts \cup {id}
      BY <3>2
    <3>4. \A i \in DOMAIN firsts' : firsts'[i] = IF i \in DOMAIN firsts THEN firsts[i] ELSE c
      BY <3>2
    <3>5. KnownIds("calendar")' = KnownIds("calendar") \cup {id}
      BY <2>7, <2>14
    <3>6. ASSUME "calendar" \notin clashed PROVE MadeByFirst'
      <4>1. InSheet("calendar")' = {} /\ sheets'["calendar"].items = draft /\ c \in InSheet("calendar")
        BY <3>6, <2>10, <2>12, <2>13, <2>14
      <4>2. ASSUME NEW n \in DOMAIN draft PROVE draft[n].id \in DOMAIN firsts' /\ draft[n].made = firsts'[draft[n].id]
        BY <3>1, <3>6, <4>1, <4>2, <3>3, <3>4 DEF MadeByFirst, draft
      <4> QED
        BY <4>1, <4>2 DEF MadeByFirst
    <3> QED
      BY <3>1, <3>3, <3>5, <3>6, <2>4 DEF FirstsKept
  <2> QED
    BY <2>4, <2>5, <2>8, <2>13, <2>14, <1>13
<1>8. ASSUME NEW s \in Sheets, LaneCrash(s) PROVE QuietSheets' /\ FirstsKept'
  <2>1. sheets' = sheets /\ firsts' = firsts /\ clashed' = clashed \cup {s}
    BY <1>8 DEF LaneCrash
  <2>2. \A d \in LaneCalls : Listing(d)' <=> Listing(d)
    BY <1>8, CrashMoves, <1>0 DEF Listing
  <2>3. \A d \in LaneCalls : Sheet(d) # s => call'[d] = call[d]
    BY <1>8, CrashMoves
  <2>4. \A t \in Sheets : t # s => FrameOf(t) /\ sheets'[t] = sheets[t]
    BY <2>1, <2>2, <2>3
  <2> HIDE DEF FrameOf
  <2>5. KnownIds("calendar")' = KnownIds("calendar")
    BY <2>2, <1>0, KnownIdsStay
  <2>6. s = "calendar" => FirstsKept'
    BY <2>1, <2>5 DEF FirstsKept
  <2>7. \A t \in Sheets : t # s => (t \in clashed' <=> t \in clashed)
    BY <2>1
  <2>8. s \in clashed'
    BY <2>1
  <2> QED
    BY <2>1, <2>4, <2>6, <2>7, <2>8, <1>13
<1>9. CASE MillisecondPasses
  BY <1>9, <1>2, <1>0 DEF MillisecondPasses, Listing
<1>10. ASSUME NEW c \in LaneCalls,
              Refuses(c) \/ ClonesVoice(c) \/ GetsCalendar(c) \/ Speaks(c) \/ AdminBegins(c) \/ AdminRuns(c) \/ AdminAnswers(c)
       PROVE  QuietSheets' /\ FirstsKept'
  <2>1. sheets' = sheets /\ clashed' = clashed /\ firsts' = firsts
    BY <1>10 DEF Refuses, ClonesVoice, GetsCalendar, Speaks, AdminBegins, AdminRuns, AdminAnswers
  <2>2. Frame
    <3> HIDE DEF Frame
    <3> QED
      BY <1>10, <1>3, <1>4
  <2> HIDE DEF Frame
  <2> QED
    BY <2>1, <2>2, <1>2
<1> HIDE DEF Frame
<1> QED
  BY <1>5, <1>6, <1>7, <1>8, <1>9, <1>10 DEF LanesNext

(* Every step of a lane keeps the invariant.                               *)
LEMMA LanesSteps == LaneInv /\ (LanesNext \/ UNCHANGED laneVars) => LaneInv'
<1>1. LaneInv /\ LanesNext => LaneInv'
  BY LaneTypesStep, LanePhasesStep, ListsStep, QuietStep, SpeechStep, CommandsStep DEF LaneInv
<1>2. LaneInv /\ UNCHANGED laneVars => LaneInv'
  <2> SUFFICES ASSUME LaneInv, UNCHANGED laneVars PROVE LaneInv'
    OBVIOUS
  <2> USE DEF laneVars, LaneInv
  <2>1. LaneTyped'
    BY DEF LaneTyped, LaneItems, LaneIds
  <2>2. OpOfPhase'
    BY DEF OpOfPhase
  <2>3. ListsDistinct'
    BY DEF ListsDistinct, IdsIn, DistinctIds, Sheet
  <2>4. QuietSheets' /\ FirstsKept'
    <3>1. \A t : InSheet(t)' = InSheet(t) /\ KnownIds(t)' = KnownIds(t)
      BY DEF InSheet, KnownIds, Accepted, Sheet
    <3>4. ASSUME NEW s \in Sheets, s \notin clashed PROVE QuietSheet(s)'
      BY <3>1, <3>4 DEF QuietSheets, QuietSheet, IdsIn
    <3>2. QuietSheets'
      BY <3>4 DEF QuietSheets
    <3>3. FirstsKept'
      BY <3>1 DEF FirstsKept, MadeByFirst
    <3> QED
      BY <3>2, <3>3
  <2>5. SpeechFiled'
    BY DEF SpeechFiled, Accepted
  <2>6. CommandsSaw'
    BY DEF CommandsSaw, Accepted, StateFits
  <2> QED
    BY <2>1, <2>2, <2>3, <2>4, <2>5, <2>6
<1> QED
  BY <1>1, <1>2

(* As many members as places, when no place has the member of another.     *)
LEMMA LenIsCardinality ==
  ASSUME NEW I, NEW items \in Seq(I), DistinctIds(items)
  PROVE  Len(items) = Cardinality({items[n] : n \in DOMAIN items})
<1> DEFINE L == Len(items)
           T == {items[n] : n \in DOMAIN items}
<1>1. L \in Nat /\ DOMAIN items = 1 .. L
  OBVIOUS
<1>2. items \in [1 .. L -> T]
  OBVIOUS
<1>3. \A m, n \in 1 .. L : items[m] = items[n] => m = n
  BY <1>1 DEF DistinctIds
<1>4. \A t \in T : \E n \in 1 .. L : items[n] = t
  BY <1>1
<1> HIDE DEF L, T
<1>5. Cardinality(T) = L
  BY <1>1, <1>2, <1>3, <1>4, PlacesAreMembers
<1> QED
  BY <1>5 DEF L, T

(* What the invariant says of the lanes.                                   *)
LEMMA LanesHold == LaneInv => LanesSound
<1> SUFFICES ASSUME LaneInv PROVE LanesSound
  OBVIOUS
<1> USE DEF LaneInv
<1>1. \A s \in Sheets : \A i, j \in Listed(s) : i.id = j.id => i = j
  BY DEF ListsDistinct, DistinctIds, Listed
<1>2. \A s \in Sheets : Len(sheets[s].items) = Cardinality(Listed(s))
  <2> SUFFICES ASSUME NEW s \in Sheets PROVE Len(sheets[s].items) = Cardinality(Listed(s))
    OBVIOUS
  <2> DEFINE Q == Seq(LaneItems)
  <2>1. sheets \in [Sheets -> [legible : BOOLEAN, items : Q]]
    BY DEF LaneTyped
  <2> HIDE DEF Q
  <2>2. sheets[s].items \in Q
    BY <2>1
  <2>3. DistinctIds(sheets[s].items)
    BY DEF ListsDistinct
  <2> QED
    BY <2>2, <2>3, LenIsCardinality, Zenon DEF Listed, Q
<1>3. {i.id : i \in Listed("voices")} \subseteq voiced
  BY DEF ListsDistinct, IdsIn, Listed
<1>4. "calendar" \notin clashed => \A i \in Listed("calendar") : i.made = firsts[i.id]
  BY DEF FirstsKept, MadeByFirst, Listed
<1>5. \A s \in Sheets \ clashed :
       (\A c \in InSheet(s) : call[c].at # "opened") =>
         /\ sheets[s].legible
         /\ \A c \in Accepted("upsert") \cup Accepted("clone") :
              Sheet(c) = s => \E i \in Listed(s) : i.id = wanted[c].id
  BY DEF QuietSheets, QuietSheet, KnownIds, IdsIn, Listed
<1>6. ListsKept
  BY <1>1, <1>2, <1>3, <1>4, <1>5 DEF ListsKept
<1>7. SpeechIsOwn
  BY DEF SpeechIsOwn, SpeechFiled, Accepted
<1>8. AdminTruthful
  BY DEF AdminTruthful, CommandsSaw, StateFits
<1> QED
  BY <1>6, <1>7, <1>8 DEF LanesSound

-----------------------------------------------------------------------------
(* For every set of nodes, threshold and fault: the node that is picked is *)
(* fit and was heard of, a challenge is met at most once, and a peer is    *)
(* reported unhealthy for its misses or its own word only                  *)
(* (bridge.resolver.ts:30, heartbeat.ts:146).                              *)
THEOREM NodesTheorem == ServicesSpec => []NodesKept
<1>1. ServicesInit => BridgeInv /\ MeshInv
  BY BridgeStarts, MeshStarts DEF ServicesInit
<1>2. (BridgeInv /\ MeshInv) /\ [ServicesNext]_serviceVars => (BridgeInv /\ MeshInv)'
  BY RegistrySteps, ChallengesStep, MeshSteps DEF ServicesNext, serviceVars, allVars, BridgeInv
<1>3. BridgeInv /\ MeshInv => NodesKept
  BY BridgeSound, MeshSound DEF NodesKept
<1> QED
  BY <1>1, <1>2, <1>3, PTL DEF ServicesSpec

(* For every number of workers, rooms, receipts and requests, and however  *)
(* many fetches fail: gate and lookups report the backend as it was at     *)
(* some moment of the request, and never well because a fetch failed       *)
(* (policy.ts:111, evidence.ts:107).                                       *)
THEOREM PhaseTheorem == ServicesSpec => []PhaseHonest
<1>1. ServicesInit => PhaseInv
  BY PhaseStarts DEF ServicesInit
<1>2. PhaseInv /\ [ServicesNext]_serviceVars => PhaseInv'
  BY PhaseSteps DEF ServicesNext, serviceVars, allVars
<1>3. PhaseInv => PhaseHonest
  BY PhaseHolds DEF PhaseHonest
<1> QED
  BY <1>1, <1>2, <1>3, PTL DEF ServicesSpec

(* For every number of requests, jobs, moves and failing statements: a     *)
(* paper attests what was so while its request read, an incident has one   *)
(* note unless its resolvers were tied, lists and counts are those of a    *)
(* moment, changes name the rows of their own request, and an export is    *)
(* covered by the events (commercial.ts:206, operations.ts:414).           *)
THEOREM DeskTheorem == ServicesSpec => []DeskKept
<1>1. ServicesInit => DeskInv
  BY DeskStarts DEF ServicesInit
<1>2. DeskInv /\ [ServicesNext]_serviceVars => DeskInv'
  BY DeskSteps DEF ServicesNext, serviceVars, allVars
<1>3. DeskInv => DeskKept
  BY DeskHolds DEF DeskKept
<1> QED
  BY <1>1, <1>2, <1>3, PTL DEF ServicesSpec

(* For every station, number of requests and changes: what an engine       *)
(* reports was so at some moment of its request; the gate passes only what *)
(* was sealed (ceo/index.ts:999).                                          *)
THEOREM StationTheorem == ServicesSpec => []StationTruthful
<1>1. ServicesInit => StationInv
  BY StationStarts DEF ServicesInit
<1>2. StationInv /\ [ServicesNext]_serviceVars => StationInv'
  BY StationSteps DEF ServicesNext, serviceVars, allVars
<1>3. StationInv => StationTruthful
  BY StationHolds DEF StationTruthful
<1> QED
  BY <1>1, <1>2, <1>3, PTL DEF ServicesSpec

(* For every number of requests, crashes and failing appends: a record of  *)
(* the journal continues an earlier one, an answered seal is in it and is  *)
(* found by its hash, and lists, usage and bills count what is stored      *)
(* (seal-api.ts:118,310).                                                  *)
THEOREM LocalTheorem == ServicesSpec => []LocalChainKept
<1>1. ServicesInit => LocalInv
  BY LocalStarts DEF ServicesInit
<1>2. LocalInv /\ [ServicesNext]_serviceVars => LocalInv'
  BY LocalSteps DEF ServicesNext, serviceVars, allVars
<1>3. LocalInv => LocalChainKept
  BY LocalHold DEF LocalChainKept
<1> QED
  BY <1>1, <1>2, <1>3, PTL DEF ServicesSpec

(* For every list of rooms and licences, every number of processes,        *)
(* failing statements, crashes and operators' writes: the tables stay      *)
(* single where boots do not race, the chain verifies, operators' rows     *)
(* stay, and a boot that ends has written all it should                    *)
(* (seed.ts:297,430,758).                                                  *)
THEOREM SeedTheorem == ServicesSpec => []SeedSound
<1>1. ServicesInit => SeedInv
  BY SeedStarts DEF ServicesInit
<1>2. SeedInv /\ [ServicesNext]_serviceVars => SeedInv'
  BY SeedSteps DEF ServicesNext, serviceVars, allVars
<1>3. SeedInv => SeedSound
  BY SeedHolds DEF SeedSound
<1> QED
  BY <1>1, <1>2, <1>3, PTL DEF ServicesSpec

(* For every set of requests, rooms, engines, calls, files, tokens,        *)
(* documents and certificates, however often files are edited, fetches     *)
(* fail and processes restart: the runner starts a room once and visits in *)
(* order, engines report what happened, the gateway admits no more than    *)
(* its window and refuses for a reason, lanes lose no entry, tokens are of *)
(* their key, servers find the best and stay with the context, and readers *)
(* miss no certificate (ceo/index.ts:181,2314, agentgateway.py:245).       *)
THEOREM CeoTheorem == ServicesSpec => []CeoKept
<1> DEFINE Inv == /\ ConductorInv /\ RunnerInv /\ GateInv /\ LaneInv /\ AuthorityInv /\ ServersInv /\ ReadsInv
<1>1. ServicesInit => Inv
  BY ConductorStarts, RunnerStarts, GateStarts, LanesStart, AuthorityStarts, ServersStart, ReadsStart DEF ServicesInit
<1>2. Inv /\ [ServicesNext]_serviceVars => Inv'
  BY ConductorSteps, RunnerSteps, GateSteps, LanesSteps, AuthoritySteps, ServersSteps, ReadsSteps DEF
     ServicesNext, serviceVars, allVars
<1>3. Inv => CeoKept
  BY ConductorHolds, RunnerHolds, GateHolds, LanesHold, TokensVerify, ServersHold, ReadsHold DEF CeoKept
<1> QED
  BY <1>1, <1>2, <1>3, PTL DEF ServicesSpec
=============================================================================
