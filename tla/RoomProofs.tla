----------------------------- MODULE RoomProofs -----------------------------
(***************************************************************************)
(* The room contract, proved for any number of requests, any rows that     *)
(* they find and any history of the database: a request leaves rows behind *)
(* if and only if its evidence is on record, summaries say why, what was   *)
(* decided stays decided, and readers are not misled.                      *)
(*                                                                         *)
(* RInv is the inductive invariant.  The lemmas first show that the lists  *)
(* of statements that the mutations plan are proper, then that each step   *)
(* of a transaction keeps what is known of it, then that the other         *)
(* requests are not disturbed.  SummariesSound, LicensesSound,             *)
(* CanariesSound and ViewsSound are inductive relative to RInv; what a     *)
(* step is to them is said once, in StepMoves.                             *)
(***************************************************************************)
EXTENDS RoomPlane, FiniteSetTheorems, SequenceTheorems, WellFoundedInduction, TLAPS

-----------------------------------------------------------------------------
(* The runtime mode is well typed.                                         *)
LEMMA ModeStepTyped == ASSUME ModeTypeOK, ModeNext \/ UNCHANGED modeVars PROVE ModeTypeOK'
<1> USE RuntimeModeAssumption DEF ModeTypeOK, Stages, Never
<1>1. CASE DatabaseChanges
  BY <1>1 DEF DatabaseChanges
<1>2. CASE Migrate
  BY <1>2 DEF Migrate
<1>3. ASSUME NEW i \in Probes, AskDatabase(i) PROVE ModeTypeOK'
  <2>1. /\ probes[i] \in [at : Stages \cup {"idle"}, found : BOOLEAN, since : 0 .. MaxChanges]
        /\ probes[i].at \in {"reach", "tables", "schema"}
    BY <1>3 DEF AskDatabase
  <2>2. ASSUME NEW stage \in Stages, NEW found \in BOOLEAN
        PROVE  [probes[i] EXCEPT !.at = stage, !.found = found]
                 \in [at : Stages \cup {"idle"}, found : BOOLEAN, since : 0 .. MaxChanges]
    BY <2>1
  <2>3. (database = "ready") \in BOOLEAN /\ (probes[i].found /\ database = "ready") \in BOOLEAN
    OBVIOUS
  <2>4. Asked(i) \in [at : Stages \cup {"idle"}, found : BOOLEAN, since : 0 .. MaxChanges]
    BY <2>1, <2>2, <2>3 DEF Asked
  <2>5. probes' \in [Probes -> [at : Stages \cup {"idle"}, found : BOOLEAN, since : 0 .. MaxChanges]]
    BY <1>3, <2>4 DEF AskDatabase
  <2>6. QED
    BY <1>3, <2>5 DEF AskDatabase
<1>4. ASSUME NEW i \in Probes, DeliverHealth(i) PROVE ModeTypeOK'
  <2>1. /\ probes[i].found \in BOOLEAN /\ probes[i].since \in 0 .. MaxChanges
        /\ Idle \in [at : Stages \cup {"idle"}, found : BOOLEAN, since : 0 .. MaxChanges]
    BY DEF Idle
  <2>2. mode' \in {"primary_db", "degraded_read_only"} /\ apis' \in BOOLEAN
    BY <1>4, <2>1 DEF DeliverHealth, ToMode
  <2>3. probes' \in [Probes -> [at : Stages \cup {"idle"}, found : BOOLEAN, since : 0 .. MaxChanges]]
    BY <1>4, <2>1 DEF DeliverHealth
  <2>4. heard' \in 0 .. Never
    BY <1>4, <2>1 DEF DeliverHealth
  <2>5. QED
    BY <1>4, <2>2, <2>3, <2>4 DEF DeliverHealth
<1>5. ASSUME NEW i \in Probes, BootProbe(i) \/ MonitorFires(i) PROVE ModeTypeOK'
  <2>1. Started \in [at : Stages \cup {"idle"}, found : BOOLEAN, since : 0 .. MaxChanges]
    BY DEF Started
  <2>2. probes' \in [Probes -> [at : Stages \cup {"idle"}, found : BOOLEAN, since : 0 .. MaxChanges]]
    BY <1>5, <2>1 DEF BootProbe, MonitorFires
  <2>3. QED
    BY <1>5, <2>2 DEF BootProbe, MonitorFires
<1>6. CASE UNCHANGED modeVars
  BY <1>6 DEF modeVars
<1>7. QED
  BY <1>1, <1>2, <1>3, <1>4, <1>5, <1>6 DEF ModeNext, ProbeNext

-----------------------------------------------------------------------------
(* Lists, and lists of proper statements.                                  *)
ProperList(p, t, at, s) == IsList(s) /\ \A i \in 1 .. Len(s) : Proper(p, t, at, s[i])

LEMMA ListIsSeq == ASSUME NEW s, IsList(s) PROVE s \in Seq({s[i] : i \in 1 .. Len(s)})
<1> DEFINE S == {s[i] : i \in 1 .. Len(s)}
<1>1. s = [i \in 1 .. Len(s) |-> s[i]] /\ Len(s) \in Nat
  BY DEF IsList
<1>2. s \in [1 .. Len(s) -> S]
  BY <1>1
<1>3. QED
  BY <1>1, <1>2

LEMMA SeqIsList == ASSUME NEW S, NEW s \in Seq(S) PROVE IsList(s)
BY DEF IsList

LEMMA BuiltList ==
  ASSUME NEW n \in Nat, NEW f, f = [i \in 1 .. n |-> f[i]]
  PROVE  IsList(f) /\ Len(f) = n
<1> DEFINE S == {f[i] : i \in 1 .. n}
<1>1. f \in [1 .. n -> S]
  OBVIOUS
<1>2. f \in Seq(S) /\ Len(f) = n
  BY <1>1
<1>3. QED
  BY <1>2, SeqIsList

LEMMA ShortLists ==
  /\ IsList(<<>>) /\ Len(<<>>) = 0
  /\ \A s : IsList(<<s>>) /\ Len(<<s>>) = 1
  /\ \A s, u : IsList(<<s, u>>) /\ Len(<<s, u>>) = 2
  /\ \A s, u, v : IsList(<<s, u, v>>) /\ Len(<<s, u, v>>) = 3
BY DEF IsList

LEMMA JoinElements ==
  ASSUME NEW s, NEW t, IsList(s), IsList(t)
  PROVE  /\ IsList(s \o t)
         /\ \A i \in 1 .. Len(s \o t) : \/ \E j \in 1 .. Len(s) : (s \o t)[i] = s[j]
                                        \/ \E j \in 1 .. Len(t) : (s \o t)[i] = t[j]
         /\ \A j \in 1 .. Len(s) : \E i \in 1 .. Len(s \o t) : (s \o t)[i] = s[j]
         /\ \A j \in 1 .. Len(t) : \E i \in 1 .. Len(s \o t) : (s \o t)[i] = t[j]
<1> DEFINE S == {s[i] : i \in 1 .. Len(s)} \cup {t[i] : i \in 1 .. Len(t)}
<1>1. s \in Seq(S) /\ t \in Seq(S)
  <2>1. s \in Seq({s[i] : i \in 1 .. Len(s)}) /\ t \in Seq({t[i] : i \in 1 .. Len(t)})
    BY ListIsSeq
  <2>2. QED
    BY <2>1
<1> HIDE DEF S
<1> PICK r : r = s \o t
  OBVIOUS
<1>2. /\ r \in Seq(S) /\ Len(r) = Len(s) + Len(t)
      /\ \A i \in 1 .. Len(s) : r[i] = s[i]
      /\ \A i \in 1 .. Len(t) : r[Len(s) + i] = t[i]
      /\ Len(s) \in Nat /\ Len(t) \in Nat
  BY <1>1, ConcatProperties
<1>3. ASSUME NEW i \in 1 .. Len(r), i > Len(s)
      PROVE  r[i] = t[i - Len(s)] /\ i - Len(s) \in 1 .. Len(t)
  <2> PICK j \in 1 .. Len(t) : j = i - Len(s)
    BY <1>2, <1>3
  <2>1. i = Len(s) + j
    BY <1>2
  <2>2. QED
    BY <1>2, <2>1
<1>4. \A i \in 1 .. Len(r) : (\E j \in 1 .. Len(s) : r[i] = s[j]) \/ (\E j \in 1 .. Len(t) : r[i] = t[j])
  <2> SUFFICES ASSUME NEW i \in 1 .. Len(r)
               PROVE  (\E j \in 1 .. Len(s) : r[i] = s[j]) \/ (\E j \in 1 .. Len(t) : r[i] = t[j])
    OBVIOUS
  <2>1. CASE i \in 1 .. Len(s)
    BY <1>2, <2>1
  <2>2. CASE i > Len(s)
    BY <1>3, <2>2
  <2>3. QED
    BY <1>2, <2>1, <2>2
<1>5. ASSUME NEW j \in 1 .. Len(s) PROVE \E i \in 1 .. Len(r) : r[i] = s[j]
  <2>1. j \in 1 .. Len(r) /\ r[j] = s[j]
    BY <1>2
  <2>2. QED
    BY <2>1
<1>6. ASSUME NEW j \in 1 .. Len(t) PROVE \E i \in 1 .. Len(r) : r[i] = t[j]
  <2> PICK i \in 1 .. Len(r) : i = Len(s) + j
    BY <1>2
  <2>1. r[i] = t[j]
    BY <1>2
  <2>2. QED
    BY <2>1
<1>7. IsList(r)
  BY <1>2, SeqIsList
<1>8. QED
  BY <1>4, <1>5, <1>6, <1>7

LEMMA ProperJoin ==
  ASSUME NEW p, NEW n, NEW at, NEW s, NEW t, ProperList(p, n, at, s), ProperList(p, n, at, t)
  PROVE  ProperList(p, n, at, s \o t)
<1> DEFINE r == s \o t
<1>1. /\ IsList(r)
      /\ \A i \in 1 .. Len(r) : (\E j \in 1 .. Len(s) : r[i] = s[j]) \/ (\E j \in 1 .. Len(t) : r[i] = t[j])
  BY JoinElements DEF ProperList
<1> HIDE DEF r
<1>2. ProperList(p, n, at, r)
  BY <1>1 DEF ProperList
<1>3. QED
  BY <1>2 DEF r

LEMMA ProperBuilt ==
  ASSUME NEW p, NEW t, NEW at, NEW n \in Nat, NEW f, f = [i \in 1 .. n |-> f[i]],
         \A i \in 1 .. n : Proper(p, t, at, f[i])
  PROVE  ProperList(p, t, at, f)
BY BuiltList DEF ProperList

LEMMA ProperNil == ASSUME NEW p, NEW t, NEW at PROVE ProperList(p, t, at, <<>>)
<1>1. IsList(<<>>) /\ 1 .. Len(<<>>) = {}
  BY ShortLists
<1>2. QED
  BY <1>1 DEF ProperList

LEMMA ProperOne ==
  ASSUME NEW p, NEW t, NEW at, NEW s, Proper(p, t, at, s)
  PROVE  ProperList(p, t, at, <<s>>)
<1> PICK L : L = <<s>>
  OBVIOUS
<1>1. IsList(L) /\ Len(L) = 1 /\ L[1] = s
  BY ShortLists
<1>2. \A i \in 1 .. Len(L) : L[i] = s
  BY <1>1
<1>3. QED
  BY <1>1, <1>2 DEF ProperList

LEMMA ProperTwo ==
  ASSUME NEW p, NEW t, NEW at, NEW s, NEW u, Proper(p, t, at, s), Proper(p, t, at, u)
  PROVE  ProperList(p, t, at, <<s, u>>)
<1> PICK L : L = <<s, u>>
  OBVIOUS
<1>1. IsList(L) /\ Len(L) = 2 /\ L[1] = s /\ L[2] = u
  BY ShortLists
<1>2. \A i \in 1 .. Len(L) : L[i] = s \/ L[i] = u
  BY <1>1
<1>3. QED
  BY <1>1, <1>2 DEF ProperList

LEMMA ProperThree ==
  ASSUME NEW p, NEW t, NEW at, NEW s, NEW u, NEW v,
         Proper(p, t, at, s), Proper(p, t, at, u), Proper(p, t, at, v)
  PROVE  ProperList(p, t, at, <<s, u, v>>)
<1> PICK L : L = <<s, u, v>>
  OBVIOUS
<1>1. IsList(L) /\ Len(L) = 3 /\ L[1] = s /\ L[2] = u /\ L[3] = v
  BY ShortLists
<1>2. \A i \in 1 .. Len(L) : L[i] = s \/ L[i] = u \/ L[i] = v
  BY <1>1
<1>3. QED
  BY <1>1, <1>2 DEF ProperList

LEMMA ListTail ==
  ASSUME NEW s, IsList(s), s # <<>>
  PROVE  /\ Head(s) = s[1] /\ Len(s) \in Nat \ {0}
         /\ IsList(Tail(s)) /\ Len(Tail(s)) = Len(s) - 1
         /\ \A i \in 1 .. Len(s) - 1 : Tail(s)[i] = s[i + 1]
<1> DEFINE S == {s[i] : i \in 1 .. Len(s)}
<1>1. s \in Seq(S)
  BY ListIsSeq
<1> HIDE DEF S
<1> PICK r : r = Tail(s)
  OBVIOUS
<1>2. /\ Head(s) = s[1] /\ Len(s) \in Nat \ {0}
      /\ r \in Seq(S) /\ Len(r) = Len(s) - 1
      /\ \A i \in 1 .. Len(s) - 1 : r[i] = s[i + 1]
  BY <1>1
<1>3. IsList(r)
  BY <1>2, SeqIsList
<1>4. QED
  BY <1>2, <1>3

(* What lists put into a row.                                              *)
LEMMA PutsMember ==
  ASSUME NEW s, NEW r, NEW v
  PROVE  v \in Puts(s, r) <=> \E i \in 1 .. Len(s) : s[i].do = "put" /\ r \in s[i].rows /\ v = s[i].v[r]
BY DEF Puts

LEMMA PutsNil == ASSUME NEW r PROVE Puts(<<>>, r) = {}
<1>1. 1 .. Len(<<>>) = {}
  BY ShortLists
<1>2. QED
  BY <1>1 DEF Puts

LEMMA PutsJoin ==
  ASSUME NEW s, NEW t, NEW r, IsList(s), IsList(t)
  PROVE  Puts(s \o t, r) = Puts(s, r) \cup Puts(t, r)
<1> DEFINE u == s \o t
<1>1. /\ \A i \in 1 .. Len(u) : (\E j \in 1 .. Len(s) : u[i] = s[j]) \/ (\E j \in 1 .. Len(t) : u[i] = t[j])
      /\ \A j \in 1 .. Len(s) : \E i \in 1 .. Len(u) : u[i] = s[j]
      /\ \A j \in 1 .. Len(t) : \E i \in 1 .. Len(u) : u[i] = t[j]
  BY JoinElements
<1> HIDE DEF u
<1>2. ASSUME NEW v, v \in Puts(u, r) PROVE v \in Puts(s, r) \cup Puts(t, r)
  <2> PICK i \in 1 .. Len(u) : u[i].do = "put" /\ r \in u[i].rows /\ v = u[i].v[r]
    BY <1>2, PutsMember
  <2>1. CASE \E j \in 1 .. Len(s) : u[i] = s[j]
    BY <2>1, PutsMember
  <2>2. CASE \E j \in 1 .. Len(t) : u[i] = t[j]
    BY <2>2, PutsMember
  <2>3. QED
    BY <1>1, <2>1, <2>2
<1>3. ASSUME NEW v, v \in Puts(s, r) PROVE v \in Puts(u, r)
  <2> PICK j \in 1 .. Len(s) : s[j].do = "put" /\ r \in s[j].rows /\ v = s[j].v[r]
    BY <1>3, PutsMember
  <2> PICK i \in 1 .. Len(u) : u[i] = s[j]
    BY <1>1
  <2>1. QED
    BY PutsMember
<1>4. ASSUME NEW v, v \in Puts(t, r) PROVE v \in Puts(u, r)
  <2> PICK j \in 1 .. Len(t) : t[j].do = "put" /\ r \in t[j].rows /\ v = t[j].v[r]
    BY <1>4, PutsMember
  <2> PICK i \in 1 .. Len(u) : u[i] = t[j]
    BY <1>1
  <2>1. QED
    BY PutsMember
<1>5. Puts(u, r) = Puts(s, r) \cup Puts(t, r)
  BY <1>2, <1>3, <1>4
<1>6. QED
  BY <1>5 DEF u

(* What one statement puts there.                                          *)
Gives(s, r) == {s.v[k] : k \in {x \in {r} : s.do = "put" /\ x \in s.rows}}

LEMMA PutsOne == ASSUME NEW s, NEW r PROVE Puts(<<s>>, r) = Gives(s, r)
<1> PICK L : L = <<s>>
  OBVIOUS
<1>1. 1 .. Len(L) = {1} /\ L[1] = s
  BY ShortLists
<1>2. QED
  BY <1>1 DEF Puts, Gives

LEMMA PutsTwo == ASSUME NEW s, NEW u, NEW r PROVE Puts(<<s, u>>, r) = Gives(s, r) \cup Gives(u, r)
<1> PICK L : L = <<s, u>>
  OBVIOUS
<1>1. 1 .. Len(L) = {1, 2} /\ L[1] = s /\ L[2] = u
  BY ShortLists
<1>2. QED
  BY <1>1 DEF Puts, Gives

LEMMA PutGives ==
  ASSUME NEW f, NEW r
  PROVE  /\ r \in DOMAIN f => Gives(PutAll(f), r) = {f[r]}
         /\ r \notin DOMAIN f => Gives(PutAll(f), r) = {}
BY DEF Gives, PutAll, Statement

-----------------------------------------------------------------------------
(* The statements that the mutations consist of are proper.                *)
LEMMA PutAllProper ==
  ASSUME NEW p, NEW t, NEW at, NEW f,
         \A r \in DOMAIN f : Holds(p, t, r, f[r]) /\ (r[1] \in LateTables => at # "run")
  PROVE  Proper(p, t, at, PutAll(f))
BY DEF Proper, PutAll, Statement, StatementKinds

LEMMA PutProper ==
  ASSUME NEW p, NEW t, NEW at, NEW r, NEW v, Holds(p, t, r, v), r[1] \in LateTables => at # "run"
  PROVE  Proper(p, t, at, Put(r, v))
BY PutAllProper DEF Put

(* Nothing is said of the rows of the other tables.                        *)
ToldTables == LateTables \cup {"billing", "license", "isolation"}

LEMMA PlainHolds ==
  ASSUME NEW p, NEW t, NEW r, NEW v, r[1] \notin ToldTables
  PROVE  Holds(p, t, r, v) /\ r[1] \notin LateTables
<1>1. r # Requested(p)
  BY DEF Requested, ToldTables, LateTables
<1>2. QED
  BY <1>1 DEF Holds, ToldTables, LateTables

LEMMA PlainPut ==
  ASSUME NEW p, NEW t, NEW at, NEW r, NEW v, r[1] \notin ToldTables
  PROVE  Proper(p, t, at, Put(r, v))
BY PutProper, PlainHolds

(* Rows are named by tuples, whose first component is the table.           *)
LEMMA PutInto ==
  ASSUME NEW p, NEW t, NEW at, NEW table, NEW a, NEW v, table \notin ToldTables
  PROVE  Proper(p, t, at, Put(<<table, a>>, v))
BY PlainPut

LEMMA PutInto3 ==
  ASSUME NEW p, NEW t, NEW at, NEW table, NEW a, NEW b, NEW v, table \notin ToldTables
  PROVE  Proper(p, t, at, Put(<<table, a, b>>, v))
BY PlainPut

LEMMA OtherProper ==
  ASSUME NEW p, NEW t, NEW at, NEW r, NEW v
  PROVE  /\ r[1] = "target" => Proper(p, t, at, Keep(r, v)) /\ Proper(p, t, at, Wake(r, v))
         /\ r[1] = "certificate" => Proper(p, t, at, Revoke(r))
BY DEF Proper, Keep, Wake, Revoke, Statement, StatementKinds, TableOf

LEMMA RetireProper == ASSUME NEW p, NEW t, NEW at PROVE Proper(p, t, at, Retire)
BY DEF Proper, Retire, Many, StatementKinds

LEMMA ClearProper ==
  ASSUME NEW p, NEW t, NEW at, Input(p).action = "refresh_licenses"
  PROVE  Proper(p, t, at, Clear) /\ Clear.do = "clear" /\ ~Clear.open
BY DEF Proper, Clear, Many, StatementKinds

LEMMA SpreadProper ==
  ASSUME NEW p, NEW t, NEW at, NEW iso, Input(p).action \in IsolationActions,
         Input(p).action = "canary_deploy" => iso.canary = CanaryOf(p)
  PROVE  Proper(p, t, at, Spread(ServiceOf(p), iso))
BY DEF Proper, Spread, Many, StatementKinds, Spreads

LEMMA IsolationProper ==
  ASSUME NEW p, NEW t, NEW at, NEW iso, Input(p).action \in IsolationActions,
         Input(p).action = "canary_deploy" => iso.canary = CanaryOf(p)
  PROVE  Proper(p, t, at, Put(<<"isolation", ServiceOf(p)>>, iso))
<1> PICK r : r = <<"isolation", ServiceOf(p)>>
  OBVIOUS
<1>1. r[1] = "isolation" /\ r # Requested(p)
  BY DEF Requested
<1>2. Holds(p, t, r, iso) /\ r[1] \notin LateTables
  BY <1>1 DEF Holds, LateTables
<1>3. QED
  BY <1>2, PutProper

LEMMA LicenseProper ==
  ASSUME NEW p, NEW t, NEW at, NEW i, NEW v, Input(p).action = "refresh_licenses"
  PROVE  Proper(p, t, at, Put(<<"license", p, i>>, v))
<1> PICK r : r = <<"license", p, i>>
  OBVIOUS
<1>1. r[1] = "license" /\ r[2] = p /\ r # Requested(p)
  BY DEF Requested
<1>2. Holds(p, t, r, v) /\ r[1] \notin LateTables
  BY <1>1 DEF Holds, LateTables
<1>3. QED
  BY <1>2, PutProper

LEMMA OneByOneProper ==
  ASSUME NEW p, NEW t, NEW at, NEW k \in {2, 3}, NEW lists, IsList(lists),
         \A i \in 1 .. Len(lists) : \A j \in 1 .. k : Proper(p, t, at, lists[i][j])
  PROVE  ProperList(p, t, at, OneByOne(lists, k))
<1>1. Len(lists) \in Nat
  BY DEF IsList
<1> PICK n \in Nat : n = Len(lists)
  BY <1>1
<1>2. k * n \in Nat /\ \A i \in 1 .. k * n : ((i - 1) \div k) + 1 \in 1 .. n /\ ((i - 1) % k) + 1 \in 1 .. k
  <2>1. CASE k = 2
    BY <2>1
  <2>2. CASE k = 3
    BY <2>2
  <2>3. QED
    BY <2>1, <2>2
<1> DEFINE f == OneByOne(lists, k)
<1>3. f = [i \in 1 .. k * n |-> f[i]] /\ \A i \in 1 .. k * n : Proper(p, t, at, f[i])
  BY <1>2 DEF OneByOne
<1>4. QED
  BY <1>2, <1>3, ProperBuilt

-----------------------------------------------------------------------------
(* Billing.  What the mutation stores is the caller's payload after two    *)
(* rounds of defaults and masks, what is recorded the payload after one:   *)
(* the second round changes nothing.                                       *)
LEMMA MaskTwice == ASSUME NEW s, IsList(s) PROVE MaskLabel(MaskLabel(s)) = MaskLabel(s)
<1>1. Len(s) \in Nat
  BY DEF IsList
<1>2. CASE Len(s) = 0
  BY <1>2 DEF MaskLabel
<1>3. CASE Len(s) \in 1 .. 2
  BY <1>3 DEF MaskLabel
<1>4. CASE Len(s) \in 3 .. 4
  BY <1>4 DEF MaskLabel
<1>5. CASE Len(s) > 4
  <2> PICK a, b, c, d : a = s[1] /\ b = s[2] /\ c = s[Len(s) - 1] /\ d = s[Len(s)]
    OBVIOUS
  <2> PICK m : m = <<a, b, "*", "*", "*", c, d>>
    OBVIOUS
  <2>1. MaskLabel(s) = m
    <3>1. Len(s) # 0 /\ Len(s) \notin 1 .. 2 /\ Len(s) \notin 3 .. 4
      BY <1>1, <1>5
    <3>2. QED
      BY <3>1 DEF MaskLabel
  <2>2. Len(m) = 7 /\ m[1] = a /\ m[2] = b /\ m[6] = c /\ m[7] = d
    OBVIOUS
  <2>3. MaskLabel(m) = <<m[1], m[2], "*", "*", "*", m[6], m[7]>>
    <3>1. Len(m) # 0 /\ Len(m) \notin 1 .. 2 /\ Len(m) \notin 3 .. 4 /\ Len(m) - 1 = 6
      BY <2>2
    <3>2. QED
      BY <2>2, <3>1 DEF MaskLabel
  <2>4. QED
    BY <2>1, <2>2, <2>3
<1>6. Len(s) = 0 \/ Len(s) \in 1 .. 2 \/ Len(s) \in 3 .. 4 \/ Len(s) > 4
  <2>1. \A n \in Nat : n = 0 \/ n \in 1 .. 2 \/ n \in 3 .. 4 \/ n > 4
    OBVIOUS
  <2>2. QED
    BY <1>1, <2>1
<1>7. QED
  BY <1>2, <1>3, <1>4, <1>5, <1>6

LEMMA MaskEmpty == ASSUME NEW s, IsList(s), s # <<>> PROVE MaskLabel(s) # <<>>
<1>1. Len(s) \in Nat \ {0}
  BY ListTail
<1>2. QED
  BY <1>1 DEF MaskLabel

LEMMA LastTwice ==
  ASSUME NEW s, IsList(s)
  PROVE  Last4(Last4(s)) = Last4(s) /\ (s # <<>> => Last4(s) # <<>>)
<1> DEFINE S == {s[i] : i \in 1 .. Len(s)}
<1>1. s \in Seq(S) /\ Len(s) \in Nat
  BY ListIsSeq DEF IsList
<1> HIDE DEF S
<1>2. ASSUME NEW u \in Seq(S), Len(u) <= 4 PROVE Last4(u) = u
  <2>1. SubSeq(u, 1, Len(u)) = u
    BY SubSeqFull
  <2>2. ~ (Len(u) > 4)
    BY <1>2
  <2>3. QED
    BY <2>1, <2>2 DEF Last4
<1>3. CASE Len(s) > 4
  <2> PICK l : l = Last4(s)
    OBVIOUS
  <2>1. l = SubSeq(s, Len(s) - 3, Len(s))
    BY <1>3 DEF Last4
  <2>2. \A i \in Len(s) - 3 .. Len(s) : s[i] \in S
    BY <1>1, <1>3
  <2>3. l \in Seq(S) /\ Len(l) = 4
    <3> PICK n \in Int : n = Len(s)
      BY <1>1
    <3> PICK m \in Int : m = n - 3
      OBVIOUS
    <3>1. \A i \in m .. n : s[i] \in S
      BY <2>2
    <3>2. SubSeq(s, m, n) \in Seq(S) /\ Len(SubSeq(s, m, n)) = IF m <= n THEN n - m + 1 ELSE 0
      BY <3>1, SubSeqProperties
    <3>3. QED
      BY <2>1, <3>2
  <2>4. Last4(l) = l
    <3>1. Len(l) <= 4
      BY <2>3
    <3>2. QED
      BY <1>2, <2>3, <3>1
  <2>5. l # <<>>
    BY <2>3
  <2>6. QED
    BY <2>4, <2>5
<1>4. CASE Len(s) <= 4
  BY <1>1, <1>2, <1>4
<1>5. QED
  BY <1>1, <1>3, <1>4

LEMMA GivenFlag ==
  ASSUME NEW flag, NEW m, NEW d, \E x : m = IF flag THEN {x} ELSE {}
  PROVE  (IF flag THEN {Given(m, d)} ELSE {}) = m
BY DEF Given

LEMMA SameSource ==
  ASSUME NEW x \in SourceTypes, NEW components
  PROVE  NormalSource({x}, components) = x
<1>1. Given({x}, "") = x
  BY DEF Given
<1>2. QED
  BY <1>1, Zenon DEF NormalSource

LEMMA SamePayload ==
  ASSUME NEW b, NEW c,
         c.components = b.components, c.source = b.source, c.connected = b.connected,
         c.verified = b.verified, c.method = b.method, c.at = b.at, c.verifiedBy = b.verifiedBy,
         c.label = b.label, c.account = b.account
  PROVE  AuditPayload(c) = AuditPayload(b)
BY Zenon DEF AuditPayload

(* Labels and accounts are texts, and those of a payload are not empty.     *)
Spelt(in, env) ==
  /\ \A s \in in.label \cup in.account : IsList(s) /\ s # <<>>
  /\ IsList(env.label) /\ IsList(env.account)

LEMMA AuditTwice ==
  ASSUME NEW in, NEW env, NEW by, NEW ref, NEW t, NEW now, NEW a, NEW b, NEW c,
         Spelt(in, env),
         b = BillingState(in, env, by, ref, t),
         a = AuditPayload(b),
         c = BillingState(a, env, by, ref, now)
  PROVE  AuditPayload(c) = a
<1>0. \A x, y : Given({x}, y) = x
  BY DEF Given
<1>1. b.components \subseteq Components
  BY DEF BillingState, ResolvedComponents
<1>2. a.source = {b.source}
  BY DEF AuditPayload
<1>13. a.connected = {b.connected}
  BY DEF AuditPayload
<1>14. a.verified = {b.verified}
  BY DEF AuditPayload
<1>12. /\ a.label = (IF b.label = <<>> THEN {} ELSE {b.label})
       /\ a.account = (IF b.account = <<>> THEN {} ELSE {b.account})
  BY DEF AuditPayload
<1>3. c.components = b.components
  <2>1. c.components = ResolvedComponents(a, env.components)
    BY DEF BillingState
  <2>2. ASSUME NEW x \in Components
        PROVE  x \in ResolvedComponents(a, env.components) <=> x \in b.components
    <3>1. a.explicit[x] = {(x \in b.components)}
      BY DEF AuditPayload
    <3>2. x \in ResolvedComponents(a, env.components) <=>
            Given(a.explicit[x], IF a.approved # {} THEN x \in a.approved ELSE x \in env.components)
      BY DEF ResolvedComponents
    <3>3. Given(a.explicit[x], IF a.approved # {} THEN x \in a.approved ELSE x \in env.components)
            = (x \in b.components)
      BY <1>0, <3>1, Zenon
    <3>4. QED
      BY <3>2, <3>3
  <2>3. ResolvedComponents(a, env.components) \subseteq Components
    BY DEF ResolvedComponents
  <2>4. QED
    BY <1>1, <2>1, <2>2, <2>3
<1>4. c.source = b.source
  <2>1. b.source \in SourceTypes
    <3>1. b.source = NormalSource(in.source, b.components)
      BY DEF BillingState
    <3>2. b.components # {} => (CHOOSE x \in b.components : TRUE) \in b.components
      OBVIOUS
    <3>3. QED
      BY <1>1, <3>1, <3>2 DEF NormalSource, SourceTypes
  <2>2. c.source = NormalSource(a.source, c.components)
    BY DEF BillingState
  <2>3. QED
    BY <1>2, <2>1, <2>2, SameSource
<1>5. c.connected = b.connected
  <2>1. c.connected = Given(a.connected, c.components # {})
    BY DEF BillingState
  <2>2. QED
    BY <1>0, <1>13, <2>1
<1>6. c.verified = b.verified
  <2>1. c.verified = Given(a.verified, c.connected)
    BY DEF BillingState
  <2>2. QED
    BY <1>0, <1>14, <2>1
<1>7. c.method = b.method /\ c.at = b.at /\ c.verifiedBy = b.verifiedBy
  <2>1. c.method = b.method
    <3>1. c.method = IF c.verified THEN {Given(a.method, "manual_attested")} ELSE {}
      BY DEF BillingState
    <3>2. a.method = b.method
      BY DEF AuditPayload
    <3>3. \E x : b.method = IF b.verified THEN {x} ELSE {}
      BY DEF BillingState
    <3>4. (IF b.verified THEN {Given(b.method, "manual_attested")} ELSE {}) = b.method
      BY <3>3, GivenFlag
    <3>5. QED
      BY <1>6, <3>1, <3>2, <3>4
  <2>2. c.at = b.at
    <3>1. c.at = IF c.verified THEN {Given(a.at, now)} ELSE {}
      BY DEF BillingState
    <3>2. a.at = b.at
      BY DEF AuditPayload
    <3>3. \E x : b.at = IF b.verified THEN {x} ELSE {}
      BY DEF BillingState
    <3>4. (IF b.verified THEN {Given(b.at, now)} ELSE {}) = b.at
      BY <3>3, GivenFlag
    <3>5. QED
      BY <1>6, <3>1, <3>2, <3>4
  <2>3. c.verifiedBy = b.verifiedBy
    <3>1. c.verifiedBy = IF c.verified THEN {Given(a.verifiedBy, by)} ELSE {}
      BY DEF BillingState
    <3>2. a.verifiedBy = b.verifiedBy
      BY DEF AuditPayload
    <3>3. \E x : b.verifiedBy = IF b.verified THEN {x} ELSE {}
      BY DEF BillingState
    <3>4. (IF b.verified THEN {Given(b.verifiedBy, by)} ELSE {}) = b.verifiedBy
      BY <3>3, GivenFlag
    <3>5. QED
      BY <1>6, <3>1, <3>2, <3>4
  <2>4. QED
    BY <2>1, <2>2, <2>3
<1>8. c.label = b.label
  <2>1. /\ b.label = MaskLabel(Given(in.label, env.label))
        /\ c.label = MaskLabel(Given(a.label, env.label))
    BY DEF BillingState
  <2> PICK s : s = Given(in.label, env.label)
    OBVIOUS
  <2>2. IsList(s) /\ (s = env.label \/ s # <<>>)
    BY DEF Given, Spelt
  <2>3. CASE b.label = <<>>
    <3>1. s = env.label
      BY <2>1, <2>2, <2>3, MaskEmpty
    <3>2. Given({}, s) = s
      BY DEF Given
    <3>3. QED
      BY <1>12, <2>1, <2>3, <3>1, <3>2
  <2>4. CASE b.label # <<>>
    <3>1. c.label = MaskLabel(b.label)
      BY <1>0, <1>12, <2>1, <2>4
    <3>2. QED
      BY <2>1, <2>2, <3>1, MaskTwice
  <2>5. QED
    BY <2>3, <2>4
<1>9. c.account = b.account
  <2>1. /\ b.account = Last4(Given(in.account, env.account))
        /\ c.account = Last4(Given(a.account, env.account))
    BY DEF BillingState
  <2> PICK s : s = Given(in.account, env.account)
    OBVIOUS
  <2>2. IsList(s) /\ (s = env.account \/ s # <<>>)
    BY DEF Given, Spelt
  <2>3. CASE b.account = <<>>
    <3>1. s = env.account
      BY <2>1, <2>2, <2>3, LastTwice
    <3>2. Given({}, s) = s
      BY DEF Given
    <3>3. QED
      BY <1>12, <2>1, <2>3, <3>1, <3>2
  <2>4. CASE b.account # <<>>
    <3>1. c.account = Last4(b.account)
      BY <1>0, <1>12, <2>1, <2>4
    <3>2. QED
      BY <2>1, <2>2, <3>1, LastTwice
  <2>5. QED
    BY <2>3, <2>4
<1>10. AuditPayload(c) = AuditPayload(b)
  BY <1>3, <1>4, <1>5, <1>6, <1>7, <1>8, <1>9, SamePayload
<1>11. QED
  BY <1>10

-----------------------------------------------------------------------------
(* What each mutation plans to write is proper, and a billing source or an *)
(* isolation row is among it where the action is there for one.            *)
Cast == \E i \in DOMAIN Casts : cast = Casts[i]

LEMMA RequestsTyped ==
  ASSUME Cast, NEW p \in Acting, Admitted(p)
  PROVE  /\ IsList(cast.workspaces) /\ ListsTyped(Input(p)) /\ Ref(p) # None
         /\ IsList(cast.env.label) /\ IsList(cast.env.account)
BY RoomAssumption DEF Cast, Acting, Input, Ref, Admitted

LEMMA BillingAudited ==
  ASSUME Cast, NEW p \in Acting, Admitted(p), Action(p, "commercial", {"sync_billing"})
  PROVE  AuditedAt(p, tx[p].t) = {AuditPayload(Billing(p))}
<1> PICK in : in = Input(p).in
  OBVIOUS
<1> PICK env : env = cast.env
  OBVIOUS
<1> PICK ref : ref = Ref(p)
  OBVIOUS
<1> PICK t : t = tx[p].t
  OBVIOUS
<1> PICK now : now = clock
  OBVIOUS
<1> PICK b : b = BillingState(in, env, p, ref, t)
  OBVIOUS
<1> PICK a : a = AuditPayload(b)
  OBVIOUS
<1> PICK c : c = BillingState(a, env, p, ref, now)
  OBVIOUS
<1>1. \A s \in in.label \cup in.account : IsList(s) /\ s # <<>>
  BY RequestsTyped DEF ListsTyped, Action
<1>2. Spelt(in, env)
  BY <1>1, RequestsTyped DEF Spelt
<1>3. AuditPayload(c) = a
  BY <1>2, AuditTwice
<1>4. Billing(p) = c
  BY DEF Billing
<1>5. AuditedAt(p, t) = {a}
  BY DEF AuditedAt
<1>6. QED
  BY <1>3, <1>4, <1>5

Foreseen(p, todo) ==
  /\ Input(p).action = "sync_billing" => Puts(todo, <<"billing", p>>) # {}
  /\ Input(p).action \in IsolationActions => Puts(todo, <<"isolation", ServiceOf(p)>>) # {}

(* Request p has planned its next statements and goes on.                  *)
Planned(p, from, to) ==
  \E todo, read :
    /\ ProperList(p, tx[p].t, to, todo)
    /\ to = "run" => Foreseen(p, todo)
    /\ to = "record" =>
         /\ Puts(todo, Requested(p)) # {}
         /\ Agree(Puts(todo, <<"summary", Input(p).room>>), Puts(todo, <<"reason", p>>))
         /\ \A service : Puts(todo, <<"isolation", service>>) = {}
    /\ to \in {"record", "ledger"} => tx[p].todo = <<>>
    /\ to = "ledger" => todo = <<>>
    /\ pc[p] = from
    /\ tx' = [tx EXCEPT ![p].todo = todo, ![p].read = read]
    /\ Goto(p, to)
    /\ files' \in {files, files \cup {p}}
    /\ UNCHANGED <<cast, db, ledger, clock, locks, span, answer>>

LEMMA DecidePlans ==
  ASSUME NEW p, NEW todo, NEW read, Decide(p, todo, read),
         ProperList(p, tx[p].t, "run", todo), Foreseen(p, todo)
  PROVE  Planned(p, "decide", "run")
BY DEF Decide, Plan, Planned

(* The other actions.                                                      *)
Plain(p) == Input(p).action # "sync_billing" /\ Input(p).action \notin IsolationActions

LEMMA PlainPlans ==
  ASSUME NEW p, Plain(p), NEW todo, NEW read, Decide(p, todo, read), ProperList(p, tx[p].t, "run", todo)
  PROVE  Planned(p, "decide", "run")
BY DecidePlans DEF Plain, Foreseen

LEMMA ExportPlans ==
  ASSUME NEW p, Plain(p), NEW patch, Export(p, patch)
  PROVE  Planned(p, "decide", "run")
<1> PICK todo : todo = <<Put(<<"export", p>>, Ref(p))>>
  OBVIOUS
<1>1. ProperList(p, tx[p].t, "run", todo)
  BY PutInto, ProperOne DEF ToldTables, LateTables
<1>2. QED
  BY <1>1 DEF Export, Planned, Plain, Foreseen

LEMMA WriteIsolationProper ==
  ASSUME NEW p, NEW t, NEW iso, Input(p).action \in IsolationActions,
         Input(p).action = "canary_deploy" => iso.canary = CanaryOf(p)
  PROVE  /\ ProperList(p, t, "run", WriteIsolation(p, iso))
         /\ Puts(WriteIsolation(p, iso), <<"isolation", ServiceOf(p)>>) = {iso}
<1> DEFINE own == Put(<<"isolation", ServiceOf(p)>>, iso)
           all == Given(Input(p).in.all, Input(p).in.service = {})
<1> PICK spread : spread = IF all THEN <<Spread(ServiceOf(p), iso)>> ELSE <<>>
  OBVIOUS
<1>1. ProperList(p, t, "run", <<own>>)
  BY IsolationProper, ProperOne
<1>2. ProperList(p, t, "run", <<Spread(ServiceOf(p), iso)>>)
  BY SpreadProper, ProperOne
<1>3. ProperList(p, t, "run", spread)
  BY <1>2, ProperNil
<1>4. WriteIsolation(p, iso) = <<own>> \o spread
  BY DEF WriteIsolation, ServiceOf
<1> PICK row : row = <<"isolation", ServiceOf(p)>>
  OBVIOUS
<1>5. Puts(<<own>>, row) = {iso}
  <2>1. Gives(own, row) = {iso}
    BY PutGives DEF Put
  <2>2. QED
    BY <2>1, PutsOne
<1>6. Puts(spread, row) = {}
  <2>1. Gives(Spread(ServiceOf(p), iso), row) = {}
    BY DEF Gives, Spread, Many
  <2>2. Puts(<<Spread(ServiceOf(p), iso)>>, row) = {}
    BY <2>1, PutsOne
  <2>3. QED
    BY <2>2, PutsNil
<1> HIDE DEF own, all
<1>7. Puts(<<own>> \o spread, row) = {iso}
  BY <1>1, <1>3, <1>5, <1>6, PutsJoin DEF ProperList
<1>8. ProperList(p, t, "run", <<own>> \o spread)
  BY <1>1, <1>3, ProperJoin
<1>9. QED
  BY <1>4, <1>7, <1>8

LEMMA MarketProper ==
  ASSUME NEW p, NEW t, NEW in, IsList(in.sources), IsList(in.intel), IsList(in.pairs)
  PROVE  ProperList(p, t, "run",
                    [i \in 1 .. Len(in.sources) |-> PutSource(in.sources[i])]
                    \o OneByOne([i \in 1 .. Len(in.intel) |-> PutIntel(p, in.intel[i])], 2)
                    \o OneByOne([i \in 1 .. Len(in.pairs) |-> PutCompetitors(in.pairs[i])], 3))
<1> PICK f : f = [i \in 1 .. Len(in.sources) |-> PutSource(in.sources[i])]
  OBVIOUS
<1> PICK g : g = [i \in 1 .. Len(in.intel) |-> PutIntel(p, in.intel[i])]
  OBVIOUS
<1> PICK h : h = [i \in 1 .. Len(in.pairs) |-> PutCompetitors(in.pairs[i])]
  OBVIOUS
<1>0. Len(in.sources) \in Nat /\ Len(in.intel) \in Nat /\ Len(in.pairs) \in Nat
  BY DEF IsList
<1>1. ProperList(p, t, "run", f)
  <2>1. \A source : Proper(p, t, "run", PutSource(source))
    BY PutInto DEF PutSource, ToldTables, LateTables
  <2>2. f = [i \in 1 .. Len(in.sources) |-> f[i]] /\ \A i \in 1 .. Len(in.sources) : Proper(p, t, "run", f[i])
    BY <2>1
  <2>3. QED
    BY <1>0, <2>2, ProperBuilt
<1>2. ProperList(p, t, "run", OneByOne(g, 2))
  <2>1. IsList(g) /\ Len(g) = Len(in.intel)
    BY <1>0, BuiltList
  <2>2. ASSUME NEW symbol PROVE \A j \in 1 .. 2 : Proper(p, t, "run", PutIntel(p, symbol)[j])
    <3>1. Proper(p, t, "run", Wake(<<"target", symbol>>, Target("target_market_registry", TRUE)))
      BY OtherProper
    <3>2. Proper(p, t, "run", Put(<<"intel", p, symbol>>, symbol))
      BY PutInto3 DEF ToldTables, LateTables
    <3> PICK s : s = PutIntel(p, symbol)
      OBVIOUS
    <3>3. ProperList(p, t, "run", s) /\ Len(s) = 2
      BY <3>1, <3>2, ProperTwo DEF PutIntel
    <3>4. QED
      BY <3>3 DEF ProperList
  <2>3. \A i \in 1 .. Len(g) : \A j \in 1 .. 2 : Proper(p, t, "run", g[i][j])
    BY <2>1, <2>2
  <2>4. QED
    BY <2>1, <2>3, OneByOneProper
<1>3. ProperList(p, t, "run", OneByOne(h, 3))
  <2>1. IsList(h) /\ Len(h) = Len(in.pairs)
    BY <1>0, BuiltList
  <2>2. ASSUME NEW pair PROVE \A j \in 1 .. 3 : Proper(p, t, "run", PutCompetitors(pair)[j])
    <3>1. \A a : Proper(p, t, "run", Keep(<<"target", a>>, Target("target_market_registry", TRUE)))
      BY OtherProper
    <3>2. Proper(p, t, "run", Put(<<"competitor", pair[1], pair[2]>>, "competitor"))
      BY PutInto3 DEF ToldTables, LateTables
    <3> PICK s : s = PutCompetitors(pair)
      OBVIOUS
    <3>3. ProperList(p, t, "run", s) /\ Len(s) = 3
      BY <3>1, <3>2, ProperThree DEF PutCompetitors
    <3>4. QED
      BY <3>3 DEF ProperList
  <2>3. \A i \in 1 .. Len(h) : \A j \in 1 .. 3 : Proper(p, t, "run", h[i][j])
    BY <2>1, <2>2
  <2>4. QED
    BY <2>1, <2>3, OneByOneProper
<1>4. QED
  BY <1>1, <1>2, <1>3, ProperJoin

LEMMA AllowedHere == ASSUME NEW p, Admitted(p) PROVE Input(p).action \in AllowedActions(Input(p).room)
<1> DEFINE q == Input(p)
<1>1. ASSUME q.action \notin AllowedActions(q.room) PROVE Refusal(q) \in {"404", "400", "401", "403"}
  <2> PICK empty : empty = ""
    OBVIOUS
  <2>1. Refusal(q) = CASE q.room \notin RoomKeys -> "404"
                       [] q.action = empty -> "400"
                       [] q.action \notin AllowedActions(q.room) -> "403"
                       [] q.role \notin {"authority", "operator", "system"} -> "401"
                       [] q.role \notin AllowedRoles(q.room) -> "403"
                       [] OTHER -> empty
    BY Zenon DEF Refusal
  <2>2. QED
    BY <1>1, <2>1
<1> HIDE DEF q
<1>2. "" \notin {"404", "400", "401", "403"}
  OBVIOUS
<1>3. Refusal(q) = ""
  BY DEF Admitted, q
<1>4. q.action \in AllowedActions(q.room)
  BY <1>1, <1>2, <1>3, Zenon
<1>5. QED
  BY <1>4 DEF q

LEMMA DecideMutationPlans ==
  ASSUME Cast, NEW p \in Acting, Admitted(p), DecideMutation(p)
  PROVE  Planned(p, "decide", "run")
<1> DEFINE L(s) == ProperList(p, tx[p].t, "run", s)
<1>0. IsList(cast.workspaces) /\ ListsTyped(Input(p)) /\ L(<<>>)
  BY RequestsTyped, ProperNil
<1> PICK t : t = tx[p].t
  OBVIOUS
<1>a. \A names, room : Action(p, room, names) /\ names \cap ({"sync_billing"} \cup IsolationActions) = {} => Plain(p)
  BY DEF Action, Plain
<1>b. ASSUME NEW todo, NEW read, Decide(p, todo, read), L(todo), Plain(p)
      PROVE  Planned(p, "decide", "run")
  BY <1>b, PlainPlans
<1>c. \A table, a, v : table \notin ToldTables => L(<<Put(<<table, a>>, v)>>)
  BY PutInto, ProperOne
<1>1. CASE SyncBilling(p)
  <2> PICK b : b = Billing(p)
    OBVIOUS
  <2> PICK row : row = <<"billing", p>>
    OBVIOUS
  <2>1. AuditedAt(p, t) = {AuditPayload(b)}
    BY <1>1, BillingAudited DEF SyncBilling
  <2>2. Holds(p, t, row, b) /\ row[1] \notin LateTables
    BY <2>1 DEF Holds, LateTables, Requested
  <2>3. Proper(p, t, "run", Put(row, b))
    BY <2>2, PutProper
  <2>4. L(<<Put(row, b)>>)
    BY <2>3, ProperOne
  <2>5. Puts(<<Put(row, b)>>, row) = {b}
    <3>1. Gives(Put(row, b), row) = {b}
      BY PutGives DEF Put
    <3>2. QED
      BY <3>1, PutsOne
  <2>6. Foreseen(p, <<Put(row, b)>>)
    <3>1. Input(p).action = "sync_billing"
      BY <1>1 DEF SyncBilling, Action
    <3>2. QED
      BY <2>5, <3>1 DEF Foreseen, IsolationActions
  <2> HIDE DEF L
  <2>7. \E read : Decide(p, <<Put(row, b)>>, read)
    BY <1>1 DEF SyncBilling
  <2>8. QED
    BY <2>4, <2>6, <2>7, DecidePlans DEF L
<1>2. CASE RefreshEntitlements(p)
  <2> PICK f : f = [i \in 1 .. Len(cast.workspaces) |->
                      Put(<<"entitlement", cast.workspaces[i].id>>, Entitlement(cast.workspaces[i].plan))]
    OBVIOUS
  <2>1. Len(cast.workspaces) \in Nat /\ f = [i \in 1 .. Len(cast.workspaces) |-> f[i]]
    BY <1>0 DEF IsList
  <2>2. \A i \in 1 .. Len(cast.workspaces) : Proper(p, t, "run", f[i])
    BY PutInto DEF ToldTables, LateTables
  <2>3. L(f)
    BY <2>1, <2>2, ProperBuilt
  <2>4. Plain(p)
    BY <1>2, <1>a DEF RefreshEntitlements, IsolationActions
  <2>5. QED
    BY <1>2, <1>b, <2>3, <2>4 DEF RefreshEntitlements
<1>3. CASE ChooseLicense(p)
  <2>1. \A id, v : L(<<Put(<<"entitlement", id>>, v)>>)
    BY <1>c DEF ToldTables, LateTables
  <2>2. Plain(p)
    BY <1>3, <1>a DEF ChooseLicense, IsolationActions
  <2> HIDE DEF L
  <2>3. \E todo, read : Decide(p, todo, read) /\ L(todo)
    BY <1>0, <1>3, <2>1 DEF ChooseLicense
  <2>4. QED
    BY <1>b, <2>2, <2>3
<1>4. CASE RevokeCertificate(p)
  <2>1. ASSUME NEW r, r[1] = "certificate" PROVE L(<<Revoke(r)>>)
    BY <2>1, OtherProper, ProperOne
  <2>2. \A c : <<"certificate", c>>[1] = "certificate"
    OBVIOUS
  <2>3. \A r \in Latest(Seen(p), RowsOf(Seen(p), "certificate")) : r[1] = "certificate"
    BY DEF Latest, RowsOf
  <2>4. Plain(p)
    BY <1>4, <1>a DEF RevokeCertificate, IsolationActions
  <2> HIDE DEF L
  <2>5. \E todo, read : Decide(p, todo, read) /\ L(todo)
    BY <1>0, <1>4, <2>1, <2>2, <2>3 DEF RevokeCertificate
  <2>6. QED
    BY <1>b, <2>4, <2>5
<1>5. CASE ExportRecord(p) \/ ExportSnapshot(p)
  <2>1. Plain(p)
    BY <1>5, <1>a DEF ExportRecord, ExportSnapshot, IsolationActions
  <2>2. QED
    BY <1>5, <2>1, ExportPlans DEF ExportRecord, ExportSnapshot
<1>6. CASE RefreshIdentity(p)
  <2>1. L(<<Put(<<Input(p).action, p>>, Input(p).in)>>)
    BY <1>6, <1>c DEF RefreshIdentity, Action, ToldTables, LateTables
  <2>2. Plain(p)
    BY <1>6, <1>a DEF RefreshIdentity, IsolationActions
  <2>3. QED
    BY <1>6, <1>b, <2>1, <2>2 DEF RefreshIdentity
<1>7. CASE RefreshContact(p)
  <2> PICK contacts : contacts = Input(p).in
    OBVIOUS
  <2> PICK f : f = [i \in 1 .. Len(contacts) |-> Put(<<"contact", contacts[i].role>>, contacts[i].email)]
    OBVIOUS
  <2>1. Len(contacts) \in Nat /\ f = [i \in 1 .. Len(contacts) |-> f[i]]
    BY <1>0, <1>7 DEF ListsTyped, IsList, RefreshContact, Action
  <2>2. \A i \in 1 .. Len(contacts) : Proper(p, t, "run", f[i])
    BY PutInto DEF ToldTables, LateTables
  <2>3. L(f)
    BY <2>1, <2>2, ProperBuilt
  <2>4. Plain(p)
    BY <1>7, <1>a DEF RefreshContact, IsolationActions
  <2>5. QED
    BY <1>7, <1>b, <2>3, <2>4 DEF RefreshContact
<1>8. CASE RefreshLicenses(p)
  <2> PICK n : n = Input(p).in
    OBVIOUS
  <2> PICK f : f = [i \in 1 .. n |-> Put(<<"license", p, i>>, i)]
    OBVIOUS
  <2>0. Input(p).action = "refresh_licenses"
    BY <1>8 DEF RefreshLicenses, Action
  <2>1. n \in Nat /\ f = [i \in 1 .. n |-> f[i]]
    BY <1>0, <2>0 DEF ListsTyped
  <2>2. \A i \in 1 .. n : Proper(p, t, "run", f[i])
    BY <2>0, LicenseProper
  <2>3. L(f) /\ L(<<Clear>>)
    <3>1. Proper(p, t, "run", Clear)
      BY <2>0, ClearProper
    <3>2. L(<<Clear>>)
      BY <3>1, ProperOne
    <3>3. QED
      BY <2>1, <2>2, <3>2, ProperBuilt
  <2>4. L(<<Clear>> \o f)
    BY <2>3, ProperJoin
  <2>5. Plain(p)
    BY <2>0 DEF Plain, IsolationActions
  <2>6. QED
    BY <1>8, <1>b, <2>4, <2>5 DEF RefreshLicenses
<1>9. CASE RefreshTargets(p)
  <2> PICK in : in = Input(p).in
    OBVIOUS
  <2> PICK f : f = [i \in 1 .. Len(in) |-> Put(<<"target", in[i].symbol>>, Target(in[i].source, in[i].active))]
    OBVIOUS
  <2>1. Len(in) \in Nat /\ f = [i \in 1 .. Len(in) |-> f[i]]
    BY <1>0, <1>9 DEF ListsTyped, IsList, RefreshTargets, Action
  <2>2. \A i \in 1 .. Len(in) : Proper(p, t, "run", f[i])
    BY PutInto DEF ToldTables, LateTables
  <2>3. L(f) /\ L(<<Retire>>)
    BY <2>1, <2>2, ProperBuilt, ProperOne, RetireProper
  <2>4. L(<<Retire>> \o f)
    BY <2>3, ProperJoin
  <2>5. Plain(p)
    BY <1>9, <1>a DEF RefreshTargets, IsolationActions
  <2>6. QED
    BY <1>9, <1>b, <2>4, <2>5 DEF RefreshTargets
<1>10. CASE RefreshMarketSources(p)
  <2>1. IsList(Input(p).in.sources) /\ IsList(Input(p).in.intel) /\ IsList(Input(p).in.pairs)
    BY <1>0, <1>10 DEF ListsTyped, RefreshMarketSources, Action
  <2> DEFINE in   == Input(p).in
             todo == [i \in 1 .. Len(in.sources) |-> PutSource(in.sources[i])]
                     \o OneByOne([i \in 1 .. Len(in.intel) |-> PutIntel(p, in.intel[i])], 2)
                     \o OneByOne([i \in 1 .. Len(in.pairs) |-> PutCompetitors(in.pairs[i])], 3)
  <2>2. L(todo)
    BY <2>1, MarketProper
  <2>3. Decide(p, todo, {})
    BY <1>10 DEF RefreshMarketSources
  <2>4. Plain(p)
    BY <1>10, <1>a DEF RefreshMarketSources, IsolationActions
  <2> HIDE DEF L, todo
  <2>5. QED
    BY <1>b, <2>2, <2>3, <2>4
<1>11. CASE RefreshBoundary(p)
  <2>1. \A v : L(<<Put(<<"boundary", p>>, v)>>)
    BY <1>c DEF ToldTables, LateTables
  <2>2. Plain(p)
    BY <1>11, <1>a DEF RefreshBoundary, IsolationActions
  <2>3. QED
    BY <1>11, <1>b, <2>1, <2>2 DEF RefreshBoundary
<1>12. CASE RefreshTrust(p)
  <2> PICK attest : attest = <<Put(<<"attestation", p>>, Input(p).in.attested)>>
    OBVIOUS
  <2> PICK iso : iso = MergedIsolation(p, {}, {})
    OBVIOUS
  <2>1. Input(p).action \in IsolationActions /\ Input(p).action \notin {"canary_deploy", "sync_billing"}
    BY <1>12 DEF RefreshTrust, Action, IsolationActions
  <2>2. L(attest)
    BY <1>c DEF ToldTables, LateTables
  <2> PICK s : s = WriteIsolation(p, iso)
    OBVIOUS
  <2> PICK row : row = <<"isolation", ServiceOf(p)>>
    OBVIOUS
  <2>3. L(s) /\ Puts(s, row) = {iso}
    BY <2>1, WriteIsolationProper
  <2>4. L(attest \o s) /\ Puts(attest \o s, row) = Puts(attest, row) \cup {iso}
    <3>1. L(attest \o s)
      BY <2>2, <2>3, ProperJoin
    <3>2. IsList(attest) /\ IsList(s)
      BY <2>2, <2>3 DEF ProperList
    <3>3. QED
      BY <2>3, <3>1, <3>2, PutsJoin
  <2>5. Foreseen(p, attest \o s)
    BY <2>1, <2>4 DEF Foreseen
  <2> HIDE DEF L
  <2>6. \E read : Decide(p, attest \o s, read)
    BY <1>12 DEF RefreshTrust
  <2>7. QED
    BY <2>4, <2>5, <2>6, DecidePlans DEF L
<1>13. CASE RefreshOps(p)
  <2> DEFINE canary == IF Input(p).action = "canary_deploy" THEN {CanaryOf(p)} ELSE {}
  <2>1. Input(p).action \in IsolationActions /\ Input(p).action # "sync_billing"
    BY <1>13 DEF RefreshOps, Action, IsolationActions
  <2>2. \E rollback, read : Decide(p, WriteIsolation(p, MergedIsolation(p, canary, rollback)), read)
    BY <1>13 DEF RefreshOps, CanaryOf
  <2> PICK rollback, read : Decide(p, WriteIsolation(p, MergedIsolation(p, canary, rollback)), read)
    BY <2>2
  <2> PICK iso : iso = MergedIsolation(p, canary, rollback)
    OBVIOUS
  <2>3. Input(p).action = "canary_deploy" => iso.canary = CanaryOf(p)
    <3>1. \A x, d : Given({x}, d) = x
      BY DEF Given
    <3>2. QED
      BY <3>1 DEF MergedIsolation
  <2> HIDE DEF canary
  <2> PICK s : s = WriteIsolation(p, iso)
    OBVIOUS
  <2>4. L(s) /\ Puts(s, <<"isolation", ServiceOf(p)>>) = {iso}
    BY <2>1, <2>3, WriteIsolationProper
  <2>5. Foreseen(p, s)
    BY <2>1, <2>4 DEF Foreseen
  <2>6. QED
    BY <2>4, <2>5, DecidePlans
<1>14. CASE NoMutation(p)
  <2>1. Plain(p)
    <3>1. CASE Input(p).room \in {"evidence", "reports_plans"}
      BY <3>1, AllowedHere DEF AllowedActions, Plain, IsolationActions
    <3>2. CASE Action(p, "ops", {"evidence_export", "seal_review"})
      BY <1>a, <3>2 DEF IsolationActions
    <3>3. QED
      BY <1>14, <3>1, <3>2 DEF NoMutation
  <2>2. QED
    BY <1>0, <1>14, <1>b, <2>1 DEF NoMutation
<1>15. QED
  BY <1>1, <1>2, <1>3, <1>4, <1>5, <1>6, <1>7, <1>8, <1>9, <1>10, <1>11, <1>12, <1>13, <1>14 DEF DecideMutation

-----------------------------------------------------------------------------
(* Every action ends with the same statements: its change events, and a    *)
(* summary with the reason that explains it.                               *)
LEMMA EventsKnown ==
  ASSUME NEW p, NEW u, NEW v, NEW w, NEW f,
         f = Overlay(Event(p, "action_requested", u),
                     Overlay(Event(p, "policy_evaluated", v), Event(p, "domain_mutation_applied", w)))
  PROVE  /\ \A r \in DOMAIN f : r[1] = "event" /\ r[2] = p
         /\ Requested(p) \in DOMAIN f /\ f[Requested(p)].payload = u
<1> PICK a : a = Overlay(Event(p, "policy_evaluated", v), Event(p, "domain_mutation_applied", w))
  OBVIOUS
<1>1. DOMAIN a \subseteq {<<"event", p, "policy_evaluated">>, <<"event", p, "domain_mutation_applied">>}
  BY DEF Overlay, Event
<1>2. f = Overlay(Event(p, "action_requested", u), a)
  OBVIOUS
<1> PICK e : e = Event(p, "action_requested", u)
  OBVIOUS
<1>3. DOMAIN e = {Requested(p)} /\ e[Requested(p)].payload = u
  BY DEF Event, Requested
<1>4. Requested(p) \notin DOMAIN a
  BY <1>1 DEF Requested
<1>5. DOMAIN f \subseteq {Requested(p)} \cup DOMAIN a
  BY <1>2, <1>3 DEF Overlay
<1>6. Requested(p) \in DOMAIN f /\ f[Requested(p)] = e[Requested(p)]
  BY <1>2, <1>3, <1>4 DEF Overlay
<1>7. \A r \in DOMAIN f : r[1] = "event" /\ r[2] = p
  BY <1>1, <1>5 DEF Requested
<1>8. QED
  BY <1>3, <1>6, <1>7

LEMMA EventHolds ==
  ASSUME NEW p, NEW t, NEW r, NEW v, r[1] = "event", r[2] = p, r = Requested(p) => v.payload = AuditedAt(p, t)
  PROVE  Holds(p, t, r, v)
BY DEF Holds

LEMMA ReasonKnown ==
  ASSUME NEW p, NEW t, NEW patch, NEW g, NEW row, row = <<"reason", p>>,
         g = Overlay(Reason(p, patch), Event(p, "room_summary_refreshed", {patch.status}))
  PROVE  /\ \A r \in DOMAIN g : Holds(p, t, r, g[r]) /\ (r = row \/ r[1] = "event")
         /\ row \in DOMAIN g <=> patch.status # "green"
         /\ row \in DOMAIN g => g[row].code = patch.code
<1> PICK e : e = Event(p, "room_summary_refreshed", {patch.status})
  OBVIOUS
<1> PICK said : said = Reason(p, patch)
  OBVIOUS
<1>1. DOMAIN e = {<<"event", p, "room_summary_refreshed">>}
  BY DEF Event
<1>2. /\ DOMAIN said = {k \in {row} : patch.status # "green"}
      /\ row \in DOMAIN said => said[row] = [room |-> Input(p).room, code |-> patch.code, ref |-> Ref(p)]
  BY DEF Reason
<1>3. row \notin DOMAIN e /\ \A r \in DOMAIN e : r[1] = "event" /\ r[2] = p /\ r # Requested(p)
  BY <1>1 DEF Requested
<1>4. /\ DOMAIN g \subseteq DOMAIN said \cup DOMAIN e
      /\ row \in DOMAIN g <=> row \in DOMAIN said
      /\ row \in DOMAIN g => g[row] = said[row]
  BY <1>2, <1>3 DEF Overlay
<1>5. ASSUME NEW r \in DOMAIN g PROVE Holds(p, t, r, g[r]) /\ (r = row \/ r[1] = "event")
  <2>1. CASE r \in DOMAIN e
    BY <1>3, <2>1, EventHolds
  <2>2. CASE r = row
    <3>1. row[1] = "reason" /\ row # Requested(p)
      BY DEF Requested
    <3>2. g[row].room = Input(p).room /\ g[row].ref = Ref(p)
      BY <1>2, <1>4, <2>2
    <3>3. QED
      BY <2>2, <3>1, <3>2 DEF Holds
  <2>3. QED
    BY <1>2, <1>4, <2>1, <2>2
<1>6. QED
  BY <1>2, <1>4, <1>5

LEMMA TwoPuts ==
  ASSUME NEW f, NEW g, NEW s, s = <<PutAll(f), PutAll(g)>>, NEW r
  PROVE  /\ r \notin DOMAIN f => Puts(s, r) = IF r \in DOMAIN g THEN {g[r]} ELSE {}
         /\ r \notin DOMAIN g => Puts(s, r) = IF r \in DOMAIN f THEN {f[r]} ELSE {}
<1> PICK a : a = PutAll(f)
  OBVIOUS
<1> PICK b : b = PutAll(g)
  OBVIOUS
<1>1. Puts(s, r) = Gives(a, r) \cup Gives(b, r)
  BY PutsTwo
<1>2. /\ Gives(a, r) = IF r \in DOMAIN f THEN {f[r]} ELSE {}
      /\ Gives(b, r) = IF r \in DOMAIN g THEN {g[r]} ELSE {}
  BY PutGives
<1>3. QED
  BY <1>1, <1>2

LEMMA JoinedWithout ==
  ASSUME NEW first, NEW second, IsList(first), IsList(second), NEW r, Puts(first, r) = {}
  PROVE  Puts(first \o second, r) = Puts(second, r)
<1>1. Puts(first \o second, r) = Puts(first, r) \cup Puts(second, r)
  BY PutsJoin
<1>2. QED
  BY <1>1

(* A summary and the rows that come with it.                               *)
LEMMA SummaryCore ==
  ASSUME NEW p, NEW t, NEW patch, NEW sum, NEW row, NEW f, NEW g, NEW s,
         sum = <<"summary", Input(p).room>>, row = <<"reason", p>>,
         DOMAIN f = {sum}, f[sum].patch = patch, f[sum].ref = Ref(p),
         \A r \in DOMAIN g : Holds(p, t, r, g[r]) /\ (r = row \/ r[1] = "event"),
         row \in DOMAIN g <=> patch.status # "green",
         row \in DOMAIN g => g[row].code = patch.code,
         s = <<PutAll(f), PutAll(g)>>
  PROVE  /\ ProperList(p, t, "record", s)
         /\ Agree(Puts(s, sum), Puts(s, row))
         /\ \A service : Puts(s, <<"isolation", service>>) = {}
<1>1. sum[1] = "summary" /\ row[1] = "reason" /\ sum # Requested(p)
  BY DEF Requested
<1>2. Holds(p, t, sum, f[sum])
  BY <1>1 DEF Holds
<1>3. ProperList(p, t, "record", s)
  <2>1. Proper(p, t, "record", PutAll(f))
    BY <1>2, PutAllProper
  <2>2. Proper(p, t, "record", PutAll(g))
    BY PutAllProper
  <2>3. QED
    BY <2>1, <2>2, ProperTwo
<1>4. sum \notin DOMAIN g /\ row \notin DOMAIN f
  BY <1>1
<1>5. Puts(s, sum) = {f[sum]}
  BY <1>4, TwoPuts
<1>6. Puts(s, row) = IF row \in DOMAIN g THEN {g[row]} ELSE {}
  BY <1>4, TwoPuts
<1>7. Agree(Puts(s, sum), Puts(s, row))
  <2>1. CASE row \in DOMAIN g
    <3>1. Agree({f[sum]}, {g[row]})
      BY <2>1 DEF Agree
    <3>2. QED
      BY <1>5, <1>6, <2>1, <3>1
  <2>2. CASE row \notin DOMAIN g
    <3>1. Agree({f[sum]}, {})
      BY <2>2 DEF Agree
    <3>2. QED
      BY <1>5, <1>6, <2>2, <3>1
  <2>3. QED
    BY <2>1, <2>2
<1>8. ASSUME NEW service PROVE Puts(s, <<"isolation", service>>) = {}
  <2> PICK iso : iso = <<"isolation", service>>
    OBVIOUS
  <2>1. iso \notin DOMAIN f /\ iso \notin DOMAIN g
    BY <1>1
  <2>2. QED
    BY <2>1, TwoPuts
<1>9. QED
  BY <1>3, <1>7, <1>8

LEMMA SummaryKnown ==
  ASSUME NEW p, NEW t, NEW patch, NEW s, s = SummaryStatements(p, patch)
  PROVE  /\ ProperList(p, t, "record", s)
         /\ Agree(Puts(s, <<"summary", Input(p).room>>), Puts(s, <<"reason", p>>))
         /\ \A service : Puts(s, <<"isolation", service>>) = {}
<1>1. PICK g : g = Overlay(Reason(p, patch), Event(p, "room_summary_refreshed", {patch.status}))
  OBVIOUS
<1>2. PICK sum : sum = <<"summary", Input(p).room>>
  OBVIOUS
<1>3. PICK row : row = <<"reason", p>>
  OBVIOUS
<1>4. PICK v : v = [patch |-> patch, ref |-> Ref(p)]
  OBVIOUS
<1>5. PICK f : f = [r \in {sum} |-> v]
  OBVIOUS
<1>6. /\ \A r \in DOMAIN g : Holds(p, t, r, g[r]) /\ (r = row \/ r[1] = "event")
      /\ row \in DOMAIN g <=> patch.status # "green"
      /\ row \in DOMAIN g => g[row].code = patch.code
  BY <1>1, <1>3, ReasonKnown
<1>7. DOMAIN f = {sum} /\ f[sum].patch = patch /\ f[sum].ref = Ref(p)
  BY <1>4, <1>5
<1>8. s = <<PutAll(f), PutAll(g)>>
  BY <1>1, <1>2, <1>4, <1>5 DEF SummaryStatements, Put
<1>9. /\ ProperList(p, t, "record", s)
      /\ Agree(Puts(s, sum), Puts(s, row))
      /\ \A service : Puts(s, <<"isolation", service>>) = {}
  BY <1>2, <1>3, <1>6, <1>7, <1>8, SummaryCore
<1>10. QED
  BY <1>2, <1>3, <1>9

(* The action's own row and its change events, and then what agrees.       *)
LEMMA RecordCore ==
  ASSUME NEW p, NEW t, NEW own, NEW f, NEW a, NEW e, NEW first, NEW second, NEW s,
         DOMAIN a = {own}, own[1] = "action", own # Requested(p),
         \A r \in DOMAIN f : r[1] = "event" /\ r[2] = p,
         e = Requested(p), e \in DOMAIN f, f[e].payload = AuditedAt(p, t),
         Agree(Puts(second, <<"summary", Input(p).room>>), Puts(second, <<"reason", p>>)),
         \A service : Puts(second, <<"isolation", service>>) = {},
         first = <<PutAll(a), PutAll(f)>>,
         \A r : Puts(s, r) = Puts(first, r) \cup Puts(second, r)
  PROVE  /\ ProperList(p, t, "record", first)
         /\ Puts(s, e) # {}
         /\ Agree(Puts(s, <<"summary", Input(p).room>>), Puts(s, <<"reason", p>>))
         /\ \A service : Puts(s, <<"isolation", service>>) = {}
<1>1. Holds(p, t, own, a[own]) /\ own[1] \notin LateTables
  BY PlainHolds DEF ToldTables, LateTables
<1>2. \A r \in DOMAIN f : Holds(p, t, r, f[r])
  BY EventHolds
<1>3. ProperList(p, t, "record", first)
  <2>1. Proper(p, t, "record", PutAll(a))
    BY <1>1, PutAllProper
  <2>2. Proper(p, t, "record", PutAll(f))
    BY <1>2, PutAllProper
  <2>3. QED
    BY <2>1, <2>2, ProperTwo
<1>6. Puts(s, e) # {}
  <2>1. e \notin DOMAIN a
    OBVIOUS
  <2>2. Puts(first, e) = {f[e]}
    BY <2>1, TwoPuts
  <2>4. QED
    BY <2>2
<1>7. ASSUME NEW r, r[1] \in {"summary", "reason", "isolation"} PROVE Puts(s, r) = Puts(second, r)
  <2>1. r \notin DOMAIN f /\ r \notin DOMAIN a
    BY <1>7
  <2>2. Puts(first, r) = {}
    BY <2>1, TwoPuts
  <2>4. QED
    BY <2>2
<1>8. Agree(Puts(s, <<"summary", Input(p).room>>), Puts(s, <<"reason", p>>))
  <2>1. PICK x : x = <<"summary", Input(p).room>>
    OBVIOUS
  <2>2. PICK y : y = <<"reason", p>>
    OBVIOUS
  <2>3. x[1] \in {"summary", "reason", "isolation"} /\ y[1] \in {"summary", "reason", "isolation"}
    BY <2>1, <2>2
  <2>4. Puts(s, x) = Puts(second, x)
    BY <1>7, <2>3
  <2>5. Puts(s, y) = Puts(second, y)
    BY <1>7, <2>3
  <2>6. Agree(Puts(second, x), Puts(second, y))
    BY <2>1, <2>2
  <2>7. QED
    BY <2>1, <2>2, <2>4, <2>5, <2>6, Zenon
<1>9. ASSUME NEW service PROVE Puts(s, <<"isolation", service>>) = {}
  <2>1. PICK x : x = <<"isolation", service>>
    OBVIOUS
  <2>2. x[1] \in {"summary", "reason", "isolation"}
    BY <2>1
  <2>3. Puts(s, x) = Puts(second, x)
    BY <1>7, <2>2
  <2>4. QED
    BY <2>1, <2>3
<1>10. QED
  BY <1>3, <1>6, <1>8, <1>9

LEMMA RecordKnown ==
  ASSUME NEW p, NEW patch, NEW s, s = RecordStatements(p, patch)
  PROVE  /\ ProperList(p, tx[p].t, "record", s)
         /\ Puts(s, Requested(p)) # {}
         /\ Agree(Puts(s, <<"summary", Input(p).room>>), Puts(s, <<"reason", p>>))
         /\ \A service : Puts(s, <<"isolation", service>>) = {}
<1>1. PICK t : t = tx[p].t
  OBVIOUS
<1>2. PICK u : u = AuditedPayload(p)
  OBVIOUS
<1>3. PICK w : w = {r[1] : r \in DOMAIN tx[p].writes}
  OBVIOUS
<1>4. PICK f : f = Overlay(Event(p, "action_requested", u),
                         Overlay(Event(p, "policy_evaluated", {}), Event(p, "domain_mutation_applied", w)))
  OBVIOUS
<1>5. PICK own : own = <<"action", Input(p).room, Input(p).action>>
  OBVIOUS
<1>6. PICK a : a = [r \in {own} |-> Input(p).action]
  OBVIOUS
<1>7. PICK second : second = IF patch = {} THEN <<>> ELSE SummaryStatements(p, CHOOSE c \in patch : TRUE)
  OBVIOUS
<1>8. PICK e : e = Requested(p)
  OBVIOUS
<1>9. s = <<PutAll(a), PutAll(f)>> \o second
  BY <1>2, <1>3, <1>4, <1>5, <1>6, <1>7 DEF RecordStatements, Put
<1>10. u = AuditedAt(p, t)
  BY <1>1, <1>2 DEF AuditedPayload, AuditedAt
<1>11. /\ \A r \in DOMAIN f : r[1] = "event" /\ r[2] = p
       /\ e \in DOMAIN f /\ f[e].payload = AuditedAt(p, t)
  BY <1>4, <1>8, <1>10, EventsKnown
<1>12. DOMAIN a = {own} /\ own[1] = "action" /\ own # Requested(p)
  BY <1>5, <1>6 DEF Requested
<1>13. /\ ProperList(p, t, "record", second)
       /\ Agree(Puts(second, <<"summary", Input(p).room>>), Puts(second, <<"reason", p>>))
       /\ \A service : Puts(second, <<"isolation", service>>) = {}
  <2>1. CASE patch = {}
    <3>1. second = <<>>
      BY <1>7, <2>1
    <3>2. \A r : Puts(second, r) = {}
      BY <3>1, PutsNil
    <3>3. Agree({}, {})
      BY DEF Agree
    <3>4. QED
      BY <3>1, <3>2, <3>3, ProperNil
  <2>2. CASE patch # {}
    BY <1>7, <2>2, SummaryKnown
  <2>3. QED
    BY <2>1, <2>2
<1>14. PICK first : first = <<PutAll(a), PutAll(f)>>
  OBVIOUS
<1>15. IsList(first) /\ IsList(second) /\ s = first \o second
  BY <1>9, <1>13, <1>14, ShortLists DEF ProperList
<1>16. ASSUME NEW r PROVE Puts(s, r) = Puts(first, r) \cup Puts(second, r)
  <2>1. Puts(first \o second, r) = Puts(first, r) \cup Puts(second, r)
    BY <1>15, PutsJoin
  <2>2. QED
    BY <1>15, <2>1, Zenon
<1>17. /\ ProperList(p, t, "record", first)
       /\ Puts(s, e) # {}
       /\ Agree(Puts(s, <<"summary", Input(p).room>>), Puts(s, <<"reason", p>>))
       /\ \A service : Puts(s, <<"isolation", service>>) = {}
  BY <1>8, <1>11, <1>12, <1>13, <1>14, <1>16, RecordCore
<1>18. ProperList(p, t, "record", s)
  <2>1. ProperList(p, t, "record", first \o second)
    BY <1>13, <1>17, ProperJoin
  <2>2. QED
    BY <1>15, <2>1, Zenon
<1>19. QED
  BY <1>1, <1>8, <1>17, <1>18

LEMMA CertificateFirst ==
  ASSUME NEW p, NEW patch, NEW v, NEW s, s = <<Put(<<"certificate", p>>, v)>> \o RecordStatements(p, patch)
  PROVE  /\ ProperList(p, tx[p].t, "record", s)
         /\ Puts(s, Requested(p)) # {}
         /\ Agree(Puts(s, <<"summary", Input(p).room>>), Puts(s, <<"reason", p>>))
         /\ \A service : Puts(s, <<"isolation", service>>) = {}
<1> PICK row : row = <<"certificate", p>>
  OBVIOUS
<1> PICK head : head = <<Put(row, v)>>
  OBVIOUS
<1> PICK rest : rest = RecordStatements(p, patch)
  OBVIOUS
<1>1. /\ ProperList(p, tx[p].t, "record", rest)
      /\ Puts(rest, Requested(p)) # {}
      /\ Agree(Puts(rest, <<"summary", Input(p).room>>), Puts(rest, <<"reason", p>>))
      /\ \A service : Puts(rest, <<"isolation", service>>) = {}
  BY RecordKnown
<1>2. ProperList(p, tx[p].t, "record", head)
  BY PutInto, ProperOne DEF ToldTables, LateTables
<1>3. ProperList(p, tx[p].t, "record", s)
  BY <1>1, <1>2, ProperJoin
<1>4. ASSUME NEW r, r[1] # "certificate" PROVE Puts(s, r) = Puts(rest, r)
  <2>1. r # row
    BY <1>4
  <2>2. Gives(Put(row, v), r) = {}
    BY <2>1, PutGives DEF Put
  <2>3. Puts(head, r) = {}
    BY <2>2, PutsOne
  <2>4. Puts(s, r) = Puts(head, r) \cup Puts(rest, r)
    BY <1>1, <1>2, PutsJoin DEF ProperList
  <2>5. QED
    BY <2>3, <2>4
<1>5. Puts(s, Requested(p)) = Puts(rest, Requested(p))
  BY <1>4 DEF Requested
<1>6. Puts(s, <<"summary", Input(p).room>>) = Puts(rest, <<"summary", Input(p).room>>)
  BY <1>4
<1>7. Puts(s, <<"reason", p>>) = Puts(rest, <<"reason", p>>)
  BY <1>4
<1>8. \A service : Puts(s, <<"isolation", service>>) = Puts(rest, <<"isolation", service>>)
  BY <1>4
<1>9. QED
  BY <1>1, <1>3, <1>5, <1>6, <1>7, <1>8

LEMMA FinishPlans ==
  ASSUME NEW p, Finish(p)
  PROVE  Planned(p, "run", "record")
<1>1. ASSUME NEW todo, Plan(p, "run", "record", todo, {}),
             /\ ProperList(p, tx[p].t, "record", todo)
             /\ Puts(todo, Requested(p)) # {}
             /\ Agree(Puts(todo, <<"summary", Input(p).room>>), Puts(todo, <<"reason", p>>))
             /\ \A service : Puts(todo, <<"isolation", service>>) = {}
      PROVE  Planned(p, "run", "record")
  BY <1>1 DEF Plan, Planned, Finish
<1>2. ASSUME NEW patch, NEW v,
             Plan(p, "run", "record", <<Put(<<"certificate", p>>, v)>> \o RecordStatements(p, patch), {})
      PROVE  Planned(p, "run", "record")
  BY <1>1, <1>2, CertificateFirst
<1>3. ASSUME NEW patch, Plan(p, "run", "record", RecordStatements(p, patch), {})
      PROVE  Planned(p, "run", "record")
  BY <1>1, <1>3, RecordKnown
<1>4. \/ \E patch, v :
           Plan(p, "run", "record", <<Put(<<"certificate", p>>, v)>> \o RecordStatements(p, patch), {})
      \/ \E patch : Plan(p, "run", "record", RecordStatements(p, patch), {})
  <2> HIDE DEF Plan, RecordStatements, Put
  <2>1. QED
    BY Zenon DEF Finish
<1>5. QED
  BY <1>2, <1>3, <1>4

-----------------------------------------------------------------------------
(* What is known of a request stays true while others move: the cast is    *)
(* fixed, the clock and the ledger only grow, and a transaction that has   *)
(* ended keeps its times.                                                  *)
Onward ==
  /\ cast' = cast
  /\ clock \in Nat /\ clock' \in Nat /\ clock <= clock'
  /\ ledger \subseteq ledger'
  /\ \A e \in ledger : e.actor \in Clients
  /\ \A q \in Clients : span[q].to # 0 => span'[q] = span[q]

LEMMA Unmoved ==
  ASSUME cast' = cast
  PROVE  /\ Acting' = Acting
         /\ \A p : Input(p)' = Input(p) /\ Ref(p)' = Ref(p) /\ ServiceOf(p)' = ServiceOf(p) /\ CanaryOf(p)' = CanaryOf(p)
         /\ \A p : Admitted(p)' <=> Admitted(p)
         /\ \A p, t : AuditedAt(p, t)' = AuditedAt(p, t)
<1>1. \A p : Input(p)' = Input(p)
  BY DEF Input
<1>2. Acting' = Acting
  BY <1>1 DEF Acting
<1>3. \A p : Ref(p)' = Ref(p)
  BY <1>1 DEF Ref
<1>4. \A p : ServiceOf(p)' = ServiceOf(p) /\ CanaryOf(p)' = CanaryOf(p)
  BY <1>1, Zenon DEF ServiceOf, CanaryOf
<1>5. \A p : Admitted(p)' <=> Admitted(p)
  BY <1>1, Zenon DEF Admitted
<1>6. \A p, t : AuditedAt(p, t)' = AuditedAt(p, t)
  BY <1>1, <1>3, Zenon DEF AuditedAt, Action
<1>7. QED
  BY <1>1, <1>2, <1>3, <1>4, <1>5, <1>6

LEMMA HoldsStays ==
  ASSUME cast' = cast
  PROVE  \A p, t, r, v : Holds(p, t, r, v) => Holds(p, t, r, v)'
<1> SUFFICES ASSUME NEW p, NEW t, NEW r, NEW v, Holds(p, t, r, v) PROVE Holds(p, t, r, v)'
  OBVIOUS
<1>1. Input(p)' = Input(p) /\ Ref(p)' = Ref(p) /\ CanaryOf(p)' = CanaryOf(p) /\ AuditedAt(p, t)' = AuditedAt(p, t)
  BY Unmoved
<1>2. QED
  BY <1>1 DEF Holds

LEMMA ProperStays ==
  ASSUME cast' = cast
  PROVE  \A p, t, at, s : Proper(p, t, at, s) => Proper(p, t, at, s)'
<1> SUFFICES ASSUME NEW p, NEW t, NEW at, NEW s, Proper(p, t, at, s) PROVE Proper(p, t, at, s)'
  OBVIOUS
<1>1. Input(p)' = Input(p) /\ ServiceOf(p)' = ServiceOf(p) /\ CanaryOf(p)' = CanaryOf(p)
  BY Unmoved
<1>2. \A r, v : Holds(p, t, r, v) => Holds(p, t, r, v)'
  BY HoldsStays
<1>3. Spreads(p, s) => Spreads(p, s)'
  BY <1>1 DEF Spreads
<1>4. QED
  BY <1>1, <1>2, <1>3 DEF Proper

LEMMA RowsStay ==
  ASSUME Onward
  PROVE  /\ \A x : IsRow(x) => IsRow(x)'
         /\ \A x : Accounted(x) => Accounted(x)'
         /\ \A p, r, x : OwnWrite(p, r, x) /\ tx'[p].t = tx[p].t => OwnWrite(p, r, x)'
<1>1. ASSUME NEW x, IsRow(x) PROVE IsRow(x)'
  BY <1>1 DEF IsRow, Onward
<1>2. ASSUME NEW x, Accounted(x) PROVE Accounted(x)'
  <2>1. CASE x.by = "seed" /\ x.t = 0
    BY <2>1 DEF Accounted
  <2>2. CASE (\E e \in ledger : e.actor = x.by) /\ x.t = span[x.by].from /\ span[x.by].to # 0
    <3>1. x.by \in Clients
      BY <2>2 DEF Onward
    <3>2. span'[x.by] = span[x.by]
      BY <2>2, <3>1 DEF Onward
    <3>3. \E e \in ledger' : e.actor = x.by
      BY <2>2 DEF Onward
    <3>4. QED
      BY <2>2, <3>2, <3>3 DEF Accounted
  <2>3. QED
    BY <1>2, <2>1, <2>2 DEF Accounted
<1>3. ASSUME NEW p, NEW r, NEW x, OwnWrite(p, r, x), tx'[p].t = tx[p].t PROVE OwnWrite(p, r, x)'
  <2>1. Input(p)' = Input(p)
    BY Unmoved DEF Onward
  <2>2. Holds(p, x.t, r, x.v) => Holds(p, x.t, r, x.v)'
    BY HoldsStays DEF Onward
  <2>3. QED
    BY <1>1, <1>2, <1>3, <2>1, <2>2 DEF OwnWrite
<1>4. QED
  BY <1>1, <1>2, <1>3

(* The writes of a transaction that keeps its writes and its time.         *)
LEMMA PendingStays ==
  ASSUME Onward, NEW p, Pending(p), tx'[p].t = tx[p].t, tx'[p].writes = tx[p].writes,
         Late(p) => Late(p)'
  PROVE  Pending(p)'
<1>1. PICK w : w = tx[p].writes
  OBVIOUS
<1>2. \A r \in DOMAIN w : OwnWrite(p, r, w[r]) /\ (r[1] \in LateTables => Late(p))
  BY <1>1 DEF Pending
<1>3. \A r \in DOMAIN w : OwnWrite(p, r, w[r])'
  BY <1>2, RowsStay
<1>4. tx'[p].writes = w
  BY <1>1
<1>5. QED
  BY <1>2, <1>3, <1>4 DEF Pending

Wrote(w, r) == {w[k].v : k \in {r} \cap DOMAIN w}

LEMMA AssignedIs ==
  /\ \A p, r : Assigned(p, r) = Wrote(tx[p].writes, r) \cup Puts(tx[p].todo, r)
  /\ \A p, r : Assigned(p, r)' = Wrote(tx'[p].writes, r) \cup Puts(tx'[p].todo, r)
BY DEF Assigned, Wrote

LEMMA OwesStays ==
  ASSUME cast' = cast, NEW p, pc'[p] = pc[p], Brings(p), Coloured(p),
         \A r : Assigned(p, r)' = Assigned(p, r)
  PROVE  Brings(p)' /\ Coloured(p)'
<1>1. Input(p)' = Input(p) /\ ServiceOf(p)' = ServiceOf(p)
  BY Unmoved
<1>2. (Running(p)' <=> Running(p)) /\ (Late(p)' <=> Late(p))
  BY DEF Running, Late
<1>3. PICK row : row = <<"isolation", ServiceOf(p)>>
  OBVIOUS
<1>4. PICK bill : bill = <<"billing", p>>
  OBVIOUS
<1>5. PICK sum : sum = <<"summary", Input(p).room>>
  OBVIOUS
<1>6. PICK why : why = <<"reason", p>>
  OBVIOUS
<1>7. Brings(p)'
  BY <1>1, <1>2 DEF Brings
<1>8. Coloured(p)'
  BY <1>1, <1>2 DEF Coloured
<1>9. QED
  BY <1>7, <1>8

LEMMA Undisturbed ==
  ASSUME NEW q \in Clients, LocalTx(q), Onward,
         tx'[q] = tx[q], pc'[q] = pc[q], span'[q] = span[q],
         pc[q] = "commit" => /\ [owner |-> q, row |-> <<"ledger", Ref(q)>>, mode |-> "UPDATE"] \in locks'
                             /\ \A e \in ledger' : e.ref # Ref(q)
  PROVE  LocalTx(q)'
<1>1. Acting' = Acting /\ Input(q)' = Input(q) /\ Ref(q)' = Ref(q) /\ (Admitted(q)' <=> Admitted(q)) /\ cast' = cast
  BY Unmoved DEF Onward
<1>2. Running(q)' <=> Running(q)
  BY DEF Running
<1>3. Pending(q)'
  BY PendingStays DEF LocalTx, Late
<1>4. Brings(q)' /\ Coloured(q)'
  <2>1. \A r : Assigned(q, r)' = Assigned(q, r)
    BY DEF Assigned
  <2>2. QED
    BY <1>1, <2>1, OwesStays DEF LocalTx
<1>5. Held(q)'
  BY <1>1 DEF Held
<1>6. Dated(q)'
  BY DEF LocalTx, Dated, Onward
<1>7. tx'[q].t \in 0 .. clock'
  BY DEF LocalTx, Onward
<1>8. \A i \in 1 .. Len(tx'[q].todo) : Proper(q, tx[q].t, pc[q], tx[q].todo[i])'
  BY <1>1, ProperStays DEF LocalTx
<1>9. DOMAIN tx'[q] = {"t", "writes", "todo", "read"} /\ IsList(tx'[q].todo)
  BY DEF LocalTx
<1>10. QED
  BY <1>1, <1>2, <1>3, <1>4, <1>5, <1>6, <1>7, <1>8, <1>9 DEF LocalTx

-----------------------------------------------------------------------------
(* What is known of a request after its own steps.                         *)
Shaped == DOMAIN tx = Clients /\ DOMAIN span = Clients /\ pc \in [Clients -> Modes] /\ clock \in Nat

(* A step that neither begins nor ends a transaction.                      *)
Still == UNCHANGED <<cast, db, ledger, clock, span>>

LEMMA StillOnward ==
  ASSUME Still, clock \in Nat, \A e \in ledger : e.actor \in Clients
  PROVE  Onward
BY DEF Still, Onward

LEMMA PlannedTx ==
  ASSUME Shaped, NEW p \in Clients, LocalTx(p), NEW todo, NEW read,
         tx' = [tx EXCEPT ![p].todo = todo, ![p].read = read]
  PROVE  /\ DOMAIN tx'[p] = {"t", "writes", "todo", "read"}
         /\ tx'[p].t = tx[p].t /\ tx'[p].writes = tx[p].writes /\ tx'[p].todo = todo
BY DEF Shaped, LocalTx

LEMMA NothingWritten == ASSUME NEW w, DOMAIN w = {}, NEW r PROVE Wrote(w, r) = {}
BY DEF Wrote

LEMMA PlannedOwes ==
  ASSUME NEW p, cast' = cast, NEW todo, NEW to,
         Pending(p), Brings(p), Coloured(p), tx[p].todo = <<>> \/ to = "run",
         tx'[p].writes = tx[p].writes, tx'[p].todo = todo, pc'[p] = to,
         \/ to = "run" /\ DOMAIN tx[p].writes = {} /\ Foreseen(p, todo)
         \/ /\ to = "record" /\ pc[p] = "run"
            /\ Puts(todo, Requested(p)) # {}
            /\ Agree(Puts(todo, <<"summary", Input(p).room>>), Puts(todo, <<"reason", p>>))
         \/ to = "ledger" /\ pc[p] = "record" /\ todo = <<>>
  PROVE  Brings(p)' /\ Coloured(p)'
<1>1. Input(p)' = Input(p) /\ ServiceOf(p)' = ServiceOf(p)
  BY Unmoved
<1>2. PICK w : w = tx[p].writes
  OBVIOUS
<1>3. \A r : Assigned(p, r)' = Wrote(w, r) \cup Puts(todo, r)
  BY <1>2, AssignedIs
<1>4. tx[p].todo = <<>> => \A r : Assigned(p, r) = Wrote(w, r)
  BY <1>2, AssignedIs, PutsNil
<1>5. PICK row : row = <<"isolation", ServiceOf(p)>>
  OBVIOUS
<1>6. PICK bill : bill = <<"billing", p>>
  OBVIOUS
<1>7. PICK sum : sum = <<"summary", Input(p).room>>
  OBVIOUS
<1>8. PICK why : why = <<"reason", p>>
  OBVIOUS
<1>9. CASE to = "run" /\ DOMAIN w = {} /\ Foreseen(p, todo)
  <2>1. \A r : Assigned(p, r)' = Puts(todo, r)
    BY <1>3, <1>9, NothingWritten
  <2>2. Brings(p)'
    BY <1>1, <1>9, <2>1 DEF Brings, Foreseen, Late
  <2>3. Coloured(p)'
    BY <1>9 DEF Coloured, Late
  <2>4. QED
    BY <2>2, <2>3
<1>10. CASE to \in {"record", "ledger"} /\ Running(p)
  <2>1. tx[p].todo = <<>>
    BY <1>10
  <2>2. Input(p).action = "sync_billing" => Wrote(w, bill) # {}
    BY <1>4, <1>6, <1>10, <2>1 DEF Brings
  <2>3. Input(p).action \in IsolationActions => Wrote(w, row) # {}
    BY <1>4, <1>5, <1>10, <2>1 DEF Brings
  <2>4. Wrote(w, Requested(p)) \cup Puts(todo, Requested(p)) # {}
    BY <1>4, <1>10, <2>1 DEF Brings, Late
  <2>5. /\ Input(p).action = "sync_billing" => Assigned(p, bill)' # {}
        /\ Input(p).action \in IsolationActions => Assigned(p, row)' # {}
        /\ Assigned(p, Requested(p))' # {}
    BY <1>3, <2>2, <2>3, <2>4
  <2>6. Brings(p)'
    BY <1>1, <1>5, <1>6, <2>5 DEF Brings
  <2>7. Agree(Wrote(w, sum) \cup Puts(todo, sum), Wrote(w, why) \cup Puts(todo, why))
    <3>1. CASE to = "record"
      <4>1. sum[1] \in LateTables /\ why[1] \in LateTables /\ ~Late(p)
        BY <1>7, <1>8, <3>1 DEF LateTables, Late
      <4>2. sum \notin DOMAIN w /\ why \notin DOMAIN w
        BY <1>2, <4>1 DEF Pending
      <4>3. Wrote(w, sum) = {} /\ Wrote(w, why) = {}
        BY <4>2 DEF Wrote
      <4>4. Agree(Puts(todo, sum), Puts(todo, why))
        BY <1>7, <1>8, <3>1
      <4>5. {} \cup Puts(todo, sum) = Puts(todo, sum) /\ {} \cup Puts(todo, why) = Puts(todo, why)
        OBVIOUS
      <4>6. QED
        BY <4>3, <4>4, <4>5
    <3>2. CASE to = "ledger"
      <4>1. Puts(todo, sum) = {} /\ Puts(todo, why) = {} /\ Late(p)
        BY <3>2, PutsNil DEF Late
      <4>2. Agree(Wrote(w, sum), Wrote(w, why))
        BY <1>4, <1>7, <1>8, <2>1, <4>1 DEF Coloured
      <4>3. Wrote(w, sum) \cup {} = Wrote(w, sum) /\ Wrote(w, why) \cup {} = Wrote(w, why)
        OBVIOUS
      <4>4. QED
        BY <4>1, <4>2, <4>3
    <3>3. QED
      BY <1>10, <3>1, <3>2
  <2>8. Coloured(p)'
    <3>1. Agree(Assigned(p, sum)', Assigned(p, why)')
      BY <1>3, <2>7
    <3>2. QED
      BY <1>1, <1>7, <1>8, <3>1 DEF Coloured
  <2>9. QED
    BY <2>6, <2>8
<1>11. QED
  BY <1>2, <1>9, <1>10 DEF Running

LEMMA PlannedLocal ==
  ASSUME Shaped, Onward, NEW p \in Clients, LocalTx(p), NEW from, NEW to, Planned(p, from, to),
         \/ from = "decide" /\ to = "run"
         \/ from = "run" /\ to = "record"
         \/ from = "record" /\ to = "ledger"
  PROVE  LocalTx(p)'
<1> PICK todo, read :
      /\ ProperList(p, tx[p].t, to, todo)
      /\ to = "run" => Foreseen(p, todo)
      /\ to = "record" =>
           /\ Puts(todo, Requested(p)) # {}
           /\ Agree(Puts(todo, <<"summary", Input(p).room>>), Puts(todo, <<"reason", p>>))
      /\ to \in {"record", "ledger"} => tx[p].todo = <<>>
      /\ to = "ledger" => todo = <<>>
      /\ pc[p] = from
      /\ tx' = [tx EXCEPT ![p].todo = todo, ![p].read = read]
      /\ Goto(p, to)
      /\ UNCHANGED <<cast, db, ledger, clock, locks, span, answer>>
  BY Zenon DEF Planned
<1>1. Acting' = Acting /\ Input(p)' = Input(p) /\ (Admitted(p)' <=> Admitted(p))
  BY Unmoved
<1>2. pc'[p] = to
  BY DEF Shaped, Goto
<1>3. /\ DOMAIN tx'[p] = {"t", "writes", "todo", "read"}
      /\ tx'[p].t = tx[p].t /\ tx'[p].writes = tx[p].writes /\ tx'[p].todo = todo
  BY PlannedTx
<1>4. p \in Acting /\ Admitted(p) /\ tx[p].t \in 0 .. clock /\ Pending(p) /\ Dated(p) /\ Brings(p) /\ Coloured(p)
  BY DEF LocalTx
<1>5. Pending(p)'
  BY <1>2, <1>3, <1>4, PendingStays DEF Late
<1>6. Brings(p)' /\ Coloured(p)'
  <2>1. to = "run" => DOMAIN tx[p].writes = {}
    BY DEF LocalTx, Running
  <2>2. QED
    BY <1>2, <1>3, <1>4, <2>1, PlannedOwes
<1>7. Held(p)' /\ Dated(p)'
  BY <1>2, <1>3, <1>4 DEF Held, Dated
<1>8. IsList(tx'[p].todo) /\ \A i \in 1 .. Len(tx'[p].todo) : Proper(p, tx[p].t, pc[p], tx[p].todo[i])'
  <2>1. PICK t : t = tx[p].t
    OBVIOUS
  <2>2. IsList(todo) /\ \A i \in 1 .. Len(todo) : Proper(p, t, to, todo[i])
    BY <2>1 DEF ProperList
  <2>3. \A i \in 1 .. Len(todo) : Proper(p, t, to, todo[i])'
    BY <2>2, ProperStays
  <2>4. QED
    BY <1>2, <1>3, <2>1, <2>2, <2>3
<1>10. pc'[p] # "new" /\ tx'[p].t \in 0 .. clock' /\ Running(p)'
  BY <1>2, <1>3, <1>4 DEF Running
<1>11. QED
  BY <1>1, <1>2, <1>3, <1>4, <1>5, <1>6, <1>7, <1>8, <1>10 DEF LocalTx

(* A step that leaves the request's transaction alone.                     *)
LEMMA MovedLocal ==
  ASSUME Shaped, Onward, NEW p \in Clients, LocalTx(p), NEW to,
         pc' = [pc EXCEPT ![p] = to],
         UNCHANGED <<ledger, clock, locks, tx, span>>,
         ~Running(p), tx[p].todo = <<>>,
         \/ to \in Modes \ {"new", "begin", "decide", "run", "record", "ledger", "commit"}
         \/ pc[p] = "new" /\ to = "begin" /\ p \in Acting /\ Admitted(p)
  PROVE  LocalTx(p)'
<1>1. Acting' = Acting /\ Input(p)' = Input(p) /\ (Admitted(p)' <=> Admitted(p))
  BY Unmoved DEF Onward
<1>2. pc'[p] = to
  BY DEF Shaped
<1>3. DOMAIN tx[p].writes = {} /\ 1 .. Len(tx[p].todo) = {}
  BY ShortLists DEF LocalTx
<1>4. Pending(p)'
  BY <1>3 DEF Pending
<1>5. Brings(p)' /\ Coloured(p)' /\ Held(p)'
  BY <1>2 DEF Brings, Coloured, Held, Running, Late
<1>6. Dated(p)'
  BY <1>2 DEF LocalTx, Dated
<1>7. /\ DOMAIN tx'[p] = {"t", "writes", "todo", "read"} /\ tx'[p].t \in 0 .. clock' /\ IsList(tx'[p].todo)
      /\ DOMAIN tx'[p].writes = {} /\ tx'[p].todo = <<>> /\ 1 .. Len(tx'[p].todo) = {}
  BY <1>3 DEF LocalTx
<1>8. QED
  BY <1>1, <1>2, <1>4, <1>5, <1>6, <1>7 DEF LocalTx

(* Whatever ends a transaction leaves nothing of it.                       *)
LEMMA EndedLocal ==
  ASSUME Shaped, NEW p \in Clients,
         tx' = [tx EXCEPT ![p] = NoTx], pc' = [pc EXCEPT ![p] = "answered"],
         clock' \in Nat, Dated(p)'
  PROVE  LocalTx(p)'
<1>1. pc'[p] = "answered" /\ tx'[p] = NoTx
  BY DEF Shaped
<1>2. Pending(p)' /\ Brings(p)' /\ Coloured(p)' /\ Held(p)'
  BY <1>1 DEF Pending, Brings, Coloured, Held, Running, Late, NoTx, NoWrites
<1>3. /\ DOMAIN NoTx = {"t", "writes", "todo", "read"} /\ NoTx.t = 0 /\ NoTx.todo = <<>>
      /\ IsList(<<>>) /\ Len(<<>>) = 0 /\ DOMAIN NoTx.writes = {}
  BY ShortLists DEF NoTx, NoWrites
<1>4. /\ DOMAIN tx'[p] = {"t", "writes", "todo", "read"} /\ tx'[p].t \in 0 .. clock'
      /\ IsList(tx'[p].todo) /\ DOMAIN tx'[p].writes = {} /\ tx'[p].todo = <<>>
  BY <1>1, <1>3
<1>5. 1 .. Len(tx'[p].todo) = {}
  BY <1>1, <1>3
<1>6. QED
  BY <1>1, <1>2, <1>4, <1>5 DEF LocalTx

LEMMA BeginLocal ==
  ASSUME Shaped, Onward, NEW p \in Clients, LocalTx(p), Begin(p)
  PROVE  LocalTx(p)'
<1>1. Acting' = Acting /\ Input(p)' = Input(p) /\ (Admitted(p)' <=> Admitted(p))
  BY Unmoved DEF Onward
<1>2. pc[p] = "begin" /\ pc'[p] = "decide"
  BY DEF Begin, Shaped, Goto
<1>3. /\ tx'[p].t = clock' /\ tx'[p].writes = tx[p].writes /\ tx'[p].todo = tx[p].todo
      /\ DOMAIN tx'[p] = {"t", "writes", "todo", "read"} /\ clock' \in Nat /\ clock' = clock + 1
  <2>1. DOMAIN tx[p] = {"t", "writes", "todo", "read"}
    BY DEF LocalTx
  <2>2. tx' = [tx EXCEPT ![p].t = clock'] /\ clock' \in Nat /\ clock' = clock + 1
    BY DEF Shaped, Begin
  <2>3. QED
    BY <2>1, <2>2 DEF Shaped
<1>4. DOMAIN tx[p].writes = {} /\ tx[p].todo = <<>> /\ 1 .. Len(tx[p].todo) = {}
  BY <1>2, ShortLists DEF LocalTx, Running
<1>5. Pending(p)'
  BY <1>3, <1>4 DEF Pending
<1>6. Brings(p)' /\ Coloured(p)' /\ Held(p)'
  BY <1>2 DEF Brings, Coloured, Held, Running, Late
<1>7. Dated(p)'
  <2>1. span[p] \in [from : 0 .. clock, to : 0 .. clock] /\ span[p].to = 0
    BY <1>2 DEF LocalTx, Dated
  <2>2. span'[p] = [span[p] EXCEPT !.from = clock + 1]
    BY DEF Begin, Shaped
  <2>3. span'[p] \in [from : 0 .. clock', to : 0 .. clock'] /\ span'[p].to = 0 /\ span'[p].from = clock'
    BY <1>3, <2>1, <2>2 DEF Shaped
  <2>4. clock' # 0
    BY <1>3 DEF Shaped
  <2>5. QED
    BY <1>2, <1>3, <2>3, <2>4 DEF Dated
<1>8. p \in Acting /\ Admitted(p) /\ tx'[p].t \in 0 .. clock'
  <2>1. p \in Acting /\ Admitted(p)
    BY <1>2 DEF LocalTx
  <2> PICK now : now = clock'
    OBVIOUS
  <2>2. now \in 0 .. now /\ tx'[p].t = now
    BY <1>3
  <2>3. tx'[p].t \in 0 .. clock'
    BY <2>2
  <2>4. QED
    BY <2>1, <2>3
<1>9. IsList(tx'[p].todo) /\ tx'[p].todo = <<>> /\ 1 .. Len(tx'[p].todo) = {} /\ DOMAIN tx'[p].writes = {}
  BY <1>3, <1>4 DEF LocalTx
<1>10. QED
  BY <1>1, <1>2, <1>3, <1>5, <1>6, <1>7, <1>8, <1>9 DEF LocalTx

(* The rows a statement finds, and what it makes of them.                  *)
LEMMA SeenRows ==
  ASSUME NEW p \in Clients, Pending(p), CommittedRows, NEW r \in DOMAIN Seen(p)
  PROVE  /\ IsRow(Seen(p)[r])
         /\ (Seen(p)[r].by = p /\ Seen(p)[r].t = tx[p].t) \/ Accounted(Seen(p)[r])
<1> PICK w : w = tx[p].writes
  OBVIOUS
<1>1. \/ r \in DOMAIN w /\ w[r] # Gone /\ Seen(p)[r] = w[r]
      \/ r \in DOMAIN db /\ Seen(p)[r] = db[r]
  BY DEF Seen, Overlay
<1>2. QED
  BY <1>1 DEF Pending, OwnWrite, CommittedRows

LEMMA RowIsOwn ==
  ASSUME NEW p, tx[p].t \in 0 .. clock, NEW v
  PROVE  IsRow(Row(p, v)) /\ Row(p, v).by = p /\ Row(p, v).t = tx[p].t /\ Row(p, v).v = v
BY DEF IsRow, Row, Stored

LEMMA RowWrite ==
  ASSUME NEW p, tx[p].t \in 0 .. clock, NEW r, NEW v, Holds(p, tx[p].t, r, v)
  PROVE  OwnWrite(p, r, Row(p, v))
<1>1. PICK x : x = Row(p, v)
  OBVIOUS
<1>2. IsRow(x) /\ x.by = p /\ x.t = tx[p].t /\ x.v = v
  BY <1>1, RowIsOwn
<1>3. OwnWrite(p, r, x)
  BY <1>2 DEF OwnWrite
<1>4. QED
  BY <1>1, <1>3

LEMMA EffectIsOwn ==
  ASSUME NEW p \in Clients, Pending(p), CommittedRows, tx[p].t \in 0 .. clock, NEW at,
         NEW s, Proper(p, tx[p].t, at, s), NEW r \in DOMAIN Effect(p, s)
  PROVE  OwnWrite(p, r, Effect(p, s)[r]) /\ (r[1] \in LateTables => at # "run")
<1>1. PICK x : x = Effect(p, s)[r]
  OBVIOUS
<1>2. PICK t : t = tx[p].t
  OBVIOUS
<1>3. /\ r \in s.rows /\ s.do \in StatementKinds
      /\ IF r \in DOMAIN Seen(p) THEN x = Written(p, s, r, Seen(p)[r]) /\ s.do # "keep"
         ELSE x = Row(p, s.v[r]) /\ s.do \in Upserts
  BY <1>1 DEF Effect, Proper, Applies
<1>4. s.do # "put" => r[1] = TableOf[s.do]
  BY <1>3 DEF Proper
<1>5. CASE s.do = "put"
  <2>1. Holds(p, t, r, s.v[r]) /\ (r[1] \in LateTables => at # "run")
    BY <1>2, <1>3, <1>5 DEF Proper
  <2>2. x = Row(p, s.v[r])
    BY <1>3, <1>5 DEF Written
  <2>3. QED
    BY <1>1, <1>2, <2>1, <2>2, RowWrite
<1>6. CASE s.do \in {"keep", "wake", "retire"}
  <2>1. r[1] = "target"
    BY <1>4, <1>6 DEF TableOf
  <2>2. \A v : Holds(p, t, r, v)
    BY <2>1, PlainHolds DEF ToldTables, LateTables
  <2>3. \E v : x = Row(p, v)
    BY <1>3, <1>6 DEF Written
  <2>4. r[1] \notin LateTables
    BY <2>1 DEF LateTables
  <2>5. QED
    BY <1>1, <1>2, <2>2, <2>3, <2>4, RowWrite
<1>7. CASE s.do = "spread"
  <2>1. r[1] = "isolation" /\ r # Requested(p) /\ r[1] \notin LateTables
    BY <1>4, <1>7 DEF TableOf, Requested, LateTables
  <2>2. Spreads(p, s)
    BY <1>7 DEF Proper
  <2>3. Holds(p, t, r, s.v.iso)
    BY <2>1, <2>2 DEF Holds, Spreads
  <2>4. x = Row(p, s.v.iso)
    BY <1>3, <1>7 DEF Written, Upserts
  <2>5. QED
    BY <1>1, <1>2, <2>1, <2>3, <2>4, RowWrite
<1>8. CASE s.do = "clear"
  <2>1. r[1] = "license" /\ Input(p).action = "refresh_licenses" /\ r[1] \notin LateTables
    BY <1>4, <1>8 DEF TableOf, Proper, LateTables
  <2>2. x = Gone
    BY <1>3, <1>8 DEF Written, Upserts
  <2>3. OwnWrite(p, r, x)
    BY <2>1, <2>2 DEF OwnWrite
  <2>4. QED
    BY <1>1, <2>1, <2>3
<1>9. CASE s.do = "revoke"
  <2>1. r[1] = "certificate" /\ r[1] \notin LateTables
    BY <1>4, <1>9 DEF TableOf, LateTables
  <2>2. r \in DOMAIN Seen(p)
    BY <1>3, <1>9 DEF Upserts
  <2>3. PICK old : old = Seen(p)[r]
    OBVIOUS
  <2>4. IsRow(old) /\ ((old.by = p /\ old.t = t) \/ Accounted(old))
    BY <1>2, <2>2, <2>3, SeenRows
  <2>5. x = [old EXCEPT !.v.status = "revoked"]
    BY <1>3, <1>9, <2>2, <2>3 DEF Written
  <2>6. DOMAIN x = DOMAIN old /\ x.by = old.by /\ x.t = old.t
    BY <2>4, <2>5 DEF IsRow
  <2>7. IsRow(x) /\ ((x.by = p /\ x.t = t) \/ Accounted(x))
    BY <2>4, <2>6 DEF IsRow, Accounted
  <2>8. Holds(p, x.t, r, x.v)
    BY <2>1, PlainHolds DEF ToldTables, LateTables
  <2>9. OwnWrite(p, r, x)
    BY <1>2, <2>1, <2>7, <2>8 DEF OwnWrite
  <2>10. QED
    BY <1>1, <2>1, <2>9
<1>10. QED
  BY <1>3, <1>5, <1>6, <1>7, <1>8, <1>9 DEF StatementKinds

(* A statement that is no "put" puts nothing, open or not.                 *)
LEMMA PutsTail ==
  ASSUME NEW s, IsList(s), s # <<>>, NEW r
  PROVE  Puts(s, r) = Gives(s[1], r) \cup Puts(Tail(s), r)
<1>1. PICK u : u = Tail(s)
  OBVIOUS
<1>2. /\ Len(s) \in Nat \ {0} /\ Len(u) = Len(s) - 1
      /\ \A i \in 1 .. Len(s) - 1 : u[i] = s[i + 1]
  BY <1>1, ListTail
<1>3. ASSUME NEW v, v \in Puts(s, r) PROVE v \in Gives(s[1], r) \cup Puts(u, r)
  <2>1. PICK i \in 1 .. Len(s) : s[i].do = "put" /\ r \in s[i].rows /\ v = s[i].v[r]
    BY <1>3, PutsMember
  <2>2. CASE i = 1
    BY <2>1, <2>2 DEF Gives
  <2>3. CASE i # 1
    <3>1. PICK j \in 1 .. Len(s) - 1 : i = j + 1
      BY <1>2, <2>3
    <3>2. j \in 1 .. Len(u) /\ u[j] = s[i]
      BY <1>2, <3>1
    <3>3. v \in Puts(u, r)
      BY <2>1, <3>2, PutsMember
    <3>4. QED
      BY <3>3
  <2>4. QED
    BY <2>2, <2>3
<1>4. ASSUME NEW v, v \in Gives(s[1], r) PROVE v \in Puts(s, r)
  <2>1. s[1].do = "put" /\ r \in s[1].rows /\ v = s[1].v[r]
    BY <1>4 DEF Gives
  <2>2. 1 \in 1 .. Len(s)
    BY <1>2
  <2>3. QED
    BY <2>1, <2>2, PutsMember
<1>5. ASSUME NEW v, v \in Puts(u, r) PROVE v \in Puts(s, r)
  <2>1. PICK j \in 1 .. Len(u) : u[j].do = "put" /\ r \in u[j].rows /\ v = u[j].v[r]
    BY <1>5, PutsMember
  <2>2. j + 1 \in 1 .. Len(s) /\ s[j + 1] = u[j]
    BY <1>2
  <2>3. QED
    BY <2>1, <2>2, PutsMember
<1>6. Puts(s, r) = Gives(s[1], r) \cup Puts(u, r)
  BY <1>3, <1>4, <1>5
<1>7. QED
  BY <1>1, <1>6

FirstReplaced(s, x) == [s EXCEPT ![1] = x]

LEMMA SelectedList ==
  ASSUME NEW s, IsList(s), s # <<>>, NEW x
  PROVE  /\ IsList(FirstReplaced(s, x)) /\ Len(FirstReplaced(s, x)) = Len(s) /\ FirstReplaced(s, x)[1] = x
         /\ \A i \in 1 .. Len(s) : i # 1 => FirstReplaced(s, x)[i] = s[i]
<1>1. PICK n : n = Len(s)
  OBVIOUS
<1>2. PICK next : next = FirstReplaced(s, x)
  OBVIOUS
<1>3. s = [i \in 1 .. n |-> s[i]] /\ n \in Nat \ {0}
  BY <1>1, ListTail DEF IsList
<1>4. DOMAIN s = 1 .. n
  BY <1>3
<1>5. next = [i \in DOMAIN s |-> IF i = 1 THEN x ELSE s[i]]
  BY <1>2 DEF FirstReplaced
<1>6. next = [i \in 1 .. n |-> IF i = 1 THEN x ELSE s[i]]
  BY <1>4, <1>5
<1>7. next = [i \in 1 .. n |-> next[i]] /\ next[1] = x /\ \A i \in 1 .. n : i # 1 => next[i] = s[i]
  BY <1>3, <1>6
<1>8. IsList(next) /\ Len(next) = n
  BY <1>3, <1>7, BuiltList
<1>9. QED
  BY <1>1, <1>2, <1>7, <1>8

LEMMA PutsSelected ==
  ASSUME NEW s, IsList(s), s # <<>>, NEW u, IsList(u), Len(u) = Len(s),
         \A i \in 1 .. Len(s) : i # 1 => u[i] = s[i],
         s[1].do # "put", u[1].do # "put", NEW r
  PROVE  Puts(u, r) = Puts(s, r)
<1>1. ASSUME NEW v, v \in Puts(u, r) PROVE v \in Puts(s, r)
  <2>1. PICK i \in 1 .. Len(u) : u[i].do = "put" /\ r \in u[i].rows /\ v = u[i].v[r]
    BY <1>1, PutsMember
  <2>2. i \in 1 .. Len(s) /\ u[i] = s[i]
    BY <2>1
  <2>3. QED
    BY <2>1, <2>2, PutsMember
<1>2. ASSUME NEW v, v \in Puts(s, r) PROVE v \in Puts(u, r)
  <2>1. PICK i \in 1 .. Len(s) : s[i].do = "put" /\ r \in s[i].rows /\ v = s[i].v[r]
    BY <1>2, PutsMember
  <2>2. i \in 1 .. Len(u) /\ u[i] = s[i]
    BY <2>1
  <2>3. QED
    BY <2>1, <2>2, PutsMember
<1>3. QED
  BY <1>1, <1>2

(* A statement over many rows names the rows it has selected.              *)
Selects(p, todo, rows, s, next) ==
  /\ todo # <<>> /\ IsList(todo) /\ ~todo[1].open
  /\ rows = {r \in DOMAIN Seen(p) : Applies(todo[1], r, Seen(p)[r])}
  /\ s = [todo[1] EXCEPT !.open = TRUE, !.rows = rows]
  /\ IsList(next) /\ Len(next) = Len(todo) /\ next[1] = s
  /\ \A i \in 1 .. Len(todo) : i # 1 => next[i] = todo[i]

LEMMA SelectTx ==
  ASSUME Shaped, NEW p \in Clients, LocalTx(p), SelectRows(p)
  PROVE  \E rows, s, next :
           /\ Selects(p, tx[p].todo, rows, s, next)
           /\ DOMAIN tx'[p] = {"t", "writes", "todo", "read"}
           /\ tx'[p].t = tx[p].t /\ tx'[p].writes = tx[p].writes /\ tx'[p].todo = next
<1>1. PICK todo : todo = tx[p].todo
  OBVIOUS
<1>2. IsList(todo) /\ todo # <<>>
  BY <1>1 DEF LocalTx, SelectRows
<1>3. Head(todo) = todo[1] /\ ~todo[1].open
  BY <1>1, <1>2, ListTail DEF SelectRows
<1>4. PICK rows : rows = {r \in DOMAIN Seen(p) : Applies(todo[1], r, Seen(p)[r])}
  OBVIOUS
<1>5. PICK s : s = [todo[1] EXCEPT !.open = TRUE, !.rows = rows]
  OBVIOUS
<1>6. PICK next : next = FirstReplaced(todo, s)
  OBVIOUS
<1>7. /\ IsList(next) /\ Len(next) = Len(todo) /\ next[1] = s
      /\ \A i \in 1 .. Len(todo) : i # 1 => next[i] = todo[i]
  BY <1>2, <1>6, SelectedList
<1>8. tx' = [tx EXCEPT ![p].todo[1] = s]
  <2>1. PICK h : h = Head(tx[p].todo)
    OBVIOUS
  <2>2. h = todo[1]
    BY <1>1, <1>3, <2>1
  <2>3. tx' = [tx EXCEPT ![p].todo[1] =
                 [h EXCEPT !.open = TRUE, !.rows = {r \in DOMAIN Seen(p) : Applies(h, r, Seen(p)[r])}]]
    BY <2>1 DEF SelectRows
  <2>4. QED
    BY <1>4, <1>5, <2>2, <2>3
<1>9. /\ DOMAIN tx'[p] = {"t", "writes", "todo", "read"}
      /\ tx'[p].t = tx[p].t /\ tx'[p].writes = tx[p].writes /\ tx'[p].todo = next
  <2>1. DOMAIN tx[p] = {"t", "writes", "todo", "read"}
    BY DEF LocalTx
  <2>2. next = [todo EXCEPT ![1] = s]
    BY <1>6 DEF FirstReplaced
  <2>3. QED
    BY <1>1, <1>8, <2>1, <2>2 DEF Shaped
<1>10. Selects(p, tx[p].todo, rows, s, next)
  <2>1. Selects(p, todo, rows, s, next)
    BY <1>2, <1>3, <1>4, <1>5, <1>7 DEF Selects
  <2>2. QED
    BY <1>1, <2>1, Zenon
<1>11. QED
  BY <1>9, <1>10

LEMMA SelectedProper ==
  ASSUME NEW p, NEW t, NEW at, NEW old, Proper(p, t, at, old), ~old.open, NEW rows, NEW s,
         \A r \in rows : \E x : Applies(old, r, x),
         DOMAIN s = DOMAIN old, s.do = old.do, s.v = old.v, s.open, s.rows = rows
  PROVE  Proper(p, t, at, s) /\ s.do = old.do /\ s.do # "put"
<1>1. old.do \in {"clear", "retire", "spread"} /\ DOMAIN old = {"do", "rows", "v", "open"}
  BY DEF Proper
<1>2. DOMAIN s = {"do", "rows", "v", "open"} /\ s.do = old.do /\ s.rows = rows /\ s.open /\ s.v = old.v
  BY <1>1
<1>3. \A r \in rows : r[1] = TableOf[s.do]
  BY <1>1, <1>2 DEF Applies, TableOf
<1>4. s.do = "spread" => Spreads(p, s)
  <2> SUFFICES ASSUME s.do = "spread" PROVE Spreads(p, s)
    OBVIOUS
  <2>1. Spreads(p, old)
    BY <1>2 DEF Proper
  <2>2. \A r \in rows : r[2] # old.v.service
    BY <1>2 DEF Applies
  <2>3. QED
    BY <1>2, <2>1, <2>2 DEF Spreads
<1>5. s.do = "clear" => Input(p).action = "refresh_licenses"
  BY <1>2 DEF Proper
<1>6. QED
  BY <1>1, <1>2, <1>3, <1>4, <1>5 DEF Proper, StatementKinds

LEMMA SelectLocal ==
  ASSUME Shaped, Onward, NEW p \in Clients, LocalTx(p), SelectRows(p)
  PROVE  LocalTx(p)' /\ \A r : Assigned(p, r)' = Assigned(p, r)
<1>1. /\ Acting' = Acting /\ Input(p)' = Input(p) /\ (Admitted(p)' <=> Admitted(p))
      /\ pc'[p] = pc[p] /\ cast' = cast
  BY Unmoved DEF SelectRows
<1>2. PICK todo : todo = tx[p].todo
  OBVIOUS
<1>3. PICK rows, s, next :
           /\ Selects(p, todo, rows, s, next)
           /\ DOMAIN tx'[p] = {"t", "writes", "todo", "read"}
           /\ tx'[p].t = tx[p].t /\ tx'[p].writes = tx[p].writes /\ tx'[p].todo = next
  BY <1>2, SelectTx, Zenon
<1>a. /\ todo # <<>> /\ IsList(todo) /\ ~todo[1].open
      /\ IsList(next) /\ Len(next) = Len(todo) /\ next[1] = s
      /\ \A i \in 1 .. Len(todo) : i # 1 => next[i] = todo[i]
  BY <1>3 DEF Selects
<1>b. /\ rows = {r \in DOMAIN Seen(p) : Applies(todo[1], r, Seen(p)[r])}
      /\ s = [todo[1] EXCEPT !.open = TRUE, !.rows = rows]
  BY <1>3 DEF Selects
<1>4. PICK t : t = tx[p].t
  OBVIOUS
<1>5. PICK at : at = pc[p]
  OBVIOUS
<1>6. 1 \in 1 .. Len(todo) /\ \A i \in 1 .. Len(todo) : Proper(p, t, at, todo[i])
  BY <1>2, <1>a, <1>4, <1>5, ListTail DEF LocalTx
<1>7. Proper(p, t, at, s) /\ s.do = todo[1].do /\ s.do # "put"
  <2>1. PICK old : old = todo[1]
    OBVIOUS
  <2>2. \A r \in rows : \E x : Applies(old, r, x)
    BY <1>b, <2>1
  <2>3. Proper(p, t, at, old) /\ ~old.open
    BY <1>a, <1>6, <2>1
  <2>4. s = [old EXCEPT !.open = TRUE, !.rows = rows]
    BY <1>b, <2>1
  <2>5. DOMAIN s = DOMAIN old /\ s.do = old.do /\ s.v = old.v /\ s.open /\ s.rows = rows
    BY <2>3, <2>4 DEF Proper
  <2>6. Proper(p, t, at, s) /\ s.do = old.do /\ s.do # "put"
    BY <2>2, <2>3, <2>5, SelectedProper
  <2>7. QED
    BY <2>1, <2>6
<1>8. \A i \in 1 .. Len(next) : Proper(p, t, at, next[i])
  BY <1>a, <1>6, <1>7
<1>9. ASSUME NEW r PROVE Puts(next, r) = Puts(todo, r)
  <2>1. todo[1].do # "put" /\ next[1].do # "put"
    BY <1>a, <1>7
  <2>2. QED
    BY <1>a, <2>1, PutsSelected
<1>10. \A r : Assigned(p, r)' = Assigned(p, r)
  BY <1>2, <1>3, <1>9, AssignedIs
<1>11. Pending(p)'
  BY <1>1, <1>3, PendingStays DEF LocalTx, Late
<1>12. Brings(p)' /\ Coloured(p)'
  BY <1>1, <1>10, OwesStays DEF LocalTx
<1>13. Held(p)' /\ Dated(p)'
  BY <1>1, <1>3 DEF LocalTx, SelectRows, Held, Dated
<1>14. p \in Acting /\ Admitted(p) /\ pc[p] \in {"run", "record"} /\ tx'[p].t \in 0 .. clock'
  BY <1>3 DEF LocalTx, SelectRows
<1>15. IsList(tx'[p].todo) /\ \A i \in 1 .. Len(tx'[p].todo) : Proper(p, tx[p].t, pc[p], tx[p].todo[i])'
  <2>1. \A i \in 1 .. Len(next) : Proper(p, t, at, next[i])'
    BY <1>1, <1>8, ProperStays
  <2>2. QED
    BY <1>1, <1>a, <1>3, <1>4, <1>5, <2>1
<1>16. Running(p)'
  BY <1>1, <1>14 DEF Running
<1>17. QED
  BY <1>1, <1>3, <1>10, <1>11, <1>12, <1>13, <1>14, <1>15, <1>16 DEF LocalTx

(* A statement that runs moves what it puts into the writes: for the rows  *)
(* that only "put" reaches, nothing is lost and nothing else comes.        *)
Ran(p, todo, f, w, v, next) ==
  /\ IsList(todo) /\ todo # <<>> /\ todo[1].open
  /\ f = Effect(p, todo[1]) /\ next = Tail(todo)
  /\ DOMAIN v = DOMAIN w \cup DOMAIN f
  /\ \A r \in DOMAIN f : v[r] = f[r]
  /\ \A r \in DOMAIN w : r \notin DOMAIN f => v[r] = w[r]

LEMMA RunTx ==
  ASSUME Shaped, NEW p \in Clients, LocalTx(p), RunStatement(p)
  PROVE  /\ \E f : Ran(p, tx[p].todo, f, tx[p].writes, tx'[p].writes, tx'[p].todo)
         /\ DOMAIN tx'[p] = {"t", "writes", "todo", "read"} /\ tx'[p].t = tx[p].t
<1>0. PICK todo : todo = tx[p].todo
  OBVIOUS
<1>1. IsList(todo) /\ todo # <<>>
  BY <1>0 DEF LocalTx, RunStatement
<1>2. Head(todo) = todo[1]
  BY <1>1, ListTail
<1>3. todo[1].open
  BY <1>0, <1>2 DEF RunStatement
<1>4. PICK w : w = tx[p].writes
  OBVIOUS
<1>5. PICK f : f = Effect(p, todo[1])
  OBVIOUS
<1>6. f = Effect(p, Head(tx[p].todo))
  BY <1>0, <1>2, <1>5
<1>7. PICK v : v = [r \in DOMAIN w \cup DOMAIN f |-> IF r \in DOMAIN f THEN f[r] ELSE w[r]]
  OBVIOUS
<1>8. PICK next : next = Tail(todo)
  OBVIOUS
<1>9. tx' = [tx EXCEPT ![p].writes = v, ![p].todo = next]
  BY <1>0, <1>4, <1>6, <1>7, <1>8 DEF RunStatement
<1>10. DOMAIN tx[p] = {"t", "writes", "todo", "read"}
  BY DEF LocalTx
<1>11. /\ DOMAIN tx'[p] = {"t", "writes", "todo", "read"} /\ tx'[p].t = tx[p].t
       /\ tx'[p].todo = next /\ tx'[p].writes = v
  BY <1>9, <1>10 DEF Shaped
<1>12. Ran(p, todo, f, w, v, next)
  BY <1>1, <1>3, <1>5, <1>7, <1>8 DEF Ran
<1>13. QED
  BY <1>0, <1>4, <1>11, <1>12, Zenon

PutOnly(p, r) == r[1] \in LateTables \cup {"billing"} \/ r = <<"isolation", ServiceOf(p)>>

LEMMA EffectOfPut ==
  ASSUME NEW p, NEW t, NEW at, NEW s, Proper(p, t, at, s), NEW r, PutOnly(p, r)
  PROVE  /\ r \in DOMAIN Effect(p, s) <=> s.do = "put" /\ r \in s.rows
         /\ r \in DOMAIN Effect(p, s) => Effect(p, s)[r].v = s.v[r]
<1>1. r[1] \in LateTables \cup {"billing", "isolation"}
  BY DEF PutOnly
<1>2. s.do # "put" => r \notin s.rows
  <2>1. SUFFICES ASSUME s.do # "put", r \in s.rows PROVE FALSE
    OBVIOUS
  <2>2. r[1] = TableOf[s.do] /\ s.do \in StatementKinds
    BY <2>1 DEF Proper
  <2>3. s.do = "spread" /\ r[1] = "isolation"
    BY <1>1, <2>1, <2>2 DEF TableOf, StatementKinds, LateTables
  <2>4. r[2] # ServiceOf(p)
    BY <2>1, <2>3 DEF Proper, Spreads
  <2>5. r = <<"isolation", ServiceOf(p)>>
    BY <2>3 DEF PutOnly, LateTables
  <2>6. QED
    BY <2>4, <2>5
<1>3. CASE s.do # "put"
  BY <1>2, <1>3 DEF Effect
<1>4. CASE s.do = "put"
  <2>1. \A x : Applies(s, r, x)
    BY <1>4 DEF Applies
  <2>2. r \in DOMAIN Effect(p, s) <=> r \in s.rows
    BY <1>4, <2>1 DEF Effect, Upserts
  <2>3. ASSUME r \in DOMAIN Effect(p, s) PROVE Effect(p, s)[r] = Row(p, s.v[r])
    <3>1. \A x : Written(p, s, r, x) = Row(p, s.v[r])
      BY <1>4 DEF Written
    <3>2. QED
      BY <2>3, <3>1 DEF Effect
  <2>4. Row(p, s.v[r]).v = s.v[r]
    BY DEF Row, Stored
  <2>5. QED
    BY <1>4, <2>2, <2>3, <2>4
<1>5. QED
  BY <1>3, <1>4

LEMMA RunAssigned ==
  ASSUME Shaped, NEW p \in Clients, LocalTx(p), RunStatement(p), NEW r, PutOnly(p, r)
  PROVE  Assigned(p, r)' \subseteq Assigned(p, r) /\ (Assigned(p, r) # {} => Assigned(p, r)' # {})
<1>1. PICK todo : todo = tx[p].todo
  OBVIOUS
<1>2. PICK s : s = todo[1]
  OBVIOUS
<1>4. PICK w : w = tx[p].writes
  OBVIOUS
<1>5. PICK v : v = tx'[p].writes
  OBVIOUS
<1>6. PICK next : next = tx'[p].todo
  OBVIOUS
<1>3. PICK f : Ran(p, todo, f, w, v, next)
  BY <1>1, <1>4, <1>5, <1>6, RunTx, Zenon
<1>7. /\ IsList(todo) /\ todo # <<>> /\ next = Tail(todo) /\ f = Effect(p, s)
      /\ DOMAIN v = DOMAIN w \cup DOMAIN f
      /\ \A k \in DOMAIN f : v[k] = f[k]
      /\ \A k \in DOMAIN w : k \notin DOMAIN f => v[k] = w[k]
  BY <1>2, <1>3 DEF Ran
<1>8. Proper(p, tx[p].t, pc[p], s)
  <2>1. 1 \in 1 .. Len(todo)
    BY <1>7, ListTail
  <2>2. QED
    BY <1>1, <1>2, <2>1 DEF LocalTx
<1>9. (r \in DOMAIN f <=> s.do = "put" /\ r \in s.rows) /\ (r \in DOMAIN f => f[r].v = s.v[r])
  BY <1>7, <1>8, EffectOfPut
<1>10. PICK late : late = Puts(next, r)
  OBVIOUS
<1>11. Puts(todo, r) = Gives(s, r) \cup late
  BY <1>2, <1>7, <1>10, PutsTail
<1>12. Assigned(p, r) = Wrote(w, r) \cup (Gives(s, r) \cup late)
  BY <1>1, <1>4, <1>11, AssignedIs
<1>13. Assigned(p, r)' = Wrote(v, r) \cup late
  BY <1>5, <1>6, <1>10, AssignedIs
<1>14. CASE r \in DOMAIN f
  <2>1. Wrote(v, r) = {f[r].v}
    BY <1>7, <1>14 DEF Wrote
  <2>2. f[r].v \in Gives(s, r)
    BY <1>9, <1>14 DEF Gives
  <2>3. QED
    BY <1>12, <1>13, <2>1, <2>2
<1>15. CASE r \notin DOMAIN f
  <2>1. Wrote(v, r) = Wrote(w, r)
    <3>1. {r} \cap DOMAIN v = {r} \cap DOMAIN w
      BY <1>7, <1>15
    <3>2. \A k \in {r} \cap DOMAIN w : v[k] = w[k]
      BY <1>7, <1>15
    <3>3. QED
      BY <3>1, <3>2 DEF Wrote
  <2>2. Gives(s, r) = {}
    BY <1>9, <1>15 DEF Gives
  <2>3. QED
    BY <1>12, <1>13, <2>1, <2>2
<1>16. QED
  BY <1>14, <1>15

LEMMA AgreeLess ==
  ASSUME NEW s, NEW r, NEW s1, NEW r1, Agree(s, r), s1 \subseteq s, r1 \subseteq r, s # {} => s1 # {}, r # {} => r1 # {}
  PROVE  Agree(s1, r1)
BY DEF Agree

LEMMA RunLocal ==
  ASSUME Shaped, Onward, NEW p \in Clients, LocalTx(p), CommittedRows, RunStatement(p)
  PROVE  LocalTx(p)'
<1>1. /\ Acting' = Acting /\ Input(p)' = Input(p) /\ ServiceOf(p)' = ServiceOf(p) /\ (Admitted(p)' <=> Admitted(p))
      /\ pc'[p] = pc[p] /\ cast' = cast /\ pc[p] \in {"run", "record"}
  BY Unmoved DEF RunStatement
<1>2. PICK todo : todo = tx[p].todo
  OBVIOUS
<1>3. PICK s : s = todo[1]
  OBVIOUS
<1>5. PICK w : w = tx[p].writes
  OBVIOUS
<1>6. PICK v : v = tx'[p].writes
  OBVIOUS
<1>7. PICK next : next = tx'[p].todo
  OBVIOUS
<1>4. PICK f : Ran(p, todo, f, w, v, next)
  BY <1>2, <1>5, <1>6, <1>7, RunTx, Zenon
<1>8. /\ IsList(todo) /\ todo # <<>> /\ next = Tail(todo) /\ f = Effect(p, s)
      /\ DOMAIN v = DOMAIN w \cup DOMAIN f
      /\ \A r \in DOMAIN f : v[r] = f[r]
      /\ \A r \in DOMAIN w : r \notin DOMAIN f => v[r] = w[r]
  BY <1>3, <1>4 DEF Ran
<1>a. DOMAIN tx'[p] = {"t", "writes", "todo", "read"} /\ tx'[p].t = tx[p].t /\ tx'[p].todo = next
  BY <1>7, RunTx
<1>9. PICK t : t = tx[p].t
  OBVIOUS
<1>10. PICK at : at = pc[p]
  OBVIOUS
<1>11. \A i \in 1 .. Len(todo) : Proper(p, t, at, todo[i])
  BY <1>2, <1>9, <1>10 DEF LocalTx
<1>12. IsList(next) /\ \A i \in 1 .. Len(next) : Proper(p, t, at, next[i])
  <2>1. Len(todo) \in Nat \ {0} /\ IsList(next) /\ Len(next) = Len(todo) - 1
        /\ \A i \in 1 .. Len(todo) - 1 : next[i] = todo[i + 1]
    BY <1>8, ListTail
  <2>2. QED
    BY <1>11, <2>1
<1>13. Proper(p, t, at, s)
  BY <1>3, <1>8, <1>11, ListTail
<1>14. Pending(p) /\ tx[p].t \in 0 .. clock
  BY DEF LocalTx
<1>15. \A r \in DOMAIN v : OwnWrite(p, r, v[r]) /\ (r[1] \in LateTables => Late(p))
  <2>1. \A r \in DOMAIN f : OwnWrite(p, r, f[r]) /\ (r[1] \in LateTables => at # "run")
    BY <1>8, <1>9, <1>13, <1>14, EffectIsOwn
  <2>2. \A r \in DOMAIN w : OwnWrite(p, r, w[r]) /\ (r[1] \in LateTables => Late(p))
    BY <1>5, <1>14 DEF Pending
  <2>3. at # "run" => Late(p)
    BY <1>1, <1>10 DEF Late
  <2>4. QED
    BY <1>8, <2>1, <2>2, <2>3
<1>16. Pending(p)'
  <2>1. \A r \in DOMAIN v : OwnWrite(p, r, v[r])'
    BY <1>a, <1>15, RowsStay
  <2>2. Late(p)' <=> Late(p)
    BY <1>1 DEF Late
  <2>3. QED
    BY <1>6, <1>15, <2>1, <2>2 DEF Pending
<1>17. ASSUME NEW r, PutOnly(p, r)
       PROVE  Assigned(p, r)' \subseteq Assigned(p, r) /\ (Assigned(p, r) # {} => Assigned(p, r)' # {})
  BY <1>17, RunAssigned
<1>18. (Running(p)' <=> Running(p)) /\ (Late(p)' <=> Late(p)) /\ Running(p)
  BY <1>1 DEF Running, Late
<1>19. Brings(p)'
  <2>1. PICK row : row = <<"isolation", ServiceOf(p)>>
    OBVIOUS
  <2>2. PICK bill : bill = <<"billing", p>>
    OBVIOUS
  <2>3. PutOnly(p, row) /\ PutOnly(p, bill) /\ PutOnly(p, Requested(p))
    BY <2>1, <2>2 DEF PutOnly, LateTables, Requested
  <2>4. /\ Assigned(p, row) # {} => Assigned(p, row)' # {}
        /\ Assigned(p, bill) # {} => Assigned(p, bill)' # {}
        /\ Assigned(p, Requested(p)) # {} => Assigned(p, Requested(p))' # {}
    BY <1>17, <2>3
  <2>5. Brings(p)
    BY DEF LocalTx
  <2>6. QED
    BY <1>1, <1>18, <2>1, <2>2, <2>4, <2>5 DEF Brings
<1>20. Coloured(p)'
  <2>1. PICK sum : sum = <<"summary", Input(p).room>>
    OBVIOUS
  <2>2. PICK why : why = <<"reason", p>>
    OBVIOUS
  <2>3. PutOnly(p, sum) /\ PutOnly(p, why)
    BY <2>1, <2>2 DEF PutOnly, LateTables
  <2>4. Late(p) => Agree(Assigned(p, sum), Assigned(p, why))
    BY <2>1, <2>2 DEF LocalTx, Coloured
  <2>5. Late(p) => Agree(Assigned(p, sum)', Assigned(p, why)')
    BY <1>17, <2>3, <2>4, AgreeLess
  <2>6. QED
    BY <1>1, <1>18, <2>1, <2>2, <2>5 DEF Coloured
<1>21. Held(p)' /\ Dated(p)'
  BY <1>1, <1>a DEF LocalTx, RunStatement, Held, Dated
<1>22. p \in Acting /\ Admitted(p) /\ tx'[p].t \in 0 .. clock'
  BY <1>1, <1>a DEF LocalTx, RunStatement
<1>23. IsList(tx'[p].todo) /\ \A i \in 1 .. Len(tx'[p].todo) : Proper(p, tx[p].t, pc[p], tx[p].todo[i])'
  <2>1. \A i \in 1 .. Len(next) : Proper(p, t, at, next[i])'
    BY <1>1, <1>12, ProperStays
  <2>2. QED
    BY <1>1, <1>a, <1>9, <1>10, <1>12, <2>1
<1>24. QED
  BY <1>1, <1>a, <1>16, <1>18, <1>19, <1>20, <1>21, <1>22, <1>23 DEF LocalTx

(* The insertion of the reference: it is new, and now the request's own.   *)
LEMMA InsertLocal ==
  ASSUME Shaped, Onward, NEW p \in Clients, LocalTx(p), pc[p] = "ledger",
         Acquire(p, {Want(<<"ledger", Ref(p)>>, "UPDATE")}), Goto(p, "commit"),
         \A e \in ledger : e.ref # Ref(p),
         UNCHANGED <<cast, db, ledger, clock, tx, span>>
  PROVE  LocalTx(p)'
<1>1. /\ Acting' = Acting /\ Input(p)' = Input(p) /\ Ref(p)' = Ref(p) /\ ServiceOf(p)' = ServiceOf(p)
      /\ (Admitted(p)' <=> Admitted(p)) /\ cast' = cast
  BY Unmoved
<1>2. pc'[p] = "commit"
  BY DEF Shaped, Goto
<1>3. tx[p].todo = <<>> /\ 1 .. Len(tx[p].todo) = {}
  BY ShortLists DEF LocalTx
<1>4. Pending(p)'
  BY <1>2, PendingStays DEF LocalTx, Late
<1>5. \A r : Assigned(p, r)' = Assigned(p, r)
  BY DEF Assigned
<1>6. Running(p) /\ Late(p) /\ Running(p)' /\ Late(p)'
  BY <1>2 DEF Running, Late
<1>7. Brings(p)'
  BY <1>1, <1>5, <1>6 DEF LocalTx, Brings
<1>8. Coloured(p)'
  BY <1>1, <1>5, <1>6 DEF LocalTx, Coloured
<1>9. Held(p)'
  <2>1. [owner |-> p, row |-> <<"ledger", Ref(p)>>, mode |-> "UPDATE"] \in locks'
    <3> PICK want : want = Want(<<"ledger", Ref(p)>>, "UPDATE")
      OBVIOUS
    <3>1. want.row = <<"ledger", Ref(p)>> /\ want.mode = "UPDATE"
      BY DEF Want
    <3>2. [owner |-> p, row |-> want.row, mode |-> want.mode] \in locks'
      BY DEF Acquire
    <3>3. QED
      BY <3>1, <3>2
  <2>2. QED
    BY <1>1, <2>1 DEF Held
<1>10. Dated(p)'
  BY <1>2 DEF LocalTx, Dated
<1>11. p \in Acting /\ Admitted(p) /\ tx'[p].t \in 0 .. clock' /\ IsList(tx'[p].todo)
       /\ DOMAIN tx'[p] = {"t", "writes", "todo", "read"} /\ tx'[p].todo = <<>>
  BY <1>3 DEF LocalTx
<1>12. 1 .. Len(tx'[p].todo) = {}
  BY <1>3
<1>13. QED
  BY <1>1, <1>2, <1>4, <1>6, <1>7, <1>8, <1>9, <1>10, <1>11, <1>12 DEF LocalTx

-----------------------------------------------------------------------------
(* From one request to all of them.                                        *)
LEMMA RInvShaped ==
  ASSUME RInv
  PROVE  /\ Shaped /\ Cast /\ CommittedRows
         /\ Acting \subseteq Clients
         /\ \A e \in ledger : e.actor \in Acting /\ e.ref = Ref(e.actor) /\ Admitted(e.actor)
         /\ IsFiniteSet(Begun) /\ IsFiniteSet(Ended)
         /\ Cardinality(Begun) \in 0 .. Cardinality(Clients)
         /\ Cardinality(Ended) \in 0 .. Cardinality(Clients)
         /\ Cardinality(Clients) \in Nat
<1>1. IsFiniteSet(Clients) /\ Begun \subseteq Clients /\ Ended \subseteq Clients
  BY RoomAssumption DEF Begun, Ended
<1>2. /\ IsFiniteSet(Begun) /\ IsFiniteSet(Ended)
      /\ Cardinality(Begun) \in Nat /\ Cardinality(Ended) \in Nat /\ Cardinality(Clients) \in Nat
      /\ Cardinality(Begun) <= Cardinality(Clients) /\ Cardinality(Ended) <= Cardinality(Clients)
  BY <1>1, FS_Subset, FS_CardinalityType
<1>3. Shaped
  BY <1>2 DEF RInv, Shaped
<1>4. Acting \subseteq Clients
  BY DEF Acting
<1>5. \A e \in ledger : e.actor \in Acting /\ e.ref = Ref(e.actor) /\ Admitted(e.actor)
  BY DEF RInv
<1>6. QED
  BY <1>2, <1>3, <1>4, <1>5 DEF RInv, Cast

LEMMA OthersStay ==
  ASSUME RInv, NEW p \in Clients, Onward,
         \A q \in Clients \ {p} : tx'[q] = tx[q] /\ pc'[q] = pc[q] /\ span'[q] = span[q],
         \A l \in locks : l.owner # p => l \in locks',
         \A q \in Clients \ {p} : pc[q] = "commit" => \A e \in ledger' : e.ref # Ref(q)
  PROVE  \A q \in Clients \ {p} : LocalTx(q)'
<1> SUFFICES ASSUME NEW q \in Clients \ {p} PROVE LocalTx(q)'
  OBVIOUS
<1>1. LocalTx(q)
  BY DEF RInv
<1>2. ASSUME pc[q] = "commit"
      PROVE  [owner |-> q, row |-> <<"ledger", Ref(q)>>, mode |-> "UPDATE"] \in locks'
  BY <1>1, <1>2 DEF LocalTx, Held
<1>3. QED
  BY <1>1, <1>2, Undisturbed

(* What is committed stays accounted for while nothing commits.            *)
LEMMA RowsKept ==
  ASSUME Onward, CommittedRows, UNCHANGED <<db, ledger>>
  PROVE  CommittedRows'
<1>1. \A q : Input(q)' = Input(q) /\ ServiceOf(q)' = ServiceOf(q)
  BY Unmoved DEF Onward
<1>2. \A q, t, r, v : Holds(q, t, r, v) => Holds(q, t, r, v)'
  BY HoldsStays DEF Onward
<1>3. ASSUME NEW r \in DOMAIN db'
      PROVE  /\ IsRow(db[r])' /\ Accounted(db[r])'
             /\ IF db'[r].by = "seed" THEN Seeded(r, db'[r].v) ELSE Holds(db[r].by, db[r].t, r, db[r].v)'
  <2> PICK x : x = db[r]
    OBVIOUS
  <2>1. /\ IsRow(x) /\ Accounted(x)
        /\ IF x.by = "seed" THEN Seeded(r, x.v) ELSE Holds(x.by, x.t, r, x.v)
    BY <1>3 DEF CommittedRows
  <2>2. /\ IsRow(x)' /\ Accounted(x)'
        /\ IF x.by = "seed" THEN Seeded(r, x.v) ELSE Holds(x.by, x.t, r, x.v)'
    BY <1>2, <2>1, RowsStay
  <2>3. db'[r] = x
    OBVIOUS
  <2>4. QED
    BY <2>2, <2>3
<1>4. ASSUME NEW e \in ledger'
      PROVE  /\ Requested(e.actor) \in DOMAIN db' /\ db'[Requested(e.actor)].by = e.actor
             /\ Input(e.actor)'.action = "sync_billing" =>
                  <<"billing", e.actor>> \in DOMAIN db' /\ db'[<<"billing", e.actor>>].by = e.actor
             /\ Input(e.actor)'.action \in IsolationActions => <<"isolation", ServiceOf(e.actor)'>> \in DOMAIN db'
  BY <1>1, <1>4 DEF CommittedRows
<1>5. \A e, f \in ledger' : e.ref = f.ref => e = f
  BY DEF CommittedRows
<1>6. QED
  BY <1>3, <1>4, <1>5 DEF CommittedRows, Requested

(* A step of p that neither begins nor commits its transaction.            *)
Quiet(p) ==
  /\ UNCHANGED <<cast, db, ledger, clock, span>>
  /\ files' \subseteq Clients
  /\ \E to \in Modes : pc' = [pc EXCEPT ![p] = to]
  /\ tx' = tx \/ \E x : tx' = [tx EXCEPT ![p] = x]
  /\ Exclusive'
  /\ \A l \in locks : l.owner # p => l \in locks'
  /\ \A l \in locks' : l \in locks \/ l.owner = p

LEMMA StillHere ==
  ASSUME RInv, UNCHANGED <<cast, db, ledger, clock, span>>
  PROVE  Onward
<1>1. clock \in Nat /\ \A e \in ledger : e.actor \in Clients
  BY RInvShaped DEF Shaped
<1>2. QED
  BY <1>1, StillOnward DEF Still

LEMMA QuietStep ==
  ASSUME RInv, NEW p \in Clients, Quiet(p), LocalTx(p)', ModeTypeOK'
  PROVE  RInv'
<1>1. Shaped /\ CommittedRows /\ Onward
  BY RInvShaped, StillHere DEF Quiet
<1>2. /\ DOMAIN tx' = Clients /\ DOMAIN span' = Clients /\ pc' \in [Clients -> Modes]
      /\ \A q \in Clients \ {p} : tx'[q] = tx[q] /\ pc'[q] = pc[q] /\ span'[q] = span[q]
  BY <1>1 DEF Shaped, Quiet
<1>3. \A q \in Clients \ {p} : LocalTx(q)'
  <2>1. \A q \in Clients \ {p} : pc[q] = "commit" => \A e \in ledger' : e.ref # Ref(q)
    BY DEF RInv, LocalTx, Held, Quiet
  <2>2. QED
    BY <1>1, <1>2, <2>1, OthersStay DEF Quiet
<1>4. /\ Begun' = Begun /\ Ended' = Ended /\ Acting' = Acting
      /\ \A q : Ref(q)' = Ref(q) /\ (Admitted(q)' <=> Admitted(q))
  BY Unmoved DEF Quiet, Begun, Ended
<1>5. CommittedRows'
  BY <1>1, RowsKept DEF Quiet
<1>6. /\ ledger' \subseteq [ref : {Ref(q)' : q \in Acting'}, actor : Acting']
      /\ \A e \in ledger' : e.ref = Ref(e.actor)' /\ Admitted(e.actor)'
  BY <1>4 DEF RInv, Quiet
<1>7. clock' = Cardinality(Begun') + Cardinality(Ended')
  BY <1>4 DEF RInv, Quiet
<1>8. \A l \in locks' : l.owner \in Clients
  BY DEF RInv, Quiet
<1>9. QED
  BY <1>2, <1>3, <1>5, <1>6, <1>7, <1>8 DEF RInv, Quiet

-----------------------------------------------------------------------------
(* A transaction begins: the clock counts it.                              *)
LEMMA BeginOnward ==
  ASSUME RInv, NEW p \in Clients, Begin(p)
  PROVE  /\ Onward /\ clock' = clock + 1
         /\ \A q \in Clients \ {p} : tx'[q] = tx[q] /\ pc'[q] = pc[q] /\ span'[q] = span[q]
         /\ span[p].from = 0 /\ span[p].to = 0 /\ span'[p].from = clock + 1 /\ span'[p].to = 0
<1>1. Shaped /\ LocalTx(p) /\ \A e \in ledger : e.actor \in Clients
  BY RInvShaped DEF RInv
<1>2. span[p] \in [from : 0 .. clock, to : 0 .. clock] /\ span[p].from = 0 /\ span[p].to = 0
  BY <1>1 DEF LocalTx, Dated, Begin
<1>3. /\ \A q \in Clients \ {p} : tx'[q] = tx[q] /\ pc'[q] = pc[q] /\ span'[q] = span[q]
      /\ clock' \in Nat /\ clock' = clock + 1 /\ clock <= clock'
      /\ cast' = cast /\ ledger' = ledger
  BY <1>1 DEF Shaped, Begin, Goto
<1>4. span'[p].from = clock + 1 /\ span'[p].to = 0
  BY <1>1, <1>2 DEF Begin, Shaped
<1>5. Onward
  BY <1>1, <1>2, <1>3 DEF Onward, Shaped
<1>6. QED
  BY <1>2, <1>3, <1>4, <1>5

LEMMA BeginStep ==
  ASSUME RInv, NEW p \in Clients, Begin(p), ModeTypeOK'
  PROVE  RInv'
<1>1. Shaped /\ LocalTx(p) /\ CommittedRows /\ Onward
  BY RInvShaped, BeginOnward DEF RInv
<1>2. LocalTx(p)'
  BY <1>1, BeginLocal
<1>3. /\ DOMAIN tx' = Clients /\ DOMAIN span' = Clients /\ pc' \in [Clients -> Modes]
  BY <1>1 DEF Shaped, Begin, Goto, Modes
<1>4. \A q \in Clients \ {p} : LocalTx(q)'
  <2>1. \A q \in Clients \ {p} : pc[q] = "commit" => \A e \in ledger' : e.ref # Ref(q)
    BY DEF RInv, LocalTx, Held, Begin
  <2>2. \A l \in locks : l \in locks'
    BY DEF Begin
  <2>3. QED
    BY <1>1, <2>1, <2>2, BeginOnward, OthersStay
<1>5. /\ Acting' = Acting /\ \A q : Ref(q)' = Ref(q) /\ (Admitted(q)' <=> Admitted(q))
  BY <1>1, Unmoved DEF Onward
<1>6. CommittedRows'
  BY <1>1, RowsKept DEF Begin
<1>7. clock' = Cardinality(Begun') + Cardinality(Ended')
  <2>1. /\ span[p].from = 0 /\ span[p].to = 0 /\ span'[p].from = clock + 1 /\ span'[p].to = 0
        /\ clock' = clock + 1 /\ clock \in Nat
    BY <1>1, BeginOnward DEF Shaped
  <2>2. p \notin Begun /\ p \in Begun' /\ p \notin Ended /\ p \notin Ended'
    BY <2>1 DEF Begun, Ended
  <2>3. \A q \in Clients \ {p} : (q \in Begun <=> q \in Begun') /\ (q \in Ended <=> q \in Ended')
    BY BeginOnward DEF Begun, Ended
  <2>4. Begun' = Begun \cup {p} /\ Ended' = Ended
    BY <2>2, <2>3 DEF Begun, Ended
  <2>5. Cardinality(Begun') = Cardinality(Begun) + 1
    BY <2>2, <2>4, RInvShaped, FS_AddElement
  <2>6. QED
    BY <2>1, <2>4, <2>5, RInvShaped DEF RInv
<1>8. /\ ledger' \subseteq [ref : {Ref(q)' : q \in Acting'}, actor : Acting']
      /\ \A e \in ledger' : e.ref = Ref(e.actor)' /\ Admitted(e.actor)'
  BY <1>5 DEF RInv, Begin
<1>9. Exclusive' /\ files' \subseteq Clients /\ \A l \in locks' : l.owner \in Clients
  BY DEF RInv, Begin, Exclusive
<1>10. \E i \in DOMAIN Casts : cast' = Casts[i]
  BY DEF RInv, Begin
<1>11. QED
  BY <1>2, <1>3, <1>4, <1>6, <1>7, <1>8, <1>9, <1>10 DEF RInv

-----------------------------------------------------------------------------
(* A transaction commits: its rows and its evidence become visible at once.*)
LEMMA Overlaid ==
  ASSUME NEW rows, NEW w
  PROVE  /\ \A r \in DOMAIN Overlay(rows, w) :
              \/ r \in DOMAIN w /\ w[r] # Gone /\ Overlay(rows, w)[r] = w[r]
              \/ r \notin DOMAIN w /\ r \in DOMAIN rows /\ Overlay(rows, w)[r] = rows[r]
         /\ \A r \in DOMAIN w : w[r] # Gone => r \in DOMAIN Overlay(rows, w) /\ Overlay(rows, w)[r] = w[r]
         /\ \A r \in DOMAIN w : w[r] = Gone => r \notin DOMAIN Overlay(rows, w)
         /\ \A r \in DOMAIN rows :
              r \notin DOMAIN w => r \in DOMAIN Overlay(rows, w) /\ Overlay(rows, w)[r] = rows[r]
BY DEF Overlay

LEMMA CommitOnward ==
  ASSUME RInv, NEW p \in Clients, Commit(p)
  PROVE  /\ Onward /\ clock' = clock + 1 /\ clock \in Nat
         /\ p \in Acting /\ Admitted(p) /\ p # "seed"
         /\ \A q \in Clients \ {p} : tx'[q] = tx[q] /\ pc'[q] = pc[q] /\ span'[q] = span[q]
         /\ span[p] \in [from : 0 .. clock, to : 0 .. clock] /\ span[p].to = 0
         /\ span[p].from # 0 /\ span[p].from = tx[p].t
         /\ span'[p].from = span[p].from /\ span'[p].to = clock + 1
         /\ span'[p] \in [from : 0 .. clock', to : 0 .. clock']
         /\ ledger' = ledger \cup {[ref |-> Ref(p), actor |-> p]}
         /\ \A e \in ledger : e.ref # Ref(p)
<1>1. Shaped /\ LocalTx(p) /\ \A e \in ledger : e.actor \in Clients
  BY RInvShaped DEF RInv
<1>2. /\ span[p] \in [from : 0 .. clock, to : 0 .. clock] /\ span[p].to = 0
      /\ span[p].from # 0 /\ span[p].from = tx[p].t
  BY <1>1 DEF LocalTx, Dated, Commit
<1>3. /\ \A q \in Clients \ {p} : tx'[q] = tx[q] /\ pc'[q] = pc[q] /\ span'[q] = span[q]
      /\ clock' \in Nat /\ clock' = clock + 1 /\ clock <= clock' /\ clock \in Nat
      /\ cast' = cast
  BY <1>1 DEF Shaped, Commit, Answered
<1>4. ledger' = ledger \cup {[ref |-> Ref(p), actor |-> p]}
  BY DEF Commit
<1>5. span'[p] = [span[p] EXCEPT !.to = clock + 1]
  BY <1>1 DEF Commit, Shaped
<1>6. /\ span'[p].from = span[p].from /\ span'[p].to = clock + 1
      /\ span'[p] \in [from : 0 .. clock', to : 0 .. clock']
  BY <1>2, <1>3, <1>5
<1>7. Onward
  BY <1>1, <1>2, <1>3, <1>4 DEF Onward
<1>8. p \in Acting /\ Admitted(p) /\ p # "seed" /\ \A e \in ledger : e.ref # Ref(p)
  BY <1>1, RoomAssumption DEF LocalTx, Held, Commit
<1>9. QED
  BY <1>2, <1>3, <1>4, <1>6, <1>7, <1>8

(* What p has written is there, and of the rest what was there.            *)
LEMMA CommitWrites ==
  ASSUME RInv, NEW p \in Clients, Commit(p), NEW w, w = tx[p].writes
  PROVE  /\ \A r \in DOMAIN db' : \/ r \in DOMAIN w /\ w[r] # Gone /\ db'[r] = w[r]
                                  \/ r \notin DOMAIN w /\ r \in DOMAIN db /\ db'[r] = db[r]
         /\ \A r \in DOMAIN w : w[r] # Gone => r \in DOMAIN db' /\ db'[r] = w[r]
         /\ \A r \in DOMAIN w : w[r] = Gone => r \notin DOMAIN db'
         /\ \A r \in DOMAIN db : r \notin DOMAIN w => r \in DOMAIN db' /\ db'[r] = db[r]
         /\ \A r \in DOMAIN w : OwnWrite(p, r, w[r])
         /\ \A r : Assigned(p, r) = Wrote(w, r)
<1>1. db' = Overlay(db, w)
  BY DEF Commit
<1>2. LocalTx(p)
  BY DEF RInv
<1>3. \A r \in DOMAIN w : OwnWrite(p, r, w[r])
  BY <1>2 DEF LocalTx, Pending
<1>4. ASSUME NEW r PROVE Assigned(p, r) = Wrote(w, r)
  <2>1. tx[p].todo = <<>>
    BY <1>2 DEF LocalTx, Commit
  <2>2. Assigned(p, r) = Wrote(w, r) \cup Puts(<<>>, r)
    BY <2>1, AssignedIs
  <2>3. Puts(<<>>, r) = {}
    BY PutsNil
  <2>4. QED
    BY <2>2, <2>3
<1>5. QED
  BY <1>1, <1>3, <1>4, Overlaid

(* What is written to the rows that only their writer owns.                *)
LEMMA OwnRow ==
  ASSUME NEW p, NEW r, NEW x, OwnWrite(p, r, x), r[1] \notin {"license", "certificate"}
  PROVE  x # Gone /\ IsRow(x) /\ x.by = p /\ x.t = tx[p].t /\ Holds(p, x.t, r, x.v)
<1>1. IsRow(x) /\ x.by = p /\ x.t = tx[p].t /\ Holds(p, x.t, r, x.v)
  BY DEF OwnWrite
<1>2. DOMAIN x = {"by", "t", "v"} /\ DOMAIN Gone = {"gone"}
  BY <1>1 DEF IsRow, Gone
<1>3. "by" \notin {"gone"}
  OBVIOUS
<1>4. QED
  BY <1>1, <1>2, <1>3

(* The rows after a commit are accounted for.                              *)
LEMMA CommitAccounts ==
  ASSUME RInv, NEW p \in Clients, Commit(p), NEW r \in DOMAIN db', NEW x, x = db'[r]
  PROVE  /\ IsRow(x)' /\ Accounted(x)'
         /\ IF x.by = "seed" THEN Seeded(r, x.v) ELSE Holds(x.by, x.t, r, x.v)'
<1>1. PICK w : w = tx[p].writes
  OBVIOUS
<1>3. Onward /\ cast' = cast /\ CommittedRows
  BY CommitOnward, RInvShaped DEF Onward
<1>4. \A q, t, v : Holds(q, t, r, v) => Holds(q, t, r, v)'
  BY <1>3, HoldsStays
<1>5. CASE r \in DOMAIN w /\ w[r] # Gone /\ x = w[r]
  <2>1. OwnWrite(p, r, x)
    BY <1>1, <1>5, CommitWrites
  <2>2. CASE IsRow(x) /\ x.by = p /\ x.t = tx[p].t /\ Holds(p, x.t, r, x.v)
    <3>1. IsRow(x)' /\ Holds(x.by, x.t, r, x.v)'
      BY <1>3, <1>4, <2>2, RowsStay
    <3>2. Accounted(x)'
      <4>1. /\ x.t = span'[p].from /\ span'[p].to # 0
            /\ ledger' = ledger \cup {[ref |-> Ref(p), actor |-> p]}
        BY <2>2, CommitOnward
      <4>2. \E e \in ledger' : e.actor = p
        <5>1. PICK new : new = [ref |-> Ref(p), actor |-> p]
          OBVIOUS
        <5>2. new \in ledger' /\ new.actor = p
          BY <4>1, <5>1
        <5>3. QED
          BY <5>2
      <4>3. QED
        BY <2>2, <4>1, <4>2 DEF Accounted
    <3>3. x.by # "seed"
      BY <2>2, CommitOnward
    <3>4. QED
      BY <3>1, <3>2, <3>3
  <2>3. CASE IsRow(x) /\ r[1] = "certificate" /\ Accounted(x)
    <3>1. IsRow(x)' /\ Accounted(x)'
      BY <1>3, <2>3, RowsStay
    <3>2. Holds(x.by, x.t, r, x.v)'
      BY <1>4, <2>3, PlainHolds DEF ToldTables, LateTables
    <3>3. Seeded(r, x.v)
      BY <2>3 DEF Seeded
    <3>4. QED
      BY <3>1, <3>2, <3>3
  <2>4. QED
    BY <1>5, <2>1, <2>2, <2>3 DEF OwnWrite
<1>6. CASE r \in DOMAIN db /\ x = db[r]
  <2>1. /\ IsRow(x) /\ Accounted(x)
        /\ IF x.by = "seed" THEN Seeded(r, x.v) ELSE Holds(x.by, x.t, r, x.v)
    BY <1>3, <1>6 DEF CommittedRows
  <2>2. /\ IsRow(x)' /\ Accounted(x)'
        /\ IF x.by = "seed" THEN Seeded(r, x.v) ELSE Holds(x.by, x.t, r, x.v)'
    BY <1>3, <1>4, <2>1, RowsStay
  <2>3. QED
    BY <2>2
<1>7. QED
  BY <1>1, <1>5, <1>6, CommitWrites

(* The rows that belong to a request are there once it is on record.       *)
LEMMA CommitKeeps ==
  ASSUME RInv, NEW p \in Clients, Commit(p), NEW q, NEW r,
         r[1] \in {"event", "billing"}, \A t, v : Holds(p, t, r, v) => p = q,
         q # p => r \in DOMAIN db /\ db[r].by = q,
         q = p => Assigned(p, r) # {}
  PROVE  r \in DOMAIN db' /\ db'[r].by = q
<1>1. PICK w : w = tx[p].writes
  OBVIOUS
<1>2. CASE r \in DOMAIN w
  <2>1. OwnWrite(p, r, w[r])
    BY <1>1, <1>2, CommitWrites
  <2>2. w[r] # Gone /\ w[r].by = p /\ Holds(p, w[r].t, r, w[r].v)
    BY <2>1, OwnRow
  <2>3. QED
    BY <1>1, <1>2, <2>2, CommitWrites
<1>3. CASE r \notin DOMAIN w
  <2>1. q # p
    <3>1. Assigned(p, r) = Wrote(w, r)
      BY <1>1, CommitWrites
    <3>2. Wrote(w, r) = {}
      BY <1>3 DEF Wrote
    <3>3. QED
      BY <3>1, <3>2
  <2>2. QED
    BY <1>1, <1>3, <2>1, CommitWrites
<1>4. QED
  BY <1>2, <1>3

LEMMA CommitRecords ==
  ASSUME RInv, NEW p \in Clients, Commit(p), NEW e \in ledger'
  PROVE  /\ Requested(e.actor) \in DOMAIN db' /\ db'[Requested(e.actor)].by = e.actor
         /\ Input(e.actor).action = "sync_billing" =>
              <<"billing", e.actor>> \in DOMAIN db' /\ db'[<<"billing", e.actor>>].by = e.actor
         /\ Input(e.actor).action \in IsolationActions => <<"isolation", ServiceOf(e.actor)>> \in DOMAIN db'
<1>1. PICK q : q = e.actor
  OBVIOUS
<1>2. q # p => e \in ledger
  BY <1>1, CommitOnward
<1>3. Brings(p) /\ Running(p) /\ Late(p)
  BY DEF RInv, LocalTx, Commit, Running, Late
<1>4. PICK row : row = Requested(q)
  OBVIOUS
<1>5. row \in DOMAIN db' /\ db'[row].by = q
  <2>1. row[1] = "event" /\ row[2] = q
    BY <1>4 DEF Requested
  <2>2. \A t, v : Holds(p, t, row, v) => p = q
    BY <2>1 DEF Holds
  <2>3. q # p => row \in DOMAIN db /\ db[row].by = q
    BY <1>1, <1>2, <1>4, RInvShaped DEF CommittedRows
  <2>4. q = p => Assigned(p, row) # {}
    BY <1>3, <1>4 DEF Brings
  <2>5. QED
    BY <2>1, <2>2, <2>3, <2>4, CommitKeeps
<1>6. PICK bill : bill = <<"billing", q>>
  OBVIOUS
<1>7. ASSUME Input(q).action = "sync_billing" PROVE bill \in DOMAIN db' /\ db'[bill].by = q
  <2>1. bill[1] = "billing"
    BY <1>6
  <2>2. ASSUME NEW t, NEW v, Holds(p, t, bill, v) PROVE p = q
    <3>1. bill = <<"billing", p>>
      BY <2>1, <2>2 DEF Holds
    <3>2. QED
      BY <1>6, <3>1
  <2>3. q # p => bill \in DOMAIN db /\ db[bill].by = q
    BY <1>1, <1>2, <1>6, <1>7, RInvShaped DEF CommittedRows
  <2>4. q = p => Assigned(p, bill) # {}
    BY <1>3, <1>6, <1>7 DEF Brings
  <2>5. QED
    BY <2>1, <2>2, <2>3, <2>4, CommitKeeps
<1>8. PICK iso : iso = <<"isolation", ServiceOf(q)>>
  OBVIOUS
<1>9. ASSUME Input(q).action \in IsolationActions PROVE iso \in DOMAIN db'
  <2>1. PICK w : w = tx[p].writes
    OBVIOUS
  <2>2. CASE iso \in DOMAIN w
    <3>1. OwnWrite(p, iso, w[iso]) /\ iso[1] = "isolation"
      BY <1>8, <2>1, <2>2, CommitWrites
    <3>2. w[iso] # Gone
      BY <3>1, OwnRow
    <3>3. QED
      BY <2>1, <2>2, <3>2, CommitWrites
  <2>3. CASE iso \notin DOMAIN w
    <3>1. q # p
      <4>1. Assigned(p, iso) = Wrote(w, iso) /\ Wrote(w, iso) = {}
        BY <2>1, <2>3, CommitWrites DEF Wrote
      <4>2. QED
        BY <1>3, <1>8, <1>9, <4>1 DEF Brings
    <3>2. iso \in DOMAIN db
      BY <1>1, <1>2, <1>8, <1>9, <3>1, RInvShaped DEF CommittedRows
    <3>3. QED
      BY <2>1, <2>3, <3>2, CommitWrites
  <2>4. QED
    BY <2>2, <2>3
<1>10. QED
  BY <1>1, <1>4, <1>5, <1>6, <1>7, <1>8, <1>9

LEMMA CommitRows ==
  ASSUME RInv, NEW p \in Clients, Commit(p)
  PROVE  CommittedRows'
<1>1. \A q : Input(q)' = Input(q) /\ ServiceOf(q)' = ServiceOf(q)
  BY CommitOnward, Unmoved DEF Onward
<1>2. \A e, f \in ledger' : e.ref = f.ref => e = f
  <2>1. PICK new : new = [ref |-> Ref(p), actor |-> p]
    OBVIOUS
  <2>2. ledger' = ledger \cup {new} /\ new.ref = Ref(p) /\ \A e \in ledger : e.ref # Ref(p)
    BY <2>1, CommitOnward
  <2>3. \A e, f \in ledger : e.ref = f.ref => e = f
    BY RInvShaped DEF CommittedRows
  <2>4. QED
    BY <2>2, <2>3
<1>3. ASSUME NEW r \in DOMAIN db'
      PROVE  /\ IsRow(db[r])' /\ Accounted(db[r])'
             /\ IF db'[r].by = "seed" THEN Seeded(r, db'[r].v) ELSE Holds(db[r].by, db[r].t, r, db[r].v)'
  <2>1. PICK x : x = db'[r]
    OBVIOUS
  <2>2. /\ IsRow(x)' /\ Accounted(x)'
        /\ IF x.by = "seed" THEN Seeded(r, x.v) ELSE Holds(x.by, x.t, r, x.v)'
    BY <2>1, CommitAccounts
  <2>3. QED
    BY <2>1, <2>2
<1>4. ASSUME NEW e \in ledger'
      PROVE  /\ Requested(e.actor) \in DOMAIN db' /\ db'[Requested(e.actor)].by = e.actor
             /\ Input(e.actor)'.action = "sync_billing" =>
                  <<"billing", e.actor>> \in DOMAIN db' /\ db'[<<"billing", e.actor>>].by = e.actor
             /\ Input(e.actor)'.action \in IsolationActions => <<"isolation", ServiceOf(e.actor)'>> \in DOMAIN db'
  BY <1>1, <1>4, CommitRecords
<1>5. QED
  BY <1>2, <1>3, <1>4 DEF CommittedRows, Requested

LEMMA CommitStep ==
  ASSUME RInv, NEW p \in Clients, Commit(p), ModeTypeOK'
  PROVE  RInv'
<1>1. Shaped /\ LocalTx(p) /\ Onward
  BY RInvShaped, CommitOnward DEF RInv
<1>2. /\ tx' = [tx EXCEPT ![p] = NoTx] /\ pc' = [pc EXCEPT ![p] = "answered"]
      /\ span' = [span EXCEPT ![p].to = clock + 1]
      /\ cast' = cast /\ files' = files /\ pc[p] = "commit"
  BY DEF Commit, Answered
<1>3. DOMAIN tx' = Clients /\ DOMAIN span' = Clients /\ pc' \in [Clients -> Modes] /\ pc'[p] = "answered"
  BY <1>1, <1>2 DEF Shaped, Modes
<1>4. LocalTx(p)'
  <2>1. PICK now : now = clock + 1
    OBVIOUS
  <2>2. /\ span[p] \in [from : 0 .. clock, to : 0 .. clock] /\ span[p].from # 0
        /\ span'[p].from = span[p].from /\ span'[p].to = now
        /\ span'[p] \in [from : 0 .. clock', to : 0 .. clock'] /\ clock \in Nat /\ clock' = now
    BY <2>1, CommitOnward
  <2>3. span'[p].from < span'[p].to /\ span'[p].from # 0
    BY <2>1, <2>2
  <2>4. \E e \in ledger' : e.actor = p
    <3>1. PICK new : new = [ref |-> Ref(p), actor |-> p]
      OBVIOUS
    <3>2. new \in ledger' /\ new.actor = p
      BY <3>1, CommitOnward
    <3>3. QED
      BY <3>2
  <2>5. Dated(p)'
    BY <1>3, <2>2, <2>3, <2>4 DEF Dated
  <2>6. clock' \in Nat
    BY <2>1, <2>2
  <2>7. QED
    BY <1>1, <1>2, <2>5, <2>6, EndedLocal
<1>5. /\ Exclusive' /\ \A l \in locks : l.owner # p => l \in locks'
      /\ \A l \in locks' : l \in locks
  BY ReleaseExclusive DEF RInv, Commit, Release
<1>6. ASSUME NEW q \in Clients \ {p}, pc[q] = "commit", NEW e \in ledger' PROVE e.ref # Ref(q)
  <2>1. LocalTx(q)
    BY DEF RInv
  <2>2. PICK k : k = [owner |-> p, row |-> <<"ledger", Ref(p)>>, mode |-> "UPDATE"]
    OBVIOUS
  <2>3. PICK l : l = [owner |-> q, row |-> <<"ledger", Ref(q)>>, mode |-> "UPDATE"]
    OBVIOUS
  <2>4. k \in locks /\ l \in locks /\ \A f \in ledger : f.ref # Ref(q)
    BY <1>1, <1>2, <1>6, <2>1, <2>2, <2>3 DEF LocalTx, Held
  <2>5. k.owner = p /\ l.owner = q /\ k.mode = "UPDATE" /\ l.mode = "UPDATE"
        /\ k.row = <<"ledger", Ref(p)>> /\ l.row = <<"ledger", Ref(q)>>
    BY <2>2, <2>3
  <2>6. Ref(p) # Ref(q)
    BY <2>4, <2>5 DEF RInv, Exclusive
  <2>7. ledger' = ledger \cup {[ref |-> Ref(p), actor |-> p]}
    BY CommitOnward
  <2>8. QED
    BY <1>6, <2>4, <2>6, <2>7
<1>7. \A q \in Clients \ {p} : LocalTx(q)'
  BY <1>1, <1>5, <1>6, CommitOnward, OthersStay
<1>8. /\ Acting' = Acting /\ \A q : Ref(q)' = Ref(q) /\ (Admitted(q)' <=> Admitted(q))
  BY <1>2, Unmoved
<1>9. clock' = Cardinality(Begun') + Cardinality(Ended')
  <2>1. /\ span[p].from # 0 /\ span[p].to = 0 /\ span'[p].from = span[p].from /\ span'[p].to = clock + 1
        /\ clock' = clock + 1 /\ clock \in Nat
    BY CommitOnward
  <2>2. p \notin Ended /\ p \in Ended' /\ p \in Begun /\ p \in Begun'
    BY <2>1 DEF Begun, Ended
  <2>3. \A q \in Clients \ {p} : (q \in Begun <=> q \in Begun') /\ (q \in Ended <=> q \in Ended')
    BY CommitOnward DEF Begun, Ended
  <2>4. Ended' = Ended \cup {p} /\ Begun' = Begun
    BY <2>2, <2>3 DEF Begun, Ended
  <2>5. Cardinality(Ended') = Cardinality(Ended) + 1
    BY <2>2, <2>4, RInvShaped, FS_AddElement
  <2>6. QED
    BY <2>1, <2>4, <2>5, RInvShaped DEF RInv
<1>10. /\ ledger' \subseteq [ref : {Ref(q)' : q \in Acting'}, actor : Acting']
       /\ \A e \in ledger' : e.ref = Ref(e.actor)' /\ Admitted(e.actor)'
  <2>1. ledger' = ledger \cup {[ref |-> Ref(p), actor |-> p]} /\ p \in Acting /\ Admitted(p)
    BY CommitOnward
  <2>2. QED
    BY <1>8, <2>1 DEF RInv
<1>11. files' \subseteq Clients /\ \A l \in locks' : l.owner \in Clients
  BY <1>2, <1>5 DEF RInv
<1>12. CommittedRows'
  BY CommitRows
<1>13. \E i \in DOMAIN Casts : cast' = Casts[i]
  BY <1>2 DEF RInv
<1>14. QED
  BY <1>3, <1>4, <1>5, <1>7, <1>9, <1>10, <1>11, <1>12, <1>13 DEF RInv

-----------------------------------------------------------------------------
(* The steps of a request.                                                 *)
LEMMA PlannedStep ==
  ASSUME RInv, NEW p \in Clients, NEW from, NEW to, Planned(p, from, to), ModeTypeOK',
         \/ from = "decide" /\ to = "run"
         \/ from = "run" /\ to = "record"
         \/ from = "record" /\ to = "ledger"
  PROVE  RInv'
<1>1. Shaped /\ LocalTx(p) /\ Onward
  BY RInvShaped, StillHere DEF RInv, Planned
<1>2. LocalTx(p)'
  BY <1>1, PlannedLocal
<1>3. Quiet(p)
  <2> PICK todo, read :
        /\ tx' = [tx EXCEPT ![p].todo = todo, ![p].read = read]
        /\ Goto(p, to) /\ files' \in {files, files \cup {p}}
        /\ UNCHANGED <<cast, db, ledger, clock, locks, span, answer>>
    BY DEF Planned
  <2>1. \E x : tx' = [tx EXCEPT ![p] = x]
    <3>1. tx' = [tx EXCEPT ![p] = [tx[p] EXCEPT !.todo = todo, !.read = read]]
      OBVIOUS
    <3>2. QED
      BY <3>1
  <2>2. to \in Modes /\ files' \subseteq Clients /\ Exclusive'
    BY DEF RInv, Modes, Exclusive
  <2>3. QED
    BY <2>1, <2>2 DEF Quiet, Goto
<1>4. QED
  BY <1>2, <1>3, QuietStep

LEMMA RollbackStep ==
  ASSUME RInv, NEW p \in Clients, Rollback(p), ModeTypeOK'
  PROVE  RInv'
<1>1. Shaped /\ LocalTx(p)
  BY RInvShaped DEF RInv
<1>2. /\ tx' = [tx EXCEPT ![p] = NoTx] /\ pc' = [pc EXCEPT ![p] = "answered"]
      /\ UNCHANGED <<cast, db, ledger, files, clock, span>>
  BY DEF Rollback, Answered
<1>3. LocalTx(p)'
  <2>1. pc'[p] = "answered"
    BY <1>1, <1>2 DEF Shaped
  <2>2. Dated(p)'
    BY <1>1, <1>2, <2>1 DEF LocalTx, Dated
  <2>3. clock' \in Nat
    BY <1>1, <1>2 DEF Shaped
  <2>4. QED
    BY <1>1, <1>2, <2>2, <2>3, EndedLocal
<1>4. /\ Exclusive' /\ \A l \in locks : l.owner # p => l \in locks'
      /\ \A l \in locks' : l \in locks
  BY ReleaseExclusive DEF RInv, Rollback, Release
<1>5. Quiet(p)
  BY <1>2, <1>4 DEF Quiet, RInv, Modes
<1>6. QED
  BY <1>3, <1>5, QuietStep

LEMMA MovedStep ==
  ASSUME RInv, NEW p \in Clients, ModeTypeOK', NEW to \in Modes,
         pc' = [pc EXCEPT ![p] = to],
         UNCHANGED <<cast, db, ledger, files, clock, locks, tx, span>>,
         ~Running(p),
         \/ to \in Modes \ {"new", "begin", "decide", "run", "record", "ledger", "commit"}
         \/ pc[p] = "new" /\ to = "begin" /\ p \in Acting /\ Admitted(p)
  PROVE  RInv'
<1>1. Shaped /\ LocalTx(p) /\ Onward
  BY RInvShaped, StillHere DEF RInv
<1>2. LocalTx(p)'
  <2>1. tx[p].todo = <<>>
    BY <1>1 DEF LocalTx, Running
  <2>2. QED
    BY <1>1, <2>1, MovedLocal
<1>3. Quiet(p)
  BY DEF Quiet, RInv, Exclusive
<1>4. QED
  BY <1>2, <1>3, QuietStep

LEMMA ActionStepInv ==
  ASSUME RInv, NEW p \in Clients, ActionNext(p), ModeTypeOK'
  PROVE  RInv'
<1>1. Shaped /\ LocalTx(p) /\ Cast /\ CommittedRows /\ Exclusive
  BY RInvShaped DEF RInv
<1>2. CASE ReceiveAction(p)
  <2>1. p \in Acting /\ pc[p] = "new"
    BY <1>1, <1>2 DEF ReceiveAction, LocalTx, Acting
  <2>2. \/ pc' = [pc EXCEPT ![p] = "answered"]
        \/ pc' = [pc EXCEPT ![p] = "begin"] /\ Admitted(p)
    <3>1. CASE Admitted(p)
      BY <1>2, <3>1 DEF ReceiveAction, Answered, Goto
    <3>2. CASE ~Admitted(p)
      <4>1. Answered(p, Refusal(Input(p)))
        BY <1>2, <3>2, Zenon DEF ReceiveAction, Admitted
      <4>2. QED
        BY <4>1 DEF Answered
    <3>3. QED
      BY <3>1, <3>2
  <2>3. UNCHANGED <<cast, db, ledger, files, clock, locks, tx, span>>
    BY <1>2 DEF ReceiveAction
  <2>4. ~Running(p)
    BY <2>1 DEF Running
  <2>5. QED
    BY <2>1, <2>2, <2>3, <2>4, MovedStep DEF Modes
<1>3. CASE Begin(p)
  BY <1>3, BeginStep
<1>4. CASE ConnectFails(p)
  <2>1. pc' = [pc EXCEPT ![p] = "answered"] /\ UNCHANGED <<cast, db, ledger, files, clock, locks, tx, span>>
    BY <1>4 DEF ConnectFails, Answered
  <2>2. ~Running(p)
    BY <1>4 DEF ConnectFails, Running
  <2>3. QED
    BY <2>1, <2>2, MovedStep DEF Modes
<1>5. CASE DecideMutation(p)
  <2>1. p \in Acting /\ Admitted(p)
    BY <1>1, <1>5 DEF DecideMutation, LocalTx
  <2>2. Planned(p, "decide", "run")
    BY <1>1, <1>5, <2>1, DecideMutationPlans
  <2>3. QED
    BY <2>2, PlannedStep
<1>6. CASE SelectRows(p)
  <2>0. Onward
    BY <1>6, StillHere DEF SelectRows
  <2>1. LocalTx(p)'
    BY <1>1, <1>6, <2>0, SelectLocal
  <2>2. \E x : tx' = [tx EXCEPT ![p] = x]
    <3> PICK s : tx' = [tx EXCEPT ![p].todo[1] = s]
      BY <1>6 DEF SelectRows
    <3>1. tx' = [tx EXCEPT ![p] = [tx[p] EXCEPT !.todo = [tx[p].todo EXCEPT ![1] = s]]]
      OBVIOUS
    <3>2. QED
      BY <3>1
  <2>3. pc' = [pc EXCEPT ![p] = pc[p]] /\ pc[p] \in Modes
    BY <1>1, <1>6 DEF SelectRows, Shaped
  <2>4. Quiet(p)
    BY <1>1, <1>6, <2>2, <2>3 DEF SelectRows, Quiet, RInv, Exclusive
  <2>5. QED
    BY <2>1, <2>4, QuietStep
<1>7. CASE RunStatement(p)
  <2>0. Onward
    BY <1>7, StillHere DEF RunStatement
  <2>1. LocalTx(p)'
    BY <1>1, <1>7, <2>0, RunLocal
  <2>2. \E x : tx' = [tx EXCEPT ![p] = x]
    <3> PICK w, todo : tx' = [tx EXCEPT ![p].writes = w, ![p].todo = todo]
      BY <1>7 DEF RunStatement
    <3>1. tx' = [tx EXCEPT ![p] = [tx[p] EXCEPT !.writes = w, !.todo = todo]]
      OBVIOUS
    <3>2. QED
      BY <3>1
  <2>3. pc' = [pc EXCEPT ![p] = pc[p]] /\ pc[p] \in Modes
    BY <1>1, <1>7 DEF RunStatement, Shaped
  <2> PICK wants : wants = Wants(p, Head(tx[p].todo))
    OBVIOUS
  <2>4. Acquire(p, wants)
    BY <1>7 DEF RunStatement
  <2>5. Exclusive' /\ \A l \in locks : l \in locks'
    BY <1>1, <2>4, AcquireExclusive
  <2>6. \A l \in locks' : l \in locks \/ l.owner = p
    BY <2>4 DEF Acquire
  <2>7. Quiet(p)
    BY <1>7, <2>2, <2>3, <2>5, <2>6 DEF RunStatement, Quiet, RInv
  <2>8. QED
    BY <2>1, <2>7, QuietStep
<1>8. CASE Finish(p)
  BY <1>8, FinishPlans, PlannedStep
<1>9. CASE EndStatements(p)
  <2>1. Planned(p, "record", "ledger")
    BY <1>9, ProperNil DEF EndStatements, Plan, Planned
  <2>2. QED
    BY <2>1, PlannedStep
<1>10. CASE InsertEvidence(p)
  <2>1. CASE \E e \in ledger : e.ref = Ref(p)
    BY <1>10, <2>1, RollbackStep DEF InsertEvidence
  <2>2. CASE ~ \E e \in ledger : e.ref = Ref(p)
    <3> PICK wants : wants = {Want(<<"ledger", Ref(p)>>, "UPDATE")}
      OBVIOUS
    <3>1. /\ Acquire(p, wants) /\ Goto(p, "commit") /\ pc[p] = "ledger"
          /\ UNCHANGED <<cast, db, ledger, files, clock, tx, span, answer>>
      BY <1>10, <2>2 DEF InsertEvidence
    <3>0. Onward
      BY <3>1, StillHere
    <3>2. LocalTx(p)'
      BY <1>1, <2>2, <3>0, <3>1, InsertLocal
    <3>3. Exclusive' /\ \A l \in locks : l \in locks'
      BY <1>1, <3>1, AcquireExclusive
    <3>4. \A l \in locks' : l \in locks \/ l.owner = p
      BY <3>1 DEF Acquire
    <3>5. Quiet(p)
      BY <3>1, <3>3, <3>4 DEF Quiet, RInv, Goto, Modes
    <3>6. QED
      BY <3>2, <3>5, QuietStep
  <2>3. QED
    BY <2>1, <2>2
<1>11. CASE Commit(p)
  BY <1>11, CommitStep
<1>12. CASE Fault(p) \/ CancelDeadlocked(p)
  BY <1>12, RollbackStep DEF Fault, CancelDeadlocked
<1>13. QED
  BY <1>2, <1>3, <1>4, <1>5, <1>6, <1>7, <1>8, <1>9, <1>10, <1>11, <1>12 DEF ActionNext

ViewModes == {"data", "summary", "reasons", "synth", "boundary", "isolation", "answered"}

LEMMA ViewMoves ==
  ASSUME NEW p, ViewNext(p)
  PROVE  /\ \E to \in ViewModes : pc' = [pc EXCEPT ![p] = to]
         /\ ~Running(p)
         /\ UNCHANGED <<cast, db, ledger, files, clock, locks, tx, span>>
<1>0. ~Running(p)
  <2>1. pc[p] \in {"new", "data", "summary", "reasons", "synth", "boundary", "isolation"}
    BY Zenon DEF ViewNext, ReceiveView, LoadData, LoadSummary, LoadReasons, Synthesize, LoadBoundary, LoadIsolation
  <2>2. QED
    BY <2>1 DEF Running
<1>1. ASSUME NEW b, Collect(p, b)
      PROVE  \E to \in ViewModes : pc' = [pc EXCEPT ![p] = to]
  BY <1>1 DEF Collect, Goto, Answered, ViewModes
<1>2. CASE ReceiveView(p)
  BY <1>0, <1>2 DEF ReceiveView, Goto, Answered, ViewModes, viewUnchanged
<1>3. CASE LoadData(p)
  BY <1>0, <1>3 DEF LoadData, Goto, ViewModes, viewUnchanged
<1>4. CASE LoadSummary(p)
  BY <1>0, <1>4 DEF LoadSummary, Goto, ViewModes, viewUnchanged
<1>5. CASE LoadReasons(p)
  <2>1. (\E b : Collect(p, b)) \/ Goto(p, "synth")
    BY <1>5, Zenon DEF LoadReasons
  <2>2. \E to \in ViewModes : pc' = [pc EXCEPT ![p] = to]
    BY <1>1, <2>1 DEF Goto, ViewModes
  <2>3. viewUnchanged
    BY <1>5 DEF LoadReasons
  <2>4. QED
    BY <1>0, <2>2, <2>3 DEF viewUnchanged
<1>6. CASE Synthesize(p)
  <2>1. \E b : Collect(p, b)
    BY <1>6, Zenon DEF Synthesize
  <2>2. QED
    BY <1>0, <1>1, <1>6, <2>1 DEF Synthesize, viewUnchanged
<1>7. CASE LoadBoundary(p)
  BY <1>0, <1>7 DEF LoadBoundary, Goto, ViewModes, viewUnchanged
<1>8. CASE LoadIsolation(p)
  BY <1>0, <1>8 DEF LoadIsolation, Answered, ViewModes, viewUnchanged
<1>9. QED
  BY <1>2, <1>3, <1>4, <1>5, <1>6, <1>7, <1>8 DEF ViewNext

LEMMA RInvStep == ASSUME RInv, [PlaneNext]_vars PROVE RInv'
<1>1. ASSUME UNCHANGED storeVars, ModeTypeOK' PROVE RInv'
  <2>1. UNCHANGED <<cast, db, ledger, files, clock, locks, pc, tx, span>>
    BY <1>1 DEF storeVars
  <2>2. Onward /\ CommittedRows /\ \A q \in Clients : LocalTx(q)
    BY <2>1, StillHere DEF RInv
  <2>3. ASSUME NEW q \in Clients PROVE LocalTx(q)'
    <3>1. pc[q] = "commit" => /\ [owner |-> q, row |-> <<"ledger", Ref(q)>>, mode |-> "UPDATE"] \in locks'
                              /\ \A e \in ledger' : e.ref # Ref(q)
      BY <2>1, <2>2 DEF LocalTx, Held
    <3>2. QED
      BY <2>1, <2>2, <3>1, Undisturbed
  <2>4. /\ Begun' = Begun /\ Ended' = Ended /\ Acting' = Acting
        /\ \A q : Ref(q)' = Ref(q) /\ (Admitted(q)' <=> Admitted(q))
    BY <2>1, Unmoved DEF Begun, Ended
  <2>5. CommittedRows' /\ Exclusive'
    BY <2>1, <2>2, RowsKept DEF RInv, Exclusive
  <2>6. /\ ledger' \subseteq [ref : {Ref(q)' : q \in Acting'}, actor : Acting']
        /\ \A e \in ledger' : e.ref = Ref(e.actor)' /\ Admitted(e.actor)'
    BY <2>1, <2>4 DEF RInv
  <2>7. QED
    BY <1>1, <2>1, <2>3, <2>4, <2>5, <2>6 DEF RInv
<1>2. ASSUME UNCHANGED modeVars PROVE ModeTypeOK'
  BY <1>2, ModeStepTyped DEF RInv
<1>3. CASE ModeStep
  <2>1. ModeNext
    BY <1>3 DEF ModeStep, ModeNext
  <2>2. QED
    BY <1>1, <1>3, <2>1, ModeStepTyped DEF ModeStep, RInv
<1>4. ASSUME NEW p \in Clients, ActionStep(p) PROVE RInv'
  BY <1>2, <1>4, ActionStepInv DEF ActionStep
<1>5. ASSUME NEW p \in Clients, ViewStep(p) PROVE RInv'
  <2>1. ModeTypeOK'
    BY <1>2, <1>5 DEF ViewStep
  <2> PICK to \in ViewModes : pc' = [pc EXCEPT ![p] = to]
    BY <1>5, ViewMoves DEF ViewStep
  <2>2. to \in Modes \ {"new", "begin", "decide", "run", "record", "ledger", "commit"} /\ to \in Modes
    BY DEF ViewModes, Modes
  <2>3. QED
    BY <1>5, <2>1, <2>2, ViewMoves, MovedStep DEF ViewStep
<1>6. CASE UNCHANGED vars
  BY <1>1, <1>2, <1>6 DEF vars
<1>7. QED
  BY <1>3, <1>4, <1>5, <1>6 DEF PlaneNext, ClientStep

LEMMA RInvInit == ASSUME PlaneInit PROVE RInv
<1> PICK i \in DOMAIN Casts : cast = Casts[i]
  BY DEF PlaneInit
<1>1. ModeTypeOK
  <2>1. ModeInit
    BY DEF PlaneInit
  <2>2. Idle \in [at : Stages \cup {"idle"}, found : BOOLEAN, since : 0 .. MaxChanges]
    BY RuntimeModeAssumption DEF Idle
  <2>3. probes \in [Probes -> [at : Stages \cup {"idle"}, found : BOOLEAN, since : 0 .. MaxChanges]]
    BY <2>1, <2>2 DEF ModeInit
  <2>4. changes \in 0 .. MaxChanges /\ heard \in 0 .. Never
    BY <2>1, RuntimeModeAssumption DEF ModeInit, Never
  <2>5. boot \in {"migrate", "probe"}
    BY <2>1 DEF ModeInit
  <2>6. configured \in BOOLEAN /\ apis \in BOOLEAN
    BY <2>1, Zenon DEF ModeInit
  <2>7. QED
    BY <2>1, <2>3, <2>4, <2>5, <2>6 DEF ModeInit, ModeTypeOK
<1>2. ASSUME NEW r \in DOMAIN db PROVE IsRow(db[r]) /\ Accounted(db[r]) /\ db[r].by = "seed" /\ Seeded(r, db[r].v)
  <2>1. db[r] = [by |-> "seed", t |-> 0, v |-> db[r].v] /\ clock = 0
    BY <1>2, RoomAssumption DEF PlaneInit
  <2>2. SeedsExplained(db)
    BY RoomAssumption DEF PlaneInit
  <2>3. Seeded(r, db[r].v)
    BY <1>2, <2>2 DEF SeedsExplained, Seeded
  <2>4. QED
    BY <2>1, <2>3 DEF IsRow, Accounted
<1>3. CommittedRows
  BY <1>2 DEF PlaneInit, CommittedRows
<1>4. ASSUME NEW p \in Clients PROVE LocalTx(p)
  <2>1. /\ tx[p] = NoTx /\ span[p] = [from |-> 0, to |-> 0] /\ clock = 0
        /\ pc[p] = IF cast.requests[p] = None THEN "answered" ELSE "new"
    BY DEF PlaneInit
  <2>2. /\ DOMAIN NoTx = {"t", "writes", "todo", "read"} /\ NoTx.t = 0 /\ NoTx.todo = <<>>
        /\ DOMAIN NoTx.writes = {} /\ IsList(<<>>) /\ Len(<<>>) = 0
    BY ShortLists DEF NoTx, NoWrites
  <2>3. Pending(p) /\ Brings(p) /\ Coloured(p) /\ Held(p) /\ Dated(p)
    BY <2>1, <2>2 DEF Pending, Brings, Coloured, Held, Dated, Running, Late
  <2>4. 1 .. Len(tx[p].todo) = {} /\ IsList(tx[p].todo) /\ tx[p].t \in 0 .. clock
        /\ DOMAIN tx[p] = {"t", "writes", "todo", "read"} /\ tx[p].todo = <<>> /\ DOMAIN tx[p].writes = {}
    BY <2>1, <2>2
  <2>5. pc[p] \in {"answered", "new"} /\ (pc[p] = "new" => Input(p) # None)
    BY <2>1 DEF Input
  <2>6. QED
    BY <2>3, <2>4, <2>5 DEF LocalTx
<1>5. Begun = {} /\ Ended = {}
  BY DEF PlaneInit, Begun, Ended
<1>6. clock = Cardinality(Begun) + Cardinality(Ended)
  <2>1. clock = 0
    BY DEF PlaneInit
  <2>2. QED
    BY <1>5, <2>1, FS_EmptySet
<1>7. pc \in [Clients -> Modes] /\ DOMAIN tx = Clients /\ DOMAIN span = Clients
  BY DEF PlaneInit, Modes
<1>8. Exclusive /\ files \subseteq Clients /\ ledger = {} /\ locks = {}
  BY DEF PlaneInit, Exclusive
<1>9. QED
  BY <1>1, <1>3, <1>4, <1>6, <1>7, <1>8 DEF RInv

-----------------------------------------------------------------------------
(* What a request leaves in the tables of the rooms and its evidence come  *)
(* together or not at all, and under one evidence reference at most one    *)
(* request is applied: however many requests come together, whatever they  *)
(* find, wherever a connection fails or a deadlock is broken, and whatever *)
(* the runtime mode does meanwhile (room-contract.ts:3686-3816).           *)
THEOREM RoomsTheorem == PlaneSpec => []RowsOnRecord
<1>1. PlaneInit => RInv
  BY RInvInit
<1>2. RInv /\ [PlaneNext]_vars => RInv'
  BY RInvStep
<1>3. RInv => RowsOnRecord
  <2> SUFFICES ASSUME RInv PROVE RowsOnRecord
    OBVIOUS
  <2>1. PlaneTypeOK
    <3>1. clock \in 0 .. 2 * Cardinality(Clients)
      BY RInvShaped DEF RInv
    <3>2. ASSUME NEW r \in DOMAIN db PROVE db[r].by \in Clients \cup {"seed"} /\ db[r].t \in 0 .. clock
      BY <3>2 DEF RInv, CommittedRows, IsRow, Accounted, Acting
    <3>3. QED
      BY <3>1, <3>2 DEF PlaneTypeOK, RInv
  <2>2. EvidenceForEveryAction
    <3> SUFFICES ASSUME NEW p \in Acting
                 PROVE  (\E r \in DOMAIN db : db[r].by = p) <=> \E e \in ledger : e.actor = p /\ e.ref = Ref(p)
      BY DEF EvidenceForEveryAction
    <3>1. ASSUME NEW r \in DOMAIN db, db[r].by = p
          PROVE  \E e \in ledger : e.actor = p /\ e.ref = Ref(p)
      <4>1. p # "seed"
        BY RoomAssumption DEF Acting
      <4>2. PICK e \in ledger : e.actor = p
        BY <3>1, <4>1 DEF RInv, CommittedRows, Accounted
      <4>3. QED
        BY <4>2 DEF RInv
    <3>2. ASSUME NEW e \in ledger, e.actor = p
          PROVE  \E r \in DOMAIN db : db[r].by = p
      BY <3>2 DEF RInv, CommittedRows
    <3>3. QED
      BY <3>1, <3>2
  <2>3. RefAppliedOnce
    <3> SUFFICES ASSUME NEW p \in Acting, NEW q \in Acting, Ref(p) = Ref(q),
                        \E r \in DOMAIN db : db[r].by = p, \E r \in DOMAIN db : db[r].by = q
                 PROVE  p = q
      BY DEF RefAppliedOnce
    <3>1. PICK e \in ledger : e.actor = p /\ e.ref = Ref(p)
      BY <2>2 DEF EvidenceForEveryAction
    <3>2. PICK f \in ledger : f.actor = q /\ f.ref = Ref(q)
      BY <2>2 DEF EvidenceForEveryAction
    <3>3. e = f
      BY <3>1, <3>2 DEF RInv, CommittedRows
    <3>4. QED
      BY <3>1, <3>2, <3>3
  <2>4. QED
    BY <2>1, <2>2, <2>3 DEF RowsOnRecord
<1>4. QED
  BY <1>1, <1>2, <1>3, PTL DEF PlaneSpec

-----------------------------------------------------------------------------
(* What is decided, shown and explained.  A step is a commit or leaves the *)
(* rows alone, and moves the transaction of one request at most.           *)
Rests(p) == Running(p) /\ tx[p].todo = <<>> /\ tx'[p].todo = <<>> /\ tx'[p].writes = tx[p].writes

Moves(p) ==
  /\ db' = db /\ span'[p].to = span[p].to
  /\ Running(p)' => span'[p] = span[p]
  /\ ~Running(p)' \/ DecideMutation(p) \/ SelectRows(p) \/ RunStatement(p) \/ Finish(p) \/ Rests(p)

Alone(p) == Onward /\ \A q \in Clients \ {p} : tx'[q] = tx[q] /\ pc'[q] = pc[q] /\ span'[q] = span[q]

LEMMA RollbackMoves ==
  ASSUME RInv, NEW p \in Clients, Rollback(p)
  PROVE  Alone(p) /\ Moves(p)
<1>1. Shaped /\ Onward
  BY RInvShaped, StillHere DEF Rollback
<1>2. /\ tx' = [tx EXCEPT ![p] = NoTx] /\ pc' = [pc EXCEPT ![p] = "answered"] /\ db' = db /\ span' = span
  BY DEF Rollback, Answered
<1>3. ~Running(p)'
  BY <1>1, <1>2 DEF Shaped, Running
<1>4. QED
  BY <1>1, <1>2, <1>3 DEF Alone, Moves, Shaped

LEMMA PcMoves ==
  ASSUME RInv, NEW p \in Clients, NEW to, to \notin {"run", "record", "ledger", "commit"},
         pc' = [pc EXCEPT ![p] = to], UNCHANGED <<cast, db, ledger, clock, tx, span>>
  PROVE  Alone(p) /\ Moves(p)
<1>1. Shaped /\ Onward
  BY RInvShaped, StillHere
<1>2. ~Running(p)'
  BY <1>1 DEF Shaped, Running
<1>3. QED
  BY <1>1, <1>2 DEF Alone, Moves, Shaped

LEMMA PlannedMoves ==
  ASSUME RInv, NEW p \in Clients, NEW from, NEW to, Planned(p, from, to)
  PROVE  /\ Alone(p) /\ db' = db /\ span' = span
         /\ tx'[p].writes = tx[p].writes /\ pc[p] = from /\ pc'[p] = to
<1>1. Shaped /\ Onward /\ LocalTx(p)
  BY RInvShaped, StillHere DEF Planned, RInv
<1>2. PICK todo, read :
        /\ pc[p] = from
        /\ tx' = [tx EXCEPT ![p].todo = todo, ![p].read = read]
        /\ Goto(p, to)
        /\ UNCHANGED <<cast, db, ledger, clock, locks, span, answer>>
  BY Zenon DEF Planned
<1>3. tx'[p].writes = tx[p].writes
  BY <1>1, <1>2, PlannedTx
<1>4. QED
  BY <1>1, <1>2, <1>3 DEF Alone, Shaped, Goto

LEMMA ActionMoves ==
  ASSUME RInv, NEW p \in Clients, ActionNext(p)
  PROVE  Alone(p) /\ (Commit(p) \/ Moves(p))
<1>1. Shaped /\ LocalTx(p) /\ Cast
  BY RInvShaped DEF RInv
<1>2. CASE ReceiveAction(p)
  <2>1. \E to : to \notin {"run", "record", "ledger", "commit"} /\ pc' = [pc EXCEPT ![p] = to]
    <3>1. CASE Goto(p, "begin")
      BY <3>1 DEF Goto
    <3>2. CASE \E code : Answered(p, code)
      BY <3>2 DEF Answered
    <3>3. QED
      BY <1>2, <3>1, <3>2, Zenon DEF ReceiveAction
  <2>2. UNCHANGED <<cast, db, ledger, clock, tx, span>>
    BY <1>2 DEF ReceiveAction
  <2>3. QED
    BY <2>1, <2>2, PcMoves
<1>3. CASE Begin(p)
  <2>1. db' = db /\ pc'[p] = "decide" /\ Alone(p) /\ span'[p].to = span[p].to
    BY <1>1, <1>3, BeginOnward DEF Begin, Goto, Shaped, Alone
  <2>2. QED
    BY <2>1 DEF Moves, Running
<1>4. CASE ConnectFails(p)
  BY <1>4, PcMoves DEF ConnectFails, Answered
<1>5. CASE DecideMutation(p)
  <2>1. p \in Acting /\ Admitted(p)
    BY <1>1, <1>5 DEF DecideMutation, LocalTx
  <2>2. Planned(p, "decide", "run")
    BY <1>1, <1>5, <2>1, DecideMutationPlans
  <2>3. QED
    BY <1>5, <2>2, PlannedMoves DEF Moves
<1>6. CASE SelectRows(p)
  <2>1. Onward
    BY <1>6, StillHere DEF SelectRows
  <2>2. PICK s : tx' = [tx EXCEPT ![p].todo[1] = s]
    BY <1>6 DEF SelectRows
  <2>3. QED
    BY <1>1, <1>6, <2>1, <2>2 DEF SelectRows, Alone, Moves, Shaped
<1>7. CASE RunStatement(p)
  <2>1. Onward
    BY <1>7, StillHere DEF RunStatement
  <2>2. PICK w, todo : tx' = [tx EXCEPT ![p].writes = w, ![p].todo = todo]
    BY <1>7 DEF RunStatement
  <2>3. UNCHANGED <<db, pc, span>>
    BY <1>7 DEF RunStatement
  <2>4. QED
    BY <1>1, <1>7, <2>1, <2>2, <2>3 DEF Alone, Moves, Shaped
<1>8. CASE Finish(p)
  <2>1. Planned(p, "run", "record")
    BY <1>8, FinishPlans
  <2>2. QED
    BY <1>8, <2>1, PlannedMoves DEF Moves
<1>9. CASE EndStatements(p)
  <2>1. Planned(p, "record", "ledger")
    BY <1>9, ProperNil DEF EndStatements, Plan, Planned
  <2>2. tx[p].todo = <<>> /\ tx'[p].todo = <<>>
    <3>1. tx' = [tx EXCEPT ![p].todo = <<>>, ![p].read = {}]
      BY <1>9 DEF EndStatements, Plan
    <3>2. QED
      BY <1>1, <1>9, <3>1, PlannedTx DEF EndStatements
  <2>3. Running(p) /\ tx'[p].writes = tx[p].writes
    BY <2>1, PlannedMoves DEF Running
  <2>4. Rests(p)
    BY <2>2, <2>3 DEF Rests
  <2>5. QED
    BY <2>1, <2>4, PlannedMoves DEF Moves
<1>10. CASE InsertEvidence(p)
  <2>1. CASE \E e \in ledger : e.ref = Ref(p)
    BY <1>10, <2>1, RollbackMoves DEF InsertEvidence
  <2>2. CASE ~ \E e \in ledger : e.ref = Ref(p)
    <3>1. /\ Goto(p, "commit") /\ pc[p] = "ledger"
          /\ UNCHANGED <<cast, db, ledger, files, clock, tx, span, answer>>
      BY <1>10, <2>2 DEF InsertEvidence
    <3>2. Onward
      BY <3>1, StillHere
    <3>3. tx[p].todo = <<>> /\ Running(p)
      BY <1>1, <3>1 DEF LocalTx, Running
    <3>4. Rests(p)
      BY <3>1, <3>3 DEF Rests
    <3>5. QED
      BY <1>1, <3>1, <3>2, <3>4 DEF Alone, Moves, Shaped, Goto
  <2>3. QED
    BY <2>1, <2>2
<1>11. CASE Commit(p)
  BY <1>11, CommitOnward DEF Alone
<1>12. CASE Fault(p) \/ CancelDeadlocked(p)
  BY <1>12, RollbackMoves DEF Fault, CancelDeadlocked
<1>13. QED
  BY <1>2, <1>3, <1>4, <1>5, <1>6, <1>7, <1>8, <1>9, <1>10, <1>11, <1>12 DEF ActionNext

LEMMA StepMoves ==
  ASSUME RInv, [PlaneNext]_vars
  PROVE  \/ Onward /\ UNCHANGED <<db, tx, pc, span>>
         \/ \E p \in Clients : Alone(p) /\ (Commit(p) \/ Moves(p))
<1>1. ASSUME UNCHANGED storeVars PROVE Onward /\ UNCHANGED <<db, tx, pc, span>>
  BY <1>1, StillHere DEF storeVars
<1>2. CASE ModeStep
  BY <1>1, <1>2 DEF ModeStep
<1>3. ASSUME NEW p \in Clients, ActionStep(p) PROVE Alone(p) /\ (Commit(p) \/ Moves(p))
  BY <1>3, ActionMoves DEF ActionStep
<1>4. ASSUME NEW p \in Clients, ViewStep(p) PROVE Alone(p) /\ (Commit(p) \/ Moves(p))
  <2>1. PICK to \in ViewModes : pc' = [pc EXCEPT ![p] = to]
    BY <1>4, ViewMoves DEF ViewStep
  <2>2. to \notin {"run", "record", "ledger", "commit"}
    BY <2>1 DEF ViewModes
  <2>3. UNCHANGED <<cast, db, ledger, clock, tx, span>>
    BY <1>4, ViewMoves DEF ViewStep
  <2>4. QED
    BY <2>1, <2>2, <2>3, PcMoves
<1>5. CASE UNCHANGED vars
  BY <1>1, <1>5 DEF vars
<1>6. QED
  BY <1>2, <1>3, <1>4, <1>5 DEF PlaneNext, ClientStep

-----------------------------------------------------------------------------
(* Summaries and their reasons.                                            *)
LEMMA ByCommitted ==
  ASSUME RInv, NEW r \in DOMAIN db, NEW q, q = db[r].by, q # "seed"
  PROVE  /\ q \in Acting /\ q \in Clients /\ Holds(q, db[r].t, r, db[r].v)
         /\ span[q] \in [from : 0 .. clock, to : 0 .. clock] /\ clock \in Nat
         /\ span[q].from # 0 /\ span[q].to # 0 /\ span[q].from < span[q].to
         /\ db[r].t = span[q].from
<1>1. Accounted(db[r]) /\ Holds(q, db[r].t, r, db[r].v)
  BY RInvShaped DEF CommittedRows
<1>2. (\E e \in ledger : e.actor = q) /\ db[r].t = span[q].from /\ span[q].to # 0
  BY <1>1 DEF Accounted
<1>3. q \in Acting /\ q \in Clients /\ clock \in Nat
  BY <1>2, RInvShaped DEF Shaped
<1>4. Dated(q)
  BY <1>3 DEF RInv, LocalTx
<1>5. QED
  BY <1>1, <1>2, <1>3, <1>4 DEF Dated

(* The rows that the boot left.                                            *)
LEMMA BySeed ==
  ASSUME RInv, NEW r \in DOMAIN db, db[r].by = "seed"
  PROVE  db[r].t = 0 /\ Seeded(r, db[r].v)
<1>1. Accounted(db[r]) /\ Seeded(r, db[r].v)
  BY RInvShaped DEF CommittedRows
<1>2. \A e \in ledger : e.actor # "seed"
  BY RInvShaped, RoomAssumption
<1>3. QED
  BY <1>1, <1>2 DEF Accounted

LEMMA CommittedSpans ==
  ASSUME RInv, Onward, NEW r \in DOMAIN db, NEW q, q = db[r].by, q # "seed"
  PROVE  span'[q] = span[q]
BY ByCommitted DEF Onward

(* The request that commits is in none of the committed rows.              *)
LEMMA NotYetThere ==
  ASSUME RInv, NEW p \in Clients, Commit(p), NEW r \in DOMAIN db
  PROVE  db[r].by # p
BY ByCommitted, CommitOnward

LEMMA SummaryRow ==
  ASSUME RInv, NEW r \in RowsOf(db, "summary")
  PROVE  r = <<"summary", r[2]>>
<1>1. r \in DOMAIN db /\ r[1] = "summary"
  BY DEF RowsOf
<1>2. CASE db[r].by = "seed"
  BY <1>1, <1>2, BySeed DEF Seeded
<1>3. CASE db[r].by # "seed"
  <2>1. \E q : r = <<"summary", Input(q).room>>
    BY <1>1, <1>3, ByCommitted DEF Holds
  <2>2. QED
    BY <2>1
<1>4. QED
  BY <1>2, <1>3

LEMMA SummariesStay ==
  ASSUME RInv, Onward, SummariesSound, db' = db
  PROVE  SummariesSound'
<1>1. \A r \in DOMAIN db : db[r].by # "seed" => span'[db[r].by] = span[db[r].by]
  BY CommittedSpans
<1>2. ASSUME NEW r \in RowsOf(db, "summary"), db[r].v.patch.status # "green"
      PROVE  \E k \in ReasonRows(r[2]) :
               /\ db[k].by = db[r].by
               /\ db[k].v.code = db[r].v.patch.code /\ db[k].v.ref = db[r].v.ref
  BY <1>2 DEF SummariesSound
<1>3. ASSUME NEW k \in RowsOf(db, "reason"), db[k].by # "seed", NEW row, row = <<"summary", db[k].v.room>>
      PROVE  row \in DOMAIN db /\ db[row].by # "seed" /\ span'[db[k].by].to <= span'[db[row].by].to
  <2>1. row \in DOMAIN db /\ db[row].by # "seed" /\ span[db[k].by].to <= span[db[row].by].to
    BY <1>3 DEF SummariesSound
  <2>2. k \in DOMAIN db
    BY DEF RowsOf
  <2>3. span'[db[k].by] = span[db[k].by] /\ span'[db[row].by] = span[db[row].by]
    BY <1>1, <1>3, <2>1, <2>2
  <2>4. QED
    BY <2>1, <2>3
<1>4. QED
  BY <1>2, <1>3 DEF SummariesSound, ReasonRows, RowsOf

(* What p writes about its room.                                           *)
LEMMA CommitColours ==
  ASSUME RInv, NEW p \in Clients, Commit(p), NEW w, w = tx[p].writes,
         NEW sum, sum = <<"summary", Input(p).room>>, NEW why, why = <<"reason", p>>
  PROVE  /\ \A r \in DOMAIN w : (r[1] = "summary" => r = sum) /\ (r[1] = "reason" => r = why)
         /\ sum \in DOMAIN w => /\ sum \in DOMAIN db' /\ db'[sum] = w[sum] /\ w[sum].by = p
                                /\ w[sum].v.ref = Ref(p)
                                /\ w[sum].v.patch.status # "green" => why \in DOMAIN w
         /\ why \in DOMAIN w => /\ why \in DOMAIN db' /\ db'[why] = w[why] /\ w[why].by = p
                                /\ w[why].v.room = Input(p).room /\ w[why].v.ref = Ref(p)
                                /\ sum \in DOMAIN w /\ w[why].v.code = w[sum].v.patch.code
<1>1. ASSUME NEW r \in DOMAIN w, r[1] \in {"summary", "reason"}
      PROVE  w[r] # Gone /\ w[r].by = p /\ Holds(p, w[r].t, r, w[r].v) /\ r \in DOMAIN db' /\ db'[r] = w[r]
  <2>1. OwnWrite(p, r, w[r])
    BY <1>1, CommitWrites
  <2>2. w[r] # Gone /\ w[r].by = p /\ Holds(p, w[r].t, r, w[r].v)
    BY <1>1, <2>1, OwnRow
  <2>3. QED
    BY <1>1, <2>2, CommitWrites
<1>2. Agree(Wrote(w, sum), Wrote(w, why))
  <2>1. Coloured(p) /\ Late(p)
    BY DEF RInv, LocalTx, Commit, Late
  <2>2. Agree(Assigned(p, sum), Assigned(p, why))
    BY <2>1 DEF Coloured
  <2>3. Assigned(p, sum) = Wrote(w, sum) /\ Assigned(p, why) = Wrote(w, why)
    BY CommitWrites
  <2>4. QED
    BY <2>2, <2>3
<1>3. /\ sum \in DOMAIN w => Wrote(w, sum) = {w[sum].v}
      /\ sum \notin DOMAIN w => Wrote(w, sum) = {}
      /\ why \in DOMAIN w => Wrote(w, why) = {w[why].v}
      /\ why \notin DOMAIN w => Wrote(w, why) = {}
  BY DEF Wrote
<1>4. sum[1] = "summary" /\ why[1] = "reason"
  OBVIOUS
<1>5. \A r \in DOMAIN w : (r[1] = "summary" => r = sum) /\ (r[1] = "reason" => r = why)
  BY <1>1 DEF Holds
<1>6. ASSUME sum \in DOMAIN w
      PROVE  /\ sum \in DOMAIN db' /\ db'[sum] = w[sum] /\ w[sum].by = p /\ w[sum].v.ref = Ref(p)
             /\ w[sum].v.patch.status # "green" => why \in DOMAIN w
  <2>1. w[sum].v.patch.status # "green" => why \in DOMAIN w
    BY <1>2, <1>3, <1>6 DEF Agree
  <2>2. QED
    BY <1>1, <1>4, <1>6, <2>1 DEF Holds
<1>7. ASSUME why \in DOMAIN w
      PROVE  /\ why \in DOMAIN db' /\ db'[why] = w[why] /\ w[why].by = p
             /\ w[why].v.room = Input(p).room /\ w[why].v.ref = Ref(p)
             /\ sum \in DOMAIN w /\ w[why].v.code = w[sum].v.patch.code
  <2>1. sum \in DOMAIN w
    BY <1>2, <1>3, <1>7 DEF Agree
  <2>2. w[why].v.code = w[sum].v.patch.code
    BY <1>2, <1>3, <1>7, <2>1 DEF Agree
  <2>3. QED
    BY <1>1, <1>4, <1>7, <2>1, <2>2 DEF Holds
<1>8. QED
  BY <1>5, <1>6, <1>7

LEMMA SummariesCommit ==
  ASSUME RInv, SummariesSound, NEW p \in Clients, Commit(p)
  PROVE  SummariesSound'
<1> PICK w : w = tx[p].writes
  OBVIOUS
<1> PICK sum : sum = <<"summary", Input(p).room>>
  OBVIOUS
<1> PICK why : why = <<"reason", p>>
  OBVIOUS
<1>1. /\ \A r \in DOMAIN w : (r[1] = "summary" => r = sum) /\ (r[1] = "reason" => r = why)
      /\ sum \in DOMAIN w => /\ sum \in DOMAIN db' /\ db'[sum] = w[sum] /\ w[sum].by = p
                             /\ w[sum].v.ref = Ref(p)
                             /\ w[sum].v.patch.status # "green" => why \in DOMAIN w
      /\ why \in DOMAIN w => /\ why \in DOMAIN db' /\ db'[why] = w[why] /\ w[why].by = p
                             /\ w[why].v.room = Input(p).room /\ w[why].v.ref = Ref(p)
                             /\ sum \in DOMAIN w /\ w[why].v.code = w[sum].v.patch.code
  BY CommitColours
<1>2. /\ \A r \in DOMAIN db' : r \in DOMAIN w \/ (r \notin DOMAIN w /\ r \in DOMAIN db /\ db'[r] = db[r])
      /\ \A r \in DOMAIN db : r \notin DOMAIN w => r \in DOMAIN db' /\ db'[r] = db[r]
  BY CommitWrites
<1>3. why \notin DOMAIN db
  <2> SUFFICES ASSUME why \in DOMAIN db PROVE FALSE
    OBVIOUS
  <2>1. db[why].by # "seed"
    BY BySeed DEF Seeded
  <2>2. Holds(db[why].by, db[why].t, why, db[why].v)
    BY <2>1, ByCommitted
  <2>3. why = <<"reason", db[why].by>>
    BY <2>2 DEF Holds
  <2>4. QED
    BY <2>3, NotYetThere
<1>4. ASSUME NEW r \in DOMAIN db', r[1] = "summary", db'[r].v.patch.status # "green"
      PROVE  \E k \in DOMAIN db' :
               /\ k[1] = "reason" /\ db'[k].v.room = r[2] /\ db'[k].by = db'[r].by
               /\ db'[k].v.code = db'[r].v.patch.code /\ db'[k].v.ref = db'[r].v.ref
  <2>1. CASE r \in DOMAIN w
    <3>1. r = sum /\ why \in DOMAIN w
      BY <1>1, <1>4, <2>1
    <3>2. why[1] = "reason" /\ sum[2] = Input(p).room
      OBVIOUS
    <3>3. QED
      BY <1>1, <3>1, <3>2
  <2>2. CASE r \notin DOMAIN w /\ r \in DOMAIN db /\ db'[r] = db[r]
    <3>1. PICK k \in ReasonRows(r[2]) :
            /\ db[k].by = db[r].by
            /\ db[k].v.code = db[r].v.patch.code /\ db[k].v.ref = db[r].v.ref
      BY <1>4, <2>2 DEF SummariesSound, RowsOf
    <3>2. k \in DOMAIN db /\ k[1] = "reason" /\ db[k].v.room = r[2]
      BY DEF ReasonRows, RowsOf
    <3>3. k \notin DOMAIN w
      BY <1>1, <1>3, <3>2
    <3>4. k \in DOMAIN db' /\ db'[k] = db[k]
      BY <1>2, <3>2, <3>3
    <3>5. QED
      BY <2>2, <3>1, <3>2, <3>4
  <2>3. QED
    BY <1>2, <1>4, <2>1, <2>2
<1>5. ASSUME NEW k \in DOMAIN db', k[1] = "reason", db'[k].by # "seed", NEW row, row = <<"summary", db'[k].v.room>>
      PROVE  row \in DOMAIN db' /\ db'[row].by # "seed" /\ span'[db'[k].by].to <= span'[db'[row].by].to
  <2>1. clock \in Nat /\ p # "seed" /\ span'[p].to = clock + 1 /\ Onward
    BY CommitOnward
  <2>2. CASE k \in DOMAIN w
    <3>1. k = why
      BY <1>1, <1>5, <2>2
    <3>2. row = sum /\ db'[k].by = p /\ row \in DOMAIN db' /\ db'[row].by = p
      BY <1>1, <1>5, <2>2, <3>1
    <3>3. QED
      BY <2>1, <3>2
  <2>3. CASE k \in DOMAIN db /\ db'[k] = db[k]
    <3>1. row \in DOMAIN db /\ db[row].by # "seed" /\ span[db[k].by].to <= span[db[row].by].to
      BY <1>5, <2>3 DEF SummariesSound, RowsOf
    <3>2. /\ span'[db[k].by] = span[db[k].by] /\ span'[db[row].by] = span[db[row].by]
          /\ span[db[k].by].to \in 0 .. clock
      BY <1>5, <2>1, <2>3, <3>1, CommittedSpans, ByCommitted
    <3>3. CASE row \in DOMAIN w
      <4>1. row = sum
        <5>1. row[1] = "summary"
          BY <1>5
        <5>2. QED
          BY <1>1, <3>3, <5>1
      <4>2. row \in DOMAIN db' /\ db'[row].by = p
        BY <1>1, <3>3, <4>1
      <4>3. QED
        BY <2>1, <2>3, <3>2, <4>2
    <3>4. CASE row \notin DOMAIN w
      BY <1>2, <2>3, <3>1, <3>2, <3>4
    <3>5. QED
      BY <3>3, <3>4
  <2>4. QED
    BY <1>2, <1>5, <2>2, <2>3
<1>6. QED
  BY <1>4, <1>5 DEF SummariesSound, ReasonRows, RowsOf

LEMMA SummariesInit == ASSUME PlaneInit PROVE SummariesSound
<1>1. SeedsExplained(db)
  BY RoomAssumption DEF PlaneInit
<1>2. \A r \in DOMAIN db : db[r].by = "seed"
  <2> SUFFICES ASSUME NEW r \in DOMAIN db PROVE db[r].by = "seed"
    OBVIOUS
  <2>1. db[r] = [by |-> "seed", t |-> 0, v |-> db[r].v]
    BY RoomAssumption DEF PlaneInit
  <2>2. QED
    BY <2>1
<1>3. ASSUME NEW r \in RowsOf(db, "summary")
      PROVE  \E k \in ReasonRows(r[2]) :
               /\ db[k].by = db[r].by
               /\ db[k].v.code = db[r].v.patch.code /\ db[k].v.ref = db[r].v.ref
  BY <1>1, <1>2 DEF SeedsExplained, ReasonRows, RowsOf
<1>4. QED
  BY <1>2, <1>3 DEF SummariesSound, RowsOf

LEMMA SummariesStep == ASSUME RInv, SummariesSound, [PlaneNext]_vars PROVE SummariesSound'
<1>1. CASE Onward /\ UNCHANGED <<db, tx, pc, span>>
  BY <1>1, SummariesStay
<1>2. ASSUME NEW p \in Clients, Alone(p), Commit(p) \/ Moves(p) PROVE SummariesSound'
  BY <1>2, SummariesCommit, SummariesStay DEF Alone, Moves
<1>3. QED
  BY <1>1, <1>2, StepMoves

(* A room that is not green always has a reason with the code and the      *)
(* evidence of its summary, and the newest reason is that of the summary,  *)
(* or of a request that overlapped it (upsertRoomSummaryTx).               *)
THEOREM SummariesTheorem == PlaneSpec => []SummariesExplained
<1>1. PlaneInit => RInv /\ SummariesSound
  BY RInvInit, SummariesInit
<1>2. RInv /\ SummariesSound /\ [PlaneNext]_vars => (RInv /\ SummariesSound)'
  BY RInvStep, SummariesStep
<1>3. RInv /\ SummariesSound => SummariesExplained
  <2> SUFFICES ASSUME RInv, SummariesSound PROVE SummariesExplained
    OBVIOUS
  <2>1. ASSUME NEW room \in SummaryRooms, NEW row, row = <<"summary", room>>
        PROVE  row \in RowsOf(db, "summary") /\ row[2] = room
    <3>1. PICK r \in RowsOf(db, "summary") : r[2] = room
      BY DEF SummaryRooms
    <3>2. r = row
      BY <2>1, <3>1, SummaryRow
    <3>3. QED
      BY <3>1, <3>2
  <2>2. NonGreenHasReason
    <3> SUFFICES ASSUME NEW room \in SummaryRooms, Summary(room).v.patch.status # "green"
                 PROVE  \E r \in ReasonRows(room) :
                          db[r].v.code = Summary(room).v.patch.code /\ db[r].v.ref = Summary(room).v.ref
      BY DEF NonGreenHasReason
    <3>1. PICK row : row = <<"summary", room>>
      OBVIOUS
    <3>2. row \in RowsOf(db, "summary") /\ row[2] = room /\ Summary(room) = db[row]
      BY <2>1, <3>1 DEF Summary
    <3>3. QED
      BY <3>2 DEF SummariesSound
  <2>3. NewestReasonExplains
    <3> SUFFICES ASSUME NEW room \in SummaryRooms, Summary(room).v.patch.status # "green",
                        NEW r \in Latest(db, ReasonRows(room)), db[r].by # Summary(room).by
                 PROVE  /\ db[r].by \in Acting /\ Summary(room).by \in Acting
                        /\ Overlap(db[r].by, Summary(room).by)
      BY DEF NewestReasonExplains
    <3>1. PICK row : row = <<"summary", room>>
      OBVIOUS
    <3>2. row \in RowsOf(db, "summary") /\ row[2] = room /\ Summary(room) = db[row]
      BY <2>1, <3>1 DEF Summary
    <3>3. PICK k \in ReasonRows(room) : db[k].by = db[row].by
      BY <3>2 DEF SummariesSound
    <3>4. /\ r \in DOMAIN db /\ r[1] = "reason" /\ db[r].v.room = room /\ k \in DOMAIN db
          /\ row \in DOMAIN db /\ db[k].t <= db[r].t
      BY <3>2 DEF Latest, ReasonRows, RowsOf
    <3>5. db[r].by # "seed"
      <4> SUFFICES ASSUME db[r].by = "seed" PROVE FALSE
        OBVIOUS
      <4>1. db[r].t = 0
        BY <3>4, BySeed
      <4>2. db[k].by # "seed"
        BY <3>2, <3>3
      <4>3. db[k].t \in Nat /\ db[k].t # 0
        BY <3>4, <4>2, ByCommitted
      <4>4. QED
        BY <3>4, <4>1, <4>3
    <3>6. db[row].by # "seed" /\ span[db[r].by].to <= span[db[row].by].to
      BY <3>1, <3>4, <3>5 DEF SummariesSound, RowsOf
    <3>7. PICK q : q = db[r].by
      OBVIOUS
    <3>8. PICK s : s = db[row].by
      OBVIOUS
    <3>9. /\ q \in Acting /\ span[q] \in [from : 0 .. clock, to : 0 .. clock]
          /\ span[q].from < span[q].to /\ db[r].t = span[q].from
      BY <3>4, <3>5, <3>7, ByCommitted
    <3>10. /\ s \in Acting /\ span[s] \in [from : 0 .. clock, to : 0 .. clock]
           /\ span[s].from < span[s].to /\ db[k].t = span[s].from /\ clock \in Nat
      BY <3>3, <3>4, <3>6, <3>8, ByCommitted
    <3>11. span[q].from <= span[s].to /\ span[s].from <= span[q].to
      BY <3>4, <3>6, <3>7, <3>8, <3>9, <3>10
    <3>12. QED
      BY <3>2, <3>7, <3>8, <3>9, <3>10, <3>11 DEF Overlap
  <2>4. QED
    BY <2>2, <2>3 DEF SummariesExplained
<1>4. QED
  BY <1>1, <1>2, <1>3, PTL DEF PlaneSpec

-----------------------------------------------------------------------------
(* What is audited and what is stored.                                     *)
LEMMA AuditKept == ASSUME RInv PROVE AuditShowsStoredBilling
<1> SUFFICES ASSUME NEW p \in Committed, Input(p).action = "sync_billing"
             PROVE  db[<<"event", p, "action_requested">>].v.payload = {AuditPayload(db[<<"billing", p>>].v)}
  BY DEF AuditShowsStoredBilling
<1>1. p \in Clients /\ p # "seed" /\ span[p].to # 0
  <2>1. p \in Acting /\ span[p].to > 0
    BY DEF Committed
  <2>2. p \in Clients /\ p # "seed"
    BY <2>1, RoomAssumption DEF Acting
  <2>3. span[p].to # 0
    BY <2>1
  <2>4. QED
    BY <2>2, <2>3
<1>2. PICK e \in ledger : e.actor = p
  BY <1>1 DEF RInv, LocalTx, Dated
<1>3. PICK row : row = Requested(p)
  OBVIOUS
<1>4. PICK bill : bill = <<"billing", p>>
  OBVIOUS
<1>5. /\ row \in DOMAIN db /\ db[row].by = p
      /\ bill \in DOMAIN db /\ db[bill].by = p
  BY <1>2, <1>3, <1>4, RInvShaped DEF CommittedRows
<1>6. db[row].t = span[p].from /\ Holds(p, db[row].t, row, db[row].v)
  BY <1>1, <1>5, ByCommitted
<1>7. db[bill].t = span[p].from /\ Holds(p, db[bill].t, bill, db[bill].v)
  BY <1>1, <1>5, ByCommitted
<1>8. db[row].v.payload = AuditedAt(p, span[p].from)
  BY <1>3, <1>6 DEF Holds
<1>9. AuditedAt(p, span[p].from) = {AuditPayload(db[bill].v)}
  <2>1. bill[1] = "billing"
    BY <1>4
  <2>2. QED
    BY <1>7, <2>1 DEF Holds
<1>10. QED
  BY <1>3, <1>4, <1>8, <1>9 DEF Requested

-----------------------------------------------------------------------------
(* The licences of one refresh.                                            *)
LEMMA RunningIsActing ==
  ASSUME RInv, NEW p \in Clients, Running(p)
  PROVE  /\ p \in Acting /\ Admitted(p) /\ LocalTx(p)
         /\ clock \in Nat /\ span[p] \in [from : 0 .. clock, to : 0 .. clock] /\ span[p].to = 0
         /\ span[p].from = tx[p].t
<1>1. LocalTx(p) /\ clock \in Nat
  BY RInvShaped DEF RInv, Shaped
<1>2. QED
  BY <1>1 DEF LocalTx, Dated, Running

(* A transaction that is open owns none of the licences that are there.    *)
LEMMA LicenseOfOther ==
  ASSUME RInv, NEW p \in Clients, Running(p), NEW r \in DOMAIN db, r[1] = "license"
  PROVE  r[2] # p /\ (r \in DOMAIN tx[p].writes => tx[p].writes[r] = Gone)
<1>1. r[2] # p
  <2>1. CASE db[r].by = "seed"
    BY <2>1, BySeed DEF Seeded
  <2>2. CASE db[r].by # "seed"
    <3>1. Holds(db[r].by, db[r].t, r, db[r].v) /\ span[db[r].by].to # 0
      BY <2>2, ByCommitted
    <3>2. r[2] = db[r].by
      BY <3>1 DEF Holds
    <3>3. QED
      BY <3>1, <3>2, RunningIsActing
  <2>3. QED
    BY <2>1, <2>2
<1>2. ASSUME r \in DOMAIN tx[p].writes PROVE tx[p].writes[r] = Gone
  <2>1. OwnWrite(p, r, tx[p].writes[r])
    BY <1>2, RunningIsActing DEF LocalTx, Pending
  <2>2. QED
    BY <1>1, <2>1 DEF OwnWrite, Holds
<1>3. QED
  BY <1>1, <1>2

(* Only a DELETE touches the licences of others.                           *)
LEMMA EffectOnLicense ==
  ASSUME NEW p, NEW t, NEW at, NEW s, Proper(p, t, at, s), NEW r, r[1] = "license", r[2] # p
  PROVE  /\ r \in DOMAIN Effect(p, s) => s.do = "clear" /\ r \in DOMAIN Seen(p) /\ Effect(p, s)[r] = Gone
         /\ s.do = "clear" /\ r \in s.rows /\ r \in DOMAIN Seen(p) =>
              r \in DOMAIN Effect(p, s) /\ Effect(p, s)[r] = Gone
<1>1. ASSUME r \in s.rows, s.do # "clear" PROVE FALSE
  <2>1. CASE s.do = "put"
    BY <1>1, <2>1 DEF Proper, Holds
  <2>2. CASE s.do # "put"
    <3>1. r[1] = TableOf[s.do] /\ s.do \in {"keep", "wake", "revoke", "retire", "spread"}
      BY <1>1, <2>2 DEF Proper, StatementKinds
    <3>2. QED
      BY <3>1 DEF TableOf
  <2>3. QED
    BY <2>1, <2>2
<1>2. ASSUME r \in DOMAIN Effect(p, s)
      PROVE  s.do = "clear" /\ r \in DOMAIN Seen(p) /\ Effect(p, s)[r] = Gone
  <2>1. r \in s.rows
    BY <1>2 DEF Effect
  <2>2. s.do = "clear"
    BY <1>1, <2>1
  <2>3. r \in DOMAIN Seen(p)
    BY <1>2, <2>2 DEF Effect, Upserts
  <2>4. Effect(p, s)[r] = Written(p, s, r, Seen(p)[r])
    BY <1>2, <2>3 DEF Effect
  <2>5. QED
    BY <2>2, <2>3, <2>4 DEF Written
<1>3. ASSUME s.do = "clear", r \in s.rows, r \in DOMAIN Seen(p) PROVE r \in DOMAIN Effect(p, s)
  <2>1. Applies(s, r, Seen(p)[r])
    BY <1>3 DEF Applies
  <2>2. QED
    BY <1>3, <2>1 DEF Effect
<1>4. QED
  BY <1>2, <1>3

LEMMA DecideClears ==
  ASSUME RInv, NEW p \in Clients, DecideMutation(p), Input(p).action = "refresh_licenses"
  PROVE  \E i \in 1 .. Len(tx'[p].todo) : tx'[p].todo[i].do = "clear" /\ ~tx'[p].todo[i].open
<1>1. LocalTx(p) /\ pc[p] = "decide" /\ Shaped
  BY RInvShaped DEF RInv, DecideMutation
<1>2. p \in Acting /\ Admitted(p)
  BY <1>1 DEF LocalTx
<1>3. Input(p).room = "camp"
  <2>1. Input(p).action \in AllowedActions(Input(p).room)
    BY <1>2, AllowedHere
  <2>2. Input(p).room \in RoomKeys
    BY <1>2 DEF Admitted, Refusal
  <2>3. QED
    BY <1>2, <2>1, <2>2 DEF AllowedActions, RoomKeys
<1>4. RefreshLicenses(p)
  BY <1>3 DEF DecideMutation, SyncBilling, RefreshEntitlements, ChooseLicense, RevokeCertificate, ExportRecord,
     RefreshIdentity, RefreshContact, RefreshTargets, RefreshMarketSources, ExportSnapshot,
     RefreshBoundary, RefreshTrust, RefreshOps, NoMutation, Action
<1>5. PICK rest : rest = [i \in 1 .. Input(p).in |-> Put(<<"license", p, i>>, i)]
  OBVIOUS
<1>6. tx' = [tx EXCEPT ![p].todo = <<Clear>> \o rest, ![p].read = {Green}]
  BY <1>4, <1>5 DEF RefreshLicenses, Decide, Plan
<1>7. tx'[p].todo = <<Clear>> \o rest
  BY <1>1, <1>6, PlannedTx
<1>8. IsList(rest) /\ IsList(<<Clear>>) /\ Len(<<Clear>>) = 1
  <2>1. Input(p).in \in Nat
    BY <1>2, RInvShaped, RequestsTyped DEF ListsTyped
  <2>2. \A i \in 1 .. Input(p).in : rest[i] = Put(<<"license", p, i>>, i)
    BY <1>5
  <2>3. rest = [i \in 1 .. Input(p).in |-> rest[i]]
    BY <1>5, <2>2
  <2>4. QED
    BY <2>1, <2>3, BuiltList, ShortLists
<1>9. PICK first : first = <<Clear>>
  OBVIOUS
<1>10. \E i \in 1 .. Len(first \o rest) : (first \o rest)[i] = first[1]
  BY <1>8, <1>9, JoinElements
<1>11. first[1] = Clear /\ Clear.do = "clear" /\ ~Clear.open
  BY <1>2, <1>9, ClearProper
<1>12. QED
  BY <1>7, <1>9, <1>10, <1>11

LEMMA SelectClears ==
  ASSUME RInv, NEW p \in Clients, Running(p), SelectRows(p), NEW r \in DOMAIN db, r[1] = "license", Cleared(p, r)
  PROVE  Cleared(p, r)'
<1>1. Shaped /\ LocalTx(p)
  BY RInvShaped, RunningIsActing
<1>2. PICK rows, s, next :
        /\ Selects(p, tx[p].todo, rows, s, next)
        /\ tx'[p].writes = tx[p].writes /\ tx'[p].todo = next
  BY <1>1, SelectTx
<1>3. CASE r \in DOMAIN tx[p].writes
  BY <1>2, <1>3, LicenseOfOther DEF Cleared
<1>4. CASE r \notin DOMAIN tx[p].writes
  <2>1. PICK i \in 1 .. Len(tx[p].todo) :
          tx[p].todo[i].do = "clear" /\ (tx[p].todo[i].open => r \in tx[p].todo[i].rows)
    BY <1>4 DEF Cleared
  <2>2. Len(next) = Len(tx[p].todo)
    BY <1>2 DEF Selects
  <2>3. CASE i # 1
    <3>1. next[i] = tx[p].todo[i]
      BY <1>2, <2>3 DEF Selects
    <3>2. QED
      BY <1>2, <2>1, <2>2, <3>1 DEF Cleared
  <2>4. CASE i = 1
    <3>1. PICK old : old = tx[p].todo[1]
      OBVIOUS
    <3>2. old.do = "clear" /\ DOMAIN old = {"do", "rows", "v", "open"}
      BY <1>1, <2>1, <2>4, <3>1 DEF LocalTx, Proper
    <3>3. s = [old EXCEPT !.open = TRUE, !.rows = rows] /\ next[1] = s
      BY <1>2, <3>1 DEF Selects
    <3>4. s.do = "clear" /\ s.rows = rows
      BY <3>2, <3>3
    <3>5. r \in rows
      <4>1. r \in DOMAIN Seen(p)
        BY <1>4, Overlaid DEF Seen
      <4>2. rows = {k \in DOMAIN Seen(p) : Applies(old, k, Seen(p)[k])}
        BY <1>2, <3>1 DEF Selects
      <4>3. Applies(old, r, Seen(p)[r])
        BY <3>2 DEF Applies
      <4>4. QED
        BY <4>1, <4>2, <4>3
    <3>6. QED
      BY <1>2, <2>1, <2>2, <2>4, <3>3, <3>4, <3>5 DEF Cleared
  <2>5. QED
    BY <2>3, <2>4
<1>5. QED
  BY <1>3, <1>4

LEMMA RunClears ==
  ASSUME RInv, NEW p \in Clients, Running(p), RunStatement(p), NEW r \in DOMAIN db, r[1] = "license", Cleared(p, r)
  PROVE  Cleared(p, r)'
<1>1. Shaped /\ LocalTx(p)
  BY RInvShaped, RunningIsActing
<1>2. PICK f : Ran(p, tx[p].todo, f, tx[p].writes, tx'[p].writes, tx'[p].todo)
  BY <1>1, RunTx
<1>3. PICK todo : todo = tx[p].todo
  OBVIOUS
<1>4. /\ IsList(todo) /\ todo # <<>> /\ todo[1].open /\ f = Effect(p, todo[1])
      /\ \A i \in 1 .. Len(todo) : Proper(p, tx[p].t, pc[p], todo[i])
  BY <1>1, <1>2, <1>3 DEF LocalTx, Ran
<1>5. /\ Len(todo) \in Nat \ {0} /\ Len(Tail(todo)) = Len(todo) - 1
      /\ \A i \in 1 .. Len(todo) - 1 : Tail(todo)[i] = todo[i + 1]
  BY <1>4, ListTail
<1>6. r[2] # p /\ (r \in DOMAIN tx[p].writes => tx[p].writes[r] = Gone)
  BY LicenseOfOther
<1>7. Proper(p, tx[p].t, pc[p], todo[1])
  BY <1>4, <1>5
<1>8. r \in DOMAIN f => r \in DOMAIN Seen(p) /\ f[r] = Gone
  BY <1>4, <1>6, <1>7, EffectOnLicense
<1>9. ASSUME r \in DOMAIN f \/ r \in DOMAIN tx[p].writes PROVE r \in DOMAIN tx'[p].writes /\ tx'[p].writes[r] = Gone
  BY <1>2, <1>6, <1>8, <1>9 DEF Ran
<1>10. CASE r \in DOMAIN f \/ r \in DOMAIN tx[p].writes
  BY <1>9, <1>10 DEF Cleared
<1>11. CASE r \notin DOMAIN f /\ r \notin DOMAIN tx[p].writes
  <2>1. PICK i \in 1 .. Len(todo) : todo[i].do = "clear" /\ (todo[i].open => r \in todo[i].rows)
    BY <1>3, <1>11 DEF Cleared
  <2>2. i # 1
    <3>1. r \in DOMAIN Seen(p)
      BY <1>11, Overlaid DEF Seen
    <3>2. QED
      BY <1>4, <1>6, <1>7, <1>11, <2>1, <3>1, EffectOnLicense
  <2>3. PICK j : j = i - 1
    OBVIOUS
  <2>4. j \in 1 .. Len(Tail(todo)) /\ Tail(todo)[j] = todo[i]
    <3>1. j \in 1 .. Len(todo) - 1 /\ j + 1 = i
      BY <1>5, <2>2, <2>3
    <3>2. QED
      BY <1>5, <3>1
  <2>5. tx'[p].todo = Tail(todo)
    BY <1>2, <1>3 DEF Ran
  <2>6. QED
    BY <2>1, <2>4, <2>5 DEF Cleared
<1>12. QED
  BY <1>10, <1>11

LEMMA RestingClears ==
  ASSUME NEW p, NEW r, tx[p].todo = <<>>, tx'[p].writes = tx[p].writes, Cleared(p, r)
  PROVE  Cleared(p, r)'
<1>1. 1 .. Len(tx[p].todo) = {}
  BY ShortLists
<1>2. r \in DOMAIN tx[p].writes /\ tx[p].writes[r] = Gone
  BY <1>1 DEF Cleared
<1>3. QED
  BY <1>2 DEF Cleared

LEMMA ClearedStays ==
  ASSUME RInv, NEW p \in Clients, Running(p), NEW r \in DOMAIN db, r[1] = "license", Cleared(p, r),
         SelectRows(p) \/ RunStatement(p) \/ Finish(p) \/ Rests(p)
  PROVE  Cleared(p, r)'
<1>1. CASE Finish(p)
  <2>1. tx[p].todo = <<>>
    BY <1>1 DEF Finish
  <2>2. tx'[p].writes = tx[p].writes
    BY <1>1, FinishPlans, PlannedMoves
  <2>3. QED
    BY <2>1, <2>2, RestingClears
<1>2. QED
  BY <1>1, SelectClears, RunClears, RestingClears DEF Rests

(* Since stays true once it is.                                            *)
LEMMA SinceStays ==
  ASSUME Onward, NEW p, span'[p].from = span[p].from, NEW q \in Clients, span[q].to # 0, Since(p, q)
  PROVE  Since(p, q)'
BY DEF Onward, Since

LEMMA SinceCommitted ==
  ASSUME RInv, Onward, NEW p, span'[p].from = span[p].from, NEW r \in DOMAIN db, NEW q, q = db[r].by, Since(p, q)
  PROVE  Since(p, q)'
<1>1. q # "seed"
  BY DEF Since
<1>2. q \in Clients /\ span[q].to # 0
  BY <1>1, ByCommitted
<1>3. QED
  BY <1>2, SinceStays

LEMMA ClearingStays ==
  ASSUME RInv, Clearing, NEW p \in Clients, Alone(p), Moves(p)
  PROVE  Clearing'
<1>1. Onward /\ db' = db
  BY DEF Alone, Moves
<1>2. Acting' = Acting /\ \A x : Input(x)' = Input(x)
  BY <1>1, Unmoved DEF Onward
<1>3. SUFFICES ASSUME NEW x \in Acting, Running(x)', Input(x).action = "refresh_licenses",
                      NEW r \in DOMAIN db, r[1] = "license", NEW q, q = db[r].by
               PROVE  Cleared(x, r)' \/ Since(x, q)'
  BY <1>1, <1>2 DEF Clearing, RowsOf
<1>4. span'[x] = span[x]
  BY <1>3, RInvShaped DEF Alone, Moves
<1>5. ASSUME Running(x), Cleared(x, r) => Cleared(x, r)' PROVE Cleared(x, r)' \/ Since(x, q)'
  <2>1. Cleared(x, r) \/ Since(x, q)
    BY <1>3, <1>5 DEF Clearing, RowsOf
  <2>2. Since(x, q) => Since(x, q)'
    BY <1>1, <1>3, <1>4, SinceCommitted
  <2>3. QED
    BY <1>5, <2>1, <2>2
<1>6. CASE x # p
  <2>1. tx'[x] = tx[x] /\ pc'[x] = pc[x]
    BY <1>3, <1>6, RInvShaped DEF Alone
  <2>2. Running(x)
    BY <1>3, <2>1 DEF Running
  <2>3. Cleared(x, r) => Cleared(x, r)'
    BY <2>1 DEF Cleared
  <2>4. QED
    BY <1>5, <2>2, <2>3
<1>7. CASE x = p /\ DecideMutation(p)
  <2>1. \E i \in 1 .. Len(tx'[p].todo) : tx'[p].todo[i].do = "clear" /\ ~tx'[p].todo[i].open
    BY <1>3, <1>7, DecideClears
  <2>2. QED
    BY <1>7, <2>1 DEF Cleared
<1>8. CASE x = p /\ (SelectRows(p) \/ RunStatement(p) \/ Finish(p) \/ Rests(p))
  <2>1. Running(p)
    BY <1>8 DEF SelectRows, RunStatement, Finish, Rests, Running
  <2>2. Cleared(p, r) => Cleared(p, r)'
    BY <1>3, <1>8, <2>1, ClearedStays
  <2>3. QED
    BY <1>5, <1>8, <2>1, <2>2
<1>9. QED
  BY <1>3, <1>6, <1>7, <1>8 DEF Moves

LEMMA OverlapStays ==
  ASSUME NEW p, NEW q, span'[p] = span[p], span'[q] = span[q], Overlap(p, q)
  PROVE  Overlap(p, q)'
BY DEF Overlap

LEMMA LicensesAgreeStill ==
  ASSUME RInv, Onward, db' = db, LicensesOfOneRefresh
  PROVE  LicensesOfOneRefresh'
<1>1. Acting' = Acting
  BY Unmoved DEF Onward
<1>2. SUFFICES ASSUME NEW r \in DOMAIN db, r[1] = "license", NEW k \in DOMAIN db, k[1] = "license",
                      NEW p, p = db[r].by, NEW q, q = db[k].by, p # q
               PROVE  p \in Acting /\ q \in Acting /\ Overlap(p, q)'
  BY <1>1 DEF LicensesOfOneRefresh, RowsOf
<1>3. p \in Acting /\ q \in Acting /\ Overlap(p, q)
  BY <1>2 DEF LicensesOfOneRefresh, RowsOf
<1>4. p # "seed" /\ q # "seed"
  BY <1>3, RoomAssumption DEF Acting
<1>5. span'[p] = span[p] /\ span'[q] = span[q]
  BY <1>2, <1>4, CommittedSpans
<1>6. QED
  BY <1>3, <1>5, OverlapStays

(* The licences that p writes come after those of the others.              *)
LEMMA CommitLicenses ==
  ASSUME RInv, LicensesSound, NEW p \in Clients, Commit(p)
  PROVE  LicensesSound'
<1> PICK w : w = tx[p].writes
  OBVIOUS
<1>1. /\ Onward /\ clock \in Nat /\ p \in Acting /\ p # "seed"
      /\ \A x \in Clients \ {p} : tx'[x] = tx[x] /\ pc'[x] = pc[x] /\ span'[x] = span[x]
      /\ span[p] \in [from : 0 .. clock, to : 0 .. clock]
      /\ span'[p].from = span[p].from /\ span'[p].to = clock + 1
  BY CommitOnward
<1>2. Acting' = Acting /\ \A x : Input(x)' = Input(x)
  BY <1>1, Unmoved DEF Onward
<1>3. ASSUME NEW r \in DOMAIN db', r[1] = "license"
      PROVE  \/ db'[r].by = p /\ Input(p).action = "refresh_licenses"
             \/ r \notin DOMAIN w /\ r \in DOMAIN db /\ db'[r] = db[r]
  <2>1. CASE r \in DOMAIN w /\ w[r] # Gone /\ db'[r] = w[r]
    <3>1. OwnWrite(p, r, w[r])
      BY <2>1, CommitWrites
    <3>2. w[r].by = p /\ Holds(p, w[r].t, r, w[r].v)
      BY <1>3, <2>1, <3>1 DEF OwnWrite
    <3>3. QED
      BY <1>3, <2>1, <3>2 DEF Holds
  <2>2. QED
    BY <2>1, CommitWrites
<1>4. Clearing'
  <2>1. SUFFICES ASSUME NEW x \in Acting, Running(x)', Input(x).action = "refresh_licenses",
                        NEW r \in DOMAIN db', r[1] = "license", NEW q, q = db'[r].by
                 PROVE  Cleared(x, r)' \/ Since(x, q)'
    BY <1>2 DEF Clearing, RowsOf
  <2>2. x \in Clients /\ x # p
    <3>1. pc'[p] = "answered"
      BY RInvShaped DEF Commit, Answered, Shaped
    <3>2. QED
      BY <2>1, <3>1, RInvShaped DEF Running
  <2>3. tx'[x] = tx[x] /\ span'[x] = span[x] /\ Running(x)
    BY <1>1, <2>1, <2>2 DEF Running
  <2>4. CASE q = p
    <3>1. span[x] \in [from : 0 .. clock, to : 0 .. clock]
      BY <2>2, <2>3, RunningIsActing
    <3>2. span'[x].from < span'[p].to
      BY <1>1, <2>3, <3>1
    <3>3. QED
      BY <1>1, <2>4, <3>2 DEF Since
  <2>5. CASE r \in DOMAIN db /\ db'[r] = db[r]
    <3>1. Cleared(x, r) \/ Since(x, q)
      BY <2>1, <2>3, <2>5 DEF LicensesSound, Clearing, RowsOf
    <3>2. Cleared(x, r) => Cleared(x, r)'
      BY <2>3 DEF Cleared
    <3>3. Since(x, q) => Since(x, q)'
      BY <1>1, <2>1, <2>3, <2>5, SinceCommitted
    <3>4. QED
      BY <3>1, <3>2, <3>3
  <2>6. QED
    BY <1>3, <2>1, <2>4, <2>5
<1>5. ASSUME NEW k \in DOMAIN db, k[1] = "license", k \notin DOMAIN w, Input(p).action = "refresh_licenses",
             NEW q, q = db[k].by
      PROVE  q \in Acting /\ Overlap(p, q)' /\ Overlap(q, p)'
  <2>1. Running(p) /\ tx[p].todo = <<>>
    BY DEF RInv, LocalTx, Commit, Running
  <2>2. ~Cleared(p, k)
    <3>1. 1 .. Len(tx[p].todo) = {}
      BY <2>1, ShortLists
    <3>2. QED
      BY <1>5, <3>1 DEF Cleared
  <2>3. q # "seed" /\ span[p].from < span[q].to
    BY <1>1, <1>5, <2>1, <2>2 DEF LicensesSound, Clearing, RowsOf, Since
  <2>4. /\ q \in Acting /\ q \in Clients /\ q # p /\ span[q] \in [from : 0 .. clock, to : 0 .. clock]
    BY <1>5, <2>3, ByCommitted, NotYetThere
  <2>5. span'[q] = span[q]
    BY <1>1, <2>4
  <2>6. /\ span'[p].from <= span'[q].to /\ span'[q].from <= span'[p].to
    BY <1>1, <2>3, <2>4, <2>5
  <2>7. QED
    BY <2>4, <2>6 DEF Overlap
<1>6. LicensesOfOneRefresh'
  <2>1. SUFFICES ASSUME NEW r \in DOMAIN db', r[1] = "license", NEW k \in DOMAIN db', k[1] = "license",
                        NEW x, x = db'[r].by, NEW q, q = db'[k].by, x # q
                 PROVE  x \in Acting /\ q \in Acting /\ Overlap(x, q)'
    BY <1>2 DEF LicensesOfOneRefresh, RowsOf
  <2>2. CASE x = p /\ Input(p).action = "refresh_licenses"
    <3>1. k \notin DOMAIN w /\ k \in DOMAIN db /\ db'[k] = db[k]
      BY <1>3, <2>1, <2>2
    <3>2. QED
      BY <1>1, <1>5, <2>1, <2>2, <3>1
  <2>3. CASE q = p /\ Input(p).action = "refresh_licenses"
    <3>1. r \notin DOMAIN w /\ r \in DOMAIN db /\ db'[r] = db[r]
      BY <1>3, <2>1, <2>3
    <3>2. QED
      BY <1>1, <1>5, <2>1, <2>3, <3>1
  <2>4. CASE /\ r \in DOMAIN db /\ db'[r] = db[r]
             /\ k \in DOMAIN db /\ db'[k] = db[k]
    <3>1. x \in Acting /\ q \in Acting /\ Overlap(x, q)
      BY <2>1, <2>4 DEF LicensesSound, LicensesOfOneRefresh, RowsOf
    <3>2. x # "seed" /\ q # "seed"
      BY <3>1, RoomAssumption DEF Acting
    <3>3. span'[x] = span[x] /\ span'[q] = span[q]
      BY <1>1, <2>1, <2>4, <3>2, CommittedSpans
    <3>4. QED
      BY <3>1, <3>3, OverlapStays
  <2>5. QED
    BY <1>3, <2>1, <2>2, <2>3, <2>4
<1>7. QED
  BY <1>4, <1>6 DEF LicensesSound

LEMMA LicensesStep == ASSUME RInv, LicensesSound, [PlaneNext]_vars PROVE LicensesSound'
<1>1. CASE Onward /\ UNCHANGED <<db, tx, pc, span>>
  <2>1. Acting' = Acting /\ \A x : Input(x)' = Input(x)
    BY <1>1, Unmoved DEF Onward
  <2>2. Clearing'
    BY <1>1, <2>1 DEF LicensesSound, Clearing, RowsOf, Running, Cleared, Since
  <2>3. QED
    BY <1>1, <2>2, LicensesAgreeStill DEF LicensesSound
<1>2. ASSUME NEW p \in Clients, Alone(p), Moves(p) PROVE LicensesSound'
  BY <1>2, ClearingStays, LicensesAgreeStill DEF LicensesSound, Alone, Moves
<1>3. QED
  BY <1>1, <1>2, CommitLicenses, StepMoves

LEMMA NobodyRuns == ASSUME PlaneInit, NEW p \in Clients PROVE ~Running(p) /\ span[p].to = 0
BY DEF PlaneInit, Running

LEMMA LicensesInit == ASSUME PlaneInit PROVE LicensesSound
<1>1. \A r \in DOMAIN db : db[r].by = "seed"
  <2> SUFFICES ASSUME NEW r \in DOMAIN db PROVE db[r].by = "seed"
    OBVIOUS
  <2>1. db[r] = [by |-> "seed", t |-> 0, v |-> db[r].v]
    BY RoomAssumption DEF PlaneInit
  <2>2. QED
    BY <2>1
<1>2. QED
  BY <1>1, NobodyRuns DEF LicensesSound, Clearing, LicensesOfOneRefresh, RowsOf, Acting

-----------------------------------------------------------------------------
(* The result of a canary.                                                 *)
LEMMA CommittedOn ==
  ASSUME RInv, NEW p \in Committed
  PROVE  /\ p \in Acting /\ p \in Clients /\ p # "seed" /\ clock \in Nat
         /\ span[p] \in [from : 0 .. clock, to : 0 .. clock] /\ span[p].to # 0
         /\ Input(p).action \in IsolationActions => <<"isolation", ServiceOf(p)>> \in DOMAIN db
<1>1. p \in Acting /\ span[p].to > 0
  BY DEF Committed
<1>2. p \in Clients /\ p # "seed"
  BY <1>1, RoomAssumption DEF Acting
<1>3. LocalTx(p) /\ clock \in Nat
  BY <1>2, RInvShaped DEF RInv, Shaped
<1>4. span[p] \in [from : 0 .. clock, to : 0 .. clock] /\ span[p].to # 0 /\ \E e \in ledger : e.actor = p
  BY <1>1, <1>3 DEF LocalTx, Dated
<1>5. Input(p).action \in IsolationActions => <<"isolation", ServiceOf(p)>> \in DOMAIN db
  BY <1>4, RInvShaped DEF CommittedRows
<1>6. QED
  BY <1>1, <1>2, <1>3, <1>4, <1>5

LEMMA StillCommitted ==
  ASSUME RInv, Onward
  PROVE  /\ \A p \in Committed : p \in Committed' /\ span'[p] = span[p]
         /\ \A p \in Committed : Superseded(p) => Superseded(p)'
         /\ \A q, s : DecidesCanary(q, s)' <=> DecidesCanary(q, s)
<1>1. /\ Acting' = Acting
      /\ \A q : Input(q)' = Input(q) /\ ServiceOf(q)' = ServiceOf(q)
  BY Unmoved DEF Onward
<1>2. \A p \in Committed : p \in Committed' /\ span'[p] = span[p]
  <2> SUFFICES ASSUME NEW p \in Committed PROVE p \in Committed' /\ span'[p] = span[p]
    OBVIOUS
  <2>1. span'[p] = span[p]
    BY CommittedOn DEF Onward
  <2>2. QED
    BY <1>1, <2>1 DEF Committed
<1>3. \A q, s : DecidesCanary(q, s)' <=> DecidesCanary(q, s)
  BY <1>1 DEF DecidesCanary
<1>4. ASSUME NEW p \in Committed, Superseded(p) PROVE Superseded(p)'
  <2>1. PICK q \in Committed \ {p} :
          /\ Input(q).action \in IsolationActions
          /\ DecidesCanary(q, ServiceOf(p)) \/ Overlap(p, q)
    BY <1>4 DEF Superseded
  <2>2. Overlap(p, q) => Overlap(p, q)'
    BY <1>2, OverlapStays
  <2>3. PICK s : s = ServiceOf(p)
    OBVIOUS
  <2>4. /\ q \in Committed' /\ q # p /\ Input(q)'.action \in IsolationActions
        /\ (DecidesCanary(q, s)' \/ Overlap(p, q)') /\ ServiceOf(p)' = s
    BY <1>1, <1>2, <1>3, <2>1, <2>2, <2>3
  <2>5. QED
    BY <1>1, <1>2, <1>3, <2>1, <2>2, <2>3, <2>4 DEF Superseded, DecidesCanary, ServiceOf
<1>5. QED
  BY <1>2, <1>3, <1>4

LEMMA Undecided ==
  ASSUME NEW x, NEW s, Input(x).action \in IsolationActions, ~DecidesCanary(x, s)
  PROVE  Input(x).action # "canary_deploy" /\ Input(x).in.canary = {} /\ ServiceOf(x) = s
BY DEF DecidesCanary, ServiceOf

LEMMA MergedCanary ==
  ASSUME NEW x, NEW rollback, NEW row, row = <<"isolation", ServiceOf(x)>>, row \in DOMAIN Seen(x),
         Input(x).in.canary = {}
  PROVE  MergedIsolation(x, {}, rollback).canary = Seen(x)[row].v.canary
<1>1. \A d : Given({}, d) = d
  BY DEF Given
<1>2. QED
  BY <1>1 DEF MergedIsolation, ServiceOf

LEMMA DecideIsolates ==
  ASSUME NEW x, Admitted(x), DecideMutation(x), Input(x).action \in IsolationActions
  PROVE  RefreshTrust(x) \/ RefreshOps(x)
<1>1. Input(x).room \in {"system", "ops"} /\ Input(x).action \notin {"evidence_export", "seal_review", "refresh_boundary_state"}
  <2>1. Input(x).action \in AllowedActions(Input(x).room)
    BY AllowedHere
  <2>2. Input(x).room \in RoomKeys
    BY DEF Admitted, Refusal
  <2>3. QED
    BY <2>1, <2>2 DEF AllowedActions, RoomKeys, IsolationActions
<1>2. QED
  BY <1>1 DEF DecideMutation, SyncBilling, RefreshEntitlements, ChooseLicense, RevokeCertificate, ExportRecord,
     RefreshIdentity, RefreshContact, RefreshLicenses, RefreshTargets, RefreshMarketSources, ExportSnapshot,
     RefreshBoundary, NoMutation, Action

(* A refresh that names no canary writes the one it has read.              *)
LEMMA DecideKeepsCanary ==
  ASSUME RInv, NEW x \in Clients, DecideMutation(x), Input(x).action \in IsolationActions,
         Input(x).action # "canary_deploy", Input(x).in.canary = {},
         NEW row, row = <<"isolation", ServiceOf(x)>>, row \in DOMAIN db
  PROVE  \A v \in Assigned(x, row)' : v.canary = db[row].v.canary
<1>1. LocalTx(x) /\ pc[x] = "decide" /\ Shaped
  BY RInvShaped DEF RInv, DecideMutation
<1>2. Admitted(x) /\ DOMAIN tx[x].writes = {}
  BY <1>1 DEF LocalTx, Running
<1>3. row \in DOMAIN Seen(x) /\ Seen(x)[row] = db[row]
  BY <1>2, Overlaid DEF Seen
<1>4. \A rollback : MergedIsolation(x, {}, rollback).canary = db[row].v.canary
  BY <1>3, MergedCanary
<1>5. \A iso : /\ ProperList(x, tx[x].t, "run", WriteIsolation(x, iso))
               /\ Puts(WriteIsolation(x, iso), row) = {iso}
  BY WriteIsolationProper
<1>6. ASSUME NEW todo, NEW read, Decide(x, todo, read), NEW iso, Puts(todo, row) = {iso}
      PROVE  Assigned(x, row)' = {iso}
  <2>1. tx'[x].writes = tx[x].writes /\ tx'[x].todo = todo
    BY <1>1, <1>6, PlannedTx DEF Decide, Plan
  <2>2. Assigned(x, row)' = Wrote(tx'[x].writes, row) \cup Puts(tx'[x].todo, row)
    BY AssignedIs
  <2>3. Wrote(tx[x].writes, row) = {}
    BY <1>2, NothingWritten
  <2>4. QED
    BY <1>6, <2>1, <2>2, <2>3
<1>7. CASE RefreshTrust(x)
  <2>1. PICK iso : iso = MergedIsolation(x, {}, {})
    OBVIOUS
  <2>2. PICK first : first = <<Put(<<"attestation", x>>, Input(x).in.attested)>>
    OBVIOUS
  <2>3. PICK second : second = WriteIsolation(x, iso)
    OBVIOUS
  <2>4. \E read : Decide(x, first \o second, read)
    BY <1>7, <2>1, <2>2, <2>3 DEF RefreshTrust
  <2>5. IsList(first) /\ IsList(second) /\ Puts(second, row) = {iso}
    BY <1>5, <2>2, <2>3, ShortLists DEF ProperList
  <2>6. Puts(first, row) = {}
    <3>1. PICK s : s = Put(<<"attestation", x>>, Input(x).in.attested)
      OBVIOUS
    <3>2. Puts(first, row) = Gives(s, row)
      BY <2>2, <3>1, PutsOne
    <3>3. s.rows = {<<"attestation", x>>}
      BY <3>1 DEF Put, PutAll, Statement
    <3>4. row \notin s.rows
      BY <3>3
    <3>5. QED
      BY <3>2, <3>4 DEF Gives
  <2>7. Puts(first \o second, row) = {iso}
    BY <2>5, <2>6, JoinedWithout
  <2>8. Assigned(x, row)' = {iso}
    BY <1>6, <2>4, <2>7
  <2>9. QED
    BY <1>4, <2>1, <2>8
<1>8. CASE RefreshOps(x)
  <2>1. \E rollback, read : Decide(x, WriteIsolation(x, MergedIsolation(x, {}, rollback)), read)
    BY <1>8 DEF RefreshOps
  <2>2. PICK rollback, read : Decide(x, WriteIsolation(x, MergedIsolation(x, {}, rollback)), read)
    BY <2>1
  <2>3. PICK iso : iso = MergedIsolation(x, {}, rollback)
    OBVIOUS
  <2>4. Assigned(x, row)' = {iso}
    BY <1>5, <1>6, <2>2, <2>3
  <2>5. QED
    BY <1>4, <2>3, <2>4
<1>9. QED
  BY <1>2, <1>7, <1>8, DecideIsolates

LEMMA CarriedOn ==
  ASSUME RInv, NEW x \in Clients, Running(x), SelectRows(x) \/ RunStatement(x) \/ Finish(x) \/ Rests(x),
         NEW row, row = <<"isolation", ServiceOf(x)>>
  PROVE  Assigned(x, row)' \subseteq Assigned(x, row)
<1>1. Shaped /\ LocalTx(x)
  BY RInvShaped, RunningIsActing
<1>2. /\ Assigned(x, row) = Wrote(tx[x].writes, row) \cup Puts(tx[x].todo, row)
      /\ Assigned(x, row)' = Wrote(tx'[x].writes, row) \cup Puts(tx'[x].todo, row)
  BY AssignedIs
<1>3. CASE SelectRows(x)
  <2>1. Onward
    BY <1>3, StillHere DEF SelectRows
  <2>2. QED
    BY <1>1, <1>3, <2>1, SelectLocal
<1>4. CASE RunStatement(x)
  BY <1>1, <1>4, RunAssigned DEF PutOnly
<1>5. CASE Finish(x)
  <2>1. PICK todo, read :
          /\ \A service : Puts(todo, <<"isolation", service>>) = {}
          /\ tx' = [tx EXCEPT ![x].todo = todo, ![x].read = read]
    <3>1. Planned(x, "run", "record")
      BY <1>5, FinishPlans
    <3>2. QED
      BY <3>1, Zenon DEF Planned
  <2>2. tx'[x].writes = tx[x].writes /\ tx'[x].todo = todo
    BY <1>1, <2>1, PlannedTx
  <2>3. QED
    BY <1>2, <2>1, <2>2
<1>6. CASE Rests(x)
  BY <1>2, <1>6 DEF Rests
<1>7. QED
  BY <1>3, <1>4, <1>5, <1>6

LEMMA CarryingStays ==
  ASSUME RInv, Carrying, CanaryKept, NEW p \in Clients, Alone(p), Moves(p)
  PROVE  Carrying'
<1>1. Onward /\ db' = db
  BY DEF Alone, Moves
<1>2. /\ Acting' = Acting
      /\ \A x : Input(x)' = Input(x) /\ ServiceOf(x)' = ServiceOf(x) /\ CanaryOf(x)' = CanaryOf(x)
  BY <1>1, Unmoved DEF Onward
<1>3. \A q, s : DecidesCanary(q, s)' <=> DecidesCanary(q, s)
  BY <1>1, StillCommitted
<1>4. Committed' = Committed
  <2>1. \A x \in Acting : span'[x].to = span[x].to
    BY RInvShaped DEF Alone, Moves
  <2>2. QED
    BY <1>2, <2>1 DEF Committed
<1>5. ASSUME NEW x \in Acting, NEW y \in Committed, Running(x)', Input(x).action \in IsolationActions,
             Input(y).action = "canary_deploy", ~DecidesCanary(x, ServiceOf(y)),
             NEW row, row = <<"isolation", ServiceOf(y)>>
      PROVE  \/ \A v \in Assigned(x, row)' : v.canary = CanaryOf(y)
             \/ Superseded(y)' \/ Since(x, y)'
  <2>1. Superseded(y) => Superseded(y)'
    BY <1>1, StillCommitted
  <2>2. x \in Clients /\ y \in Clients /\ span[y].to # 0 /\ row \in DOMAIN db
    BY <1>5, RInvShaped, CommittedOn DEF IsolationActions
  <2>3. span'[x] = span[x]
    BY <1>5, <2>2 DEF Alone, Moves
  <2>4. Since(x, y) => Since(x, y)'
    BY <1>1, <2>2, <2>3, SinceStays
  <2>5. /\ Input(x).action # "canary_deploy" /\ Input(x).in.canary = {} /\ row = <<"isolation", ServiceOf(x)>>
    BY <1>5, Undecided
  <2>6. ASSUME Running(x), Assigned(x, row)' \subseteq Assigned(x, row)
        PROVE  \/ \A v \in Assigned(x, row)' : v.canary = CanaryOf(y)
               \/ Superseded(y)' \/ Since(x, y)'
    <3>1. \/ \A v \in Assigned(x, row) : v.canary = CanaryOf(y)
          \/ Superseded(y) \/ Since(x, y)
      BY <1>5, <2>6 DEF Carrying
    <3>2. QED
      BY <2>1, <2>4, <2>6, <3>1
  <2>7. CASE x # p
    <3>1. tx'[x] = tx[x] /\ pc'[x] = pc[x]
      BY <2>2, <2>7 DEF Alone
    <3>2. Running(x)
      BY <1>5, <3>1 DEF Running
    <3>3. Assigned(x, row)' \subseteq Assigned(x, row)
      BY <3>1, AssignedIs
    <3>4. QED
      BY <2>6, <3>2, <3>3
  <2>8. CASE x = p /\ DecideMutation(p)
    <3>1. \A v \in Assigned(x, row)' : v.canary = db[row].v.canary
      BY <1>5, <2>2, <2>5, <2>8, DecideKeepsCanary
    <3>2. db[row].v.canary = CanaryOf(y) \/ Superseded(y)
      BY <1>5 DEF CanaryKept, Superseded, CanaryOf, ServiceOf
    <3>3. QED
      BY <2>1, <3>1, <3>2
  <2>9. CASE x = p /\ (SelectRows(p) \/ RunStatement(p) \/ Finish(p) \/ Rests(p))
    <3>1. Running(p)
      BY <2>9 DEF SelectRows, RunStatement, Finish, Rests, Running
    <3>2. Assigned(x, row)' \subseteq Assigned(x, row)
      BY <2>5, <2>9, <3>1, CarriedOn
    <3>3. QED
      BY <2>6, <2>9, <3>1, <3>2
  <2>10. QED
    BY <1>5, <2>7, <2>8, <2>9 DEF Moves
<1>6. QED
  <2>1. SUFFICES ASSUME NEW x \in Acting, NEW y \in Committed, Running(x)', Input(x).action \in IsolationActions,
                        Input(y).action = "canary_deploy", ~DecidesCanary(x, ServiceOf(y)),
                        NEW row, row = <<"isolation", ServiceOf(y)>>
                 PROVE  \/ \A v \in Assigned(x, row)' : v.canary = CanaryOf(y)
                        \/ Superseded(y)' \/ Since(x, y)'
    BY <1>2, <1>3, <1>4 DEF Carrying
  <2>2. QED
    BY <1>5, <2>1

LEMMA CanaryStill ==
  ASSUME RInv, Onward, db' = db, CanaryKept, Committed' = Committed
  PROVE  CanaryKept'
<1>1. \A p : Input(p)' = Input(p) /\ ServiceOf(p)' = ServiceOf(p) /\ CanaryOf(p)' = CanaryOf(p)
  BY Unmoved DEF Onward
<1>2. \A p \in Committed : Superseded(p) => Superseded(p)'
  BY StillCommitted
<1>3. ASSUME NEW p \in Committed, Input(p).action = "canary_deploy", NEW row, row = <<"isolation", ServiceOf(p)>>
      PROVE  db[row].v.canary = CanaryOf(p) \/ Superseded(p)'
  <2>1. db[row].v.canary = CanaryOf(p) \/ Superseded(p)
    BY <1>3 DEF CanaryKept, Superseded, CanaryOf, ServiceOf
  <2>2. QED
    BY <1>2, <2>1
<1>4. QED
  BY <1>1, <1>3 DEF CanaryKept, Superseded, CanaryOf, ServiceOf

LEMMA CommitCanaries ==
  ASSUME RInv, CanariesSound, NEW p \in Clients, Commit(p)
  PROVE  CanariesSound'
<1> PICK w : w = tx[p].writes
  OBVIOUS
<1>1. /\ Onward /\ clock \in Nat /\ p \in Acting /\ p # "seed"
      /\ \A x \in Clients \ {p} : tx'[x] = tx[x] /\ pc'[x] = pc[x] /\ span'[x] = span[x]
      /\ span[p] \in [from : 0 .. clock, to : 0 .. clock]
      /\ span'[p].from = span[p].from /\ span'[p].to = clock + 1
  BY CommitOnward
<1>2. /\ Acting' = Acting
      /\ \A x : Input(x)' = Input(x) /\ ServiceOf(x)' = ServiceOf(x) /\ CanaryOf(x)' = CanaryOf(x)
  BY <1>1, Unmoved DEF Onward
<1>3. /\ \A y \in Committed : y \in Committed' /\ span'[y] = span[y]
      /\ \A y \in Committed : Superseded(y) => Superseded(y)'
      /\ \A q, s : DecidesCanary(q, s)' <=> DecidesCanary(q, s)
  BY <1>1, StillCommitted
<1>4. p \in Committed'
  BY <1>1, <1>2 DEF Committed
<1>5. \A y \in Committed' : y = p \/ y \in Committed
  <2> SUFFICES ASSUME NEW y \in Committed', y # p PROVE y \in Committed
    OBVIOUS
  <2>1. y \in Acting /\ span'[y].to > 0
    BY <1>2 DEF Committed
  <2>2. span'[y] = span[y]
    BY <1>1, <2>1, RInvShaped
  <2>3. QED
    BY <2>1, <2>2 DEF Committed
<1>6. p \notin Committed /\ Running(p)
  BY CommitOnward, CommittedOn DEF Commit, Running
<1>7. ASSUME NEW x \in Acting, NEW y \in Committed', Running(x)', Input(x).action \in IsolationActions,
             Input(y).action = "canary_deploy", ~DecidesCanary(x, ServiceOf(y)),
             NEW row, row = <<"isolation", ServiceOf(y)>>
      PROVE  \/ \A v \in Assigned(x, row)' : v.canary = CanaryOf(y)
             \/ Superseded(y)' \/ Since(x, y)'
  <2>1. x \in Clients /\ x # p
    <3>1. pc'[p] = "answered"
      BY RInvShaped DEF Commit, Answered, Shaped
    <3>2. QED
      BY <1>7, <3>1, RInvShaped DEF Running
  <2>2. tx'[x] = tx[x] /\ span'[x] = span[x] /\ Running(x)
    BY <1>1, <1>7, <2>1 DEF Running
  <2>3. CASE y = p
    <3>1. span[x] \in [from : 0 .. clock, to : 0 .. clock]
      BY <2>1, <2>2, RunningIsActing
    <3>2. span'[x].from < span'[p].to
      BY <1>1, <2>2, <3>1
    <3>3. QED
      BY <1>1, <2>3, <3>2 DEF Since
  <2>4. CASE y \in Committed
    <3>1. \/ \A v \in Assigned(x, row) : v.canary = CanaryOf(y)
          \/ Superseded(y) \/ Since(x, y)
      BY <1>7, <2>2, <2>4 DEF CanariesSound, Carrying
    <3>2. Assigned(x, row)' = Assigned(x, row)
      BY <2>2, AssignedIs
    <3>3. Since(x, y) => Since(x, y)'
      BY <1>1, <2>2, <2>4, CommittedOn, SinceStays
    <3>4. QED
      BY <1>3, <2>4, <3>1, <3>2, <3>3
  <2>5. QED
    BY <1>5, <1>7, <2>3, <2>4
<1>8. Carrying'
  <2>1. SUFFICES ASSUME NEW x \in Acting, NEW y \in Committed', Running(x)', Input(x).action \in IsolationActions,
                        Input(y).action = "canary_deploy", ~DecidesCanary(x, ServiceOf(y)),
                        NEW row, row = <<"isolation", ServiceOf(y)>>
                 PROVE  \/ \A v \in Assigned(x, row)' : v.canary = CanaryOf(y)
                        \/ Superseded(y)' \/ Since(x, y)'
    BY <1>2, <1>3 DEF Carrying
  <2>2. QED
    BY <1>7, <2>1
<1>9. ASSUME NEW row \in DOMAIN w, row[1] = "isolation"
      PROVE  /\ w[row] # Gone /\ Holds(p, w[row].t, row, w[row].v) /\ row \in DOMAIN db' /\ db'[row] = w[row]
             /\ w[row].v \in Assigned(p, row) /\ Input(p).action \in IsolationActions
  <2>1. OwnWrite(p, row, w[row])
    BY CommitWrites
  <2>2. w[row] # Gone /\ Holds(p, w[row].t, row, w[row].v)
    BY <1>9, <2>1, OwnRow
  <2>3. row \in DOMAIN db' /\ db'[row] = w[row]
    BY <2>2, CommitWrites
  <2>4. w[row].v \in Assigned(p, row)
    BY CommitWrites DEF Wrote
  <2>5. QED
    BY <1>9, <2>2, <2>3, <2>4 DEF Holds
<1>10. ASSUME NEW y \in Committed', Input(y).action = "canary_deploy", NEW row, row = <<"isolation", ServiceOf(y)>>
       PROVE  db'[row].v.canary = CanaryOf(y) \/ Superseded(y)'
  <2>1. row[1] = "isolation" /\ Input(y).action \in IsolationActions
    BY <1>10 DEF IsolationActions
  <2>2. CASE y = p
    <3>1. Assigned(p, row) # {}
      BY <1>6, <1>10, <2>1, <2>2 DEF RInv, LocalTx, Brings
    <3>2. row \in DOMAIN w
      BY <3>1, CommitWrites DEF Wrote
    <3>3. QED
      BY <1>9, <1>10, <2>1, <2>2, <3>2 DEF Holds
  <2>3. CASE y \in Committed
    <3>1. db[row].v.canary = CanaryOf(y) \/ Superseded(y)
      BY <1>10, <2>3 DEF CanariesSound, CanaryKept, Superseded, CanaryOf, ServiceOf
    <3>2. CASE row \notin DOMAIN w
      <4>1. row \in DOMAIN db
        BY <1>10, <2>1, <2>3, CommittedOn
      <4>2. db'[row] = db[row]
        BY <3>2, <4>1, CommitWrites
      <4>3. QED
        BY <1>3, <2>3, <3>1, <4>2
    <3>3. CASE row \in DOMAIN w
      <4>1. /\ db'[row].v \in Assigned(p, row) /\ Input(p).action \in IsolationActions
        BY <1>9, <2>1, <3>3
      <4>2. p # y /\ span[y].to # 0 /\ span'[y] = span[y] /\ span[y] \in [from : 0 .. clock, to : 0 .. clock]
        BY <1>3, <1>6, <2>3, CommittedOn
      <4>3. PICK s : s = ServiceOf(y)
        OBVIOUS
      <4>4. ASSUME DecidesCanary(p, s) \/ Overlap(y, p)' PROVE Superseded(y)'
        <5>1. /\ p \in Committed' \ {y} /\ Input(p)'.action \in IsolationActions
              /\ ServiceOf(y)' = s /\ (DecidesCanary(p, s)' \/ Overlap(y, p)')
          BY <1>2, <1>3, <1>4, <4>1, <4>2, <4>3, <4>4
        <5>2. QED
          BY <5>1 DEF Superseded, DecidesCanary, ServiceOf
      <4>5. CASE Since(p, y)
        <5>1. span'[y].from <= span'[p].to /\ span'[p].from <= span'[y].to
          BY <1>1, <4>2, <4>5 DEF Since
        <5>2. QED
          BY <4>4, <5>1 DEF Overlap
      <4>6. \/ DecidesCanary(p, s)
            \/ \A v \in Assigned(p, row) : v.canary = CanaryOf(y)
            \/ Superseded(y) \/ Since(p, y)
        BY <1>1, <1>6, <1>10, <2>3, <4>1, <4>3 DEF CanariesSound, Carrying
      <4>7. QED
        BY <1>3, <2>3, <4>1, <4>4, <4>5, <4>6
    <3>4. QED
      BY <3>2, <3>3
  <2>4. QED
    BY <1>5, <2>2, <2>3
<1>11. CanaryKept'
  BY <1>2, <1>10 DEF CanaryKept, Superseded, CanaryOf, ServiceOf
<1>12. QED
  BY <1>8, <1>11 DEF CanariesSound

LEMMA CanariesStep == ASSUME RInv, CanariesSound, [PlaneNext]_vars PROVE CanariesSound'
<1>1. CASE Onward /\ UNCHANGED <<db, tx, pc, span>>
  <2>1. /\ Acting' = Acting
        /\ \A x : Input(x)' = Input(x) /\ ServiceOf(x)' = ServiceOf(x) /\ CanaryOf(x)' = CanaryOf(x)
    BY <1>1, Unmoved DEF Onward
  <2>2. Committed' = Committed
    BY <1>1, <2>1 DEF Committed
  <2>3. CanaryKept'
    BY <1>1, <2>2, CanaryStill DEF CanariesSound
  <2>4. /\ \A y \in Committed : Superseded(y) => Superseded(y)'
        /\ \A q, s : DecidesCanary(q, s)' <=> DecidesCanary(q, s)
    BY <1>1, StillCommitted
  <2>5. /\ \A x : Running(x)' <=> Running(x)
        /\ \A x, y : Since(x, y)' <=> Since(x, y)
        /\ \A x, r : Assigned(x, r)' = Assigned(x, r)
    BY <1>1, AssignedIs DEF Running, Since
  <2>6. Carrying'
    <3>1. SUFFICES ASSUME NEW x \in Acting, NEW y \in Committed, Running(x), Input(x).action \in IsolationActions,
                          Input(y).action = "canary_deploy", ~DecidesCanary(x, ServiceOf(y)),
                          NEW row, row = <<"isolation", ServiceOf(y)>>
                   PROVE  \/ \A v \in Assigned(x, row) : v.canary = CanaryOf(y)
                          \/ Superseded(y)' \/ Since(x, y)
      BY <2>1, <2>2, <2>4, <2>5 DEF Carrying
    <3>2. QED
      BY <2>4, <3>1 DEF CanariesSound, Carrying
  <2>7. QED
    BY <2>3, <2>6 DEF CanariesSound
<1>2. ASSUME NEW p \in Clients, Alone(p), Moves(p) PROVE CanariesSound'
  <2>1. Onward /\ db' = db /\ Acting' = Acting
    BY <1>2, Unmoved DEF Alone, Moves, Onward
  <2>2. Committed' = Committed
    <3>1. \A x \in Acting : span'[x].to = span[x].to
      BY <1>2, RInvShaped DEF Alone, Moves
    <3>2. QED
      BY <2>1, <3>1 DEF Committed
  <2>3. QED
    BY <1>2, <2>1, <2>2, CarryingStays, CanaryStill DEF CanariesSound
<1>3. QED
  BY <1>1, <1>2, CommitCanaries, StepMoves

LEMMA CanariesInit == ASSUME PlaneInit PROVE CanariesSound
<1>1. ASSUME NEW p \in Committed PROVE FALSE
  <2>1. p \in Clients /\ span[p].to > 0
    BY DEF Committed, Acting
  <2>2. QED
    BY <2>1, NobodyRuns
<1>2. QED
  BY <1>1 DEF CanariesSound, Carrying, CanaryKept

(* The licences are those of one refresh or of refreshes that overlapped,  *)
(* the result of a canary stays until a later or an overlapping request    *)
(* decides otherwise, and what the audit trail says of a billing source is *)
(* what is stored (room-contract.ts:3043-3067, upsertIsolationStateTx,     *)
(* sanitizeActionPayloadForAudit).                                         *)
THEOREM DecisionsTheorem == PlaneSpec => []DecisionsKept
<1>1. PlaneInit => RInv /\ LicensesSound /\ CanariesSound
  BY RInvInit, LicensesInit, CanariesInit
<1>2. RInv /\ LicensesSound /\ CanariesSound /\ [PlaneNext]_vars => (RInv /\ LicensesSound /\ CanariesSound)'
  BY RInvStep, LicensesStep, CanariesStep
<1>3. RInv /\ LicensesSound /\ CanariesSound => DecisionsKept
  BY AuditKept DEF LicensesSound, CanariesSound, DecisionsKept
<1>4. QED
  BY <1>1, <1>2, <1>3, PTL DEF PlaneSpec

-----------------------------------------------------------------------------
(* What readers are told.                                                  *)
ViewFields == {"modeAtStart", "data", "targets", "intel", "connected", "summary", "body", "status",
               "reasons", "evidence", "blockers", "synthesized", "stops"}

LEMMA UnreadFields ==
  /\ DOMAIN Unread = ViewFields
  /\ Unread.stops = {} /\ Unread.summary = {} /\ Unread.synthesized = FALSE /\ Unread.body # "synth"
<1>1. PICK none : none = ""
  OBVIOUS
<1>2. Unread = [modeAtStart |-> none, data |-> NoBilling, targets |-> {}, intel |-> FALSE, connected |-> FALSE,
                summary |-> {}, body |-> none, status |-> none, reasons |-> {}, evidence |-> FALSE, blockers |-> {},
                synthesized |-> FALSE, stops |-> {}]
  BY <1>1, Zenon DEF Unread
<1>3. none # "synth"
  BY <1>1, Zenon
<1>4. QED
  BY <1>2, <1>3 DEF ViewFields

(* The newest of some rows is one of them.                                 *)
LEMMA LatestThere ==
  ASSUME RInv, NEW among, among \subseteq DOMAIN db, among # {}
  PROVE  Latest(db, among) # {}
<1> DEFINE ages == {clock - db[r].t : r \in among}
<1>1. clock \in Nat /\ \A r \in among : db[r].t \in 0 .. clock
  BY RInvShaped DEF Shaped, CommittedRows, IsRow
<1>2. ages \subseteq Nat /\ ages # {}
  BY <1>1
<1>3. \E n \in ages : \A m \in ages : ~(<<m, n>> \in OpToRel(<, Nat))
  <2>1. IsWellFoundedOn(OpToRel(<, Nat), Nat)
    BY NatLessThanWellFounded
  <2> HIDE DEF ages
  <2>2. QED
    BY <1>2, <2>1, WFMin
<1>4. PICK n \in ages : \A m \in ages : ~(<<m, n>> \in OpToRel(<, Nat))
  BY <1>3
<1>5. \A m \in ages : ~(m < n)
  BY <1>2, <1>4 DEF OpToRel
<1>6. PICK r \in among : n = clock - db[r].t
  OBVIOUS
<1>7. \A k \in among : db[k].t <= db[r].t
  <2> SUFFICES ASSUME NEW k \in among PROVE db[k].t <= db[r].t
    OBVIOUS
  <2>1. ~(clock - db[k].t < clock - db[r].t)
    BY <1>5, <1>6
  <2>2. QED
    BY <1>1, <2>1
<1>8. QED
  BY <1>7 DEF Latest

(* A green summary has its evidence.                                       *)
LEMMA GreenHasEvidence ==
  ASSUME RInv, NEW r \in DOMAIN db, r[1] = "summary", db[r].v.patch.status = "green"
  PROVE  db[r].v.ref # None
<1>1. db[r].by # "seed"
  BY BySeed DEF Seeded
<1>2. PICK q : q = db[r].by
  OBVIOUS
<1>3. Accounted(db[r]) /\ Holds(q, db[r].t, r, db[r].v) /\ q \in Acting
  BY <1>1, <1>2, ByCommitted, RInvShaped DEF CommittedRows
<1>4. Admitted(q) /\ db[r].v.ref = Ref(q)
  BY <1>1, <1>2, <1>3, RInvShaped DEF Accounted, Holds
<1>5. QED
  BY <1>3, <1>4, RInvShaped, RequestsTyped

(* A body has a reason unless it is green, and evidence if it is.          *)
Grounded(b) ==
  /\ b.status # "green" => b.reasons # {}
  /\ b.status = "green" => b.evidence

LEMMA StopsWrite ==
  ASSUME NEW v, Grounded(v), NEW room
  PROVE  \A s \in StopsOf(room, v) : s.scope = "write"
<1>1. \A code, when : \A s \in Stop(code, "write", when) : s.scope = "write"
  BY DEF Stop
<1>2. \A code, scope : Stop(code, scope, FALSE) = {}
  BY DEF Stop
<1>3. \A s \in CommonStops(room, v) : s.scope = "write"
  <2>1. (v.status # "green" /\ v.reasons = {}) = FALSE
    BY DEF Grounded
  <2>2. (v.status = "green" /\ room \in ProofBoundRooms /\ ~v.evidence) = FALSE
    BY DEF Grounded
  <2>3. Stop("status_non_green_without_reasons", "read", v.status # "green" /\ v.reasons = {}) = {}
    BY <1>2, <2>1
  <2>4. Stop("green_proof_room_missing_evidence_or_exemption", "read",
             v.status = "green" /\ room \in ProofBoundRooms /\ ~v.evidence) = {}
    BY <1>2, <2>2
  <2>5. Stop("non_green_missing_reason_companions", "read", v.status # "green" /\ v.reasons = {}) = {}
    BY <1>2, <2>1
  <2>6. QED
    BY <1>1, <2>3, <2>4, <2>5 DEF CommonStops
<1>4. \A s \in MarketStops(v) : s.scope = "write"
  BY DEF MarketStops, Stop
<1>5. \A s \in CommercialStops(v) : s.scope = "write"
  BY <1>1 DEF CommercialStops
<1>6. \A s \in SystemStops(v) : s.scope = "write"
  BY <1>1 DEF SystemStops
<1>7. QED
  BY <1>3, <1>4, <1>5, <1>6 DEF StopsOf

(* A reader goes on with v.                                                *)
LEMMA ReaderGoesOn ==
  ASSUME RInv, ViewsSound, NEW p \in Clients, NEW v, Honest(v), view' = [view EXCEPT ![p] = v],
         NEW to, to # "new", pc' = [pc EXCEPT ![p] = to]
  PROVE  ViewsSound'
<1>1. pc'[p] = to /\ \A q \in Clients \ {p} : pc'[q] = pc[q]
  BY RInvShaped DEF Shaped
<1>2. DOMAIN view' = Clients /\ view'[p] = v /\ \A q \in Clients \ {p} : view'[q] = view[q]
  BY DEF ViewsSound
<1>3. \A q \in Clients : Honest(view'[q]) /\ (pc'[q] = "new" => ~view'[q].synthesized)
  BY <1>1, <1>2 DEF ViewsSound
<1>4. QED
  BY <1>2, <1>3 DEF ViewsSound, Honest

LEMMA ReaderStays ==
  ASSUME RInv, ViewsSound, NEW p \in Clients, view' = view, NEW to, to # "new", pc' = [pc EXCEPT ![p] = to]
  PROVE  ViewsSound'
<1>1. pc'[p] = to /\ \A q \in Clients \ {p} : pc'[q] = pc[q]
  BY RInvShaped DEF Shaped
<1>2. QED
  BY <1>1 DEF ViewsSound, Honest

LEMMA CollectSound ==
  ASSUME RInv, ViewsSound, NEW p \in Clients, NEW b, DOMAIN b = ViewFields, Grounded(b),
         \A s \in b.summary : s.patch.status = "green" => s.ref # None,
         b.body = "synth" => b.status # "green",
         Collect(p, b)
  PROVE  ViewsSound'
<1>1. PICK v : v = [b EXCEPT !.synthesized = b.modeAtStart # "primary_db" /\ b.body = "synth"]
  OBVIOUS
<1>2. PICK w : w = [v EXCEPT !.stops = StopsOf(Input(p).room, v)]
  OBVIOUS
<1>3. /\ DOMAIN v = ViewFields /\ v.status = b.status /\ v.reasons = b.reasons /\ v.evidence = b.evidence
      /\ v.summary = b.summary /\ v.body = b.body /\ v.modeAtStart = b.modeAtStart
      /\ v.modeAtStart = "primary_db" => ~v.synthesized
  BY <1>1 DEF ViewFields
<1>4. Grounded(v)
  BY <1>3 DEF Grounded
<1>5. PICK stops : stops = StopsOf(Input(p).room, v)
  OBVIOUS
<1>6. \A s \in stops : s.scope = "write"
  BY <1>4, <1>5, StopsWrite
<1>7. /\ DOMAIN w = ViewFields /\ w.status = v.status /\ w.summary = v.summary /\ w.body = v.body
      /\ w.modeAtStart = v.modeAtStart /\ w.synthesized = v.synthesized /\ w.stops = stops
  BY <1>2, <1>3, <1>5 DEF ViewFields
<1>8. Honest(w)
  BY <1>3, <1>6, <1>7, UnreadFields DEF Honest
<1>9. view' = [view EXCEPT ![p] = w]
  BY <1>1, <1>2, Zenon DEF Collect
<1>10. \E to : to # "new" /\ pc' = [pc EXCEPT ![p] = to]
  BY DEF Collect, Goto, Answered
<1>11. QED
  BY <1>8, <1>9, <1>10, ReaderGoesOn

LEMMA ReasonsThere ==
  ASSUME RInv, NEW p, NEW v, NEW s, s = (CHOOSE c \in v.summary : TRUE), s.patch.status # "green"
  PROVE  ReasonsOf(p, v) # {}
<1> DEFINE rows == {r \in RowsOf(Readable, "reason") : Readable[r].v.room = Input(p).room}
<1>1. CASE rows = {}
  BY <1>1 DEF ReasonsOf
<1>2. CASE rows # {}
  <2>1. Readable = db
    BY <1>2 DEF Readable, RowsOf
  <2>2. rows \subseteq DOMAIN db
    BY <2>1 DEF RowsOf
  <2>3. Latest(Readable, rows) # {}
    <3> HIDE DEF rows
    <3> QED
      BY <1>2, <2>1, <2>2, LatestThere
  <2>4. ReasonsOf(p, v) = {Readable[r].v.code : r \in Latest(Readable, rows)}
    BY <1>2 DEF ReasonsOf
  <2>5. QED
    BY <2>3, <2>4
<1>3. QED
  BY <1>1, <1>2

(* A stand-in computed from the environment.                               *)
LEMMA StandIn ==
  ASSUME NEW v, DOMAIN v = ViewFields, NEW verdict, NEW b, b = Downgraded(v, verdict)
  PROVE  /\ DOMAIN b = ViewFields /\ Grounded(b) /\ b.status # "green" /\ b.summary = v.summary
<1>1. DOMAIN b = ViewFields
  BY DEF Downgraded, ViewFields
<1>2. /\ b.status = (IF verdict.status = "green" THEN "amber" ELSE verdict.status)
      /\ b.reasons = (IF verdict.codes = {} THEN {"synthesized_mode"} ELSE verdict.codes)
      /\ b.summary = v.summary
  BY DEF Downgraded, ViewFields
<1>3. b.status # "green" /\ b.reasons # {}
  BY <1>2
<1>4. QED
  BY <1>1, <1>2, <1>3 DEF Grounded

LEMMA SynthesizedSound ==
  ASSUME RInv, ViewsSound, NEW p \in Clients, NEW v, DOMAIN v = ViewFields, v.summary = view[p].summary,
         NEW verdict, Collect(p, Downgraded(v, verdict))
  PROVE  ViewsSound'
<1>1. PICK b : b = Downgraded(v, verdict)
  OBVIOUS
<1>2. /\ DOMAIN b = ViewFields /\ Grounded(b) /\ b.status # "green" /\ b.summary = v.summary
  BY <1>1, StandIn
<1>3. \A s \in b.summary : s.patch.status = "green" => s.ref # None
  BY <1>2 DEF ViewsSound, Honest
<1>4. Collect(p, b)
  BY <1>1
<1>5. QED
  BY <1>2, <1>3, <1>4, CollectSound

LEMMA LoadReasonsSound ==
  ASSUME RInv, ViewsSound, NEW p \in Clients, LoadReasons(p)
  PROVE  ViewsSound'
<1>1. PICK v : v = view[p]
  OBVIOUS
<1>2. /\ Honest(v) /\ DOMAIN v = ViewFields
      /\ \A s \in v.summary : s.patch.status = "green" => s.ref # None
  BY <1>1, UnreadFields DEF ViewsSound, Honest
<1>3. CASE v.summary # {} /\ LET s == CHOOSE s \in v.summary : TRUE IN
             Collect(p, [v EXCEPT !.body = "row", !.status = s.patch.status, !.reasons = ReasonsOf(p, v),
                                  !.evidence = s.ref # None])
  <2>1. PICK s : s = CHOOSE c \in v.summary : TRUE
    OBVIOUS
  <2>2. s \in v.summary
    BY <1>3, <2>1
  <2>3. PICK b : b = [v EXCEPT !.body = "row", !.status = s.patch.status, !.reasons = ReasonsOf(p, v),
                               !.evidence = s.ref # None]
    OBVIOUS
  <2>4. /\ DOMAIN b = ViewFields /\ b.body = "row" /\ b.status = s.patch.status /\ b.reasons = ReasonsOf(p, v)
        /\ b.evidence = (s.ref # None) /\ b.summary = v.summary
    BY <1>2, <2>3 DEF ViewFields
  <2>5. Grounded(b)
    BY <1>2, <2>1, <2>2, <2>4, ReasonsThere DEF Grounded
  <2>6. Collect(p, b)
    BY <1>3, <2>1, <2>3
  <2>7. QED
    BY <1>2, <2>4, <2>5, <2>6, CollectSound
<1>4. CASE Collect(p, Missing(v))
  <2>1. PICK b : b = Missing(v)
    OBVIOUS
  <2>2. /\ DOMAIN b = ViewFields /\ b.body = "missing" /\ b.status = "amber" /\ b.reasons = {"room_summary_missing"}
        /\ b.summary = v.summary
    BY <1>2, <2>1 DEF ViewFields, Missing
  <2>3. Grounded(b)
    BY <2>2 DEF Grounded
  <2>4. Collect(p, b)
    BY <1>4, <2>1
  <2>5. QED
    BY <1>2, <2>2, <2>3, <2>4, CollectSound
<1>5. CASE \E verdict \in SynthCamp : Collect(p, Downgraded(v, verdict))
  BY <1>1, <1>2, <1>5, SynthesizedSound
<1>6. CASE Goto(p, "synth") /\ view' = view
  <2>1. pc' = [pc EXCEPT ![p] = "synth"]
    BY <1>6 DEF Goto
  <2>2. QED
    BY <1>6, <2>1, ReaderStays
<1>7. QED
  BY <1>1, <1>3, <1>4, <1>5, <1>6 DEF LoadReasons

LEMMA ViewsStep ==
  ASSUME RInv, ViewsSound, NEW p \in Clients, ViewNext(p)
  PROVE  ViewsSound'
<1>1. PICK v : v = view[p]
  OBVIOUS
<1>2. /\ Honest(v) /\ DOMAIN v = ViewFields /\ (pc[p] = "new" => ~v.synthesized)
  BY <1>1, UnreadFields DEF ViewsSound, Honest
<1>3. ASSUME NEW w, DOMAIN w = ViewFields, w.body = v.body, w.status = v.status, w.stops = v.stops,
             w.modeAtStart = v.modeAtStart, w.synthesized = v.synthesized, w.summary = v.summary
      PROVE  Honest(w)
  BY <1>2, <1>3, UnreadFields DEF Honest
<1>4. CASE ReceiveView(p)
  <2>1. CASE UNCHANGED view
    <3>1. \E to : to # "new" /\ pc' = [pc EXCEPT ![p] = to]
      BY <1>4, Zenon DEF ReceiveView, Goto, Answered
    <3>2. QED
      BY <2>1, <3>1, ReaderStays
  <2>2. CASE view' = [view EXCEPT ![p].modeAtStart = mode]
    <3>1. PICK w : w = [v EXCEPT !.modeAtStart = mode]
      OBVIOUS
    <3>2. /\ DOMAIN w = ViewFields /\ w.body = v.body /\ w.status = v.status /\ w.stops = v.stops
          /\ w.synthesized = v.synthesized /\ w.summary = v.summary
      BY <1>2, <3>1 DEF ViewFields
    <3>3. ~w.synthesized
      BY <1>2, <1>4, <3>2 DEF ReceiveView
    <3>4. Honest(w)
      BY <1>2, <3>2, <3>3, UnreadFields DEF Honest
    <3>5. view' = [view EXCEPT ![p] = w]
      BY <1>1, <2>2, <3>1
    <3>6. \E to : to # "new" /\ pc' = [pc EXCEPT ![p] = to]
      BY <1>4, Zenon DEF ReceiveView, Goto, Answered
    <3>7. QED
      BY <3>4, <3>5, <3>6, ReaderGoesOn
  <2>3. QED
    BY <1>4, <2>1, <2>2, Zenon DEF ReceiveView
<1>5. CASE LoadData(p)
  <2>1. \E d, c, t, i : view' = [view EXCEPT ![p].data = d, ![p].connected = c, ![p].targets = t, ![p].intel = i]
    <3>1. PICK d, c : view' = [view EXCEPT ![p].data = d, ![p].connected = c,
                                           ![p].targets = ActiveTargets(Readable),
                                           ![p].intel = RowsOf(Readable, "intel") # {}]
      BY <1>5, Zenon DEF LoadData
    <3>2. PICK t : t = ActiveTargets(Readable)
      OBVIOUS
    <3>3. PICK i : i = (RowsOf(Readable, "intel") # {})
      OBVIOUS
    <3>4. view' = [view EXCEPT ![p].data = d, ![p].connected = c, ![p].targets = t, ![p].intel = i]
      BY <3>1, <3>2, <3>3, Zenon
    <3>5. QED
      BY <3>4, Zenon
  <2>2. PICK d, c, t, i : view' = [view EXCEPT ![p].data = d, ![p].connected = c, ![p].targets = t, ![p].intel = i]
    BY <2>1, Zenon
  <2>3. PICK w : w = [v EXCEPT !.data = d, !.connected = c, !.targets = t, !.intel = i]
    OBVIOUS
  <2>4. view' = [view EXCEPT ![p] = w]
    BY <1>1, <2>2, <2>3
  <2>5. Honest(w)
    <3>1. /\ DOMAIN w = ViewFields /\ w.body = v.body /\ w.status = v.status /\ w.stops = v.stops
          /\ w.modeAtStart = v.modeAtStart /\ w.synthesized = v.synthesized /\ w.summary = v.summary
      BY <1>2, <2>3 DEF ViewFields
    <3>2. QED
      BY <1>3, <3>1
  <2>6. pc' = [pc EXCEPT ![p] = "summary"]
    BY <1>5 DEF LoadData, Goto
  <2>7. QED
    BY <2>4, <2>5, <2>6, ReaderGoesOn
<1>6. CASE LoadSummary(p)
  <2>1. PICK found : found = {Readable[r].v : r \in DOMAIN Readable \cap {<<"summary", Input(p).room>>}}
    OBVIOUS
  <2>2. PICK w : w = [v EXCEPT !.summary = found]
    OBVIOUS
  <2>3. view' = [view EXCEPT ![p] = w]
    BY <1>1, <1>6, <2>1, <2>2 DEF LoadSummary
  <2>4. /\ DOMAIN w = ViewFields /\ w.body = v.body /\ w.status = v.status /\ w.stops = v.stops
        /\ w.modeAtStart = v.modeAtStart /\ w.synthesized = v.synthesized /\ w.summary = found
    BY <1>2, <2>2 DEF ViewFields
  <2>5. ASSUME NEW s \in found, s.patch.status = "green" PROVE s.ref # None
    <3>1. PICK r \in DOMAIN Readable : r = <<"summary", Input(p).room>> /\ s = Readable[r].v
      BY <2>1
    <3>2. r[1] = "summary" /\ Readable = db
      BY <3>1 DEF Readable
    <3>3. QED
      BY <2>5, <3>1, <3>2, GreenHasEvidence
  <2>6. Honest(w)
    BY <1>2, <2>4, <2>5, UnreadFields DEF Honest
  <2>7. pc' = [pc EXCEPT ![p] = "reasons"]
    BY <1>6 DEF LoadSummary, Goto
  <2>8. QED
    BY <2>3, <2>6, <2>7, ReaderGoesOn
<1>7. CASE LoadReasons(p)
  BY <1>7, LoadReasonsSound
<1>8. CASE Synthesize(p)
  <2>1. PICK w \in Fetched(p) : \E verdict : Collect(p, Downgraded(w, verdict))
    BY <1>8, Zenon DEF Synthesize
  <2>2. PICK verdict : Collect(p, Downgraded(w, verdict))
    BY <2>1
  <2>3. ASSUME NEW t, NEW c, NEW x, x = [v EXCEPT !.targets = t, !.connected = c]
        PROVE  DOMAIN x = ViewFields /\ x.summary = v.summary
    BY <1>2, <2>3 DEF ViewFields
  <2>4. w = v \/ \E m : w = [v EXCEPT !.targets = m.targets, !.connected = m.connected]
    BY <1>1, <2>1, Zenon DEF Fetched
  <2>5. ASSUME NEW m, w = [v EXCEPT !.targets = m.targets, !.connected = m.connected]
        PROVE  DOMAIN w = ViewFields /\ w.summary = v.summary
    <3>1. PICK t : t = m.targets
      OBVIOUS
    <3>2. PICK c : c = m.connected
      OBVIOUS
    <3>3. w = [v EXCEPT !.targets = t, !.connected = c]
      BY <2>5, <3>1, <3>2, Zenon
    <3>4. QED
      BY <2>3, <3>3, Zenon
  <2>6. DOMAIN w = ViewFields /\ w.summary = view[p].summary
    BY <1>1, <1>2, <2>4, <2>5, Zenon
  <2>7. QED
    BY <2>2, <2>6, SynthesizedSound
<1>9. ASSUME NEW more, \A s \in more : s.scope = "write", view' = [view EXCEPT ![p].stops = @ \cup more],
             NEW to, to # "new", pc' = [pc EXCEPT ![p] = to]
      PROVE  ViewsSound'
  <2>1. PICK w : w = [v EXCEPT !.stops = v.stops \cup more]
    OBVIOUS
  <2>2. view' = [view EXCEPT ![p] = w]
    BY <1>1, <1>9, <2>1
  <2>3. /\ DOMAIN w = ViewFields /\ w.body = v.body /\ w.status = v.status /\ w.stops = v.stops \cup more
        /\ w.modeAtStart = v.modeAtStart /\ w.synthesized = v.synthesized /\ w.summary = v.summary
    BY <1>2, <2>1 DEF ViewFields
  <2>4. Honest(w)
    BY <1>2, <1>9, <2>3, UnreadFields DEF Honest
  <2>5. QED
    BY <1>9, <2>2, <2>4, ReaderGoesOn
<1>10. \A code, when : \A s \in Stop(code, "write", when) : s.scope = "write"
  BY DEF Stop
<1>11. CASE LoadBoundary(p)
  <2>1. PICK x, y : view' = [view EXCEPT ![p].stops = @ \cup Stop("boundary_state_unverified", "write", x)
                                                     \cup Stop("boundary_owner_still_eoa", "write", y)]
    BY <1>11 DEF LoadBoundary
  <2>2. PICK more : more = Stop("boundary_state_unverified", "write", x) \cup Stop("boundary_owner_still_eoa", "write", y)
    OBVIOUS
  <2>3. view' = [view EXCEPT ![p].stops = @ \cup more]
    BY <2>1, <2>2
  <2>4. \A s \in more : s.scope = "write"
    BY <1>10, <2>2
  <2>5. pc' = [pc EXCEPT ![p] = "isolation"]
    BY <1>11 DEF LoadBoundary, Goto
  <2>6. QED
    BY <1>9, <2>3, <2>4, <2>5
<1>12. CASE LoadIsolation(p)
  <2>1. PICK x, y : view' = [view EXCEPT ![p].stops = @ \cup Stop("boundary_isolation_unverified", "write", x)
                                                     \cup Stop("rollback_canary_unverified", "write", y)]
    BY <1>12 DEF LoadIsolation
  <2>2. PICK more : more = Stop("boundary_isolation_unverified", "write", x) \cup Stop("rollback_canary_unverified", "write", y)
    OBVIOUS
  <2>3. view' = [view EXCEPT ![p].stops = @ \cup more]
    BY <2>1, <2>2
  <2>4. \A s \in more : s.scope = "write"
    BY <1>10, <2>2
  <2>5. pc' = [pc EXCEPT ![p] = "answered"]
    BY <1>12 DEF LoadIsolation, Answered
  <2>6. QED
    BY <1>9, <2>3, <2>4, <2>5
<1>13. QED
  BY <1>4, <1>5, <1>6, <1>7, <1>8, <1>11, <1>12 DEF ViewNext

(* Actions leave the readers alone, and nobody arrives twice.              *)
LEMMA NeverNew ==
  ASSUME RInv, NEW p \in Clients, ActionNext(p)
  PROVE  pc' = pc \/ \E to : to # "new" /\ pc' = [pc EXCEPT ![p] = to]
<1>1. LocalTx(p) /\ Cast
  BY RInvShaped DEF RInv
<1>2. ASSUME NEW to, to # "new", Goto(p, to) PROVE \E t : t # "new" /\ pc' = [pc EXCEPT ![p] = t]
  BY <1>2 DEF Goto
<1>3. ASSUME NEW code, Answered(p, code) PROVE \E t : t # "new" /\ pc' = [pc EXCEPT ![p] = t]
  BY <1>3 DEF Answered
<1>4. CASE ReceiveAction(p)
  <2>1. Goto(p, "begin") \/ \E code : Answered(p, code)
    BY <1>4, Zenon DEF ReceiveAction
  <2>2. QED
    BY <1>2, <1>3, <2>1
<1>5. CASE Begin(p)
  BY <1>2, <1>5 DEF Begin
<1>6. CASE ConnectFails(p) \/ Rollback(p) \/ Commit(p) \/ Fault(p) \/ CancelDeadlocked(p)
  BY <1>3, <1>6 DEF ConnectFails, Rollback, Commit, Fault, CancelDeadlocked
<1>7. CASE DecideMutation(p)
  <2>1. p \in Acting /\ Admitted(p)
    BY <1>1, <1>7 DEF DecideMutation, LocalTx
  <2>2. Planned(p, "decide", "run")
    BY <1>1, <1>7, <2>1, DecideMutationPlans
  <2>3. QED
    BY <1>2, <2>2 DEF Planned
<1>8. CASE SelectRows(p) \/ RunStatement(p)
  BY <1>8 DEF SelectRows, RunStatement
<1>9. CASE Finish(p)
  <2>1. Planned(p, "run", "record")
    BY <1>9, FinishPlans
  <2>2. QED
    BY <1>2, <2>1 DEF Planned
<1>10. CASE EndStatements(p)
  BY <1>2, <1>10 DEF EndStatements, Plan
<1>11. CASE InsertEvidence(p)
  <2>1. Rollback(p) \/ Goto(p, "commit")
    BY <1>11 DEF InsertEvidence
  <2>2. QED
    BY <1>2, <1>6, <2>1
<1>12. QED
  BY <1>4, <1>5, <1>6, <1>7, <1>8, <1>9, <1>10, <1>11 DEF ActionNext

LEMMA ViewsKept == ASSUME RInv, ViewsSound, [PlaneNext]_vars PROVE ViewsSound'
<1>1. ASSUME UNCHANGED <<view, pc>> PROVE ViewsSound'
  BY <1>1 DEF ViewsSound, Honest
<1>2. CASE ModeStep
  BY <1>1, <1>2 DEF ModeStep, storeVars
<1>3. ASSUME NEW p \in Clients, ActionStep(p) PROVE ViewsSound'
  BY <1>1, <1>3, NeverNew, ReaderStays DEF ActionStep
<1>4. ASSUME NEW p \in Clients, ViewStep(p) PROVE ViewsSound'
  BY <1>4, ViewsStep DEF ViewStep
<1>5. CASE UNCHANGED vars
  BY <1>1, <1>5 DEF vars, storeVars
<1>6. QED
  BY <1>2, <1>3, <1>4, <1>5 DEF PlaneNext, ClientStep

LEMMA ViewsInit == ASSUME PlaneInit PROVE ViewsSound
<1>1. PICK v : v = Unread
  OBVIOUS
<1>2. /\ DOMAIN v = DOMAIN Unread /\ v.stops = {} /\ v.summary = {} /\ v.synthesized = FALSE /\ v.body # "synth"
  BY <1>1, UnreadFields
<1>3. Honest(v)
  BY <1>2 DEF Honest
<1>4. view = [p \in Clients |-> v]
  BY <1>1 DEF PlaneInit
<1>5. QED
  BY <1>2, <1>3, <1>4 DEF ViewsSound

(* No answer carries a stop condition that forbids reading, whatever the   *)
(* queries in between found and however the mode changed meanwhile; a      *)
(* made-up body is never green, and never called synthesized by an answer  *)
(* that reports primary mode (room-contract.ts:3584-3653).                 *)
THEOREM ViewsTheorem == PlaneSpec => []ViewsHonest
<1>1. PlaneInit => RInv /\ ViewsSound
  BY RInvInit, ViewsInit
<1>2. RInv /\ ViewsSound /\ [PlaneNext]_vars => (RInv /\ ViewsSound)'
  BY RInvStep, ViewsKept
<1>3. RInv /\ ViewsSound => ViewsHonest
  BY DEF ViewsSound, Honest, ViewsHonest, ReadNeverBlocked, SynthesizedNeverGreen, Answers
<1>4. QED
  BY <1>1, <1>2, <1>3, PTL DEF PlaneSpec
=============================================================================
