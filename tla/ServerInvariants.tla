--------------------------- MODULE ServerInvariants -------------------------
(***************************************************************************)
(* An inductive invariant of each of these, and what it gives: the boot    *)
(* seed, however many servers start at once, fail or crash next to the     *)
(* operators, the conductor with its engines, the room runner, the         *)
(* certificates' lists, and the agent gateway.  ServicesProofs states the  *)
(* theorems.                                                               *)
(***************************************************************************)
EXTENDS BootSeed, CeoServices, CertificateReads, StationLanes,
        TLAPS, WellFoundedInduction, FiniteSetTheorems, FunctionTheorems, SequenceTheorems

-----------------------------------------------------------------------------
(***************************************************************************)
(* The boot seed: processes, their statements, and the rooms they register *)
(* (seed.ts:263).                                                          *)
(***************************************************************************)

(* The statements of seedBootData, function by function.                   *)
RoomsAt == {"registry", "summary", "readLog", "writeLog", "actions"}
DeploymentAt == {"readDeployment", "insertDeployment"}
TextsAt == {"readText", "insertText"}
LicencesAt == {"deleteLicences", "insertLicence"}
EventsAt == {"genesis", "deployment", "service_check", "boot"}
IntelAt == {"readIntel", "insertIntel"}
RegistryAt == {"readTargets", "connect", "analyse", "disconnect", "boundary"}

(* Those that are reached behind a function.                               *)
AfterIntel == RegistryAt \cup {"seeded"}
AfterChain == IntelAt \cup AfterIntel
AfterLicences == {"readHead"} \cup EventsAt \cup AfterChain
AfterProbes == TextsAt \cup LicencesAt \cup AfterLicences
AfterDeployment == {"probe"} \cup AfterProbes
AfterRooms == DeploymentAt \cup AfterDeployment
Statements == {"waiting", "failed", "crashed"} \cup RoomsAt \cup AfterRooms

States == [at : Statements, n : 1 .. Len(SeedRooms), k : Nat \ {0}, seen : Nat]

(* Two processes between a look and its writes are noticed.                *)
Alone(s) ==
  s \notin raced => \A b, c \in Boots : boot[b].at \in Window(s) /\ boot[c].at \in Window(s) => b = c

BootsHold ==
  /\ boot \in [Boots -> States] /\ raced \subseteq Subjects /\ writes \in [Subjects -> Nat]
  /\ \A s \in Subjects : Alone(s)

(* A boot has come through what is before these statements.                *)
Through(b, after) == boot[b].at \in after /\ (boot[b].at = "seeded" => probes[b] > 0)

(* A step of b goes from one of these statements to one of those.          *)
Steps(b, from, to) ==
  /\ BootsHold' /\ raced \subseteq raced' /\ writes' = writes
  /\ boot[b].at \in from /\ boot'[b].at \in to
  /\ \A c \in Boots : c # b => boot'[c] = boot[c] /\ probes'[c] = probes[c]

(* The windows, one by one ...                                             *)
LEMMA WindowsAre ==
  /\ Window("rooms") = {"writeLog"} /\ Window("deployment") = {"insertDeployment"} /\ Window("texts") = {"insertText"}
  /\ Window("licences") = {"insertLicence"} /\ Window("chain") = EventsAt /\ Window("market") = {"insertIntel"}
BY DEF Window, EventsAt

(* ... hold statements that a process waits at no more than it ends there. *)
LEMMA WindowsSmall ==
  ASSUME NEW s \in Subjects
  PROVE  /\ Window(s) \subseteq Statements
         /\ Window(s) \cap {"waiting", "failed", "crashed", "seeded", "disconnect"} = {}
BY WindowsAre DEF Subjects, Statements, RoomsAt, AfterRooms, DeploymentAt, AfterDeployment, AfterProbes, TextsAt,
  LicencesAt, AfterLicences, EventsAt, AfterChain, IntelAt

(* Two elements make a set of more than one.                               *)
LEMMA TwoAreMore ==
  ASSUME NEW S, IsFiniteSet(S), NEW b \in S, NEW c \in S, b # c
  PROVE  Cardinality(S) > 1
<1>1. IsFiniteSet({b, c}) /\ Cardinality({b, c}) = 2
  <2>1. IsFiniteSet({b}) /\ Cardinality({b}) = 1
    BY FS_Singleton
  <2>2. c \notin {b}
    OBVIOUS
  <2> DEFINE one == {b}
  <2>3. IsFiniteSet(one) /\ Cardinality(one) = 1 /\ c \notin one
    BY <2>1, <2>2
  <2> HIDE DEF one
  <2>4. IsFiniteSet(one \cup {c}) /\ Cardinality(one \cup {c}) = Cardinality(one) + 1
    BY <2>3, FS_AddElement
  <2>5. one \cup {c} = {b, c}
    BY DEF one
  <2> QED
    BY <2>3, <2>4, <2>5
<1>2. Cardinality({b, c}) <= Cardinality(S) /\ Cardinality(S) \in Nat
  BY FS_Subset, FS_CardinalityType
<1> QED
  BY <1>1, <1>2

(* A process that moves alone is noticed at a window where another one is. *)
LEMMA Moving ==
  ASSUME BootsHold, NEW b \in Boots, NEW state \in States, MovesTo(b, state)
  PROVE  /\ BootsHold' /\ raced \subseteq raced' /\ writes' = writes /\ boot'[b] = state
         /\ \A c \in Boots : c # b => boot'[c] = boot[c]
<1>1. /\ boot' = [boot EXCEPT ![b] = state] /\ boot \in [Boots -> States] /\ writes' = writes
      /\ raced' = raced \cup {s \in Subjects : Cardinality({c \in Boots : boot'[c].at \in Window(s)}) > 1}
  BY DEF MovesTo, BootsHold
<1>2. boot' \in [Boots -> States] /\ boot'[b] = state /\ \A c \in Boots : c # b => boot'[c] = boot[c]
  BY <1>1
<1>3. ASSUME NEW s \in Subjects, s \notin raced', NEW c \in Boots, NEW d \in Boots,
             boot'[c].at \in Window(s), boot'[d].at \in Window(s), c # d
      PROVE  FALSE
  <2> DEFINE within == {e \in Boots : boot'[e].at \in Window(s)}
  <2>1. IsFiniteSet(within)
    BY BootSeedAssumption, FS_Subset
  <2>2. c \in within /\ d \in within
    BY <1>3
  <2>3. Cardinality(within) > 1
    BY <1>3, <2>1, <2>2, TwoAreMore
  <2> QED
    BY <1>1, <1>3, <2>3
<1>4. \A s \in Subjects : Alone(s)'
  BY <1>3 DEF Alone
<1> QED
  BY <1>1, <1>2, <1>4 DEF BootsHold

(* Moves that leave every window or enter none.                            *)
LEMMA Leaving ==
  ASSUME BootsHold, NEW b \in Boots, NEW to \in {"insertText", "disconnect", "failed", "crashed"},
         boot' = [boot EXCEPT ![b].at = to], raced \subseteq raced', raced' \subseteq Subjects, writes' = writes,
         to = "insertText" => "texts" \in raced'
  PROVE  /\ BootsHold' /\ boot'[b].at = to /\ boot'[b].k = boot[b].k /\ boot'[b].n = boot[b].n
         /\ boot'[b].seen = boot[b].seen
         /\ \A c \in Boots : c # b => boot'[c] = boot[c]
<1>1. boot \in [Boots -> States] /\ to \in Statements
  BY DEF BootsHold, Statements, AfterRooms, AfterDeployment, AfterProbes, TextsAt, AfterLicences, AfterChain, AfterIntel, RegistryAt
<1>2. /\ boot' \in [Boots -> States] /\ boot'[b].at = to /\ boot'[b].k = boot[b].k /\ boot'[b].n = boot[b].n
      /\ boot'[b].seen = boot[b].seen
      /\ \A c \in Boots : c # b => boot'[c] = boot[c]
  BY <1>1 DEF States
<1>3. ASSUME NEW s \in Subjects PROVE Alone(s)'
  BY WindowsAre, <1>2 DEF EventsAt, Subjects, Alone, BootsHold
<1> QED
  BY <1>2, <1>3 DEF BootsHold

-----------------------------------------------------------------------------
(* Each statement, as a step from some statements to others.               *)

(* What is behind a function is a list of statements.                      *)
LEMMA StatementsAre ==
  /\ RoomsAt \cup AfterRooms \subseteq Statements
  /\ {"waiting", "failed", "crashed", "seeded"} \subseteq Statements
  /\ "seeded" \in AfterIntel /\ AfterIntel \subseteq AfterChain /\ AfterChain \subseteq AfterLicences
  /\ AfterLicences \subseteq AfterProbes /\ AfterProbes \subseteq AfterDeployment /\ AfterDeployment \subseteq AfterRooms
BY DEF Statements, RoomsAt, AfterRooms, DeploymentAt, AfterDeployment, AfterProbes, TextsAt, LicencesAt, AfterLicences,
  EventsAt, AfterChain, IntelAt, AfterIntel, RegistryAt

(* A process is at a statement, with a room, a counter and what it saw.    *)
LEMMA StatesAre ==
  ASSUME BootsHold, NEW b \in Boots
  PROVE  /\ boot[b] \in States /\ boot[b].n \in 1 .. Len(SeedRooms) /\ boot[b].k \in Nat \ {0} /\ boot[b].seen \in Nat
         /\ boot[b].at \in Statements
BY DEF BootsHold, States

BootAt(r, at, k) == [r EXCEPT !.at = at, !.k = k]

(* A process at another statement, with a counter.                         *)
LEMMA Placed ==
  ASSUME NEW r \in States, NEW at \in Statements, NEW k \in Nat \ {0}
  PROVE  /\ BootAt(r, at, k) \in States /\ BootAt(r, at, k).at = at /\ BootAt(r, at, k).k = k
         /\ BootAt(r, at, k).n = r.n /\ BootAt(r, at, k).seen = r.seen
BY DEF States, BootAt

(* A move to a statement with a counter ...                                *)
LEMMA GoingTo ==
  ASSUME BootsHold, NEW b \in Boots, NEW at \in Statements, NEW k \in Nat \ {0},
         MovesTo(b, [boot[b] EXCEPT !.at = at, !.k = k])
  PROVE  /\ BootsHold' /\ raced \subseteq raced' /\ writes' = writes
         /\ boot'[b].at = at /\ boot'[b].k = k /\ boot'[b].n = boot[b].n /\ boot'[b].seen = boot[b].seen
         /\ \A c \in Boots : c # b => boot'[c] = boot[c]
<1> DEFINE state == BootAt(boot[b], at, k)
<1>1. MovesTo(b, state)
  BY DEF BootAt
<1>2. state \in States /\ state.at = at /\ state.k = k /\ state.n = boot[b].n /\ state.seen = boot[b].seen
  BY StatesAre, Placed
<1> HIDE DEF state
<1> QED
  BY <1>1, <1>2, Moving

(* ... which begins there,                                                 *)
LEMMA GoingFirst ==
  ASSUME BootsHold, NEW b \in Boots, NEW at \in Statements, Goes(b, at)
  PROVE  /\ BootsHold' /\ raced \subseteq raced' /\ writes' = writes
         /\ boot'[b].at = at /\ boot'[b].k = 1 /\ boot'[b].n = boot[b].n /\ boot'[b].seen = boot[b].seen
         /\ \A c \in Boots : c # b => boot'[c] = boot[c]
<1>1. 1 \in Nat \ {0} /\ MovesTo(b, [boot[b] EXCEPT !.at = at, !.k = 1])
  BY DEF Goes
<1> QED
  BY <1>1, GoingTo

(* ... or counts on.                                                       *)
LEMMA Repeating ==
  ASSUME BootsHold, NEW b \in Boots, NEW at \in Statements, Repeats(b, at)
  PROVE  /\ BootsHold' /\ raced \subseteq raced' /\ writes' = writes
         /\ boot'[b].at = at /\ boot'[b].k = boot[b].k + 1 /\ boot'[b].n = boot[b].n /\ boot'[b].seen = boot[b].seen
         /\ \A c \in Boots : c # b => boot'[c] = boot[c]
<1>1. boot[b].k + 1 \in Nat \ {0}
  BY StatesAre
<1>2. MovesTo(b, [boot[b] EXCEPT !.at = at, !.k = boot[b].k + 1])
  BY DEF Repeats
<1> QED
  BY <1>1, <1>2, GoingTo

(* The statements of one function.                                         *)
InRooms(b) == RegisterRoom(b) \/ UpsertSummary(b) \/ ReadLog(b) \/ WriteLog(b) \/ UpsertActions(b)
InDeployment(b) == ReadDeployment(b) \/ InsertDeployment(b)
InTexts(b) == ReadText(b) \/ ReadTextFails(b) \/ InsertText(b)
InLicences(b) == DeleteLicences(b) \/ InsertLicence(b)
InEvents(b) == ReadHead(b) \/ AppendEvent(b)
InIntel(b) == ReadIntel(b) \/ InsertIntel(b)
InRegistry(b) == ReadTargets(b) \/ ConnectRegistry(b) \/ DisconnectRegistry(b) \/ Analyse(b)

(* A step of the boot seed is a statement of one function, or an           *)
(* operator's write.                                                       *)
LEMMA NextIs ==
  ASSUME SeedNext
  PROVE  \/ \E b \in Boots :
              \/ BootBegins(b) \/ InRooms(b) \/ InDeployment(b) \/ ProbeService(b) \/ InTexts(b) \/ InLicences(b)
              \/ InEvents(b) \/ InIntel(b) \/ InRegistry(b) \/ InsertBoundary(b) \/ BootHalts(b)
         \/ \E r \in DOMAIN backbone : ActInRoom(r)
         \/ ReplaceTexts \/ ReplaceLicences
BY DEF SeedNext, InRooms, InDeployment, InTexts, InLicences, InEvents, InIntel, InRegistry

(* A boot begins with the rooms, or finds no database.                     *)
LEMMA BeginsActs ==
  ASSUME BootsHold, NEW b \in Boots, BootBegins(b)
  PROVE  /\ Steps(b, {"waiting"}, {"registry", "seeded"}) /\ UNCHANGED tables
         /\ boot'[b].n = boot[b].n /\ boot'[b].k = 1
BY StatementsAre, GoingFirst DEF RoomsAt, BootBegins, Steps, At, tables

(* A boot at another statement, with another room, or with what it saw.    *)
InRoomAt(r, at, n) == [r EXCEPT !.at = at, !.n = n]
SeenAt(r, at, seen) == [r EXCEPT !.at = at, !.seen = seen]
MovedAt(r, at) == [r EXCEPT !.at = at]

(* A process at a statement of a room.                                     *)
LEMMA BootInRoom ==
  ASSUME NEW r \in States, NEW at \in Statements, NEW n \in 1 .. Len(SeedRooms)
  PROVE  InRoomAt(r, at, n) \in States /\ InRoomAt(r, at, n).at = at /\ InRoomAt(r, at, n).n = n
BY DEF States, InRoomAt

(* A process with what it saw.                                             *)
LEMMA BootSeen ==
  ASSUME NEW r \in States, NEW at \in Statements, NEW seen \in Nat
  PROVE  /\ SeenAt(r, at, seen) \in States /\ SeenAt(r, at, seen).at = at
         /\ SeenAt(r, at, seen).n = r.n /\ SeenAt(r, at, seen).k = r.k /\ SeenAt(r, at, seen).seen = seen
BY DEF States, SeenAt

(* A process that only moves.                                              *)
LEMMA BootMoved ==
  ASSUME NEW r \in States, NEW at \in Statements
  PROVE  /\ MovedAt(r, at) \in States /\ MovedAt(r, at).at = at
         /\ MovedAt(r, at).n = r.n /\ MovedAt(r, at).k = r.k /\ MovedAt(r, at).seen = r.seen
BY DEF States, MovedAt

-----------------------------------------------------------------------------
(* Rooms: what the seed of a room consists of.                             *)
LogKinds == {"reasons", "changes"}
Authors == {"legacy", "runtime", "operator"}
RoomRows ==
  [listed : BOOLEAN, actions : BOOLEAN, summary : {"none"} \cup Authors, log : [LogKinds -> Seq(Authors)]]

SummaryOk(row) == row.summary \in {"runtime", "operator"}
LogOk(log) == Len(log) > 0 /\ log[Len(log)] # "legacy"
WholeRoom(row) == row.listed /\ row.actions /\ SummaryOk(row) /\ \A l \in LogKinds : LogOk(row.log[l])

(* Only the first row of a log is of an earlier seed; an operator's summary *)
(* has one row of each log, which nobody else has.                         *)
LogTrue(log, summary) ==
  /\ \A i \in 2 .. Len(log) : log[i] # "legacy"
  /\ summary = "operator" => \E i \in 1 .. Len(log) : \A j \in 1 .. Len(log) : log[j] = "operator" <=> j = i
  /\ summary # "operator" => \A j \in 1 .. Len(log) : log[j] # "operator"

(* How far process b has come with the rooms.                              *)
BootRooms(b) ==
  LET at == boot[b].at  n == boot[b].n  k == boot[b].k
  IN /\ at = "waiting" => n = 1
     /\ at \in RoomsAt => \A r \in 1 .. n - 1 : WholeRoom(backbone[r])
     /\ at \in RoomsAt \ {"registry"} => backbone[n].listed
     /\ at \in {"readLog", "writeLog", "actions"} => SummaryOk(backbone[n])
     /\ at \in {"readLog", "writeLog"} => k \in 1 .. 2 /\ (k = 2 => LogOk(backbone[n].log["reasons"]))
     /\ at = "actions" => \A l \in LogKinds : LogOk(backbone[n].log[l])
     /\ at = "writeLog" =>
          /\ boot[b].seen \in 0 .. 1
          /\ boot[b].seen = 1 => LET log == backbone[n].log[Logs[k]] IN Len(log) > 0 /\ log[1] # "operator"
          /\ "rooms" \notin raced => backbone[n].summary # "operator"
     /\ Through(b, AfterRooms) => \A r \in 1 .. Len(SeedRooms) : WholeRoom(backbone[r])

RoomsHeld ==
  /\ backbone \in [1 .. Len(SeedRooms) -> RoomRows]
  /\ \A r \in 1 .. Len(SeedRooms) : \A l \in LogKinds : LogTrue(backbone[r].log[l], backbone[r].summary)
  /\ writes["rooms"] > 0 => \E r \in 1 .. Len(SeedRooms) : backbone[r].summary = "operator"
  /\ \A r \in 1 .. Len(SeedRooms) : backbone[r].summary = "operator" => writes["rooms"] > 0
  /\ "rooms" \notin raced =>
       \A r \in 1 .. Len(SeedRooms) : \A l \in LogKinds :
         backbone[r].summary = "operator" =>
           LET log == backbone[r].log[l] IN Len(log) > 0 /\ log[Len(log)] = "operator"
  /\ \A b \in Boots : BootRooms(b)

(* What another process may rely on.                                       *)
RoomGrows(old, new) ==
  /\ old.listed => new.listed
  /\ old.actions => new.actions
  /\ SummaryOk(old) => SummaryOk(new)
  /\ \A l \in LogKinds :
       /\ LogOk(old.log[l]) => LogOk(new.log[l])
       /\ Len(old.log[l]) > 0 /\ old.log[l][1] # "operator" => Len(new.log[l]) > 0 /\ new.log[l][1] # "operator"

(* The reasons come first, then the change events.                         *)
LEMMA LogsAre == Logs[1] = "reasons" /\ Logs[2] = "changes" /\ Len(Logs) = 2
BY DEF Logs

(* A room that grows stays whole.                                          *)
LEMMA WholeGrows ==
  ASSUME NEW old, NEW new, RoomGrows(old, new), WholeRoom(old)
  PROVE  WholeRoom(new)
BY DEF RoomGrows, WholeRoom

(* A process that does not move keeps what it has come to.                 *)
LEMMA OthersRooms ==
  ASSUME BootsHold, RoomsHeld, NEW c \in Boots, boot'[c] = boot[c], probes'[c] = probes[c], raced \subseteq raced',
         \A r \in 1 .. Len(SeedRooms) : RoomGrows(backbone[r], backbone'[r]),
         boot[c].at = "writeLog" /\ "rooms" \notin raced' =>
           \A r \in 1 .. Len(SeedRooms) : backbone'[r].summary = "operator" => backbone[r].summary = "operator"
  PROVE  BootRooms(c)'
<1> DEFINE at == boot[c].at  n == boot[c].n  k == boot[c].k
<1>1. n \in 1 .. Len(SeedRooms) /\ n \in Int /\ Len(SeedRooms) \in Nat
  BY StatesAre, BootSeedAssumption
<1>2. RoomGrows(backbone[n], backbone'[n])
  BY <1>1
<1>3. BootRooms(c)
  BY DEF RoomsHeld
<1>4. \A r \in 1 .. Len(SeedRooms) : WholeRoom(backbone[r]) => WholeRoom(backbone'[r])
  BY WholeGrows
<1>5. \A r \in 1 .. n - 1 : r \in 1 .. Len(SeedRooms)
  BY <1>1
<1>6. k \in 1 .. 2 => Logs[k] \in LogKinds
  BY LogsAre DEF LogKinds
<1>7. "reasons" \in LogKinds
  BY DEF LogKinds
<1> HIDE DEF at, n, k
<1>8. Through(c, AfterRooms)' => Through(c, AfterRooms)
  BY DEF Through
<1> QED
  BY <1>1, <1>2, <1>3, <1>4, <1>5, <1>6, <1>7, <1>8 DEF BootRooms, RoomGrows, at, n, k

(* Neither process c nor its tables are at this subject.                   *)
Apart(c, at, after) ==
  \/ boot'[c] = boot[c] /\ probes'[c] = probes[c]
  \/ boot'[c].at \notin at /\ (Through(c, after)' => Through(c, after))

StandsAside(at, after) == BootsHold' /\ raced \subseteq raced' /\ \A c \in Boots : Apart(c, at, after)

(* A step elsewhere in the seed stands aside from a subject.               *)
LEMMA AsideOf ==
  ASSUME NEW b \in Boots, NEW from, NEW to, Steps(b, from, to), NEW at, NEW after, to \cap at = {},
         to \cap after = {} \/ (from \subseteq after \ {"seeded"}) \/ (to \cap after = {"seeded"} /\ probes'[b] = 0)
  PROVE  StandsAside(at, after)
BY DEF Steps, Apart, Through, StandsAside

(* A room that is not written grows.                                       *)
LEMMA SameRooms ==
  ASSUME RoomsHeld, backbone' = backbone
  PROVE  \A r \in 1 .. Len(SeedRooms) : RoomGrows(backbone[r], backbone'[r])
BY DEF RoomGrows

(* Steps elsewhere leave the rooms as they are.                            *)
LEMMA RoomsAside ==
  ASSUME BootsHold, RoomsHeld, StandsAside(RoomsAt \cup {"waiting"}, AfterRooms), backbone' = backbone,
         writes'["rooms"] = writes["rooms"]
  PROVE  RoomsHeld'
<1>1. ASSUME NEW c \in Boots PROVE BootRooms(c)'
  <2>1. CASE boot'[c] = boot[c] /\ probes'[c] = probes[c]
    BY <2>1, OthersRooms, SameRooms DEF StandsAside
  <2>2. CASE boot'[c].at \notin RoomsAt \cup {"waiting"} /\ (Through(c, AfterRooms)' => Through(c, AfterRooms))
    BY <2>2 DEF RoomsHeld, BootRooms, RoomsAt
  <2> QED
    BY <2>1, <2>2 DEF StandsAside, Apart
<1> QED
  BY <1>1 DEF RoomsHeld, StandsAside

(* A statement about room n of the process, whose other processes keep     *)
(* what they have.                                                         *)
LEMMA RoomsMove ==
  ASSUME BootsHold, RoomsHeld, NEW b \in Boots, Steps(b, RoomsAt, RoomsAt \cup {"readDeployment"}),
         backbone' \in [1 .. Len(SeedRooms) -> RoomRows],
         \A r \in 1 .. Len(SeedRooms) : r # boot[b].n => backbone'[r] = backbone[r],
         RoomGrows(backbone[boot[b].n], backbone'[boot[b].n]),
         backbone[boot[b].n].summary = "operator" <=> backbone'[boot[b].n].summary = "operator",
         \A l \in LogKinds : LogTrue(backbone'[boot[b].n].log[l], backbone'[boot[b].n].summary),
         "rooms" \notin raced' => \A l \in LogKinds :
           backbone'[boot[b].n].summary = "operator" => backbone'[boot[b].n].log[l] = backbone[boot[b].n].log[l],
         BootRooms(b)'
  PROVE  RoomsHeld'
<1>1. \A r \in 1 .. Len(SeedRooms) : RoomGrows(backbone[r], backbone'[r])
  BY DEF RoomGrows
<1>2. \A r \in 1 .. Len(SeedRooms) : backbone'[r].summary = "operator" <=> backbone[r].summary = "operator"
  OBVIOUS
<1>3. ASSUME NEW c \in Boots PROVE BootRooms(c)'
  BY <1>1, <1>2, OthersRooms DEF Steps
<1>4. \A r \in 1 .. Len(SeedRooms) : \A l \in LogKinds : LogTrue(backbone'[r].log[l], backbone'[r].summary)
  BY DEF RoomsHeld
<1>5. "rooms" \notin raced' =>
       \A r \in 1 .. Len(SeedRooms) : \A l \in LogKinds :
         backbone'[r].summary = "operator" =>
           LET log == backbone'[r].log[l] IN Len(log) > 0 /\ log[Len(log)] = "operator"
  BY <1>2 DEF RoomsHeld, Steps
<1>6. writes' = writes
  BY DEF Steps
<1> QED
  BY <1>2, <1>3, <1>4, <1>5, <1>6 DEF RoomsHeld

(* The log that a process is at, and how many rows it has.                 *)
LEMMA LogTyped ==
  ASSUME BootsHold, RoomsHeld, NEW b \in Boots, boot[b].at \in {"readLog", "writeLog"}
  PROVE  /\ Log(b) \in LogKinds /\ Room(b) = boot[b].n /\ boot[b].n \in 1 .. Len(SeedRooms) /\ boot[b].k \in 1 .. 2
         /\ Log(b) = Logs[boot[b].k]
         /\ backbone[boot[b].n] \in RoomRows /\ backbone[boot[b].n].log[Log(b)] \in Seq(Authors)
         /\ Len(backbone[boot[b].n].log[Log(b)]) \in Nat
<1>1. boot[b].k \in 1 .. 2 /\ boot[b].n \in 1 .. Len(SeedRooms)
  BY StatesAre DEF RoomsHeld, BootRooms
<1>2. Log(b) \in LogKinds
  BY <1>1, LogsAre DEF Log, LogKinds
<1>3. backbone[boot[b].n] \in RoomRows /\ backbone[boot[b].n].log \in [LogKinds -> Seq(Authors)]
  BY <1>1 DEF RoomsHeld, RoomRows
<1>4. backbone[boot[b].n].log[Log(b)] \in Seq(Authors)
  BY <1>2, <1>3
<1>5. Len(backbone[boot[b].n].log[Log(b)]) \in Nat
  BY <1>4, SMTT(30)
<1>6. Room(b) = boot[b].n /\ Log(b) = Logs[boot[b].k]
  BY DEF Room, Log
<1> QED
  BY <1>1, <1>2, <1>3, <1>4, <1>5, <1>6

(* A statement about a room, and what it leaves alone.                     *)
LEMMA RoomActs ==
  ASSUME BootsHold, RoomsHeld, NEW b \in Boots, InRooms(b)
  PROVE  /\ Steps(b, RoomsAt, RoomsAt \cup {"readDeployment"})
         /\ UNCHANGED <<deployments, probes, texts, licences, chain, market, boundary>>
<1>1. {"registry", "summary", "readLog", "writeLog", "actions", "readDeployment"} \subseteq Statements
  BY StatementsAre DEF RoomsAt, AfterRooms, DeploymentAt
<1>2. CASE RegisterRoom(b)
  BY <1>1, <1>2, GoingFirst DEF RegisterRoom, Steps, At, RoomsAt
<1>3. CASE UpsertSummary(b)
  BY <1>1, <1>3, GoingFirst DEF UpsertSummary, Steps, At, RoomsAt
<1>4. ASSUME AfterLog(b), boot[b].at \in RoomsAt, UNCHANGED <<deployments, probes, texts, licences, chain, market, boundary>>
      PROVE  Steps(b, RoomsAt, RoomsAt \cup {"readDeployment"})
  BY <1>1, <1>4, GoingFirst, Repeating DEF AfterLog, Steps, RoomsAt
<1>5. CASE ReadLog(b)
  <2> DEFINE rows == backbone[Room(b)].log[Log(b)]
             state == SeenAt(boot[b], "writeLog", Len(rows))
  <2>1. UNCHANGED <<deployments, probes, texts, licences, chain, market, boundary>> /\ boot[b].at = "readLog"
    BY <1>5 DEF ReadLog, tables, At
  <2>2. CASE AfterLog(b)
    BY <1>4, <2>1, <2>2 DEF RoomsAt
  <2>3. CASE MovesTo(b, state)
    <3>1. Len(rows) \in Nat
      BY <2>1, LogTyped
    <3>2. state \in States /\ state.at = "writeLog"
      <4>1. boot[b] \in States /\ "writeLog" \in Statements
        BY <1>1, StatesAre
      <4> QED
        BY <3>1, <4>1, BootSeen
    <3> HIDE DEF state
    <3> QED
      BY <2>1, <2>3, <3>2, Moving DEF Steps, RoomsAt
  <2> QED
    BY <1>5, <2>2, <2>3 DEF ReadLog, SeenAt
<1>6. CASE WriteLog(b)
  BY <1>4, <1>6 DEF WriteLog, At, RoomsAt
<1>7. CASE UpsertActions(b)
  <2> DEFINE state == InRoomAt(boot[b], "registry", boot[b].n + 1)
  <2>1. UNCHANGED <<deployments, probes, texts, licences, chain, market, boundary>> /\ boot[b].at = "actions"
    BY <1>7 DEF UpsertActions, At
  <2>2. CASE Goes(b, "readDeployment")
    BY <1>1, <2>1, <2>2, GoingFirst DEF Steps, RoomsAt
  <2>3. CASE MovesTo(b, state) /\ boot[b].n < Len(SeedRooms)
    <3>1. boot[b].n + 1 \in 1 .. Len(SeedRooms)
      BY <2>3, StatesAre, BootSeedAssumption
    <3>2. state \in States /\ state.at = "registry"
      <4>1. boot[b] \in States /\ "registry" \in Statements
        BY <1>1, StatesAre
      <4> QED
        BY <3>1, <4>1, BootInRoom
    <3> HIDE DEF state
    <3> QED
      BY <2>1, <2>3, <3>2, Moving DEF Steps, RoomsAt
  <2>4. [boot[b] EXCEPT !.at = "registry", !.n = @ + 1] = state
    BY DEF InRoomAt
  <2> HIDE DEF state
  <2> QED
    BY <1>7, <2>2, <2>3, <2>4 DEF UpsertActions, Room
<1> QED
  BY <1>2, <1>3, <1>5, <1>6, <1>7 DEF InRooms

(* A look at a room changes none.                                          *)
LEMMA SameRoomsMove ==
  ASSUME BootsHold, RoomsHeld, NEW b \in Boots, Steps(b, RoomsAt, RoomsAt \cup {"readDeployment"}), backbone' = backbone,
         BootRooms(b)'
  PROVE  RoomsHeld'
BY StatesAre, SameRooms, RoomsMove DEF RoomsHeld

(* A row of which one part is changed.                                     *)
LEMMA RowChanged ==
  ASSUME NEW f \in [1 .. Len(SeedRooms) -> RoomRows], NEW n \in 1 .. Len(SeedRooms), NEW new \in RoomRows
  PROVE  LET g == [f EXCEPT ![n] = new]
         IN g \in [1 .. Len(SeedRooms) -> RoomRows] /\ g[n] = new /\ \A r \in 1 .. Len(SeedRooms) : r # n => g[r] = f[r]
OBVIOUS

(* The room is listed.                                                     *)
LEMMA RegisterHolds ==
  ASSUME BootsHold, RoomsHeld, NEW b \in Boots, RegisterRoom(b)
  PROVE  RoomsHeld'
<1> DEFINE n == boot[b].n
           old == backbone[n]
           new == [old EXCEPT !.listed = TRUE]
<1>1. n \in 1 .. Len(SeedRooms) /\ old \in RoomRows /\ backbone \in [1 .. Len(SeedRooms) -> RoomRows]
  BY StatesAre DEF RoomsHeld
<1>2. new \in RoomRows /\ new.listed = TRUE /\ new.actions = old.actions
  BY <1>1 DEF RoomRows
<1>3. new.summary = old.summary /\ new.log = old.log
  BY <1>1 DEF RoomRows
<1>4. backbone' = [backbone EXCEPT ![n] = new]
  BY DEF RegisterRoom, Room
<1> HIDE DEF new
<1>5. /\ backbone' \in [1 .. Len(SeedRooms) -> RoomRows] /\ backbone'[n] = new
      /\ \A r \in 1 .. Len(SeedRooms) : r # n => backbone'[r] = backbone[r]
  BY <1>1, <1>2, <1>4, RowChanged
<1>6. Steps(b, RoomsAt, RoomsAt \cup {"readDeployment"})
  BY RoomActs DEF InRooms
<1>7. boot'[b].at = "summary" /\ boot'[b].n = n /\ boot[b].at = "registry"
  BY StatementsAre, GoingFirst DEF RegisterRoom, At, RoomsAt
<1>8. BootRooms(b)'
  <2>1. \A r \in 1 .. n - 1 : r \in 1 .. Len(SeedRooms) /\ r # n
    BY <1>1, BootSeedAssumption
  <2>2. \A r \in 1 .. n - 1 : WholeRoom(backbone'[r])
    BY <1>5, <1>7, <2>1 DEF RoomsHeld, BootRooms, RoomsAt
  <2>3. ~Through(b, AfterRooms)'
    BY <1>7 DEF Through, AfterRooms, DeploymentAt, AfterDeployment, AfterProbes, TextsAt, LicencesAt, AfterLicences,
      EventsAt, AfterChain, IntelAt, AfterIntel, RegistryAt
  <2> QED
    BY <1>2, <1>5, <1>7, <2>2, <2>3 DEF BootRooms
<1>9. RoomGrows(old, new) /\ \A l \in LogKinds : LogTrue(new.log[l], new.summary)
  BY <1>1, <1>2, <1>3 DEF RoomGrows, SummaryOk, RoomsHeld
<1> HIDE DEF n, old
<1> QED
  BY <1>3, <1>5, <1>6, <1>8, <1>9, RoomsMove DEF n, old

(* No statement of a function is behind it.                                *)
LEMMA FunctionsApart ==
  /\ RoomsAt \cap AfterRooms = {} /\ DeploymentAt \cap AfterDeployment = {} /\ "probe" \notin AfterProbes
  /\ {"waiting", "failed", "crashed"} \cap (RoomsAt \cup AfterRooms) = {}
  /\ (TextsAt \cup LicencesAt) \cap AfterLicences = {} /\ ({"readHead"} \cup EventsAt) \cap AfterChain = {}
  /\ IntelAt \cap AfterIntel = {}
BY DEF RoomsAt, AfterRooms, DeploymentAt, AfterDeployment, AfterProbes, TextsAt, LicencesAt, AfterLicences,
  EventsAt, AfterChain, IntelAt, AfterIntel, RegistryAt

(* The summary is written unless an operator has one there.                *)
LEMMA UpsertSummaryHolds ==
  ASSUME BootsHold, RoomsHeld, NEW b \in Boots, UpsertSummary(b)
  PROVE  RoomsHeld'
<1> DEFINE n == boot[b].n
           old == backbone[n]
           summary == IF old.summary \in {"none", "legacy"} THEN "runtime" ELSE old.summary
           new == [old EXCEPT !.summary = summary]
<1>1. n \in 1 .. Len(SeedRooms) /\ old \in RoomRows /\ backbone \in [1 .. Len(SeedRooms) -> RoomRows]
  BY StatesAre DEF RoomsHeld
<1>2. summary \in {"runtime", "operator"} /\ (summary = "operator" <=> old.summary = "operator")
  BY <1>1 DEF RoomRows, Authors
<1>3. backbone' = [backbone EXCEPT ![n] = new]
  BY DEF UpsertSummary, Room
<1> HIDE DEF summary
<1>4. new \in RoomRows /\ new.summary = summary
  BY <1>1, <1>2 DEF RoomRows, Authors
<1>5. new.listed = old.listed /\ new.actions = old.actions /\ new.log = old.log
  BY <1>1 DEF RoomRows
<1> HIDE DEF new
<1>6. /\ backbone' \in [1 .. Len(SeedRooms) -> RoomRows] /\ backbone'[n] = new
      /\ \A r \in 1 .. Len(SeedRooms) : r # n => backbone'[r] = backbone[r]
  BY <1>1, <1>3, <1>4, RowChanged
<1>7. Steps(b, RoomsAt, RoomsAt \cup {"readDeployment"})
  BY RoomActs DEF InRooms
<1>8. boot'[b].at = "readLog" /\ boot'[b].k = 1 /\ boot'[b].n = n /\ boot[b].at = "summary"
  BY StatementsAre, GoingFirst DEF UpsertSummary, At, RoomsAt
<1>9. BootRooms(b)'
  <2>1. \A r \in 1 .. n - 1 : r \in 1 .. Len(SeedRooms) /\ r # n
    BY <1>1, BootSeedAssumption
  <2>2. BootRooms(b)
    BY DEF RoomsHeld
  <2>3. \A r \in 1 .. n - 1 : WholeRoom(backbone'[r])
    BY <1>6, <1>8, <2>1, <2>2 DEF BootRooms, RoomsAt
  <2>4. old.listed
    BY <1>8, <2>2 DEF BootRooms, RoomsAt
  <2>5. ~Through(b, AfterRooms)'
    BY <1>8, FunctionsApart DEF Through, RoomsAt
  <2>6. SummaryOk(new) /\ new.listed
    BY <1>2, <1>4, <1>5, <2>4 DEF SummaryOk
  <2> QED
    BY <1>6, <1>8, <2>3, <2>5, <2>6 DEF BootRooms
<1>10. RoomGrows(old, new)
  BY <1>2, <1>4, <1>5 DEF RoomGrows, SummaryOk
<1>11. \A l \in LogKinds : LogTrue(new.log[l], new.summary)
  <2>1. \A l \in LogKinds : LogTrue(old.log[l], old.summary)
    BY <1>1 DEF RoomsHeld
  <2> QED
    BY <1>2, <1>4, <1>5, <2>1 DEF LogTrue
<1> HIDE DEF n, old
<1> QED
  BY <1>2, <1>4, <1>5, <1>6, <1>7, <1>9, <1>10, <1>11, RoomsMove DEF n, old

(* Behind a log that is in order comes the next log, or the actions.       *)
LEMMA AfterLogHolds ==
  ASSUME BootsHold, RoomsHeld, NEW b \in Boots, boot[b].at \in {"readLog", "writeLog"}, AfterLog(b),
         \A r \in 1 .. Len(SeedRooms) : RoomGrows(backbone[r], backbone'[r]),
         LogOk(backbone'[boot[b].n].log[Log(b)])
  PROVE  BootRooms(b)'
<1> DEFINE n == boot[b].n
           k == boot[b].k
<1>1. /\ n \in 1 .. Len(SeedRooms) /\ k \in 1 .. 2 /\ Log(b) = Logs[k]
      /\ Len(SeedRooms) \in Nat
  BY LogTyped, BootSeedAssumption
<1>2. BootRooms(b)
  BY DEF RoomsHeld
<1>3. \A r \in 1 .. n - 1 : r \in 1 .. Len(SeedRooms)
  BY <1>1
<1>4. \A r \in 1 .. n - 1 : WholeRoom(backbone'[r])
  BY <1>2, <1>3, WholeGrows DEF BootRooms, RoomsAt
<1>5. backbone'[n].listed /\ SummaryOk(backbone'[n])
  BY <1>1, <1>2 DEF BootRooms, RoomsAt, RoomGrows
<1>6. {"readLog", "actions"} \subseteq Statements
  BY StatementsAre DEF RoomsAt
<1>7. ~({"readLog", "actions"} \cap AfterRooms # {})
  BY FunctionsApart DEF RoomsAt
<1>8. CASE k = 1
  BY <1>1, <1>6, <1>8, LogsAre, Repeating, <1>4, <1>5, <1>7 DEF AfterLog, BootRooms, Through
<1>9. CASE k = 2
  <2>1. boot'[b].at = "actions" /\ boot'[b].n = n
    BY <1>1, <1>6, <1>9, LogsAre, GoingFirst DEF AfterLog
  <2>2. LogOk(backbone'[n].log["reasons"])
    BY <1>1, <1>2, <1>9 DEF BootRooms, RoomGrows, LogKinds
  <2>3. LogOk(backbone'[n].log["changes"])
    BY <1>1, <1>9, LogsAre
  <2>4. \A l \in LogKinds : LogOk(backbone'[n].log[l])
    BY <2>2, <2>3 DEF LogKinds
  <2> QED
    BY <1>4, <1>5, <1>7, <2>1, <2>4 DEF BootRooms, Through
<1> QED
  BY <1>1, <1>8, <1>9

(* Numbers that lengths are.                                               *)
LEMMA OneOrMore ==
  ASSUME NEW n \in Nat
  PROVE  /\ n > 0 /\ n # 1 => n \in 2 .. n
         /\ n > 0 => 1 \in 1 .. n
         /\ n + 1 > 0
         /\ \A i \in 2 .. n : i \in 1 .. n /\ i # 1
OBVIOUS

(* A log that ends with a row of its own is in order; else its end is      *)
(* remembered.                                                             *)
LEMMA ReadLogHolds ==
  ASSUME BootsHold, RoomsHeld, NEW b \in Boots, ReadLog(b)
  PROVE  RoomsHeld'
<1> DEFINE n == boot[b].n
           rows == backbone[n].log[Log(b)]
           state == SeenAt(boot[b], "writeLog", Len(rows))
<1>1. /\ boot[b].at = "readLog" /\ backbone' = backbone /\ BootRooms(b)
      /\ IF rows = <<>> \/ Last(rows) = "legacy" THEN MovesTo(b, state) ELSE AfterLog(b)
  BY DEF ReadLog, At, tables, Room, SeenAt, RoomsHeld
<1>2. /\ n \in 1 .. Len(SeedRooms) /\ rows \in Seq(Authors) /\ Len(rows) \in Nat /\ Log(b) \in LogKinds
      /\ Log(b) = Logs[boot[b].k] /\ LogTrue(rows, backbone[n].summary)
  BY <1>1, LogTyped DEF RoomsHeld
<1>3. Steps(b, RoomsAt, RoomsAt \cup {"readDeployment"})
  BY RoomActs DEF InRooms
<1>4. ~(rows = <<>> \/ Last(rows) = "legacy") => LogOk(rows)
  <2>1. rows \in Seq(Authors) /\ Len(rows) \in Nat
    BY <1>2
  <2> HIDE DEF rows
  <2>2. rows # <<>> => Len(rows) > 0
    BY <2>1
  <2> QED
    BY <2>2 DEF LogOk, Last
<1>5. CASE MovesTo(b, state) /\ (rows = <<>> \/ Last(rows) = "legacy")
  <2>1. Len(rows) = 0 \/ (Len(rows) = 1 /\ rows[1] = "legacy")
    <3>1. CASE rows = <<>>
      BY <3>1
    <3>2. CASE rows # <<>> /\ rows[Len(rows)] = "legacy"
      <4>1. Len(rows) > 0 /\ \A i \in 2 .. Len(rows) : rows[i] # "legacy"
        BY <1>2, <3>2, SMTT(60) DEF LogTrue
      <4>2. ~(Len(rows) \in 2 .. Len(rows))
        BY <3>2, <4>1
      <4>3. Len(rows) = 1
        BY <1>2, <4>1, <4>2, OneOrMore
      <4> QED
        BY <3>2, <4>3
    <3> QED
      BY <1>5, <3>1, <3>2 DEF Last
  <2>2. boot[b] \in States /\ "writeLog" \in Statements
    BY StatesAre, StatementsAre DEF RoomsAt
  <2>3. state \in States /\ state.at = "writeLog" /\ state.n = n /\ state.k = boot[b].k /\ state.seen = Len(rows)
    <3> HIDE DEF rows
    <3> QED
      BY <1>2, <2>2, BootSeen
  <2> HIDE DEF state
  <2>4. boot'[b] = state
    BY <1>5, <2>3, Moving
  <2>5. "rooms" \notin raced' => backbone[n].summary # "operator"
    BY <1>2, <1>3, <2>1, SMTT(60) DEF RoomsHeld, Steps
  <2>6. ~("writeLog" \in AfterRooms)
    BY FunctionsApart DEF RoomsAt
  <2>7. boot'[b].at = "writeLog" /\ boot'[b].n = n /\ boot'[b].k = boot[b].k /\ boot'[b].seen = Len(rows)
    BY <2>3, <2>4
  <2>8. rows = backbone'[n].log[Logs[boot[b].k]]
    BY <1>1, <1>2
  <2>9. ~Through(b, AfterRooms)'
    BY <2>6, <2>7 DEF Through
  <2>10. Len(rows) \in 0 .. 1 /\ (Len(rows) = 1 => Len(rows) > 0 /\ rows[1] # "operator")
    <3>1. CASE Len(rows) = 0
      BY <3>1
    <3>2. CASE Len(rows) = 1 /\ rows[1] = "legacy"
      BY <3>2
    <3> QED
      BY <2>1, <3>1, <3>2
  <2> HIDE DEF rows
  <2>11. BootRooms(b)'
    BY <1>1, <2>5, <2>7, <2>8, <2>9, <2>10 DEF BootRooms, RoomsAt
  <2> QED
    BY <1>1, <1>3, <2>11, SameRoomsMove
<1>6. CASE AfterLog(b) /\ LogOk(rows)
  BY <1>1, <1>6, SameRooms, AfterLogHolds, <1>3, SameRoomsMove
<1> QED
  BY <1>1, <1>4, <1>5, <1>6

(* A row that is appended, or the first one rewritten.                     *)
LEMMA LogWritten ==
  ASSUME NEW log \in Seq(Authors), NEW summary, LogTrue(log, summary), NEW seen \in 0 .. 1,
         seen = 1 => Len(log) > 0 /\ log[1] # "operator",
         NEW new, new = IF seen = 0 THEN Append(log, "runtime") ELSE [log EXCEPT ![seen] = "runtime"]
  PROVE  /\ new \in Seq(Authors) /\ LogOk(new) /\ LogTrue(new, summary)
         /\ Len(log) > 0 /\ log[1] # "operator" => Len(new) > 0 /\ new[1] # "operator"
<1>1. Len(log) \in Nat /\ "runtime" \in Authors /\ DOMAIN log = 1 .. Len(log)
  BY DEF Authors
<1>2. CASE seen = 0
  <2>1. /\ new \in Seq(Authors) /\ Len(new) = Len(log) + 1 /\ new[Len(log) + 1] = "runtime"
        /\ \A i \in 1 .. Len(log) : new[i] = log[i]
    BY <1>1, <1>2
  <2>2. \A i \in 2 .. Len(new) : new[i] # "legacy"
    BY <1>1, <2>1 DEF LogTrue
  <2>3. ASSUME summary = "operator" PROVE \E i \in 1 .. Len(new) : \A j \in 1 .. Len(new) : new[j] = "operator" <=> j = i
    <3>1. PICK i \in 1 .. Len(log) : \A j \in 1 .. Len(log) : log[j] = "operator" <=> j = i
      BY <2>3 DEF LogTrue
    <3>2. ASSUME NEW j \in 1 .. Len(new) PROVE new[j] = "operator" <=> j = i
      BY <1>1, <2>1, <3>1
    <3>3. i \in 1 .. Len(new)
      BY <1>1, <2>1
    <3> QED
      BY <3>2, <3>3
  <2>4. ASSUME summary # "operator", NEW j \in 1 .. Len(new) PROVE new[j] # "operator"
    BY <1>1, <2>1, <2>4 DEF LogTrue
  <2>5. LogTrue(new, summary)
    BY <2>2, <2>3, <2>4 DEF LogTrue
  <2>6. Len(new) > 0 /\ (Len(log) > 0 => 1 \in 1 .. Len(log))
    BY <1>1, <2>1, OneOrMore
  <2>7. LogOk(new)
    BY <2>1, <2>6 DEF LogOk
  <2> QED
    BY <1>1, <2>1, <2>5, <2>6, <2>7
<1>3. CASE seen = 1
  <2>1. new = [log EXCEPT ![1] = "runtime"] /\ Len(log) > 0 /\ log[1] # "operator" /\ 1 \in 1 .. Len(log)
    BY <1>1, <1>3
  <2>2. /\ new \in Seq(Authors) /\ Len(new) = Len(log)
        /\ \A i \in 1 .. Len(log) : new[i] = IF i = 1 THEN "runtime" ELSE log[i]
    <3>1. /\ [log EXCEPT ![1] = "runtime"] \in Seq(Authors) /\ Len([log EXCEPT ![1] = "runtime"]) = Len(log)
          /\ \A j \in 1 .. Len(log) : [log EXCEPT ![1] = "runtime"][j] = IF j = 1 THEN "runtime" ELSE log[j]
      BY <1>1, <2>1, ExceptSeq
    <3> QED
      BY <2>1, <3>1
  <2>3. ASSUME NEW i \in 2 .. Len(new) PROVE new[i] # "legacy"
    BY <1>1, <2>2, OneOrMore DEF LogTrue
  <2>4. ASSUME summary = "operator" PROVE \E i \in 1 .. Len(new) : \A j \in 1 .. Len(new) : new[j] = "operator" <=> j = i
    <3>1. PICK i \in 1 .. Len(log) : \A j \in 1 .. Len(log) : log[j] = "operator" <=> j = i
      BY <2>4 DEF LogTrue
    <3>2. i # 1
      BY <2>1, <3>1
    <3>3. ASSUME NEW j \in 1 .. Len(new) PROVE new[j] = "operator" <=> j = i
      BY <1>1, <2>2, <3>1, <3>2
    <3>4. i \in 1 .. Len(new)
      BY <2>2
    <3> QED
      BY <3>3, <3>4
  <2>5. ASSUME summary # "operator", NEW j \in 1 .. Len(new) PROVE new[j] # "operator"
    BY <1>1, <2>2, <2>5 DEF LogTrue
  <2>6. LogTrue(new, summary)
    BY <2>3, <2>4, <2>5 DEF LogTrue
  <2>7. Len(new) > 0 /\ new[1] = "runtime"
    BY <2>1, <2>2
  <2>8. LogOk(new)
    <3>1. CASE Len(new) = 1
      BY <2>7, <3>1 DEF LogOk
    <3>2. CASE Len(new) # 1
      BY <1>1, <2>2, <2>7, <3>2, OneOrMore, <2>3 DEF LogOk
    <3> QED
      BY <3>1, <3>2
  <2> QED
    BY <2>2, <2>6, <2>7, <2>8
<1> QED
  BY <1>2, <1>3

(* The row is inserted, or the one that was read is rewritten, which is no *)
(* operator's.                                                             *)
LEMMA WriteLogHolds ==
  ASSUME BootsHold, RoomsHeld, NEW b \in Boots, WriteLog(b)
  PROVE  RoomsHeld'
<1> DEFINE n == boot[b].n
           l == Log(b)
           old == backbone[n]
           rows == IF boot[b].seen = 0 THEN Append(old.log[l], "runtime") ELSE [old.log[l] EXCEPT ![boot[b].seen] = "runtime"]
           new == [old EXCEPT !.log = [old.log EXCEPT ![l] = rows]]
<1>1. boot[b].at = "writeLog" /\ AfterLog(b) /\ BootRooms(b)
  BY DEF WriteLog, At, RoomsHeld
<1>2. /\ n \in 1 .. Len(SeedRooms) /\ old \in RoomRows /\ l \in LogKinds /\ l = Logs[boot[b].k]
      /\ backbone \in [1 .. Len(SeedRooms) -> RoomRows] /\ old.log[l] \in Seq(Authors)
      /\ \A m \in LogKinds : LogTrue(old.log[m], old.summary)
  BY <1>1, LogTyped DEF RoomsHeld
<1>3. boot[b].seen \in 0 .. 1 /\ (boot[b].seen = 1 => Len(old.log[l]) > 0 /\ old.log[l][1] # "operator")
  BY <1>1, <1>2 DEF BootRooms
<1>4. backbone' = [backbone EXCEPT ![n] = new]
  BY DEF WriteLog, Room
<1>5. /\ rows \in Seq(Authors) /\ LogOk(rows) /\ LogTrue(rows, old.summary)
      /\ Len(old.log[l]) > 0 /\ old.log[l][1] # "operator" => Len(rows) > 0 /\ rows[1] # "operator"
  <2> DEFINE log == old.log[l]
             seen == boot[b].seen
             now == rows
  <2>1. now = IF seen = 0 THEN Append(log, "runtime") ELSE [log EXCEPT ![seen] = "runtime"]
    OBVIOUS
  <2>2. log \in Seq(Authors) /\ LogTrue(log, old.summary) /\ seen \in 0 .. 1 /\ (seen = 1 => Len(log) > 0 /\ log[1] # "operator")
    BY <1>2, <1>3
  <2> HIDE DEF now, log, seen
  <2>3. /\ now \in Seq(Authors) /\ LogOk(now) /\ LogTrue(now, old.summary)
        /\ Len(log) > 0 /\ log[1] # "operator" => Len(now) > 0 /\ now[1] # "operator"
    BY <2>1, <2>2, LogWritten
  <2> QED
    BY <2>3 DEF now, log
<1> HIDE DEF rows, l
<1>6. old.log \in [LogKinds -> Seq(Authors)]
  BY <1>2 DEF RoomRows
<1>7. /\ [old.log EXCEPT ![l] = rows] \in [LogKinds -> Seq(Authors)] /\ [old.log EXCEPT ![l] = rows][l] = rows
      /\ \A m \in LogKinds : m # l => [old.log EXCEPT ![l] = rows][m] = old.log[m]
  BY <1>2, <1>5, <1>6
<1>8. new \in RoomRows
  BY <1>2, <1>7 DEF RoomRows
<1>9. new.log = [old.log EXCEPT ![l] = rows]
  BY <1>2 DEF RoomRows
<1>10. new.listed = old.listed /\ new.actions = old.actions /\ new.summary = old.summary
  BY <1>2 DEF RoomRows
<1> HIDE DEF new
<1>11. new.log[l] = rows /\ \A m \in LogKinds : m # l => new.log[m] = old.log[m]
  BY <1>7, <1>9
<1>12. /\ backbone' \in [1 .. Len(SeedRooms) -> RoomRows] /\ backbone'[n] = new
       /\ \A r \in 1 .. Len(SeedRooms) : r # n => backbone'[r] = backbone[r]
  BY <1>2, <1>4, <1>8, RowChanged
<1>13. RoomGrows(old, new)
  BY <1>5, <1>10, <1>11 DEF RoomGrows, SummaryOk
<1>14. \A m \in LogKinds : LogTrue(new.log[m], new.summary)
  BY <1>2, <1>5, <1>10, <1>11
<1>15. Steps(b, RoomsAt, RoomsAt \cup {"readDeployment"})
  BY RoomActs DEF InRooms
<1>16. BootRooms(b)'
  BY <1>12, <1>13, <1>5, <1>11, <1>1, AfterLogHolds DEF RoomGrows, l
<1>17. "rooms" \notin raced' => old.summary # "operator"
  BY <1>1, <1>15 DEF BootRooms, Steps
<1> HIDE DEF n, old
<1> QED
  BY <1>10, <1>12, <1>13, <1>14, <1>15, <1>16, <1>17, RoomsMove DEF n, old

(* A room is whole with its actions.                                       *)
LEMMA UpsertActionsHolds ==
  ASSUME BootsHold, RoomsHeld, NEW b \in Boots, UpsertActions(b)
  PROVE  RoomsHeld'
<1> DEFINE n == boot[b].n
           old == backbone[n]
           new == [old EXCEPT !.actions = TRUE]
<1>1. n \in 1 .. Len(SeedRooms) /\ old \in RoomRows /\ backbone \in [1 .. Len(SeedRooms) -> RoomRows] /\ Len(SeedRooms) \in Nat \ {0}
  BY StatesAre, BootSeedAssumption DEF RoomsHeld
<1>2. new \in RoomRows /\ new.actions = TRUE /\ new.listed = old.listed
  BY <1>1 DEF RoomRows
<1>3. new.summary = old.summary /\ new.log = old.log
  BY <1>1 DEF RoomRows
<1>4. backbone' = [backbone EXCEPT ![n] = new]
  BY DEF UpsertActions, Room
<1> HIDE DEF new
<1>5. /\ backbone' \in [1 .. Len(SeedRooms) -> RoomRows] /\ backbone'[n] = new
      /\ \A r \in 1 .. Len(SeedRooms) : r # n => backbone'[r] = backbone[r]
  BY <1>1, <1>2, <1>4, RowChanged
<1>6. Steps(b, RoomsAt, RoomsAt \cup {"readDeployment"})
  BY RoomActs DEF InRooms
<1>7. boot[b].at = "actions" /\ BootRooms(b)
  BY DEF UpsertActions, At, RoomsHeld
<1>8. WholeRoom(new)
  BY <1>2, <1>3, <1>7 DEF BootRooms, WholeRoom, SummaryOk, RoomsAt
<1>9. \A r \in 1 .. n : WholeRoom(backbone'[r])
  BY <1>1, <1>5, <1>7, <1>8 DEF BootRooms, RoomsAt
<1>10. BootRooms(b)'
  <2>1. CASE n < Len(SeedRooms) /\ MovesTo(b, InRoomAt(boot[b], "registry", n + 1))
    <3>1. boot[b] \in States /\ "registry" \in Statements /\ n + 1 \in 1 .. Len(SeedRooms) /\ n + 1 - 1 = n
      BY <1>1, <2>1, StatesAre, StatementsAre DEF RoomsAt
    <3> DEFINE state == InRoomAt(boot[b], "registry", n + 1)
    <3>2. state \in States /\ state.at = "registry" /\ state.n = n + 1
      BY <3>1, BootInRoom
    <3> HIDE DEF state
    <3>3. boot'[b] = state
      BY <2>1, <3>2, Moving DEF state
    <3>4. boot'[b].at = "registry" /\ boot'[b].n = n + 1
      BY <3>2, <3>3
    <3>5. ~("registry" \in AfterRooms)
      BY FunctionsApart DEF RoomsAt
    <3>6. \A r \in 1 .. boot'[b].n - 1 : WholeRoom(backbone'[r])
      <4> DEFINE next == boot'[b].n
      <4>1. next = n + 1 /\ n \in Nat
        BY <1>1, <3>4
      <4> HIDE DEF next, n
      <4>2. next - 1 = n
        BY <4>1
      <4> QED
        BY <1>9, <4>2 DEF next
    <3> QED
      BY <3>4, <3>5, <3>6 DEF BootRooms, Through, RoomsAt
  <2>2. CASE ~(n < Len(SeedRooms)) /\ Goes(b, "readDeployment")
    BY <1>1, <2>2, GoingFirst, StatementsAre, <1>9 DEF AfterRooms, DeploymentAt, RoomsAt, BootRooms
  <2> QED
    BY <2>1, <2>2 DEF UpsertActions, Room, InRoomAt
<1>11. RoomGrows(old, new)
  BY <1>2, <1>3 DEF RoomGrows, SummaryOk
<1>12. \A l \in LogKinds : LogTrue(new.log[l], new.summary)
  BY <1>1, <1>3 DEF RoomsHeld
<1> HIDE DEF n, old
<1> QED
  BY <1>3, <1>5, <1>6, <1>10, <1>11, <1>12, RoomsMove DEF n, old

(* Every statement about a room.                                           *)
LEMMA InRoomsHolds ==
  ASSUME BootsHold, RoomsHeld, NEW b \in Boots, InRooms(b)
  PROVE  RoomsHeld'
BY RegisterHolds, UpsertSummaryHolds, ReadLogHolds, WriteLogHolds, UpsertActionsHolds DEF InRooms

-----------------------------------------------------------------------------
(* Operators' writes, next to the boots.                                   *)
LEMMA WritesActs ==
  ASSUME BootsHold, NEW subject \in Subjects, Writes(subject)
  PROVE  /\ BootsHold' /\ boot' = boot /\ raced \subseteq raced' /\ writes[subject] = 0 /\ writes'[subject] = 1
         /\ \A s \in Subjects : s # subject => writes'[s] = writes[s]
         /\ \A b \in Boots : boot[b].at \in Window(subject) => subject \in raced'
BY DEF Writes, BootsHold, Alone

(* An operator's rows are the first of theirs, and the newest.             *)
LEMMA ActInRoomHolds ==
  ASSUME BootsHold, RoomsHeld, NEW q \in DOMAIN backbone, ActInRoom(q)
  PROVE  RoomsHeld'
<1> DEFINE old == backbone[q]
           logs == [l \in LogKinds |-> Append(old.log[l], "operator")]
           new == [old EXCEPT !.summary = "operator", !.log = logs]
<1>1. /\ q \in 1 .. Len(SeedRooms) /\ old \in RoomRows /\ backbone \in [1 .. Len(SeedRooms) -> RoomRows]
      /\ old.log \in [LogKinds -> Seq(Authors)] /\ DOMAIN old.log = LogKinds
  BY DEF RoomsHeld, RoomRows
<1>2. "rooms" \in Subjects /\ Writes("rooms") /\ Window("rooms") = {"writeLog"}
  BY WindowsAre DEF ActInRoom, Subjects
<1>3. /\ boot' = boot /\ raced \subseteq raced' /\ writes["rooms"] = 0 /\ writes'["rooms"] = 1
      /\ \A b \in Boots : boot[b].at = "writeLog" => "rooms" \in raced'
  BY <1>2, WritesActs
<1>4. backbone' = [backbone EXCEPT ![q] = new] /\ probes' = probes
  BY <1>1 DEF ActInRoom
<1>5. /\ logs \in [LogKinds -> Seq(Authors)]
      /\ \A l \in LogKinds : logs[l] = Append(old.log[l], "operator") /\ old.log[l] \in Seq(Authors)
  BY <1>1 DEF Authors
<1> HIDE DEF logs
<1>6. new \in RoomRows
  BY <1>1, <1>5 DEF RoomRows, Authors
<1>7. new.summary = "operator" /\ new.log = logs
  BY <1>1 DEF RoomRows
<1>8. new.listed = old.listed /\ new.actions = old.actions
  BY <1>1 DEF RoomRows
<1> HIDE DEF new
<1>9. /\ backbone' \in [1 .. Len(SeedRooms) -> RoomRows] /\ backbone'[q] = new
      /\ \A r \in 1 .. Len(SeedRooms) : r # q => backbone'[r] = backbone[r]
  BY <1>1, <1>4, <1>6, RowChanged
<1>10. \A r \in 1 .. Len(SeedRooms) : backbone[r].summary # "operator"
  BY <1>3 DEF RoomsHeld
<1>11. ASSUME NEW l \in LogKinds
       PROVE  /\ LogTrue(new.log[l], "operator") /\ LogOk(new.log[l])
              /\ Len(new.log[l]) > 0 /\ new.log[l][Len(new.log[l])] = "operator"
              /\ Len(old.log[l]) > 0 => new.log[l][1] = old.log[l][1]
  <2> DEFINE log == old.log[l]
             now == new.log[l]
             m == Len(log)
  <2>1. log \in Seq(Authors) /\ now = Append(log, "operator") /\ m \in Nat
    BY <1>5, <1>7
  <2>2. Len(now) = m + 1 /\ now[m + 1] = "operator" /\ \A i \in 1 .. m : now[i] = log[i]
    BY <2>1
  <2>3. (\A i \in 2 .. m : log[i] # "legacy") /\ \A i \in 1 .. m : log[i] # "operator"
    BY <1>1, <1>10 DEF RoomsHeld, LogTrue
  <2> HIDE DEF log, now, m
  <2>4. m + 1 \in 1 .. m + 1 /\ m + 1 > 0 /\ (m > 0 => 1 \in 1 .. m)
        /\ (\A i \in 1 .. m + 1 : i \in 1 .. m \/ i = m + 1) /\ (\A i \in 2 .. m + 1 : i \in 2 .. m \/ i = m + 1)
        /\ (\A i \in 2 .. m : i \in 1 .. m) /\ ~(m + 1 \in 1 .. m)
    BY <2>1
  <2>5. \A i \in 1 .. Len(now) : now[i] = "operator" <=> i = m + 1
    BY <2>2, <2>3, <2>4
  <2>6. \A i \in 2 .. Len(now) : now[i] # "legacy"
    BY <2>2, <2>3, <2>4
  <2>7. LogTrue(now, "operator")
    BY <2>2, <2>4, <2>5, <2>6 DEF LogTrue
  <2>8. LogOk(now) /\ Len(now) > 0 /\ now[Len(now)] = "operator" /\ (m > 0 => now[1] = log[1])
    BY <2>2, <2>4 DEF LogOk
  <2> QED
    BY <2>7, <2>8 DEF now, log, m
<1>12. \A r \in 1 .. Len(SeedRooms) : RoomGrows(backbone[r], backbone'[r])
  BY <1>7, <1>8, <1>11, <1>9 DEF RoomGrows, SummaryOk
<1>13. \A b \in Boots : BootRooms(b)'
  BY <1>3, <1>4, <1>12, OthersRooms
<1>14. \A r \in 1 .. Len(SeedRooms) : \A l \in LogKinds : LogTrue(backbone'[r].log[l], backbone'[r].summary)
  BY <1>7, <1>9, <1>11 DEF RoomsHeld
<1> HIDE DEF old
<1> QED
  BY <1>1, <1>3, <1>7, <1>9, <1>10, <1>11, <1>13, <1>14 DEF RoomsHeld

-----------------------------------------------------------------------------
(* The steps of the other functions.                                       *)
LEMMA SomeStatements ==
  /\ {"insertDeployment", "probe", "readText", "insertText", "deleteLicences", "insertLicence", "readHead", "genesis",
      "deployment", "service_check", "boot", "readIntel", "insertIntel", "readTargets", "connect", "disconnect",
      "analyse", "boundary", "seeded", "failed", "crashed"} \subseteq Statements
BY DEF Statements, RoomsAt, AfterRooms, DeploymentAt, AfterDeployment, AfterProbes, TextsAt, LicencesAt, AfterLicences,
  EventsAt, AfterChain, IntelAt, AfterIntel, RegistryAt

(* The two statements about the deployment.                                *)
LEMMA DeploymentActs ==
  ASSUME BootsHold, NEW b \in Boots, InDeployment(b)
  PROVE  /\ Steps(b, DeploymentAt, {"insertDeployment", "probe"}) /\ boot'[b].k = 1
         /\ UNCHANGED <<backbone, probes, texts, licences, chain, market, boundary>>
BY SomeStatements, GoingFirst DEF ReadDeployment, tables, At, Steps, DeploymentAt, InsertDeployment,
   InDeployment

(* A probe, and the next one or the texts.                                 *)
LEMMA ProbeActs ==
  ASSUME BootsHold, probes \in [Boots -> Nat], NEW b \in Boots, ProbeService(b)
  PROVE  /\ Steps(b, {"probe"}, {"probe", "readText"})
         /\ UNCHANGED <<backbone, deployments, texts, licences, chain, market, boundary>>
         /\ probes' \in [Boots -> Nat] /\ probes'[b] = probes[b] + 1
         /\ boot[b].k < Probed => boot'[b].at = "probe" /\ boot'[b].k = boot[b].k + 1
         /\ ~(boot[b].k < Probed) => boot'[b].at = "readText" /\ boot'[b].k = 1
BY SomeStatements, Repeating, GoingFirst DEF ProbeService, At, Steps

(* The text that comes next, or the licences.                              *)
LEMMA AfterTextIs ==
  ASSUME BootsHold, NEW b \in Boots, AfterText(b), probes' = probes, boot[b].at \in TextsAt
  PROVE  /\ Steps(b, TextsAt, TextsAt \cup {"deleteLicences"}) /\ boot'[b].at # "insertText"
         /\ boot'[b].at = "readText" => boot[b].k < 2 /\ boot'[b].k = boot[b].k + 1
BY SomeStatements, Repeating, GoingFirst DEF Texts, AfterText, Steps, TextsAt

(* The statements about identity and readme.                               *)
LEMMA TextActs ==
  ASSUME BootsHold, NEW b \in Boots, InTexts(b)
  PROVE  /\ Steps(b, TextsAt, TextsAt \cup {"deleteLicences"})
         /\ UNCHANGED <<backbone, deployments, probes, licences, chain, market, boundary>>
<1>1. CASE ReadText(b)
  <2>1. /\ boot[b].at = "readText" /\ UNCHANGED tables
        /\ AfterText(b) \/ MovesTo(b, MovedAt(boot[b], "insertText"))
    BY <1>1 DEF ReadText, At, MovedAt
  <2>2. MovedAt(boot[b], "insertText") \in States /\ MovedAt(boot[b], "insertText").at = "insertText"
    BY StatesAre, SomeStatements, BootMoved
  <2>3. CASE AfterText(b)
    BY <2>1, <2>3, AfterTextIs DEF tables, TextsAt
  <2>4. CASE MovesTo(b, MovedAt(boot[b], "insertText"))
    BY <2>1, <2>2, <2>4, Moving DEF tables, Steps, TextsAt
  <2> QED
    BY <2>1, <2>3, <2>4
<1>2. CASE ReadTextFails(b)
  BY <1>2, Leaving DEF ReadTextFails, At, BootsHold, Subjects, tables, Steps, TextsAt
<1>3. CASE InsertText(b)
  BY <1>3, AfterTextIs DEF InsertText, At, TextsAt
<1> QED
  BY <1>1, <1>2, <1>3 DEF InTexts

(* The statements about licences.                                          *)
LEMMA LicenceActs ==
  ASSUME BootsHold, NEW b \in Boots, InLicences(b)
  PROVE  /\ Steps(b, LicencesAt, {"insertLicence", "readHead"})
         /\ UNCHANGED <<backbone, deployments, probes, texts, chain, market, boundary>>
BY SomeStatements, GoingFirst, Repeating DEF DeleteLicences, At, Steps, LicencesAt, InsertLicence, InLicences

(* The statements about intelligence.                                      *)
LEMMA IntelActs ==
  ASSUME BootsHold, NEW b \in Boots, InIntel(b)
  PROVE  /\ Steps(b, IntelAt, {"insertIntel", "readTargets"})
         /\ UNCHANGED <<backbone, deployments, probes, texts, licences, chain, boundary>>
BY SomeStatements, GoingFirst DEF ReadIntel, tables, At, Steps, IntelAt, InsertIntel, InIntel

(* The statements about the registry.                                      *)
LEMMA RegistryActs ==
  ASSUME BootsHold, NEW b \in Boots, InRegistry(b)
  PROVE  /\ Steps(b, RegistryAt, {"connect", "disconnect", "analyse", "boundary"})
         /\ UNCHANGED <<backbone, deployments, probes, texts, licences, chain, boundary>>
<1>1. CASE ReadTargets(b)
  <2>1. boot[b].at = "readTargets" /\ UNCHANGED tables
    BY <1>1 DEF ReadTargets, At
  <2>2. CASE Goes(b, "connect")
    BY <2>1, <2>2, SomeStatements, GoingFirst DEF tables, Steps, RegistryAt
  <2>3. CASE boot' = [boot EXCEPT ![b].at = "disconnect"] /\ UNCHANGED <<raced, writes>>
    BY <2>3, <2>1, Leaving DEF BootsHold, tables, Steps, RegistryAt
  <2> QED
    BY <1>1, <2>2, <2>3 DEF ReadTargets
<1>2. CASE ConnectRegistry(b)
  BY <1>2, SomeStatements, GoingFirst DEF ConnectRegistry, At, Steps, RegistryAt
<1>3. CASE DisconnectRegistry(b)
  BY <1>3, SomeStatements, GoingFirst DEF DisconnectRegistry, At, Steps, RegistryAt
<1>4. CASE Analyse(b)
  BY <1>4, SomeStatements, GoingFirst DEF Analyse, At, Steps, RegistryAt
<1> QED
  BY <1>1, <1>2, <1>3, <1>4 DEF InRegistry

(* The last statement.                                                     *)
LEMMA BoundaryActs ==
  ASSUME BootsHold, NEW b \in Boots, InsertBoundary(b)
  PROVE  /\ Steps(b, {"boundary"}, {"seeded"}) /\ boundary' = Append(boundary, b)
         /\ UNCHANGED <<backbone, deployments, probes, texts, licences, chain, market>>
BY SomeStatements, GoingFirst DEF InsertBoundary, At, Steps

(* A failing statement ends the boot, or disconnects the registry.         *)
LEMMA HaltsActs ==
  ASSUME BootsHold, NEW b \in Boots, BootHalts(b)
  PROVE  /\ \/ Steps(b, Statements \ Ended, {"crashed", "failed"})
            \/ Steps(b, {"connect", "analyse"}, {"disconnect"})
         /\ UNCHANGED tables
<1>1. /\ boot[b].at \in Statements \ Ended /\ UNCHANGED tables /\ raced' = raced /\ writes' = writes
      /\ raced' \subseteq Subjects
  BY StatesAre DEF BootHalts, BootsHold
<1>2. ASSUME NEW to \in {"disconnect", "failed", "crashed"}, boot' = [boot EXCEPT ![b].at = to]
      PROVE  BootsHold' /\ boot'[b].at = to /\ \A c \in Boots : c # b => boot'[c] = boot[c]
  BY <1>1, <1>2, Leaving
<1>3. CASE boot' = [boot EXCEPT ![b].at = "crashed"]
  BY <1>1, <1>2, <1>3 DEF Steps, tables
<1>4. CASE boot' = [boot EXCEPT ![b].at = IF @ \in {"connect", "analyse"} THEN "disconnect" ELSE "failed"]
  <2>1. CASE boot[b].at \in {"connect", "analyse"}
    BY <1>4, <2>1, <1>1, <1>2 DEF Steps, tables
  <2>2. CASE boot[b].at \notin {"connect", "analyse"}
    BY <1>4, <2>2, <1>1, <1>2 DEF Steps, tables
  <2> QED
    BY <2>1, <2>2
<1> QED
  BY <1>1, <1>3, <1>4 DEF BootHalts

-----------------------------------------------------------------------------
(***************************************************************************)
(* Deployments, probes, texts, licences, the evidence chain, market and    *)
(* boundary (seed.ts:400).                                                 *)
(***************************************************************************)

-----------------------------------------------------------------------------
(* What the other functions keep.                                          *)
BootProbes(b) ==
  LET at == boot[b].at
  IN /\ at \in {"waiting"} \cup RoomsAt \cup DeploymentAt => probes[b] = 0
     /\ at = "probe" => boot[b].k \in 1 .. Probed /\ probes[b] = boot[b].k - 1
     /\ at \in AfterProbes \ {"seeded"} => probes[b] = Probed
     /\ at = "seeded" => probes[b] \in {0, Probed}

ProbesHeld == probes \in [Boots -> Nat] /\ \A b \in Boots : BootProbes(b)

Releases == {ReleaseOf[b] : b \in Boots}

BootDeployment(b) ==
  /\ boot[b].at = "insertDeployment" /\ "deployment" \notin raced =>
       \A i \in 1 .. Len(deployments) : deployments[i] # ReleaseOf[b]
  /\ Through(b, AfterDeployment) => \E i \in 1 .. Len(deployments) : deployments[i] = ReleaseOf[b]

DeploymentsHeld ==
  /\ deployments \in Seq(Releases)
  /\ "deployment" \notin raced => \A i, j \in 1 .. Len(deployments) : deployments[i] = deployments[j] => i = j
  /\ \A b \in Boots : BootDeployment(b)

TextKinds == {"identity", "readme"}

BootTexts(b) ==
  /\ boot[b].at \in TextsAt => boot[b].k \in 1 .. 2
  /\ boot[b].at = "insertText" /\ "texts" \notin raced =>
       LET rows == texts[Texts[boot[b].k]] IN Len(rows) = 0 \/ rows[Len(rows)] # ReleaseOf[b]

TextsHeld ==
  /\ texts \in [TextKinds -> Seq(Releases \cup {"operator"})]
  /\ "texts" \notin raced => \A t \in TextKinds : \A i \in 2 .. Len(texts[t]) : texts[t][i] # texts[t][i - 1]
  /\ writes["texts"] = 0 => \A t \in TextKinds : \A i \in 1 .. Len(texts[t]) : texts[t][i] # "operator"
  /\ \A b \in Boots : BootTexts(b)

(* The licences of the boot that last replaced them.                       *)
BootLicences(b) ==
  LET at == boot[b].at
  IN /\ at = "insertLicence" => boot[b].k \in 1 .. Len(Licences)
     /\ at = "insertLicence" /\ "licences" \notin raced => licences.by = b
     /\ licences.by = b => at \in {"insertLicence", "failed", "crashed"} \cup AfterLicences
     /\ licences.by = b /\ at = "insertLicence" =>
          \A l \in 1 .. Len(Licences) :
            /\ l < boot[b].k => licences.rows[l] >= 1
            /\ "licences" \notin raced => licences.rows[l] = IF l < boot[b].k THEN 1 ELSE 0
     /\ licences.by = b /\ at \in AfterLicences =>
          \A l \in 1 .. Len(Licences) : licences.rows[l] >= 1 /\ ("licences" \notin raced => licences.rows[l] = 1)

LicencesHeld ==
  /\ licences \in [rows : [1 .. Len(Licences) -> Nat], by : Boots \cup {Nobody, "operator"}]
  /\ \A b \in Boots : BootLicences(b)

BootEvents(b) ==
  /\ boot[b].at \in EventsAt =>
       /\ boot[b].seen <= Len(chain) /\ (boot[b].at = "genesis" <=> boot[b].seen = 0)
       /\ "chain" \notin raced => boot[b].seen = Len(chain)
  /\ Through(b, AfterChain) => \E i \in 1 .. Len(chain) : chain[i].type = "boot"

SeedEventsHeld ==
  /\ chain \in Seq([type : EventsAt, prev : Nat])
  /\ \A i \in 1 .. Len(chain) : chain[i].prev < i /\ (chain[i].type = "genesis" <=> chain[i].prev = 0)
  /\ "chain" \notin raced => \A i \in 1 .. Len(chain) : chain[i].prev = i - 1
  /\ \A b \in Boots : BootEvents(b)

BootIntel(b) ==
  /\ boot[b].at = "insertIntel" /\ "market" \notin raced => market.intel = 0
  /\ Through(b, AfterIntel) => market.intel >= 1

IntelligenceHeld ==
  /\ market \in [source : {"none", "connected", "disconnected"}, intel : Nat, analyses : Nat]
  /\ "market" \notin raced => market.intel <= 1
  /\ \A b \in Boots : BootIntel(b)

BoundaryHeld ==
  /\ boundary \in Seq(Boots)
  /\ \A b \in Boots : Through(b, {"seeded"}) => \E i \in 1 .. Len(boundary) : boundary[i] = b

-----------------------------------------------------------------------------
(* The head that is read, and an event that is appended to what was seen.  *)
LEMMA EventActs ==
  ASSUME BootsHold, NEW n \in Nat, n = Len(chain), NEW b \in Boots, InEvents(b)
  PROVE  /\ Steps(b, {"readHead"} \cup EventsAt, EventsAt \cup {"readIntel"})
         /\ UNCHANGED <<backbone, deployments, probes, texts, licences, market, boundary>>
         /\ \/ /\ boot[b].at = "readHead" /\ chain' = chain /\ boot'[b].seen = n
               /\ boot'[b].at = (IF chain = <<>> THEN "genesis" ELSE "boot")
            \/ /\ boot[b].at \in EventsAt /\ chain' = Append(chain, [type |-> boot[b].at, prev |-> boot[b].seen])
               /\ boot'[b].seen = Len(chain') /\ boot'[b].at = Follows[boot[b].at]
<1>1. boot[b] \in States
  BY StatesAre
<1>2. CASE ReadHead(b)
  <2> DEFINE at == IF chain = <<>> THEN "genesis" ELSE "boot"
             state == SeenAt(boot[b], at, n)
  <2>1. boot[b].at = "readHead" /\ UNCHANGED tables /\ MovesTo(b, state)
    BY <1>2 DEF ReadHead, At, SeenAt
  <2>2. at \in Statements /\ at \in EventsAt
    BY SomeStatements DEF EventsAt
  <2> HIDE DEF at
  <2>3. state \in States /\ state.at = at /\ state.seen = n
    BY <1>1, <2>2, BootSeen
  <2> HIDE DEF state
  <2>4. /\ BootsHold' /\ raced \subseteq raced' /\ writes' = writes /\ boot'[b] = state
        /\ \A c \in Boots : c # b => boot'[c] = boot[c]
    BY <2>1, <2>3, Moving
  <2>5. UNCHANGED <<backbone, deployments, probes, texts, licences, chain, market, boundary>>
    BY <2>1 DEF tables
  <2> QED
    BY <2>1, <2>2, <2>3, <2>4, <2>5 DEF Steps, at
<1>3. CASE AppendEvent(b)
  <2> DEFINE at == Follows[boot[b].at]
             m == Len(chain')
             state == SeenAt(boot[b], at, m)
  <2>1. /\ boot[b].at \in EventsAt /\ chain' = Append(chain, [type |-> boot[b].at, prev |-> boot[b].seen])
        /\ MovesTo(b, state)
        /\ UNCHANGED <<backbone, deployments, probes, texts, licences, market, boundary>>
    BY <1>3 DEF AppendEvent, SeenAt, EventsAt, Follows
  <2>2. at \in Statements /\ at \in EventsAt \cup {"readIntel"}
    BY <2>1, SomeStatements DEF EventsAt, Follows
  <2>3. m \in Nat
    BY <2>1
  <2> HIDE DEF at, m
  <2>4. state \in States /\ state.at = at /\ state.seen = m
    BY <1>1, <2>2, <2>3, BootSeen
  <2> HIDE DEF state
  <2>5. /\ BootsHold' /\ raced \subseteq raced' /\ writes' = writes /\ boot'[b] = state
        /\ \A c \in Boots : c # b => boot'[c] = boot[c]
    BY <2>1, <2>4, Moving
  <2> QED
    BY <2>1, <2>2, <2>4, <2>5 DEF Steps, at, m
<1> QED
  BY <1>2, <1>3 DEF InEvents

(* An operator's write moves no process.                                   *)
LEMMA StillAside ==
  ASSUME BootsHold', raced \subseteq raced', boot' = boot, probes' = probes, NEW at, NEW after
  PROVE  StandsAside(at, after)
BY DEF StandsAside, Apart

(* Steps elsewhere leave the deployments as they are ...                   *)
LEMMA DeploymentAside ==
  ASSUME DeploymentsHeld, StandsAside({"insertDeployment"}, AfterDeployment), deployments' = deployments
  PROVE  DeploymentsHeld'
<1>1. ASSUME NEW c \in Boots PROVE BootDeployment(c)'
  BY DEF DeploymentsHeld, StandsAside, BootDeployment, Apart, Through
<1> QED
  BY <1>1 DEF DeploymentsHeld, StandsAside

(* ... and the texts,                                                      *)
LEMMA TextsAside ==
  ASSUME TextsHeld, StandsAside(TextsAt, {}), texts' = texts, writes'["texts"] = writes["texts"]
  PROVE  TextsHeld'
<1>1. ASSUME NEW c \in Boots PROVE BootTexts(c)'
  BY DEF TextsHeld, StandsAside, BootTexts, Apart, TextsAt
<1> QED
  BY <1>1 DEF TextsHeld, StandsAside

(* ... the chain,                                                          *)
LEMMA ChainAside ==
  ASSUME SeedEventsHeld, StandsAside(EventsAt, AfterChain), chain' = chain
  PROVE  SeedEventsHeld'
<1>1. ASSUME NEW c \in Boots PROVE BootEvents(c)'
  BY DEF SeedEventsHeld, StandsAside, BootEvents, Apart, Through
<1> QED
  BY <1>1 DEF SeedEventsHeld, StandsAside

(* ... the intelligence,                                                   *)
LEMMA MarketAside ==
  ASSUME IntelligenceHeld, StandsAside({"insertIntel"}, AfterIntel), market' \in [source : {"none", "connected", "disconnected"}, intel : Nat, analyses : Nat],
         market'.intel = market.intel
  PROVE  IntelligenceHeld'
<1>1. ASSUME NEW c \in Boots PROVE BootIntel(c)'
  BY DEF IntelligenceHeld, StandsAside, BootIntel, Apart, Through
<1> QED
  BY <1>1 DEF IntelligenceHeld, StandsAside

(* ... and the boundaries.                                                 *)
LEMMA BoundaryAside ==
  ASSUME BoundaryHeld, StandsAside({}, {"seeded"}), boundary' = boundary
  PROVE  BoundaryHeld'
<1>1. ASSUME NEW c \in Boots, Through(c, {"seeded"})' PROVE Through(c, {"seeded"})
  BY <1>1 DEF StandsAside, Apart, Through
<1> QED
  BY <1>1 DEF BoundaryHeld

(* A step that is not at the licences leaves their boot where it is.       *)
LEMMA LicencesAside ==
  ASSUME LicencesHeld, NEW b \in Boots, NEW from, NEW to, Steps(b, from, to), licences' = licences,
         "insertLicence" \notin to,
         \/ to \subseteq {"failed", "crashed"}
         \/ from \subseteq AfterLicences /\ to \subseteq AfterLicences
         \/ from \cap ({"insertLicence", "failed", "crashed"} \cup AfterLicences) = {}
  PROVE  LicencesHeld'
<1>1. BootLicences(b)'
  BY FunctionsApart, StatementsAre DEF LicencesHeld, Steps, BootLicences
<1>2. ASSUME NEW c \in Boots, c # b PROVE BootLicences(c)'
  BY <1>2 DEF LicencesHeld, Steps, BootLicences
<1> QED
  BY <1>1, <1>2 DEF LicencesHeld

-----------------------------------------------------------------------------
(* The probes.                                                             *)
Unprobed == {"waiting"} \cup RoomsAt \cup DeploymentAt

(* The probes are between the deployment and the texts.                    *)
LEMMA ProbesApart ==
  /\ Unprobed \cap (AfterProbes \cup {"probe", "seeded", "failed", "crashed"}) = {}
  /\ {"probe", "failed", "crashed"} \cap AfterProbes = {}
BY DEF Unprobed, RoomsAt, DeploymentAt, AfterProbes, TextsAt, LicencesAt, AfterLicences, EventsAt, AfterChain, IntelAt,
  AfterIntel, RegistryAt

(* Only probes are counted.                                                *)
LEMMA ProbesAside ==
  ASSUME ProbesHeld, NEW b \in Boots, NEW from, NEW to, Steps(b, from, to), probes' = probes,
         \/ to \subseteq {"failed", "crashed"}
         \/ from \subseteq Unprobed /\ to \subseteq Unprobed \cup {"seeded"}
         \/ from \subseteq AfterProbes \ {"seeded"} /\ to \subseteq AfterProbes
  PROVE  ProbesHeld'
<1>1. BootProbes(b)'
  BY ProbesApart DEF ProbesHeld, Steps, BootProbes, Unprobed
<1>2. ASSUME NEW c \in Boots, c # b PROVE BootProbes(c)'
  BY <1>2 DEF ProbesHeld, Steps, BootProbes
<1> QED
  BY <1>1, <1>2 DEF ProbesHeld

(* A probe is counted.                                                     *)
LEMMA ProbeHolds ==
  ASSUME BootsHold, ProbesHeld, NEW b \in Boots, ProbeService(b)
  PROVE  ProbesHeld'
<1>1. /\ Steps(b, {"probe"}, {"probe", "readText"}) /\ probes' \in [Boots -> Nat] /\ probes'[b] = probes[b] + 1
      /\ boot[b].k < Probed => boot'[b].at = "probe" /\ boot'[b].k = boot[b].k + 1
      /\ ~(boot[b].k < Probed) => boot'[b].at = "readText" /\ boot'[b].k = 1
  BY ProbeActs DEF ProbesHeld
<1>2. boot[b].k \in 1 .. Probed /\ probes[b] = boot[b].k - 1 /\ Probed \in Nat
  BY <1>1, BootSeedAssumption DEF ProbesHeld, BootProbes, Steps
<1>3. BootProbes(b)'
  <2>1. CASE boot[b].k < Probed
    BY <1>1, <1>2, <2>1, ProbesApart DEF BootProbes, Unprobed
  <2>2. CASE ~(boot[b].k < Probed)
    BY <1>1, <1>2, <2>2, ProbesApart DEF AfterProbes, TextsAt, BootProbes, Unprobed
  <2> QED
    BY <2>1, <2>2
<1>4. ASSUME NEW c \in Boots, c # b PROVE BootProbes(c)'
  BY <1>1, <1>4 DEF ProbesHeld, Steps, BootProbes
<1> QED
  BY <1>1, <1>3, <1>4 DEF ProbesHeld

-----------------------------------------------------------------------------
(***************************************************************************)
(* Statements that write to deployments, market, boundary and chain.       *)
(***************************************************************************)

-----------------------------------------------------------------------------
(* The release is found, or inserted where it was missing.                 *)
LEMMA DeploymentHolds ==
  ASSUME BootsHold, DeploymentsHeld, NEW b \in Boots, InDeployment(b)
  PROVE  DeploymentsHeld'
<1>1. Steps(b, DeploymentAt, {"insertDeployment", "probe"}) /\ probes' = probes
  BY DeploymentActs
<1>2. /\ BootsHold' /\ raced \subseteq raced' /\ boot[b].at \in DeploymentAt
      /\ \A c \in Boots : c # b => boot'[c] = boot[c] /\ probes'[c] = probes[c]
  BY <1>1 DEF Steps
<1>3. "insertDeployment" \notin AfterDeployment /\ "probe" # "seeded" /\ "deployment" \in Subjects
  BY FunctionsApart DEF DeploymentAt, Subjects
<1>4. CASE ReadDeployment(b)
  BY <1>4, SomeStatements, GoingFirst, <1>3, <1>2 DEF ReadDeployment, tables, At, BootDeployment, Through,
     DeploymentsHeld
<1>5. CASE InsertDeployment(b)
  <2> DEFINE m == Len(deployments)
  <2>1. boot[b].at = "insertDeployment" /\ deployments' = Append(deployments, ReleaseOf[b]) /\ boot'[b].at = "probe"
    BY <1>5, SomeStatements, GoingFirst DEF InsertDeployment, At
  <2>2. deployments \in Seq(Releases) /\ ReleaseOf[b] \in Releases /\ m \in Nat
    BY DEF DeploymentsHeld, Releases
  <2>3. deployments' \in Seq(Releases) /\ Len(deployments') = m + 1 /\ deployments'[m + 1] = ReleaseOf[b]
        /\ \A i \in 1 .. m : deployments'[i] = deployments[i]
    BY <2>1, <2>2
  <2>4. "deployment" \notin raced' => \A i \in 1 .. m : deployments[i] # ReleaseOf[b]
    BY <1>2, <2>1 DEF DeploymentsHeld, BootDeployment
  <2>5. "deployment" \notin raced' => \A i, j \in 1 .. m : deployments[i] = deployments[j] => i = j
    BY <1>2 DEF DeploymentsHeld
  <2> HIDE DEF m
  <2>6. (\A i \in 1 .. m + 1 : i \in 1 .. m \/ i = m + 1) /\ m + 1 \in 1 .. m + 1 /\ \A i \in 1 .. m : i \in 1 .. m + 1
    BY <2>2
  <2>7. "deployment" \notin raced' =>
          \A i, j \in 1 .. Len(deployments') : deployments'[i] = deployments'[j] => i = j
    BY <2>3, <2>4, <2>5, <2>6
  <2>8. BootDeployment(b)'
    BY <1>3, <2>1, <2>3, <2>6 DEF BootDeployment
  <2>9. ASSUME NEW c \in Boots, c # b PROVE BootDeployment(c)'
    <3>1. boot'[c] = boot[c] /\ probes'[c] = probes[c] /\ BootDeployment(c)
      BY <1>2, <2>9 DEF DeploymentsHeld
    <3>2. boot[c].at = "insertDeployment" => "deployment" \in raced'
      BY <1>2, <1>3, <2>1, <2>9, WindowsAre DEF BootsHold, Alone
    <3>3. Through(c, AfterDeployment)' => \E i \in 1 .. m : deployments[i] = ReleaseOf[c]
      BY <3>1 DEF BootDeployment, Through, m
    <3>4. Through(c, AfterDeployment)' => \E i \in 1 .. Len(deployments') : deployments'[i] = ReleaseOf[c]
      BY <2>3, <2>6, <3>3
    <3> QED
      BY <3>1, <3>2, <3>4 DEF BootDeployment
  <2> QED
    BY <2>3, <2>7, <2>8, <2>9 DEF DeploymentsHeld
<1> QED
  BY <1>4, <1>5 DEF InDeployment

-----------------------------------------------------------------------------
(* Intelligence is found, or inserted where there was none.                *)
LEMMA IntelHolds ==
  ASSUME BootsHold, IntelligenceHeld, NEW b \in Boots, InIntel(b)
  PROVE  IntelligenceHeld'
<1> DEFINE Markets == [source : {"none", "connected", "disconnected"}, intel : Nat, analyses : Nat]
<1>1. Steps(b, IntelAt, {"insertIntel", "readTargets"}) /\ probes' = probes
  BY IntelActs
<1>2. /\ BootsHold' /\ raced \subseteq raced' /\ boot[b].at \in IntelAt
      /\ \A c \in Boots : c # b => boot'[c] = boot[c] /\ probes'[c] = probes[c]
  BY <1>1 DEF Steps
<1>3. "insertIntel" \notin AfterIntel /\ "market" \in Subjects /\ market \in Markets
  BY FunctionsApart DEF IntelAt, Subjects, IntelligenceHeld
<1>4. CASE ReadIntel(b)
  <2>1. market' = market
    BY <1>4 DEF ReadIntel, tables
  <2>2. (market.intel > 0 /\ boot'[b].at = "readTargets") \/ (~(market.intel > 0) /\ boot'[b].at = "insertIntel")
    <3>1. CASE market.intel > 0
      BY <1>4, <3>1, SomeStatements, GoingFirst DEF ReadIntel
    <3>2. CASE ~(market.intel > 0)
      BY <1>4, <3>2, SomeStatements, GoingFirst DEF ReadIntel
    <3> QED
      BY <3>1, <3>2
  <2>3. BootIntel(b)'
    BY <1>3, <2>1, <2>2 DEF BootIntel, Through
  <2>4. ASSUME NEW c \in Boots, c # b PROVE BootIntel(c)'
    BY <1>2, <2>1, <2>4 DEF IntelligenceHeld, BootIntel, Through
  <2> QED
    BY <1>2, <2>1, <2>3, <2>4 DEF IntelligenceHeld
<1>5. CASE InsertIntel(b)
  <2>1. boot[b].at = "insertIntel" /\ market' = [market EXCEPT !.intel = @ + 1] /\ boot'[b].at = "readTargets"
    BY <1>5, SomeStatements, GoingFirst DEF InsertIntel, At
  <2>2. market' \in Markets /\ market'.intel = market.intel + 1 /\ market.intel \in Nat
    BY <1>3, <2>1
  <2>3. "market" \notin raced' => market.intel = 0
    BY <1>2, <2>1 DEF IntelligenceHeld, BootIntel
  <2>4. BootIntel(b)'
    BY <2>1, <2>2 DEF BootIntel
  <2>5. ASSUME NEW c \in Boots, c # b PROVE BootIntel(c)'
    BY <1>2, <1>3, <2>1, <2>5, WindowsAre, <2>2 DEF BootsHold, Alone, BootIntel
  <2> QED
    BY <2>2, <2>3, <2>4, <2>5 DEF IntelligenceHeld
<1> QED
  BY <1>4, <1>5 DEF InIntel

(* The registry's status and its analyses are no intelligence.             *)
LEMMA RegistryKeepsIntel ==
  ASSUME BootsHold, IntelligenceHeld, NEW b \in Boots, InRegistry(b)
  PROVE  market' \in [source : {"none", "connected", "disconnected"}, intel : Nat, analyses : Nat] /\ market'.intel = market.intel
BY DEF IntelligenceHeld, ReadTargets, tables, ConnectRegistry, DisconnectRegistry, Analyse, InRegistry

(* The boundary is the process's own.                                      *)
LEMMA BoundaryHolds ==
  ASSUME BootsHold, BoundaryHeld, NEW b \in Boots, InsertBoundary(b)
  PROVE  BoundaryHeld'
<1> DEFINE m == Len(boundary)
<1>1. /\ Steps(b, {"boundary"}, {"seeded"}) /\ boundary' = Append(boundary, b)
      /\ \A c \in Boots : c # b => boot'[c] = boot[c] /\ probes'[c] = probes[c]
  BY BoundaryActs DEF Steps
<1>2. boundary \in Seq(Boots) /\ m \in Nat
  BY DEF BoundaryHeld
<1>3. boundary' \in Seq(Boots) /\ Len(boundary') = m + 1 /\ boundary'[m + 1] = b /\ \A i \in 1 .. m : boundary'[i] = boundary[i]
  BY <1>1, <1>2
<1>4. \A c \in Boots : c # b /\ Through(c, {"seeded"})' => \E i \in 1 .. m : boundary[i] = c
  BY <1>1 DEF BoundaryHeld, Through
<1> HIDE DEF m
<1>5. m + 1 \in 1 .. m + 1 /\ \A i \in 1 .. m : i \in 1 .. m + 1
  BY <1>2
<1> QED
  BY <1>3, <1>4, <1>5 DEF BoundaryHeld

-----------------------------------------------------------------------------
(* An event follows one that is there, and the last one unless another     *)
(* process is at it.                                                       *)
LEMMA InEventsHolds ==
  ASSUME BootsHold, SeedEventsHeld, NEW b \in Boots, InEvents(b)
  PROVE  SeedEventsHeld'
<1> DEFINE n == Len(chain)
           Events == [type : EventsAt, prev : Nat]
<1>1. chain \in Seq(Events) /\ n \in Nat
  BY DEF SeedEventsHeld
<1>2. /\ Steps(b, {"readHead"} \cup EventsAt, EventsAt \cup {"readIntel"}) /\ probes' = probes
      /\ \/ /\ boot[b].at = "readHead" /\ chain' = chain /\ boot'[b].seen = n
            /\ boot'[b].at = (IF chain = <<>> THEN "genesis" ELSE "boot")
         \/ /\ boot[b].at \in EventsAt /\ chain' = Append(chain, [type |-> boot[b].at, prev |-> boot[b].seen])
            /\ boot'[b].seen = Len(chain') /\ boot'[b].at = Follows[boot[b].at]
  BY <1>1, EventActs
<1>3. /\ BootsHold' /\ raced \subseteq raced'
      /\ \A c \in Boots : c # b => boot'[c] = boot[c] /\ probes'[c] = probes[c]
  BY <1>2 DEF Steps
<1>4. "chain" \in Subjects /\ Window("chain") = EventsAt /\ EventsAt \cap AfterChain = {} /\ "boot" \in EventsAt
  BY WindowsAre, FunctionsApart DEF Subjects, EventsAt
<1>5. BootEvents(b)
  BY DEF SeedEventsHeld
<1>6. CASE boot[b].at = "readHead" /\ chain' = chain /\ boot'[b].seen = n
           /\ boot'[b].at = (IF chain = <<>> THEN "genesis" ELSE "boot")
  BY <1>1, <1>6, <1>4, <1>3 DEF EventsAt, BootEvents, Through, SeedEventsHeld
<1>7. CASE boot[b].at \in EventsAt /\ chain' = Append(chain, [type |-> boot[b].at, prev |-> boot[b].seen])
           /\ boot'[b].seen = Len(chain') /\ boot'[b].at = Follows[boot[b].at]
  <2> DEFINE event == [type |-> boot[b].at, prev |-> boot[b].seen]
  <2>1. event \in Events /\ event.type = boot[b].at /\ event.prev = boot[b].seen /\ boot[b].seen \in Nat
    BY <1>7, StatesAre
  <2> HIDE DEF event
  <2>2. /\ chain' \in Seq(Events) /\ Len(chain') = n + 1 /\ chain'[n + 1] = event
        /\ \A i \in 1 .. n : chain'[i] = chain[i]
    BY <1>1, <1>7, <2>1 DEF event
  <2>3. /\ boot[b].seen <= n /\ (boot[b].at = "genesis" <=> boot[b].seen = 0)
        /\ "chain" \notin raced' => boot[b].seen = n
    BY <1>3, <1>5, <1>7 DEF BootEvents
  <2>4. /\ \A i \in 1 .. n : chain[i].prev < i /\ (chain[i].type = "genesis" <=> chain[i].prev = 0)
        /\ "chain" \notin raced' => \A i \in 1 .. n : chain[i].prev = i - 1
    BY <1>3 DEF SeedEventsHeld
  <2>5. BootEvents(b)'
    <3>1. boot'[b].at \in EventsAt => boot'[b].at # "genesis"
      BY <1>7 DEF EventsAt, Follows
    <3>2. boot'[b].at \in AfterChain => boot[b].at = "boot"
      BY <1>4, <1>7 DEF EventsAt, Follows
    <3>3. n + 1 <= n + 1 /\ n + 1 # 0 /\ n + 1 \in 1 .. n + 1
      BY <1>1
    <3>4. boot'[b].seen = n + 1 /\ Len(chain') = n + 1 /\ (boot'[b].at \in AfterChain => chain'[n + 1].type = "boot")
      BY <1>7, <2>1, <2>2, <3>2
    <3> HIDE DEF n
    <3> QED
      BY <3>1, <3>3, <3>4 DEF BootEvents, Through
  <2>6. ASSUME NEW c \in Boots, c # b PROVE BootEvents(c)'
    <3>1. boot'[c] = boot[c] /\ probes'[c] = probes[c] /\ BootEvents(c) /\ boot[c].seen \in Nat
      BY <1>3, <2>6, StatesAre DEF SeedEventsHeld
    <3>2. boot[c].at \in EventsAt => "chain" \in raced'
      BY <1>3, <1>4, <1>7, <2>6 DEF BootsHold, Alone
    <3>3. /\ boot[c].at \in EventsAt => boot[c].seen <= n /\ (boot[c].at = "genesis" <=> boot[c].seen = 0)
          /\ Through(c, AfterChain) => \E i \in 1 .. n : chain[i].type = "boot"
      BY <3>1 DEF BootEvents
    <3>4. (boot[c].seen <= n => boot[c].seen <= n + 1) /\ \A i \in 1 .. n : i \in 1 .. n + 1
      <4> HIDE DEF n
      <4> QED
        BY <1>1, <3>1
    <3> HIDE DEF n
    <3>5. Through(c, AfterChain)' => \E i \in 1 .. Len(chain') : chain'[i].type = "boot"
      BY <2>2, <3>1, <3>3, <3>4 DEF Through
    <3> QED
      BY <2>2, <3>1, <3>2, <3>3, <3>4, <3>5 DEF BootEvents
  <2> HIDE DEF n
  <2>7. /\ \A i \in 1 .. n + 1 : i \in 1 .. n \/ i = n + 1
        /\ n < n + 1 /\ n + 1 - 1 = n /\ (boot[b].seen <= n => boot[b].seen < n + 1)
    BY <1>1, <2>1
  <2>8. \A i \in 1 .. Len(chain') : chain'[i].prev < i /\ (chain'[i].type = "genesis" <=> chain'[i].prev = 0)
    BY <2>1, <2>2, <2>3, <2>4, <2>7
  <2>9. "chain" \notin raced' => \A i \in 1 .. Len(chain') : chain'[i].prev = i - 1
    BY <2>1, <2>2, <2>3, <2>4, <2>7
  <2> QED
    BY <2>2, <2>5, <2>6, <2>8, <2>9 DEF SeedEventsHeld
<1> QED
  BY <1>2, <1>6, <1>7

-----------------------------------------------------------------------------
(***************************************************************************)
(* Identity and readme.                                                    *)
(***************************************************************************)

-----------------------------------------------------------------------------
(* Identity and readme.                                                    *)
LEMMA TextsAre == Len(Texts) = 2 /\ Texts[1] = "identity" /\ Texts[2] = "readme" /\ TextKinds = {Texts[1], Texts[2]}
BY DEF Texts, TextKinds

(* A row that differs from the newest one keeps neighbours apart.          *)
LEMMA NeighboursDiffer ==
  ASSUME NEW S, NEW rows \in Seq(S), NEW row \in S, Len(rows) = 0 \/ rows[Len(rows)] # row,
         \A i \in 2 .. Len(rows) : rows[i] # rows[i - 1]
  PROVE  \A i \in 2 .. Len(Append(rows, row)) : Append(rows, row)[i] # Append(rows, row)[i - 1]
<1> DEFINE m == Len(rows)
           new == Append(rows, row)
<1>1. m \in Nat /\ Len(new) = m + 1 /\ new[m + 1] = row /\ \A i \in 1 .. m : new[i] = rows[i]
  OBVIOUS
<1> HIDE DEF m, new
<1>2. ASSUME NEW i \in 2 .. m + 1 PROVE new[i] # new[i - 1]
  <2>1. CASE i = m + 1
    BY <1>1, <1>2, <2>1 DEF m
  <2>2. CASE i # m + 1
    BY <1>1, <1>2, <2>2 DEF m
  <2> QED
    BY <2>1, <2>2
<1> QED
  BY <1>1, <1>2 DEF new

(* A text is inserted unless the newest one is its copy, or the look       *)
(* failed.                                                                 *)
LEMMA InTextsHolds ==
  ASSUME BootsHold, TextsHeld, NEW b \in Boots, InTexts(b)
  PROVE  TextsHeld'
<1> DEFINE t == Texts[boot[b].k]
           rows == texts[t]
           Hands == Releases \cup {"operator"}
<1>1. /\ Steps(b, TextsAt, TextsAt \cup {"deleteLicences"}) /\ probes' = probes
  BY TextActs
<1>2. /\ BootsHold' /\ raced \subseteq raced' /\ writes' = writes /\ boot[b].at \in TextsAt
      /\ \A c \in Boots : c # b => boot'[c] = boot[c]
  BY <1>1 DEF Steps
<1>3. boot[b].k \in 1 .. 2 /\ BootTexts(b) /\ texts \in [TextKinds -> Seq(Hands)] /\ "texts" \in Subjects
  BY <1>2 DEF TextsHeld, BootTexts, Subjects
<1>4. t \in TextKinds /\ rows \in Seq(Hands) /\ Text(b) = t /\ Len(rows) \in Nat /\ (rows = <<>> <=> Len(rows) = 0)
  BY <1>3, TextsAre DEF Text
<1>5. ASSUME AfterText(b) PROVE boot'[b].at # "insertText" /\ (boot'[b].at \in TextsAt => boot'[b].k \in 1 .. 2)
  BY <1>1, <1>2, <1>5, AfterTextIs, <1>3 DEF TextsAt
<1>6. ASSUME texts' = texts, BootTexts(b)' PROVE TextsHeld'
  BY <1>2, <1>6 DEF TextsHeld, BootTexts
<1>7. CASE ReadText(b)
  <2>1. texts' = texts /\ boot[b].at = "readText"
    BY <1>7 DEF ReadText, tables, At
  <2>2. CASE TextIsOurs(b)
    BY <1>7, <2>2, <1>5, <1>6, <2>1 DEF ReadText, BootTexts
  <2>3. CASE ~TextIsOurs(b)
    <3>1. MovesTo(b, MovedAt(boot[b], "insertText"))
      BY <1>7, <2>3 DEF ReadText, MovedAt
    <3>2. MovedAt(boot[b], "insertText") \in States /\ MovedAt(boot[b], "insertText").k = boot[b].k
      BY StatesAre, SomeStatements, BootMoved
    <3>3. boot'[b].k = boot[b].k
      BY <3>1, <3>2, Moving
    <3>4. Len(rows) = 0 \/ rows[Len(rows)] # ReleaseOf[b]
      BY <1>4, <2>3 DEF TextIsOurs, Last
    <3>5. texts'[Texts[boot'[b].k]] = rows
      BY <2>1, <3>3
    <3> HIDE DEF rows
    <3>6. BootTexts(b)'
      BY <1>3, <3>3, <3>4, <3>5 DEF BootTexts
    <3> QED
      BY <1>6, <2>1, <3>6
  <2> QED
    BY <2>2, <2>3
<1>8. CASE ReadTextFails(b)
  BY <1>8, StatesAre, <1>3, <1>6 DEF ReadTextFails, tables, BootsHold, States, BootTexts
<1>9. CASE InsertText(b)
  <2>1. boot[b].at = "insertText" /\ texts' = [texts EXCEPT ![t] = Append(rows, ReleaseOf[b])] /\ AfterText(b)
    BY <1>4, <1>9 DEF InsertText, At
  <2>2. ReleaseOf[b] \in Hands /\ ReleaseOf[b] # "operator"
    BY BootSeedAssumption DEF Releases
  <2> DEFINE new == Append(rows, ReleaseOf[b])
             m == Len(rows)
  <2>3. new \in Seq(Hands) /\ m \in Nat /\ Len(new) = m + 1 /\ new[m + 1] = ReleaseOf[b] /\ \A i \in 1 .. m : new[i] = rows[i]
    BY <1>4, <2>2
  <2>4. texts' \in [TextKinds -> Seq(Hands)] /\ texts'[t] = new /\ \A u \in TextKinds : u # t => texts'[u] = texts[u]
    BY <1>3, <1>4, <2>1, <2>3
  <2>5. "texts" \notin raced' => \A i \in 2 .. Len(new) : new[i] # new[i - 1]
    <3>1. "texts" \notin raced' => (Len(rows) = 0 \/ rows[Len(rows)] # ReleaseOf[b])
      BY <1>2, <1>3, <2>1 DEF BootTexts
    <3>2. "texts" \notin raced' => \A i \in 2 .. Len(rows) : rows[i] # rows[i - 1]
      BY <1>2, <1>4 DEF TextsHeld
    <3> HIDE DEF rows
    <3> QED
      BY <1>4, <2>2, <3>1, <3>2, NeighboursDiffer
  <2>6. writes'["texts"] = 0 => \A i \in 1 .. Len(new) : new[i] # "operator"
    <3>1. writes'["texts"] = 0 => \A i \in 1 .. m : rows[i] # "operator"
      BY <1>2, <1>4 DEF TextsHeld
    <3> HIDE DEF m, new
    <3>2. \A i \in 1 .. m + 1 : i \in 1 .. m \/ i = m + 1
      BY <2>3
    <3> QED
      BY <2>2, <2>3, <3>1, <3>2
  <2> HIDE DEF new, m
  <2>7. "texts" \notin raced' => \A u \in TextKinds : \A i \in 2 .. Len(texts'[u]) : texts'[u][i] # texts'[u][i - 1]
    <3>1. \A i \in 2 .. Len(texts'[t]) : "texts" \notin raced' => texts'[t][i] # texts'[t][i - 1]
      <4>1. texts'[t] = new
        BY <2>4
      <4> HIDE DEF t
      <4> QED
        BY <4>1, <2>5
    <3>2. "texts" \notin raced' => "texts" \notin raced
      BY <1>2
    <3>3. ASSUME NEW u \in TextKinds, u # t, "texts" \notin raced'
          PROVE  \A i \in 2 .. Len(texts'[u]) : texts'[u][i] # texts'[u][i - 1]
      BY <2>4, <3>3, <3>2 DEF TextsHeld
    <3> QED
      BY <3>1, <3>3
  <2>8. writes'["texts"] = 0 => \A u \in TextKinds : \A i \in 1 .. Len(texts'[u]) : texts'[u][i] # "operator"
    BY <1>2, <2>4, <2>6 DEF TextsHeld
  <2>9. BootTexts(b)'
    BY <1>5, <2>1 DEF BootTexts
  <2>10. ASSUME NEW c \in Boots, c # b PROVE BootTexts(c)'
    BY <1>2, <2>10, <1>3, <2>1, WindowsAre DEF TextsHeld, BootsHold, Alone, BootTexts
  <2> QED
    BY <2>4, <2>7, <2>8, <2>9, <2>10 DEF TextsHeld
<1> QED
  BY <1>7, <1>8, <1>9 DEF InTexts

(* The operators' refresh: nobody's row is the operator's before.          *)
LEMMA ReplaceTextsHolds ==
  ASSUME BootsHold, TextsHeld, ReplaceTexts
  PROVE  TextsHeld'
<1> DEFINE Hands == Releases \cup {"operator"}
<1>1. Writes("texts") /\ "texts" \in Subjects /\ texts' = [t \in DOMAIN texts |-> Append(texts[t], "operator")]
  BY DEF ReplaceTexts, Subjects
<1>2. /\ boot' = boot /\ raced \subseteq raced' /\ writes["texts"] = 0 /\ writes'["texts"] = 1
      /\ \A b \in Boots : boot[b].at = "insertText" => "texts" \in raced'
  BY <1>1, WritesActs, WindowsAre
<1>3. texts \in [TextKinds -> Seq(Hands)] /\ DOMAIN texts = TextKinds
  BY DEF TextsHeld
<1>4. texts' \in [TextKinds -> Seq(Hands)] /\ \A t \in TextKinds : texts'[t] = Append(texts[t], "operator")
  BY <1>1, <1>3
<1>5. ASSUME NEW t \in TextKinds, "texts" \notin raced'
      PROVE  \A i \in 2 .. Len(texts'[t]) : texts'[t][i] # texts'[t][i - 1]
  <2> DEFINE rows == texts[t]
  <2>1. rows \in Seq(Hands) /\ Len(rows) \in Nat /\ "operator" \in Hands
    BY <1>3
  <2>2. \A i \in 1 .. Len(rows) : rows[i] # "operator"
    BY <1>2 DEF TextsHeld
  <2>3. \A i \in 2 .. Len(rows) : rows[i] # rows[i - 1]
    BY <1>2, <1>5 DEF TextsHeld
  <2> HIDE DEF rows
  <2>4. Len(rows) = 0 \/ rows[Len(rows)] # "operator"
    BY <2>1, <2>2
  <2>5. \A i \in 2 .. Len(Append(rows, "operator")) : Append(rows, "operator")[i] # Append(rows, "operator")[i - 1]
    BY <2>1, <2>3, <2>4, NeighboursDiffer
  <2> QED
    BY <1>4, <2>5 DEF rows
<1>6. \A b \in Boots : BootTexts(b)'
  BY <1>2 DEF TextsHeld, BootTexts
<1> QED
  BY <1>2, <1>4, <1>5, <1>6 DEF TextsHeld

-----------------------------------------------------------------------------
(***************************************************************************)
(* The licences.                                                           *)
(***************************************************************************)

-----------------------------------------------------------------------------
(* Rows per licence, and who last replaced them.                           *)
LEMMA LicencesTyped ==
  ASSUME LicencesHeld
  PROVE  /\ licences.rows \in [1 .. Len(Licences) -> Nat] /\ DOMAIN licences.rows = 1 .. Len(Licences)
         /\ licences.by \in Boots \cup {Nobody, "operator"}
BY DEF LicencesHeld

(* The licences are gone, and this process inserts them.                   *)
LEMMA DeleteHolds ==
  ASSUME BootsHold, LicencesHeld, NEW b \in Boots, DeleteLicences(b)
  PROVE  LicencesHeld'
<1>1. /\ boot[b].at = "deleteLicences" /\ Goes(b, "insertLicence")
      /\ licences' = [rows |-> [l \in 1 .. Len(Licences) |-> 0], by |-> b]
  BY LicencesTyped DEF DeleteLicences, At
<1>2. /\ BootsHold' /\ raced \subseteq raced' /\ boot'[b].at = "insertLicence" /\ boot'[b].k = 1
      /\ \A c \in Boots : c # b => boot'[c] = boot[c]
  BY <1>1, SomeStatements, GoingFirst
<1>3. /\ licences'.by = b /\ \A l \in 1 .. Len(Licences) : licences'.rows[l] = 0
      /\ licences' \in [rows : [1 .. Len(Licences) -> Nat], by : Boots \cup {Nobody, "operator"}]
  BY <1>1
<1>4. BootLicences(b)'
  BY BootSeedAssumption, FunctionsApart, <1>2, <1>3 DEF LicencesAt, BootLicences
<1>5. ASSUME NEW c \in Boots, c # b PROVE BootLicences(c)'
  BY <1>2, <1>3, <1>5, WindowsAre DEF LicencesHeld, BootsHold, Alone, Subjects, BootLicences
<1> QED
  BY <1>3, <1>4, <1>5 DEF LicencesHeld

(* One more licence is there.                                              *)
LEMMA InsertHolds ==
  ASSUME BootsHold, LicencesHeld, NEW b \in Boots, InsertLicence(b)
  PROVE  LicencesHeld'
<1> DEFINE k == boot[b].k
           rows == licences.rows
           new == [rows EXCEPT ![k] = rows[k] + 1]
<1>1. /\ boot[b].at = "insertLicence" /\ licences' = [licences EXCEPT !.rows = new]
      /\ IF k < Len(Licences) THEN Repeats(b, "insertLicence") ELSE Goes(b, "readHead")
  BY DEF InsertLicence, At
<1>2. Steps(b, LicencesAt, {"insertLicence", "readHead"})
  BY LicenceActs DEF InLicences
<1>3. /\ BootsHold' /\ raced \subseteq raced' /\ \A c \in Boots : c # b => boot'[c] = boot[c]
  BY <1>2 DEF Steps
<1>4. k \in 1 .. Len(Licences) /\ BootLicences(b) /\ Len(Licences) \in Nat
  BY <1>1, BootSeedAssumption DEF LicencesHeld, BootLicences
<1>5. rows \in [1 .. Len(Licences) -> Nat]
  BY LicencesTyped
<1>6. /\ new \in [1 .. Len(Licences) -> Nat] /\ new[k] = rows[k] + 1 /\ rows[k] \in Nat
      /\ \A l \in 1 .. Len(Licences) : l # k => new[l] = rows[l]
  BY <1>4, <1>5
<1>7. \A l \in 1 .. Len(Licences) : rows[l] >= 1 => new[l] >= 1
  <2> HIDE DEF new, rows, k
  <2> QED
    BY <1>5, <1>6
<1> HIDE DEF new
<1>8. /\ licences' \in [rows : [1 .. Len(Licences) -> Nat], by : Boots \cup {Nobody, "operator"}]
      /\ licences'.rows = new /\ licences'.by = licences.by
  BY <1>1, <1>6 DEF LicencesHeld
<1>9. "licences" \notin raced' => licences.by = b
  BY <1>1, <1>3, <1>4 DEF BootLicences
<1>10. licences.by = b =>
         \A l \in 1 .. Len(Licences) :
           /\ l < k => rows[l] >= 1
           /\ "licences" \notin raced' => rows[l] = IF l < k THEN 1 ELSE 0
  BY <1>1, <1>3, <1>4 DEF BootLicences
<1> HIDE DEF rows
<1>11. "insertLicence" \notin AfterLicences /\ "readHead" \in AfterLicences
  BY FunctionsApart DEF LicencesAt, AfterLicences
<1>12. licences.by = b =>
         \A l \in 1 .. Len(Licences) :
           /\ l < k + 1 => new[l] >= 1
           /\ "licences" \notin raced' => new[l] = IF l < k + 1 THEN 1 ELSE 0
  <2> SUFFICES ASSUME licences.by = b, NEW l \in 1 .. Len(Licences)
               PROVE  /\ l < k + 1 => new[l] >= 1
                      /\ "licences" \notin raced' => new[l] = IF l < k + 1 THEN 1 ELSE 0
    OBVIOUS
  <2>1. l < k => rows[l] >= 1
    BY <1>10
  <2>2. "licences" \notin raced' => rows[l] = IF l < k THEN 1 ELSE 0
    BY <1>10
  <2> HIDE DEF k
  <2>3. CASE l = k
    BY <1>4, <1>6, <2>2, <2>3
  <2>4. CASE l # k
    BY <1>4, <1>6, <2>1, <2>2, <2>4
  <2> QED
    BY <2>3, <2>4
<1>13. BootLicences(b)'
  <2>1. CASE k < Len(Licences) /\ Repeats(b, "insertLicence")
    <3>1. boot'[b].at = "insertLicence" /\ boot'[b].k = k + 1
      BY <2>1, SomeStatements, Repeating
    <3>2. k + 1 \in 1 .. Len(Licences)
      <4> HIDE DEF k
      <4> QED
        BY <1>4, <2>1
    <3> HIDE DEF k
    <3> QED
      BY <1>8, <1>9, <1>11, <1>12, <3>1, <3>2 DEF BootLicences
  <2>2. CASE ~(k < Len(Licences)) /\ Goes(b, "readHead")
    <3>1. boot'[b].at = "readHead"
      BY <2>2, SomeStatements, GoingFirst
    <3>2. \A l \in 1 .. Len(Licences) : l < k + 1
      <4> HIDE DEF k
      <4> QED
        BY <1>4, <2>2
    <3>3. licences.by = b => \A l \in 1 .. Len(Licences) : new[l] >= 1 /\ ("licences" \notin raced' => new[l] = 1)
      BY <1>12, <3>2
    <3> HIDE DEF k
    <3> QED
      BY <1>8, <1>11, <3>1, <3>3 DEF BootLicences
  <2> QED
    BY <1>1, <2>1, <2>2
<1>14. ASSUME NEW c \in Boots, c # b PROVE BootLicences(c)'
  <2>1. BootLicences(c) /\ boot'[c] = boot[c]
    BY <1>3, <1>14 DEF LicencesHeld
  <2>2. licences.by = c => "licences" \in raced'
    BY <1>9, <1>14
  <2>3. boot[c].at = "insertLicence" => "licences" \in raced'
    BY <1>1, <1>3, <1>14, WindowsAre DEF BootsHold, Alone, Subjects
  <2>4. "licences" \notin raced' => "licences" \notin raced
    BY <1>3
  <2> HIDE DEF k
  <2> QED
    BY <1>7, <1>8, <2>1, <2>2, <2>3, <2>4 DEF BootLicences, rows
<1> QED
  BY <1>8, <1>13, <1>14 DEF LicencesHeld

(* Every statement about licences.                                         *)
LEMMA InLicencesHolds ==
  ASSUME BootsHold, LicencesHeld, NEW b \in Boots, InLicences(b)
  PROVE  LicencesHeld'
BY DeleteHolds, InsertHolds DEF InLicences

(* An operator's licences are of no boot.                                  *)
LEMMA ReplaceLicencesHolds ==
  ASSUME BootsHold, LicencesHeld, ReplaceLicences
  PROVE  LicencesHeld'
<1>1. Writes("licences") /\ "licences" \in Subjects
  BY DEF ReplaceLicences, Subjects
<1>2. /\ boot' = boot /\ raced \subseteq raced' /\ \A b \in Boots : boot[b].at = "insertLicence" => "licences" \in raced'
  BY <1>1, WritesActs, WindowsAre
<1>3. PICK kept \in SUBSET (1 .. Len(Licences)) :
        licences' = [rows |-> [l \in 1 .. Len(Licences) |-> IF l \in kept THEN 1 ELSE 0], by |-> "operator"]
  BY LicencesTyped DEF ReplaceLicences
<1>4. licences' \in [rows : [1 .. Len(Licences) -> Nat], by : Boots \cup {Nobody, "operator"}] /\ licences'.by = "operator"
  BY <1>3
<1>5. "operator" \notin Boots
  BY BootSeedAssumption
<1>6. \A b \in Boots : BootLicences(b)'
  BY <1>2, <1>4, <1>5 DEF LicencesHeld, BootLicences
<1> QED
  BY <1>4, <1>6 DEF LicencesHeld

-----------------------------------------------------------------------------
(***************************************************************************)
(* The tables of the boot seed together.                                   *)
(***************************************************************************)

-----------------------------------------------------------------------------
(* The boot seed's invariant: every subject, next to the others.           *)
SeedInv ==
  /\ BootsHold /\ RoomsHeld /\ ProbesHeld /\ DeploymentsHeld /\ TextsHeld /\ LicencesHeld
  /\ SeedEventsHeld /\ IntelligenceHeld /\ BoundaryHeld

(* Nothing is written but what an earlier seed left.                       *)
LEMMA SeedStarts ==
  ASSUME SeedInit
  PROVE  SeedInv
<1>1. /\ Len(SeedRooms) \in Nat \ {0} /\ 1 \in 1 .. Len(SeedRooms) /\ "waiting" \in Statements
  BY BootSeedAssumption, StatementsAre
<1>2. \A b \in Boots : boot[b].at = "waiting" /\ boot[b].n = 1
  BY DEF SeedInit
<1>3. /\ "waiting" \notin RoomsAt \cup AfterRooms /\ "waiting" \notin AfterDeployment \cup AfterChain \cup AfterIntel
      /\ "waiting" \notin {"seeded", "insertDeployment", "insertText", "insertLicence", "insertIntel", "probe"}
      /\ "waiting" \notin AfterLicences \cup EventsAt \cup TextsAt /\ "waiting" \notin AfterProbes
  BY FunctionsApart, StatementsAre DEF AfterRooms, AfterDeployment, AfterProbes, AfterLicences
<1>4. BootsHold
  BY <1>1, <1>2, WindowsSmall DEF SeedInit, States, Alone, BootsHold
<1>5. RoomsHeld
  <2>1. PICK old \in {"none", "legacy"} :
          backbone = [r \in 1 .. Len(SeedRooms) |->
                       [listed |-> FALSE, actions |-> FALSE, summary |-> old,
                        log |-> [l \in {"reasons", "changes"} |-> IF old = "none" THEN <<>> ELSE <<old>>]]]
    BY DEF SeedInit
  <2> DEFINE rows == IF old = "none" THEN <<>> ELSE <<old>>
             log == [l \in {"reasons", "changes"} |-> rows]
  <2>2. rows \in Seq(Authors)
    <3>1. CASE old = "none"
      BY <3>1
    <3>2. CASE old = "legacy"
      BY <3>2 DEF Authors
    <3> QED
      BY <2>1, <3>1, <3>2
  <2>3. LogTrue(rows, old)
    BY DEF LogTrue
  <2> HIDE DEF rows
  <2>4. log \in [LogKinds -> Seq(Authors)] /\ \A l \in LogKinds : log[l] = rows
    BY <2>2 DEF LogKinds
  <2> HIDE DEF log
  <2>5. backbone = [r \in 1 .. Len(SeedRooms) |-> [listed |-> FALSE, actions |-> FALSE, summary |-> old, log |-> log]]
    BY <2>1 DEF rows, log
  <2>6. backbone \in [1 .. Len(SeedRooms) -> RoomRows]
    BY <2>4, <2>5 DEF RoomRows, Authors
  <2>7. \A r \in 1 .. Len(SeedRooms) : backbone[r].summary = old /\ \A l \in LogKinds : backbone[r].log[l] = rows
    BY <2>4, <2>5
  <2>8. writes["rooms"] = 0
    BY DEF SeedInit, Subjects
  <2>9. \A b \in Boots : BootRooms(b)
    BY <1>2, <1>3 DEF BootRooms, Through, RoomsAt
  <2> QED
    BY <2>3, <2>6, <2>7, <2>8, <2>9 DEF RoomsHeld
<1>6. ProbesHeld
  BY <1>2, <1>3 DEF SeedInit, ProbesHeld, BootProbes
<1>7. DeploymentsHeld
  BY <1>2, <1>3 DEF SeedInit, BootDeployment, Through, DeploymentsHeld
<1>8. TextsHeld
  BY <1>2, <1>3 DEF SeedInit, BootTexts, TextKinds, TextsHeld
<1>9. LicencesHeld
  BY BootSeedAssumption, <1>2, <1>3 DEF SeedInit, Nobody, BootLicences, LicencesHeld
<1>10. SeedEventsHeld
  BY <1>2, <1>3 DEF SeedInit, BootEvents, Through, SeedEventsHeld
<1>11. IntelligenceHeld
  BY <1>2, <1>3 DEF SeedInit, BootIntel, Through, IntelligenceHeld
<1>12. BoundaryHeld
  BY <1>2 DEF SeedInit, BoundaryHeld, Through
<1> QED
  BY <1>4, <1>5, <1>6, <1>7, <1>8, <1>9, <1>10, <1>11, <1>12 DEF SeedInv

-----------------------------------------------------------------------------
(* A step past the rooms, past the deployment, ... leaves those alone.     *)
LEMMA BeginKeeps ==
  ASSUME SeedInv, NEW b \in Boots, BootBegins(b)
  PROVE  SeedInv'
<1>1. /\ Steps(b, {"waiting"}, {"registry", "seeded"}) /\ UNCHANGED tables
      /\ boot'[b].n = boot[b].n /\ boot'[b].k = 1 /\ probes' = probes
      /\ backbone' = backbone /\ deployments' = deployments /\ texts' = texts /\ licences' = licences
      /\ chain' = chain /\ market' = market /\ boundary' = boundary
  BY BeginsActs DEF SeedInv, tables
<1>2. probes'[b] = 0 /\ boot[b].n = 1 /\ boot[b].at = "waiting" /\ boot'[b].at \in {"registry", "seeded"}
  BY <1>1 DEF SeedInv, ProbesHeld, BootProbes, RoomsHeld, BootRooms, Steps
<1>3. BootsHold' /\ raced \subseteq raced' /\ writes' = writes /\ \A c \in Boots : c # b => boot'[c] = boot[c] /\ probes'[c] = probes[c]
  BY <1>1 DEF Steps
<1>4. RoomsHeld'
  <2>1. BootRooms(b)'
    BY FunctionsApart, <1>1, <1>2 DEF RoomsAt, BootRooms, Through
  <2>2. ASSUME NEW c \in Boots, c # b PROVE BootRooms(c)'
    BY <1>1, <1>3, <2>2, OthersRooms, SameRooms DEF SeedInv
  <2> QED
    BY <1>1, <1>3, <2>1, <2>2 DEF RoomsHeld, SeedInv
<1>5. ASSUME NEW at \in {{"insertDeployment"}, TextsAt, EventsAt, {"insertIntel"}, {}},
             NEW after \in {AfterDeployment, {}, AfterChain, AfterIntel, {"seeded"}}
      PROVE  StandsAside(at, after)
  BY <1>5, FunctionsApart, StatementsAre, <1>1, <1>2, AsideOf DEF TextsAt, EventsAt, RoomsAt
<1>6. DeploymentsHeld' /\ TextsHeld' /\ SeedEventsHeld' /\ BoundaryHeld'
  BY <1>1, <1>3, <1>5, DeploymentAside, TextsAside, ChainAside, BoundaryAside DEF SeedInv
<1>7. IntelligenceHeld'
  BY <1>1, <1>5, MarketAside DEF SeedInv, IntelligenceHeld
<1>8. ProbesHeld'
  BY <1>1, ProbesAside DEF SeedInv, Unprobed, RoomsAt
<1>9. LicencesHeld'
  BY FunctionsApart, StatementsAre, <1>1, LicencesAside DEF SeedInv
<1> QED
  BY <1>3, <1>4, <1>6, <1>7, <1>8, <1>9 DEF SeedInv

-----------------------------------------------------------------------------
(***************************************************************************)
(* Every statement, at what it writes and at what it leaves alone: rooms,  *)
(* deployment and probes ...                                               *)
(***************************************************************************)

(* The statements of one function are behind those of the earlier ones.    *)
LEMMA BehindRooms ==
  /\ AfterRooms \cap (RoomsAt \cup {"waiting"}) = {} /\ {"seeded", "crashed", "failed"} \cap (RoomsAt \cup {"waiting"}) = {}
  /\ {"crashed", "failed"} \cap AfterRooms = {} /\ "seeded" \in AfterRooms
BY DEF RoomsAt, AfterRooms, DeploymentAt, AfterDeployment, AfterProbes, TextsAt, LicencesAt, AfterLicences,
  EventsAt, AfterChain, IntelAt, AfterIntel, RegistryAt

(* The rooms.                                                              *)
LEMMA RoomsKeep ==
  ASSUME SeedInv, NEW b \in Boots, InRooms(b)
  PROVE  SeedInv'
<1> DEFINE to == RoomsAt \cup {"readDeployment"}
<1>1. /\ Steps(b, RoomsAt, to) /\ probes' = probes /\ deployments' = deployments /\ texts' = texts
      /\ licences' = licences /\ chain' = chain /\ market' = market /\ boundary' = boundary
  BY RoomActs DEF SeedInv
<1>2. BootsHold' /\ writes' = writes
  BY <1>1 DEF Steps
<1>3. /\ to \cap {"insertDeployment", "insertText", "readText", "insertLicence", "insertIntel"} = {} /\ to \cap EventsAt = {}
      /\ to \cap AfterDeployment = {} /\ to \subseteq Unprobed /\ RoomsAt \subseteq Unprobed
      /\ "seeded" \notin to
  BY DEF Unprobed, RoomsAt, DeploymentAt, AfterDeployment, AfterProbes, TextsAt, LicencesAt, AfterLicences,
    EventsAt, AfterChain, IntelAt, AfterIntel, RegistryAt
<1>4. to \cap AfterChain = {} /\ to \cap AfterIntel = {} /\ to \cap TextsAt = {}
  BY <1>3, StatementsAre DEF TextsAt
<1>5. RoomsAt \cap ({"insertLicence", "failed", "crashed"} \cup AfterLicences) = {}
  BY FunctionsApart, StatementsAre DEF RoomsAt
<1> HIDE DEF to
<1>6. /\ StandsAside({"insertDeployment"}, AfterDeployment) /\ StandsAside(TextsAt, {}) /\ StandsAside(EventsAt, AfterChain)
      /\ StandsAside({"insertIntel"}, AfterIntel) /\ StandsAside({}, {"seeded"})
  BY <1>1, <1>3, <1>4, AsideOf
<1>7. DeploymentsHeld' /\ TextsHeld' /\ SeedEventsHeld' /\ BoundaryHeld'
  BY <1>1, <1>2, <1>6, DeploymentAside, TextsAside, ChainAside, BoundaryAside DEF SeedInv
<1>8. IntelligenceHeld'
  BY <1>1, <1>6, MarketAside DEF SeedInv, IntelligenceHeld
<1>9. ProbesHeld' /\ LicencesHeld'
  BY <1>1, <1>3, <1>5, ProbesAside, LicencesAside DEF SeedInv
<1>10. RoomsHeld'
  BY InRoomsHolds DEF SeedInv
<1> QED
  BY <1>2, <1>7, <1>8, <1>9, <1>10 DEF SeedInv

(* The deployment.                                                         *)
LEMMA DeploymentKeeps ==
  ASSUME SeedInv, NEW b \in Boots, InDeployment(b)
  PROVE  SeedInv'
<1> DEFINE to == {"insertDeployment", "probe"}
<1>1. /\ Steps(b, DeploymentAt, to) /\ boot'[b].k = 1 /\ probes' = probes /\ backbone' = backbone /\ texts' = texts
      /\ licences' = licences /\ chain' = chain /\ market' = market /\ boundary' = boundary
  BY DeploymentActs DEF SeedInv
<1>2. BootsHold' /\ writes' = writes
  BY <1>1 DEF Steps
<1>3. /\ to \cap {"insertText", "readText", "insertLicence", "insertIntel"} = {} /\ to \cap EventsAt = {}
      /\ to \cap AfterChain = {} /\ to \cap AfterIntel = {} /\ to \cap TextsAt = {} /\ "seeded" \notin to
      /\ DeploymentAt \subseteq AfterRooms \ {"seeded"} /\ to \cap (RoomsAt \cup {"waiting"}) = {}
      /\ DeploymentAt \cap ({"insertLicence", "failed", "crashed"} \cup AfterLicences) = {}
  BY DEF RoomsAt, AfterRooms, DeploymentAt, AfterDeployment, AfterProbes, TextsAt, LicencesAt, AfterLicences,
    EventsAt, AfterChain, IntelAt, AfterIntel, RegistryAt
<1> HIDE DEF to
<1>4. /\ StandsAside(RoomsAt \cup {"waiting"}, AfterRooms) /\ StandsAside(TextsAt, {}) /\ StandsAside(EventsAt, AfterChain)
      /\ StandsAside({"insertIntel"}, AfterIntel) /\ StandsAside({}, {"seeded"})
  BY <1>1, <1>3, AsideOf
<1>5. RoomsHeld' /\ TextsHeld' /\ SeedEventsHeld' /\ BoundaryHeld'
  BY <1>1, <1>2, <1>4, RoomsAside, TextsAside, ChainAside, BoundaryAside DEF SeedInv
<1>6. IntelligenceHeld'
  BY <1>1, <1>4, MarketAside DEF SeedInv, IntelligenceHeld
<1>7. LicencesHeld'
  BY <1>1, <1>3, LicencesAside DEF SeedInv
<1>8. ProbesHeld'
  BY <1>1, BootSeedAssumption, ProbesApart DEF SeedInv, ProbesHeld, Steps, to, BootProbes, Unprobed,
     DeploymentAt
<1>9. DeploymentsHeld'
  BY DeploymentHolds DEF SeedInv
<1> QED
  BY <1>2, <1>5, <1>6, <1>7, <1>8, <1>9 DEF SeedInv

(* A probe; the first text comes next.                                     *)
LEMMA ProbeKeeps ==
  ASSUME SeedInv, NEW b \in Boots, ProbeService(b)
  PROVE  SeedInv'
<1> DEFINE to == {"probe", "readText"}
<1>1. /\ Steps(b, {"probe"}, to) /\ backbone' = backbone /\ deployments' = deployments /\ texts' = texts
      /\ licences' = licences /\ chain' = chain /\ market' = market /\ boundary' = boundary
      /\ boot'[b].at = "readText" => boot'[b].k = 1
  BY ProbeActs DEF SeedInv, ProbesHeld
<1>2. BootsHold' /\ raced \subseteq raced' /\ writes' = writes /\ boot'[b].at \in to /\ \A c \in Boots : c # b => boot'[c] = boot[c]
  BY <1>1 DEF Steps
<1>3. /\ to \cap {"insertDeployment", "insertText", "insertLicence", "insertIntel"} = {} /\ to \cap EventsAt = {}
      /\ to \cap AfterChain = {} /\ to \cap AfterIntel = {} /\ "seeded" \notin to
      /\ "probe" \in AfterRooms \ {"seeded"} /\ to \cap (RoomsAt \cup {"waiting"}) = {}
      /\ "probe" \in AfterDeployment \ {"seeded"}
      /\ {"probe"} \cap ({"insertLicence", "failed", "crashed"} \cup AfterLicences) = {}
  BY DEF RoomsAt, AfterRooms, DeploymentAt, AfterDeployment, AfterProbes, TextsAt, LicencesAt, AfterLicences,
    EventsAt, AfterChain, IntelAt, AfterIntel, RegistryAt
<1>4. /\ StandsAside(RoomsAt \cup {"waiting"}, AfterRooms) /\ StandsAside({"insertDeployment"}, AfterDeployment)
      /\ StandsAside(EventsAt, AfterChain) /\ StandsAside({"insertIntel"}, AfterIntel) /\ StandsAside({}, {"seeded"})
  <2> HIDE DEF to
  <2> QED
    BY <1>1, <1>3, AsideOf
<1>5. RoomsHeld' /\ DeploymentsHeld' /\ SeedEventsHeld' /\ BoundaryHeld'
  BY <1>1, <1>2, <1>4, RoomsAside, DeploymentAside, ChainAside, BoundaryAside DEF SeedInv
<1>6. IntelligenceHeld'
  BY <1>1, <1>4, MarketAside DEF SeedInv, IntelligenceHeld
<1>7. LicencesHeld'
  BY <1>1, <1>3, LicencesAside DEF SeedInv
<1>8. ProbesHeld'
  BY ProbeHolds DEF SeedInv
<1>9. TextsHeld'
  <2>1. BootTexts(b)'
    BY <1>1, <1>2 DEF BootTexts, TextsAt
  <2>2. ASSUME NEW c \in Boots, c # b PROVE BootTexts(c)'
    BY <1>1, <1>2, <2>2 DEF SeedInv, TextsHeld, BootTexts
  <2> QED
    BY <1>1, <1>2, <2>1, <2>2 DEF SeedInv, TextsHeld
<1> QED
  BY <1>2, <1>5, <1>6, <1>7, <1>8, <1>9 DEF SeedInv

-----------------------------------------------------------------------------
(***************************************************************************)
(* ... and what is behind the probes.                                      *)
(***************************************************************************)

(* A step behind the probes.                                               *)
LEMMA LateSteps ==
  ASSUME SeedInv, NEW b \in Boots, NEW from, NEW to, Steps(b, from, to), from \subseteq AfterProbes \ {"seeded"}, to \subseteq AfterProbes,
         backbone' = backbone, deployments' = deployments, probes' = probes
  PROVE  BootsHold' /\ RoomsHeld' /\ DeploymentsHeld' /\ ProbesHeld'
BY StatementsAre, FunctionsApart, AsideOf, RoomsAside, DeploymentAside, ProbesAside DEF Steps, DeploymentAt,
   SeedInv

(* Identity and readme.                                                    *)
LEMMA TextsKeep ==
  ASSUME SeedInv, NEW b \in Boots, InTexts(b)
  PROVE  SeedInv'
<1> DEFINE to == TextsAt \cup {"deleteLicences"}
<1>1. /\ Steps(b, TextsAt, to) /\ probes' = probes /\ backbone' = backbone /\ deployments' = deployments
      /\ licences' = licences /\ chain' = chain /\ market' = market /\ boundary' = boundary
  BY TextActs DEF SeedInv
<1>2. /\ to \cap {"insertLicence", "insertIntel"} = {} /\ to \cap EventsAt = {} /\ to \cap AfterChain = {}
      /\ to \cap AfterIntel = {} /\ "seeded" \notin to
      /\ TextsAt \subseteq AfterProbes \ {"seeded"} /\ to \subseteq AfterProbes
      /\ TextsAt \cap ({"insertLicence", "failed", "crashed"} \cup AfterLicences) = {}
  BY DEF AfterProbes, TextsAt, LicencesAt, AfterLicences, EventsAt, AfterChain, IntelAt, AfterIntel, RegistryAt
<1> HIDE DEF to
<1>3. BootsHold' /\ RoomsHeld' /\ DeploymentsHeld' /\ ProbesHeld'
  BY <1>1, <1>2, LateSteps
<1>4. StandsAside(EventsAt, AfterChain) /\ StandsAside({"insertIntel"}, AfterIntel) /\ StandsAside({}, {"seeded"})
  BY <1>1, <1>2, AsideOf
<1>5. SeedEventsHeld' /\ BoundaryHeld'
  BY <1>1, <1>4, ChainAside, BoundaryAside DEF SeedInv
<1>6. IntelligenceHeld'
  BY <1>1, <1>4, MarketAside DEF SeedInv, IntelligenceHeld
<1>7. LicencesHeld'
  BY <1>1, <1>2, LicencesAside DEF SeedInv
<1>8. TextsHeld'
  BY InTextsHolds DEF SeedInv
<1> QED
  BY <1>3, <1>5, <1>6, <1>7, <1>8 DEF SeedInv

(* The licences.                                                           *)
LEMMA LicencesKeep ==
  ASSUME SeedInv, NEW b \in Boots, InLicences(b)
  PROVE  SeedInv'
<1> DEFINE to == {"insertLicence", "readHead"}
<1>1. /\ Steps(b, LicencesAt, to) /\ probes' = probes /\ backbone' = backbone /\ deployments' = deployments
      /\ texts' = texts /\ chain' = chain /\ market' = market /\ boundary' = boundary
  BY LicenceActs DEF SeedInv
<1>2. /\ to \cap {"insertIntel"} = {} /\ to \cap EventsAt = {} /\ to \cap AfterChain = {} /\ to \cap TextsAt = {}
      /\ to \cap AfterIntel = {} /\ "seeded" \notin to
      /\ LicencesAt \subseteq AfterProbes \ {"seeded"} /\ to \subseteq AfterProbes
  BY DEF AfterProbes, TextsAt, LicencesAt, AfterLicences, EventsAt, AfterChain, IntelAt, AfterIntel, RegistryAt
<1> HIDE DEF to
<1>3. BootsHold' /\ RoomsHeld' /\ DeploymentsHeld' /\ ProbesHeld' /\ writes' = writes
  BY <1>1, <1>2, LateSteps DEF Steps
<1>4. StandsAside(TextsAt, {}) /\ StandsAside(EventsAt, AfterChain) /\ StandsAside({"insertIntel"}, AfterIntel) /\ StandsAside({}, {"seeded"})
  BY <1>1, <1>2, AsideOf
<1>5. TextsHeld' /\ SeedEventsHeld' /\ BoundaryHeld'
  BY <1>1, <1>3, <1>4, TextsAside, ChainAside, BoundaryAside DEF SeedInv
<1>6. IntelligenceHeld'
  BY <1>1, <1>4, MarketAside DEF SeedInv, IntelligenceHeld
<1>7. LicencesHeld'
  BY InLicencesHolds DEF SeedInv
<1> QED
  BY <1>3, <1>5, <1>6, <1>7 DEF SeedInv

(* The evidence chain.                                                     *)
LEMMA EventsKeep ==
  ASSUME SeedInv, NEW b \in Boots, InEvents(b)
  PROVE  SeedInv'
<1> DEFINE from == {"readHead"} \cup EventsAt
           to == EventsAt \cup {"readIntel"}
           n == Len(chain)
<1>0. n \in Nat /\ n = Len(chain)
  BY DEF SeedInv, SeedEventsHeld
<1> HIDE DEF n
<1>1. /\ Steps(b, from, to) /\ probes' = probes /\ backbone' = backbone /\ deployments' = deployments
      /\ texts' = texts /\ licences' = licences /\ market' = market /\ boundary' = boundary
  BY <1>0, EventActs DEF SeedInv
<1>2. /\ to \cap {"insertIntel"} = {} /\ to \cap TextsAt = {} /\ to \cap AfterIntel = {} /\ "seeded" \notin to
      /\ from \subseteq AfterProbes \ {"seeded"} /\ to \subseteq AfterProbes
      /\ from \subseteq AfterLicences /\ to \subseteq AfterLicences /\ "insertLicence" \notin to
  BY DEF AfterProbes, TextsAt, LicencesAt, AfterLicences, EventsAt, AfterChain, IntelAt, AfterIntel, RegistryAt
<1> HIDE DEF from, to
<1>3. BootsHold' /\ RoomsHeld' /\ DeploymentsHeld' /\ ProbesHeld' /\ writes' = writes
  BY <1>1, <1>2, LateSteps DEF Steps
<1>4. StandsAside(TextsAt, {}) /\ StandsAside({"insertIntel"}, AfterIntel) /\ StandsAside({}, {"seeded"})
  BY <1>1, <1>2, AsideOf
<1>5. TextsHeld' /\ BoundaryHeld'
  BY <1>1, <1>3, <1>4, TextsAside, BoundaryAside DEF SeedInv
<1>6. IntelligenceHeld'
  BY <1>1, <1>4, MarketAside DEF SeedInv, IntelligenceHeld
<1>7. LicencesHeld'
  BY <1>1, <1>2, LicencesAside DEF SeedInv
<1>8. SeedEventsHeld'
  BY InEventsHolds DEF SeedInv
<1> QED
  BY <1>3, <1>5, <1>6, <1>7, <1>8 DEF SeedInv

(* Intelligence.                                                           *)
LEMMA IntelKeeps ==
  ASSUME SeedInv, NEW b \in Boots, InIntel(b)
  PROVE  SeedInv'
<1> DEFINE to == {"insertIntel", "readTargets"}
<1>1. /\ Steps(b, IntelAt, to) /\ probes' = probes /\ backbone' = backbone /\ deployments' = deployments
      /\ texts' = texts /\ licences' = licences /\ chain' = chain /\ boundary' = boundary
  BY IntelActs DEF SeedInv
<1>2. /\ to \cap EventsAt = {} /\ to \cap TextsAt = {} /\ "seeded" \notin to
      /\ IntelAt \subseteq AfterProbes \ {"seeded"} /\ to \subseteq AfterProbes /\ IntelAt \subseteq AfterChain \ {"seeded"}
      /\ IntelAt \subseteq AfterLicences /\ to \subseteq AfterLicences /\ "insertLicence" \notin to
  BY DEF AfterProbes, TextsAt, LicencesAt, AfterLicences, EventsAt, AfterChain, IntelAt, AfterIntel, RegistryAt
<1> HIDE DEF to
<1>3. BootsHold' /\ RoomsHeld' /\ DeploymentsHeld' /\ ProbesHeld' /\ writes' = writes
  BY <1>1, <1>2, LateSteps DEF Steps
<1>4. StandsAside(TextsAt, {}) /\ StandsAside(EventsAt, AfterChain) /\ StandsAside({}, {"seeded"})
  BY <1>1, <1>2, AsideOf
<1>5. TextsHeld' /\ SeedEventsHeld' /\ BoundaryHeld'
  BY <1>1, <1>3, <1>4, TextsAside, ChainAside, BoundaryAside DEF SeedInv
<1>6. LicencesHeld'
  BY <1>1, <1>2, LicencesAside DEF SeedInv
<1>7. IntelligenceHeld'
  BY IntelHolds DEF SeedInv
<1> QED
  BY <1>3, <1>5, <1>6, <1>7 DEF SeedInv

(* The registry.                                                           *)
LEMMA RegistryKeeps ==
  ASSUME SeedInv, NEW b \in Boots, InRegistry(b)
  PROVE  SeedInv'
<1> DEFINE to == {"connect", "disconnect", "analyse", "boundary"}
           from == RegistryAt
<1>1. /\ Steps(b, from, to) /\ probes' = probes /\ backbone' = backbone /\ deployments' = deployments
      /\ texts' = texts /\ licences' = licences /\ chain' = chain /\ boundary' = boundary
  BY RegistryActs DEF SeedInv
<1>2. /\ to \cap EventsAt = {} /\ to \cap TextsAt = {} /\ to \cap {"insertIntel"} = {} /\ "seeded" \notin to
      /\ from \subseteq AfterProbes \ {"seeded"} /\ to \subseteq AfterProbes /\ from \subseteq AfterChain \ {"seeded"}
      /\ from \subseteq AfterIntel \ {"seeded"}
      /\ from \subseteq AfterLicences /\ to \subseteq AfterLicences /\ "insertLicence" \notin to
  BY DEF AfterProbes, TextsAt, LicencesAt, AfterLicences, EventsAt, AfterChain, IntelAt, AfterIntel, RegistryAt
<1> HIDE DEF to, from
<1>3. BootsHold' /\ RoomsHeld' /\ DeploymentsHeld' /\ ProbesHeld' /\ writes' = writes
  BY <1>1, <1>2, LateSteps DEF Steps
<1>4. StandsAside(TextsAt, {}) /\ StandsAside(EventsAt, AfterChain) /\ StandsAside({"insertIntel"}, AfterIntel) /\ StandsAside({}, {"seeded"})
  BY <1>1, <1>2, AsideOf
<1>5. TextsHeld' /\ SeedEventsHeld' /\ BoundaryHeld'
  BY <1>1, <1>3, <1>4, TextsAside, ChainAside, BoundaryAside DEF SeedInv
<1>6. LicencesHeld'
  BY <1>1, <1>2, LicencesAside DEF SeedInv
<1>7. IntelligenceHeld'
  BY <1>4, RegistryKeepsIntel, MarketAside DEF SeedInv
<1> QED
  BY <1>3, <1>5, <1>6, <1>7 DEF SeedInv

(* The boundary, which completes the seed.                                 *)
LEMMA BoundaryKeeps ==
  ASSUME SeedInv, NEW b \in Boots, InsertBoundary(b)
  PROVE  SeedInv'
<1> DEFINE to == {"seeded"}
           from == {"boundary"}
<1>1. /\ Steps(b, from, to) /\ backbone' = backbone /\ deployments' = deployments /\ probes' = probes
      /\ texts' = texts /\ licences' = licences /\ chain' = chain /\ market' = market
  BY BoundaryActs DEF SeedInv
<1>2. /\ to \cap EventsAt = {} /\ to \cap TextsAt = {} /\ to \cap {"insertIntel"} = {}
      /\ from \subseteq AfterProbes \ {"seeded"} /\ to \subseteq AfterProbes /\ from \subseteq AfterChain \ {"seeded"}
      /\ from \subseteq AfterIntel \ {"seeded"}
      /\ from \subseteq AfterLicences /\ to \subseteq AfterLicences /\ "insertLicence" \notin to
  BY DEF AfterProbes, TextsAt, LicencesAt, AfterLicences, EventsAt, AfterChain, IntelAt, AfterIntel, RegistryAt
<1> HIDE DEF to, from
<1>3. BootsHold' /\ RoomsHeld' /\ DeploymentsHeld' /\ ProbesHeld' /\ writes' = writes
  BY <1>1, <1>2, LateSteps DEF Steps
<1>4. StandsAside(TextsAt, {}) /\ StandsAside(EventsAt, AfterChain) /\ StandsAside({"insertIntel"}, AfterIntel)
  BY <1>1, <1>2, AsideOf
<1>5. TextsHeld' /\ SeedEventsHeld'
  BY <1>1, <1>3, <1>4, TextsAside, ChainAside DEF SeedInv
<1>6. LicencesHeld'
  BY <1>1, <1>2, LicencesAside DEF SeedInv
<1>7. IntelligenceHeld'
  BY <1>1, <1>4, MarketAside DEF SeedInv, IntelligenceHeld
<1>8. BoundaryHeld'
  BY BoundaryHolds DEF SeedInv
<1> QED
  BY <1>3, <1>5, <1>6, <1>7, <1>8 DEF SeedInv

(* A boot that ends early, or goes on without the registry.                *)
LEMMA HaltsKeep ==
  ASSUME SeedInv, NEW b \in Boots, BootHalts(b)
  PROVE  SeedInv'
<1>1. /\ backbone' = backbone /\ deployments' = deployments /\ probes' = probes
      /\ texts' = texts /\ licences' = licences /\ chain' = chain /\ market' = market /\ boundary' = boundary
  BY HaltsActs DEF SeedInv, tables
<1>2. CASE Steps(b, Statements \ Ended, {"crashed", "failed"})
  <2> DEFINE from == Statements \ Ended
             to == {"crashed", "failed"}
  <2>1. Steps(b, from, to)
    BY <1>2
  <2>2. /\ to \cap EventsAt = {} /\ to \cap TextsAt = {} /\ to \cap {"insertIntel"} = {} /\ to \cap (RoomsAt \cup {"waiting"}) = {}
        /\ to \cap {"insertDeployment"} = {} /\ to \cap AfterRooms = {} /\ "insertLicence" \notin to
        /\ to \subseteq {"failed", "crashed"}
    BY FunctionsApart, BehindRooms DEF EventsAt, TextsAt
  <2> HIDE DEF from, to
  <2>3. to \cap AfterDeployment = {} /\ to \cap AfterChain = {} /\ to \cap AfterIntel = {} /\ to \cap {"seeded"} = {}
    BY <2>2, StatementsAre, BehindRooms
  <2>4. /\ StandsAside(RoomsAt \cup {"waiting"}, AfterRooms) /\ StandsAside({"insertDeployment"}, AfterDeployment) /\ StandsAside(TextsAt, {})
        /\ StandsAside(EventsAt, AfterChain) /\ StandsAside({"insertIntel"}, AfterIntel) /\ StandsAside({}, {"seeded"})
    BY <2>1, <2>2, <2>3, AsideOf
  <2>5. BootsHold' /\ writes' = writes
    BY <2>1 DEF Steps
  <2>6. RoomsHeld' /\ DeploymentsHeld' /\ TextsHeld' /\ SeedEventsHeld' /\ BoundaryHeld'
    BY <1>1, <2>4, <2>5, RoomsAside, DeploymentAside, TextsAside, ChainAside, BoundaryAside DEF SeedInv
  <2>7. IntelligenceHeld'
    BY <1>1, <2>4, MarketAside DEF SeedInv, IntelligenceHeld
  <2>8. ProbesHeld' /\ LicencesHeld'
    BY <1>1, <2>1, <2>2, ProbesAside, LicencesAside DEF SeedInv
  <2> QED
    BY <2>5, <2>6, <2>7, <2>8 DEF SeedInv
<1>3. CASE Steps(b, {"connect", "analyse"}, {"disconnect"})
  <2> DEFINE from == {"connect", "analyse"}
             to == {"disconnect"}
  <2>1. Steps(b, from, to)
    BY <1>3
  <2>2. /\ to \cap EventsAt = {} /\ to \cap TextsAt = {} /\ to \cap {"insertIntel"} = {} /\ "seeded" \notin to
        /\ from \subseteq AfterProbes \ {"seeded"} /\ to \subseteq AfterProbes /\ from \subseteq AfterChain \ {"seeded"}
        /\ from \subseteq AfterIntel \ {"seeded"}
        /\ from \subseteq AfterLicences /\ to \subseteq AfterLicences /\ "insertLicence" \notin to
    BY DEF AfterProbes, TextsAt, LicencesAt, AfterLicences, EventsAt, AfterChain, IntelAt, AfterIntel, RegistryAt
  <2> HIDE DEF to, from
  <2>3. BootsHold' /\ RoomsHeld' /\ DeploymentsHeld' /\ ProbesHeld' /\ writes' = writes
    BY <1>1, <2>1, <2>2, LateSteps DEF Steps
  <2>4. StandsAside(TextsAt, {}) /\ StandsAside(EventsAt, AfterChain) /\ StandsAside({"insertIntel"}, AfterIntel) /\ StandsAside({}, {"seeded"})
    BY <2>1, <2>2, AsideOf
  <2>5. TextsHeld' /\ SeedEventsHeld' /\ BoundaryHeld'
    BY <1>1, <2>3, <2>4, TextsAside, ChainAside, BoundaryAside DEF SeedInv
  <2>6. LicencesHeld'
    BY <1>1, <2>1, <2>2, LicencesAside DEF SeedInv
  <2>7. IntelligenceHeld'
    BY <1>1, <2>4, MarketAside DEF SeedInv, IntelligenceHeld
  <2> QED
    BY <2>3, <2>5, <2>6, <2>7 DEF SeedInv
<1> QED
  BY <1>2, <1>3, HaltsActs DEF SeedInv

-----------------------------------------------------------------------------
(***************************************************************************)
(* Operators, and what the invariant says of the tables.                   *)
(***************************************************************************)

(* An operator's write, at what it leaves alone.                           *)
LEMMA OperatorsAside ==
  ASSUME SeedInv, NEW subject \in {"rooms", "texts", "licences"}, Writes(subject), probes' = probes, deployments' = deployments, chain' = chain,
         market' = market, boundary' = boundary
  PROVE  /\ BootsHold' /\ ProbesHeld' /\ DeploymentsHeld' /\ SeedEventsHeld' /\ IntelligenceHeld' /\ BoundaryHeld'
         /\ subject # "rooms" /\ backbone' = backbone => RoomsHeld'
         /\ subject # "texts" /\ texts' = texts => TextsHeld'
         /\ subject # "licences" /\ licences' = licences => LicencesHeld'
<1>1. subject \in Subjects /\ "rooms" \in Subjects /\ "texts" \in Subjects
  BY DEF Subjects
<1>2. /\ BootsHold' /\ boot' = boot /\ raced \subseteq raced'
      /\ \A s \in Subjects : s # subject => writes'[s] = writes[s]
  BY <1>1, WritesActs DEF SeedInv
<1>3. /\ StandsAside(RoomsAt \cup {"waiting"}, AfterRooms) /\ StandsAside({"insertDeployment"}, AfterDeployment) /\ StandsAside(TextsAt, {})
      /\ StandsAside(EventsAt, AfterChain) /\ StandsAside({"insertIntel"}, AfterIntel) /\ StandsAside({}, {"seeded"})
  BY <1>2, StillAside
<1>4. DeploymentsHeld' /\ SeedEventsHeld' /\ BoundaryHeld'
  BY <1>3, DeploymentAside, ChainAside, BoundaryAside DEF SeedInv
<1>5. IntelligenceHeld'
  BY <1>3, MarketAside DEF SeedInv, IntelligenceHeld
<1>6. ProbesHeld'
  BY <1>2 DEF SeedInv, ProbesHeld, BootProbes
<1>7. subject # "rooms" /\ backbone' = backbone => RoomsHeld'
  BY <1>1, <1>2, <1>3, RoomsAside DEF SeedInv
<1>8. subject # "texts" /\ texts' = texts => TextsHeld'
  BY <1>1, <1>2, <1>3, TextsAside DEF SeedInv
<1>9. subject # "licences" /\ licences' = licences => LicencesHeld'
  BY <1>2 DEF SeedInv, LicencesHeld, BootLicences
<1> QED
  BY <1>2, <1>4, <1>5, <1>6, <1>7, <1>8, <1>9

(* What operators write next to the boots.                                 *)
LEMMA OperatorsKeep ==
  ASSUME SeedInv, (\E r \in DOMAIN backbone : ActInRoom(r)) \/ ReplaceTexts \/ ReplaceLicences
  PROVE  SeedInv'
<1>1. ASSUME NEW r \in DOMAIN backbone, ActInRoom(r) PROVE SeedInv'
  BY <1>1, ActInRoomHolds, OperatorsAside DEF ActInRoom, SeedInv
<1>2. CASE ReplaceTexts
  BY <1>2, ReplaceTextsHolds, OperatorsAside DEF ReplaceTexts, SeedInv
<1>3. CASE ReplaceLicences
  BY <1>3, ReplaceLicencesHolds, OperatorsAside DEF ReplaceLicences, SeedInv
<1> QED
  BY <1>1, <1>2, <1>3

(* Every step keeps all tables true.                                       *)
LEMMA SeedSteps ==
  ASSUME SeedInv, [SeedNext]_seedVars
  PROVE  SeedInv'
<1>1. CASE SeedNext
  BY BeginKeeps, RoomsKeep, DeploymentKeeps, ProbeKeeps, TextsKeep, LicencesKeep, EventsKeep, IntelKeeps,
     RegistryKeeps, BoundaryKeeps, HaltsKeep, <1>1, NextIs, OperatorsKeep
<1>2. CASE UNCHANGED seedVars
  <2>1. /\ boot' = boot /\ backbone' = backbone /\ deployments' = deployments /\ probes' = probes /\ texts' = texts
        /\ licences' = licences /\ chain' = chain /\ market' = market /\ boundary' = boundary /\ writes' = writes
        /\ raced' = raced
    BY <1>2 DEF seedVars
  <2>2. BootsHold' /\ ProbesHeld' /\ DeploymentsHeld'
    BY <2>1 DEF SeedInv, BootsHold, Alone, ProbesHeld, BootProbes, DeploymentsHeld, BootDeployment, Through
  <2>3. RoomsHeld'
    BY <2>1 DEF SeedInv, RoomsHeld, BootRooms, Through
  <2>4. TextsHeld' /\ LicencesHeld'
    BY <2>1 DEF SeedInv, TextsHeld, BootTexts, LicencesHeld, BootLicences
  <2>5. SeedEventsHeld' /\ IntelligenceHeld' /\ BoundaryHeld'
    BY <2>1 DEF SeedInv, SeedEventsHeld, BootEvents, IntelligenceHeld, BootIntel, BoundaryHeld, Through
  <2> QED
    BY <2>2, <2>3, <2>4, <2>5 DEF SeedInv
<1> QED
  BY <1>1, <1>2

-----------------------------------------------------------------------------
(* ... and what it says of the tables.                                     *)
LEMMA OneOperatorsRow ==
  ASSUME NEW log, NEW i \in 1 .. Len(log), \A j \in 1 .. Len(log) : log[j] = "operator" <=> j = i
  PROVE  Cardinality({j \in 1 .. Len(log) : log[j] = "operator"}) = 1
<1>1. {j \in 1 .. Len(log) : log[j] = "operator"} = {i}
  OBVIOUS
<1> QED
  BY <1>1, FS_Singleton

(* The tables are then what SeedingSound says.                             *)
LEMMA SeedHolds ==
  ASSUME SeedInv
  PROVE  SeedingSound
<1>1. /\ DOMAIN backbone = 1 .. Len(SeedRooms) /\ \A r \in 1 .. Len(SeedRooms) : \A l \in LogKinds : backbone[r].log[l] \in Seq(Authors)
  BY DEF SeedInv, RoomsHeld, RoomRows
<1>2. ChainGrows
  <2> DEFINE n == Len(chain)
  <2>1. n \in Nat
    BY DEF SeedInv, SeedEventsHeld
  <2>2. /\ \A i \in 1 .. n : chain[i].prev < i /\ (chain[i].type = "genesis" <=> chain[i].prev = 0)
        /\ "chain" \notin raced => \A i \in 1 .. n : chain[i].prev = i - 1
    BY DEF SeedInv, SeedEventsHeld
  <2>3. \A i \in 1 .. n : i = 1 => i - 1 = 0
    OBVIOUS
  <2>4. "chain" \notin raced => ChainVerified
    BY <2>2, <2>3 DEF ChainVerified, BeforeAll
  <2> QED
    BY <2>2, <2>4 DEF ChainGrows, BeforeAll
<1>3. OperatorsKept
  <2>1. ASSUME writes["rooms"] > 0
        PROVE  \E r \in DOMAIN backbone :
                 /\ backbone[r].summary = "operator"
                 /\ \A l \in {"reasons", "changes"} : Cardinality({i \in 1 .. Len(backbone[r].log[l]) :
                                                                     backbone[r].log[l][i] = "operator"}) = 1
    <3>1. PICK r \in 1 .. Len(SeedRooms) : backbone[r].summary = "operator"
      BY <2>1 DEF SeedInv, RoomsHeld
    <3>2. ASSUME NEW l \in LogKinds
          PROVE  Cardinality({i \in 1 .. Len(backbone[r].log[l]) : backbone[r].log[l][i] = "operator"}) = 1
      BY <3>1, OneOperatorsRow DEF SeedInv, RoomsHeld, LogTrue
    <3> QED
      BY <1>1, <3>1, <3>2 DEF LogKinds
  <2>2. "rooms" \notin raced =>
          \A r \in DOMAIN backbone, l \in {"reasons", "changes"} :
            backbone[r].summary = "operator" => Last(backbone[r].log[l]) = "operator"
    BY <1>1 DEF SeedInv, RoomsHeld, LogKinds, Last
  <2> QED
    BY <2>1, <2>2 DEF OperatorsKept
<1>4. RowsSingle
  BY DEF SeedInv, TextsHeld, RowsSingle, DeploymentsHeld, IntelligenceHeld
<1>5. LicencesListed
  BY LicencesTyped DEF LicencesListed, SeedInv, LicencesHeld, BootLicences
<1>6. SeededIsComplete
  <2> SUFFICES ASSUME NEW b \in Boots, boot[b].at = "seeded", probes[b] > 0
               PROVE  /\ \A r \in DOMAIN backbone :
                           /\ backbone[r].listed /\ backbone[r].actions /\ backbone[r].summary \in {"runtime", "operator"}
                           /\ \A l \in {"reasons", "changes"} :
                                backbone[r].log[l] # <<>> /\ Last(backbone[r].log[l]) # "legacy"
                      /\ \E i \in 1 .. Len(deployments) : deployments[i] = ReleaseOf[b]
                      /\ probes[b] = Probed /\ market.intel >= 1
                      /\ \E i \in 1 .. Len(chain) : chain[i].type = "boot"
                      /\ \E i \in 1 .. Len(boundary) : boundary[i] = b
    BY DEF SeededIsComplete, At
  <2>1. /\ Through(b, AfterRooms) /\ Through(b, AfterDeployment) /\ Through(b, AfterChain) /\ Through(b, AfterIntel)
        /\ Through(b, {"seeded"})
    BY StatementsAre DEF Through
  <2>2. \A r \in 1 .. Len(SeedRooms) : WholeRoom(backbone[r])
    BY <2>1 DEF SeedInv, RoomsHeld, BootRooms
  <2>3. \A r \in 1 .. Len(SeedRooms) : \A l \in LogKinds : Len(backbone[r].log[l]) > 0 => backbone[r].log[l] # <<>>
    BY <1>1
  <2>4. ASSUME NEW r \in DOMAIN backbone
        PROVE  /\ backbone[r].listed /\ backbone[r].actions /\ backbone[r].summary \in {"runtime", "operator"}
               /\ \A l \in {"reasons", "changes"} :
                    backbone[r].log[l] # <<>> /\ Last(backbone[r].log[l]) # "legacy"
    BY <1>1, <2>2, <2>3 DEF WholeRoom, SummaryOk, LogOk, LogKinds, Last
  <2>5. \E i \in 1 .. Len(deployments) : deployments[i] = ReleaseOf[b]
    BY <2>1 DEF SeedInv, DeploymentsHeld, BootDeployment
  <2>6. market.intel >= 1 /\ \E i \in 1 .. Len(chain) : chain[i].type = "boot"
    BY <2>1 DEF SeedInv, IntelligenceHeld, BootIntel, SeedEventsHeld, BootEvents
  <2>7. \E i \in 1 .. Len(boundary) : boundary[i] = b
    BY <2>1 DEF SeedInv, BoundaryHeld
  <2>8. probes[b] = Probed
    BY DEF SeedInv, ProbesHeld, BootProbes
  <2> QED
    BY <2>4, <2>5, <2>6, <2>7, <2>8
<1> QED
  BY <1>2, <1>3, <1>4, <1>5, <1>6 DEF SeedingSound

-----------------------------------------------------------------------------
(***************************************************************************)
(* The conductor, its engines and their health (ceo/index.ts).             *)
(***************************************************************************)

(* A request has not begun; is at a step it has not failed at; or has gone *)
(* to the first step that ends its workflow.                               *)
FlowHolds(o) ==
  LET w == order[o].flow
      done == Len(order[o].results)
  IN /\ order[o].at = "new" => w = NoFlow /\ order[o].results = <<>>
     /\ order[o].at = "executing" => order[o].layer \in Layers
     /\ order[o].at = "executing" /\ w # NoFlow =>
          /\ done < Len(w)
          /\ \A i \in 1 .. done : ~(order[o].results[i] = "failed" /\ w[i].required)
     /\ order[o].at = "answered" /\ w # NoFlow =>
          /\ done \in 1 .. Len(w) /\ Halts(w, order[o].results)
          /\ \A i \in 1 .. done - 1 : ~(order[o].results[i] = "failed" /\ w[i].required)

(* A layer that says it runs executes a request.                           *)
RunningHolds == \A l \in Layers : engine[l] = "running" => \E o \in Orders : order[o].at = "executing" /\ order[o].layer = l

ConductorInv == ConductorTypeOK /\ RunningHolds /\ \A o \in Orders : FlowHolds(o)

(* No layer executes.                                                      *)
LEMMA ConductorStarts == ConductorInit => ConductorInv
BY EmptySeq DEF ConductorInit, ConductorInv, ConductorTypeOK, RunningHolds, FlowHolds, Fresh, NoLayer

(* The first step of a workflow, and each before its end, is of a layer.   *)
LEMMA FlowsAre ==
  ASSUME NEW w \in Workflows
  PROVE  /\ w # NoFlow /\ Len(w) \in Nat /\ Len(w) >= 1
         /\ \A i \in 1 .. Len(w) : w[i].layer \in Layers /\ w[i].required \in BOOLEAN
<1> DEFINE StepsFrom == [layer : Layers, required : BOOLEAN]
<1>1. w \in Seq(StepsFrom) /\ w # <<>> /\ w # NoFlow
  BY ConductorAssumption
<1> HIDE DEF StepsFrom
<1>2. Len(w) \in Nat /\ Len(w) >= 1 /\ \A i \in 1 .. Len(w) : w[i] \in StepsFrom
  BY <1>1
<1> QED
  BY <1>1, <1>2 DEF StepsFrom

(* A layer begins to execute a request.                                    *)
LEMMA BeginsKeep ==
  ASSUME ConductorInv, NEW o \in Orders, NEW w \in Workflows \cup {NoFlow}, NEW l \in Layers,
         order[o].at = "new", engine' = [engine EXCEPT ![l] = "running"],
         \A p \in Orders \ {o} : order'[p] = order[p],
         order' \in [Orders -> [flow : Workflows \cup {NoFlow}, layer : Layers \cup {NoLayer},
                                results : Seq({"done", "failed"}), at : {"new", "executing", "answered"}]],
         order'[o].at = "executing", order'[o].layer = l, order'[o].flow = w, order'[o].results = order[o].results
  PROVE  ConductorInv'
<1> USE DEF ConductorInv
<1>1. ConductorTypeOK'
  BY DEF ConductorTypeOK
<1>2. RunningHolds'
  <2> SUFFICES ASSUME NEW m \in Layers, engine'[m] = "running"
               PROVE \E p \in Orders : order'[p].at = "executing" /\ order'[p].layer = m
    BY DEF RunningHolds
  <2>1. CASE m = l
    BY <2>1
  <2>2. CASE m # l
    <3>1. engine[m] = "running"
      BY <2>2 DEF ConductorTypeOK
    <3>2. PICK p \in Orders : order[p].at = "executing" /\ order[p].layer = m
      BY <3>1 DEF RunningHolds
    <3> QED
      BY <3>2
  <2> QED
    BY <2>1, <2>2
<1>3. ASSUME NEW p \in Orders PROVE FlowHolds(p)'
  <2>1. CASE p # o
    BY <2>1 DEF FlowHolds, Halts
  <2>2. CASE p = o
    BY FlowsAre, <2>2 DEF FlowHolds
  <2> QED
    BY <2>1, <2>2
<1> QED
  BY <1>1, <1>2, <1>3

(* A request with how far it is.                                           *)
WentOn(r, results, layer, at) == [r EXCEPT !.results = results, !.layer = layer, !.at = at]

(* Steps begin and end as the workflow says.                               *)
LEMMA ConductorSteps == ConductorInv /\ [ConductorNext]_conductorVars => ConductorInv'
<1> SUFFICES ASSUME ConductorInv, [ConductorNext]_conductorVars PROVE ConductorInv'
  OBVIOUS
<1> DEFINE Orderly == [flow : Workflows \cup {NoFlow}, layer : Layers \cup {NoLayer},
                       results : Seq({"done", "failed"}), at : {"new", "executing", "answered"}]
<1>t. order \in [Orders -> Orderly] /\ engine \in [Layers -> {"idle", "running", "error"}]
  BY DEF ConductorInv, ConductorTypeOK
<1>1. ASSUME NEW o \in Orders, NEW l \in Layers, FireLayer(o, l) PROVE ConductorInv'
  <2>1. order' = [order EXCEPT ![o] = [order[o] EXCEPT !.at = "executing", !.layer = l]]
    BY <1>1 DEF FireLayer
  <2>2. /\ order'[o].at = "executing" /\ order'[o].layer = l /\ order'[o].flow = order[o].flow
        /\ order'[o].results = order[o].results /\ order' \in [Orders -> Orderly]
        /\ \A p \in Orders \ {o} : order'[p] = order[p]
    BY <1>t, <2>1
  <2>3. order[o].flow = NoFlow
    BY <1>1 DEF ConductorInv, FlowHolds, FireLayer
  <2> QED
    BY <1>1, <2>2, <2>3, BeginsKeep DEF FireLayer
<1>2. ASSUME NEW o \in Orders, NEW w \in Workflows, ExecuteWorkflow(o, w) PROVE ConductorInv'
  <2>0. w[1].layer \in Layers
    BY FlowsAre
  <2>1. order' = [order EXCEPT ![o] = [order[o] EXCEPT !.at = "executing", !.flow = w, !.layer = w[1].layer]]
    BY <1>2 DEF ExecuteWorkflow
  <2>2. /\ order'[o].at = "executing" /\ order'[o].layer = w[1].layer /\ order'[o].flow = w
        /\ order'[o].results = order[o].results /\ order' \in [Orders -> Orderly]
        /\ \A p \in Orders \ {o} : order'[p] = order[p]
    BY <1>t, <2>0, <2>1
  <2> QED
    BY <1>2, <2>0, <2>2, BeginsKeep DEF ExecuteWorkflow
<1>3. ASSUME NEW o \in Orders, NEW ok \in BOOLEAN, LayerAnswers(o, ok) PROVE ConductorInv'
  <2> DEFINE end == IF ok THEN "done" ELSE "failed"
  <2>0. <<end>> \in Seq({"done", "failed"}) /\ order[o].layer \in Layers /\ StatusAfter(ok) \in {"idle", "error"}
    BY <1>3 DEF ConductorInv, FlowHolds, LayerAnswers, StatusAfter
  <2>1. order' = [order EXCEPT ![o] = [order[o] EXCEPT !.at = "answered", !.layer = NoLayer, !.results = <<end>>]]
    BY <1>3 DEF LayerAnswers
  <2> HIDE DEF end
  <2>w. order' = [order EXCEPT ![o] = WentOn(order[o], <<end>>, NoLayer, "answered")]
    BY <2>1, <1>t DEF WentOn
  <2> DEFINE after == WentOn(order[o], <<end>>, NoLayer, "answered")
  <2>a. after \in Orderly
    BY <1>t, <2>0 DEF WentOn
  <2>b. after.at = "answered" /\ after.layer = NoLayer /\ after.flow = NoFlow
    BY <1>t, <1>3 DEF WentOn, LayerAnswers
  <2> HIDE DEF after
  <2>2. /\ order'[o].at = "answered" /\ order'[o].layer = NoLayer /\ order'[o].flow = NoFlow
        /\ order' \in [Orders -> Orderly] /\ \A p \in Orders \ {o} : order'[p] = order[p]
    BY <2>w, <1>t, <2>a, <2>b DEF after
  <2>3. engine' = [engine EXCEPT ![order[o].layer] = StatusAfter(ok)]
    BY <1>3 DEF LayerAnswers, EngineEnds
  <2>4. ConductorTypeOK'
    BY <1>t, <2>0, <2>2, <2>3 DEF ConductorTypeOK
  <2>5. RunningHolds'
    <3> SUFFICES ASSUME NEW m \in Layers, engine'[m] = "running"
                 PROVE \E p \in Orders : order'[p].at = "executing" /\ order'[p].layer = m
      BY DEF RunningHolds
    <3>1. engine[m] = "running" /\ m # order[o].layer
      BY <1>t, <2>0, <2>3
    <3>2. PICK p \in Orders : order[p].at = "executing" /\ order[p].layer = m
      BY <3>1 DEF RunningHolds, ConductorInv
    <3> QED
      BY <3>1, <3>2, <2>2
  <2>6. ASSUME NEW p \in Orders PROVE FlowHolds(p)'
    BY <2>2 DEF FlowHolds, ConductorInv, Halts
  <2> QED
    BY <2>4, <2>5, <2>6 DEF ConductorInv
<1>4. ASSUME NEW o \in Orders, NEW ok \in BOOLEAN, StepEnds(o, ok) PROVE ConductorInv'
  <2> DEFINE end == IF ok THEN "done" ELSE "failed"
             w == order[o].flow
             results == Append(order[o].results, end)
             n == Len(order[o].results)
             stops == Halts(w, results)
             next == w[Len(results) + 1].layer
             layer == IF stops THEN NoLayer ELSE next
             at == IF stops THEN "answered" ELSE "executing"
  <2>0. order[o].layer \in Layers /\ StatusAfter(ok) \in {"idle", "error"}
    BY <1>4 DEF ConductorInv, FlowHolds, StepEnds, StatusAfter
  <2>1. order[o].at = "executing" /\ w # NoFlow
    BY <1>4 DEF StepEnds
  <2>2. /\ w \in Workflows /\ order[o].results \in Seq({"done", "failed"}) /\ end \in {"done", "failed"}
    BY <1>t, <2>1
  <2>3. n < Len(w) /\ \A i \in 1 .. n : ~(order[o].results[i] = "failed" /\ w[i].required)
    BY <2>1 DEF ConductorInv, FlowHolds
  <2>4. /\ results \in Seq({"done", "failed"}) /\ Len(results) = n + 1 /\ results[n + 1] = end
        /\ n \in Nat /\ \A i \in 1 .. n : results[i] = order[o].results[i]
    BY <2>2, AppendProperties
  <2>5. Len(w) \in Nat /\ \A i \in 1 .. Len(w) : w[i].layer \in Layers
    BY <2>2, FlowsAre
  <2>6. ~stops => n + 1 < Len(w) /\ ~(end = "failed" /\ w[n + 1].required)
    BY <2>3, <2>4, <2>5 DEF Halts
  <2>7. ~stops => next \in Layers
    BY <2>4, <2>5, <2>6
  <2>8. order' = [order EXCEPT ![o] = WentOn(order[o], results, layer, at)]
    <3>1. CASE stops
      BY <1>4, <3>1, <1>t DEF StepEnds, WentOn
    <3>2. CASE ~stops
      <4>1. order' = [order EXCEPT ![o] = [order[o] EXCEPT !.results = results, !.layer = next]]
        BY <1>4, <3>2 DEF StepEnds
      <4>2. layer = next /\ at = order[o].at
        BY <3>2, <2>1
      <4> HIDE DEF layer, at, next, results, stops
      <4> QED
        BY <4>1, <4>2, <1>t DEF WentOn
    <3> QED
      BY <3>1, <3>2
  <2>9. engine' = IF stops THEN [engine EXCEPT ![order[o].layer] = StatusAfter(ok)]
                  ELSE [engine EXCEPT ![order[o].layer] = StatusAfter(ok), ![next] = "running"]
    BY <1>4 DEF StepEnds, EngineEnds
  <2>10. layer \in Layers \cup {NoLayer} /\ at \in {"executing", "answered"} /\ (at = "executing" => layer \in Layers)
    BY <2>7
  <2>l. stops => layer = NoLayer /\ at = "answered"
    OBVIOUS
  <2>m. ~stops => layer = next /\ at = "executing"
    OBVIOUS
  <2>h. stops <=> Halts(w, results)
    OBVIOUS
  <2> HIDE DEF results, layer, at, stops, next, end
  <2>11. WentOn(order[o], results, layer, at) \in Orderly
    BY <1>t, <2>4, <2>10, ZenonT(30) DEF WentOn
  <2>12. /\ order'[o].flow = w /\ order'[o].results = results /\ order'[o].layer = layer /\ order'[o].at = at
         /\ \A p \in Orders \ {o} : order'[p] = order[p]
    BY <1>t, <2>8 DEF WentOn
  <2>13. ConductorTypeOK'
    BY <1>t, <2>0, <2>7, <2>8, <2>9, <2>11 DEF ConductorTypeOK
  <2>14. RunningHolds'
    <3> SUFFICES ASSUME NEW l \in Layers, engine'[l] = "running" PROVE \E p \in Orders : order'[p].at = "executing" /\ order'[p].layer = l
      BY DEF RunningHolds
    <3>1. CASE ~stops /\ l = next
      BY <3>1, <2>12, <2>m
    <3>2. CASE ~(~stops /\ l = next)
      BY <3>2, <1>t, <2>0, <2>7, <2>9, <2>12 DEF ConductorInv, RunningHolds
    <3> QED
      BY <3>1, <3>2
  <2>15. ASSUME NEW p \in Orders PROVE FlowHolds(p)'
    <3>1. CASE p # o
      BY <3>1, <2>12 DEF FlowHolds, ConductorInv, Halts
    <3>2. CASE p = o
      <4>1. CASE stops
        <5>1. /\ Halts(w, results) /\ at = "answered" /\ n + 1 \in 1 .. Len(w)
              /\ \A i \in 1 .. n : ~(results[i] = "failed" /\ w[i].required)
          BY <4>1, <2>3, <2>4, <2>5, <2>h, <2>l
        <5>2. (n + 1) - 1 = n
          BY <2>4
        <5> QED
          BY <3>2, <5>1, <5>2, <2>4, <2>12 DEF FlowHolds, Halts
      <4>2. CASE ~stops
        <5>1. at = "executing" /\ n + 1 < Len(w) /\ layer \in Layers
          BY <4>2, <2>6, <2>m, <2>10
        <5>2. \A i \in 1 .. n + 1 : ~(results[i] = "failed" /\ w[i].required)
          BY <4>2, <2>3, <2>4, <2>6, SMTT(30)
        <5> QED
          BY <3>2, <5>1, <5>2, <2>4, <2>12 DEF FlowHolds
      <4> QED
        BY <4>1, <4>2
    <3> QED
      BY <3>1, <3>2
  <2> QED
    BY <2>13, <2>14, <2>15 DEF ConductorInv
<1>5. CASE UNCHANGED conductorVars
  BY <1>5 DEF conductorVars, ConductorInv, ConductorTypeOK, RunningHolds, FlowHolds, Halts
<1> QED
  BY <1>1, <1>2, <1>3, <1>4, <1>5 DEF ConductorNext

(* A workflow has then ended at the first required step that failed.       *)
LEMMA ConductorHolds == ConductorInv => EnginesTruthful
<1> SUFFICES ASSUME ConductorInv PROVE RunsToTheFirstFailure
  BY DEF ConductorInv, EnginesTruthful, RunningHolds, RunningIsExecuting
<1> SUFFICES ASSUME NEW o \in Orders, order[o].flow # NoFlow
             PROVE  LET w == order[o].flow
                        done == Len(order[o].results)
                        broken == {i \in 1 .. done : order[o].results[i] = "failed" /\ w[i].required}
                    IN /\ \A i \in broken : i = done /\ order[o].at = "answered"
                       /\ order[o].at = "answered" /\ (Success(o) \/ broken = {}) => done = Len(w)
  BY DEF RunsToTheFirstFailure
<1> DEFINE done == Len(order[o].results)
<1>1. order[o].results \in Seq({"done", "failed"}) /\ done \in Nat /\ order[o].at \in {"new", "executing", "answered"}
  BY DEF ConductorInv, ConductorTypeOK
<1>2. FlowHolds(o)
  BY DEF ConductorInv
<1>3. order[o].flow \in Workflows
  BY DEF ConductorInv, ConductorTypeOK
<1>4. Len(order[o].flow) \in Nat
  BY <1>3, FlowsAre
<1> QED
  BY <1>1, <1>2, <1>4 DEF FlowHolds, Halts, Success

-----------------------------------------------------------------------------
(***************************************************************************)
(* The room runner (ceo/index.ts:181).                                     *)
(***************************************************************************)

(* While starts do not overlap, a server that is not closed is the node's, *)
(* and the node runs while it listens or closes.                           *)
NodeHolds ==
  /\ servers \in Seq({"opening", "listening", "closing", "closed"}) /\ server \in 0 .. Len(servers)
  /\ running \in BOOLEAN /\ overlapped \in BOOLEAN
  /\ ~overlapped =>
       /\ \A i \in 1 .. Len(servers) : servers[i] # "closed" => i = server
       /\ running <=> server # 0 /\ servers[server] \in {"listening", "closing"}

(* The loop is in a round exactly while one is under way.                  *)
RoundHolds ==
  /\ rounds \in Seq([room : Positions, at : {"looking", "building"}])
  /\ loopRunning \in BOOLEAN /\ Len(rounds) = IF loopRunning THEN 1 ELSE 0

RoomsRun ==
  /\ visit \in [Visits -> [room : Rooms, at : {"none", "looking", "building", "answered"}]]
  /\ rooms \in [Rooms -> {"none", "running", "idle"}]
  /\ RunningRoomIsRun

RunnerInv == NodeHolds /\ RoundHolds /\ RoomsRun

(* The rooms have an order.                                                *)
LEMMA RoomsAre ==
  /\ Len(RoomNames) \in Nat /\ Len(RoomNames) >= 1
  /\ \A i \in Positions : RoomNames[i] \in Rooms
BY RoomRunnerAssumption DEF Rooms, Positions

(* There is no server and no round.                                        *)
LEMMA RunnerStarts == RunnerInit => RunnerInv
<1> SUFFICES ASSUME RunnerInit PROVE RunnerInv
  OBVIOUS
<1>1. NodeHolds
  <2>1. servers = <<>> /\ server = 0 /\ running = FALSE /\ overlapped = FALSE
    BY DEF RunnerInit
  <2>2. servers \in Seq({"opening", "listening", "closing", "closed"}) /\ Len(servers) = 0
    BY <2>1
  <2>3. server \in 0 .. Len(servers)
    BY <2>1, <2>2
  <2>6. running \in BOOLEAN /\ overlapped \in BOOLEAN
    BY <2>1, Zenon
  <2>4. \A i \in 1 .. Len(servers) : servers[i] # "closed" => i = server
    BY <2>2
  <2>5. running <=> server # 0 /\ servers[server] \in {"listening", "closing"}
    BY <2>1, Zenon
  <2> QED
    BY <2>2, <2>3, <2>4, <2>5, <2>6, Zenon DEF NodeHolds
<1>2. RoundHolds
  BY EmptySeq DEF RunnerInit, RoundHolds
<1>3. RoomsRun
  BY RoomsAre DEF RunnerInit, RoomsRun, RunningRoomIsRun, NoVisit, Positions
<1> QED
  BY <1>1, <1>2, <1>3 DEF RunnerInv

(* Starts, stops and what the port decides.                                *)
LEMMA NodeSteps == NodeHolds /\ [RunnerNext]_runnerVars => NodeHolds'
<1> SUFFICES ASSUME NodeHolds, [RunnerNext]_runnerVars PROVE NodeHolds'
  OBVIOUS
<1> USE DEF NodeHolds
<1>0. Len(servers) \in Nat
  OBVIOUS
<1>1. CASE Start
  <2>1. servers' = Append(servers, "opening") /\ server' = Len(servers) + 1 /\ running' = running /\ ~running
        /\ overlapped' = (overlapped \/ Opening # {})
    BY <1>1 DEF Start
  <2>2. /\ servers' \in Seq({"opening", "listening", "closing", "closed"}) /\ Len(servers') = Len(servers) + 1
        /\ servers'[Len(servers) + 1] = "opening" /\ \A i \in 1 .. Len(servers) : servers'[i] = servers[i]
    BY <2>1, AppendProperties
  <2>3. ~overlapped' => \A i \in 1 .. Len(servers) : servers[i] = "closed"
    <3> SUFFICES ASSUME ~overlapped', NEW i \in 1 .. Len(servers), servers[i] # "closed" PROVE FALSE
      OBVIOUS
    <3>1. ~overlapped /\ Opening = {}
      BY <2>1
    <3>2. i = server /\ servers[i] # "opening"
      BY <3>1 DEF Opening
    <3>3. servers[i] \in {"listening", "closing"}
      BY <3>2
    <3>4. server # 0
      BY <3>2
    <3> QED
      BY <2>1, <3>1, <3>2, <3>3, <3>4
  <2> QED
    BY <1>0, <2>1, <2>2, <2>3
<1>2. CASE Stop
  <2>1. CASE server # 0 /\ running /\ servers[server] = "listening"
    BY <1>2, <2>1 DEF Stop
  <2>2. CASE ~(server # 0 /\ running /\ servers[server] = "listening")
    <3>1. servers' = servers /\ overlapped' = overlapped
      BY <1>2, <2>2 DEF Stop
    <3>2. CASE server # 0 /\ running /\ servers[server] \in {"opening", "closed"}
      <4>1. overlapped
        BY <3>2
      <4>2. running' = FALSE /\ server' = 0
        BY <1>2, <3>2 DEF Stop
      <4> QED
        <5>1. server' \in 0 .. Len(servers')
          BY <1>0, <3>1, <4>2
        <5>2. running' \in BOOLEAN /\ overlapped' \in BOOLEAN /\ overlapped'
          BY <3>1, <4>1, <4>2, Zenon
        <5> QED
          BY <5>1, <5>2, <3>1, Zenon
    <3>3. CASE ~(server # 0 /\ running /\ servers[server] \in {"opening", "closed"})
      BY <1>2, <3>3, <3>1 DEF Stop
    <3> QED
      BY <3>2, <3>3
  <2> QED
    BY <2>1, <2>2
<1>3. ASSUME NEW i \in 1 .. MaxStarts, Listens(i) PROVE NodeHolds'
  BY <1>3 DEF Listens, Opening
<1>4. ASSUME NEW i \in 1 .. MaxStarts, ListenFails(i) PROVE NodeHolds'
  BY <1>4 DEF ListenFails, Opening, Listening
<1>5. ASSUME NEW i \in 1 .. MaxStarts, Closes(i) PROVE NodeHolds'
  <2>1. servers' = [servers EXCEPT ![i] = "closed"] /\ i \in 1 .. Len(servers) /\ servers[i] = "closing"
    BY <1>5 DEF Closes
  <2>2. servers' \in Seq({"opening", "listening", "closing", "closed"}) /\ Len(servers') = Len(servers)
    BY <2>1
  <2>3. running' = FALSE /\ server' = 0 /\ overlapped' = overlapped
    BY <1>5 DEF Closes
  <2>4. ~overlapped => \A j \in 1 .. Len(servers) : servers'[j] = "closed"
    <3> SUFFICES ASSUME ~overlapped, NEW j \in 1 .. Len(servers) PROVE servers'[j] = "closed"
      OBVIOUS
    <3>1. CASE j = i
      BY <3>1, <2>1
    <3>2. CASE j # i
      BY <2>1, <3>2
    <3> QED
      BY <3>1, <3>2
  <2>5. \A j \in 1 .. Len(servers') : ~overlapped' => servers'[j] = "closed"
    BY <2>2, <2>3, <2>4
  <2>6. server' \in 0 .. Len(servers')
    BY <1>0, <2>2, <2>3
  <2>8. running' \in BOOLEAN /\ overlapped' \in BOOLEAN
    BY <2>3, Zenon
  <2>7. running' <=> server' # 0 /\ servers'[server'] \in {"listening", "closing"}
    BY <2>3, Zenon
  <2> QED
    BY <2>2, <2>5, <2>6, <2>7, <2>8, Zenon
<1>6. CASE UNCHANGED nodeVars
  BY <1>6 DEF nodeVars
<1>7. ASSUME Tick \/ (\E n \in 1 .. MaxRounds : RoundRuns(n) \/ RoundMovesOn(n))
             \/ (\E v \in Visits : (\E r \in Rooms : Visit(v, r)) \/ VisitRuns(v) \/ VisitEnds(v))
             \/ UNCHANGED runnerVars
      PROVE  UNCHANGED nodeVars
  BY <1>7 DEF Tick, RoundRuns, RoundMovesOn, Visit, VisitRuns, VisitEnds, runnerVars
<1> QED
  BY <1>1, <1>2, <1>3, <1>4, <1>5, <1>6, <1>7 DEF RunnerNext

(* A round begins when none is under way, and ends.                        *)
LEMMA RoundSteps == RoundHolds /\ [RunnerNext]_runnerVars => RoundHolds'
<1> SUFFICES ASSUME RoundHolds, [RunnerNext]_runnerVars PROVE RoundHolds'
  OBVIOUS
<1> DEFINE Round == [room : Positions, at : {"looking", "building"}]
<1>0. rounds \in Seq(Round) /\ loopRunning \in BOOLEAN /\ Len(rounds) = IF loopRunning THEN 1 ELSE 0
  BY DEF RoundHolds
<1>r. \A n \in 1 .. Len(rounds) : rounds[n] \in Round
  <2> HIDE DEF Round
  <2> QED
    BY <1>0
<1>p. \A n \in Nat : n >= 1 /\ n <= Len(RoomNames) => n \in Positions
  BY RoomsAre DEF Positions
<1>1. CASE Tick
  <2>1. [room |-> 1, at |-> "looking"] \in Round
    BY <1>p, RoomsAre
  <2>2. rounds' = Append(rounds, [room |-> 1, at |-> "looking"]) /\ loopRunning' = TRUE /\ ~loopRunning
    BY <1>1 DEF Tick
  <2> HIDE DEF Round
  <2>3. rounds' \in Seq(Round) /\ Len(rounds') = Len(rounds) + 1
    BY <1>0, <2>1, <2>2, AppendProperties
  <2> QED
    BY <1>0, <2>2, <2>3 DEF RoundHolds, Round
<1>2. ASSUME NEW n \in 1 .. MaxRounds, RoundRuns(n) PROVE RoundHolds'
  <2>1. n \in 1 .. Len(rounds) /\ rounds' = [rounds EXCEPT ![n] = [rounds[n] EXCEPT !.at = "building"]]
        /\ loopRunning' = loopRunning
    BY <1>2 DEF RoundRuns
  <2>2. rounds[n] \in Round
    BY <1>r, <2>1
  <2>3. [rounds[n] EXCEPT !.at = "building"] \in Round
    BY <2>2
  <2> DEFINE after == [rounds[n] EXCEPT !.at = "building"]
  <2> HIDE DEF Round, after
  <2>4. rounds' \in Seq(Round) /\ Len(rounds') = Len(rounds)
    BY <1>0, <2>1, <2>3 DEF after
  <2> QED
    BY <1>0, <2>1, <2>4 DEF RoundHolds, Round
<1>3. ASSUME NEW n \in 1 .. MaxRounds, RoundMovesOn(n) PROVE RoundHolds'
  <2>0. n \in 1 .. Len(rounds) /\ rounds[n] \in Round
    BY <1>r, <1>3 DEF RoundMovesOn
  <2>1. CASE rounds[n].room < Len(RoomNames)
    <3> DEFINE after == [room |-> rounds[n].room + 1, at |-> "looking"]
    <3>1. after \in Round
      BY <2>0, RoomsAre, <2>1, <1>p DEF Positions
    <3>2. rounds' = [rounds EXCEPT ![n] = after] /\ loopRunning' = loopRunning
      BY <1>3, <2>1 DEF RoundMovesOn
    <3> HIDE DEF Round, after
    <3>3. rounds' \in Seq(Round) /\ Len(rounds') = Len(rounds)
      BY <1>0, <2>0, <3>1, <3>2
    <3> QED
      BY <1>0, <3>2, <3>3 DEF RoundHolds, Round
  <2>2. CASE ~(rounds[n].room < Len(RoomNames))
    <3>1. rounds' = SubSeq(rounds, 1, n - 1) \o SubSeq(rounds, n + 1, Len(rounds)) /\ loopRunning' = FALSE
      BY <1>3, <2>2 DEF RoundMovesOn
    <3>2. n = 1 /\ Len(rounds) = 1
      BY <1>0, <2>0
    <3> HIDE DEF Round
    <3>3. SubSeq(rounds, 1, n - 1) = <<>> /\ SubSeq(rounds, n + 1, Len(rounds)) = <<>>
      BY <1>0, <3>2, SubSeqEmpty
    <3>4. rounds' = <<>>
      BY <3>1, <3>3
    <3> QED
      BY <3>1, <3>4, EmptySeq DEF RoundHolds
  <2> QED
    BY <2>1, <2>2
<1>4. CASE UNCHANGED <<rounds, loopRunning>>
  BY <1>4 DEF RoundHolds
<1>5. ASSUME Start \/ Stop \/ (\E i \in 1 .. MaxStarts : Listens(i) \/ ListenFails(i) \/ Closes(i))
             \/ (\E v \in Visits : (\E r \in Rooms : Visit(v, r)) \/ VisitRuns(v) \/ VisitEnds(v))
             \/ UNCHANGED runnerVars
      PROVE  UNCHANGED <<rounds, loopRunning>>
  BY <1>5 DEF Start, Stop, Listens, ListenFails, Closes, Visit, VisitRuns, VisitEnds, runnerVars, loopVars
<1> QED
  BY <1>1, <1>2, <1>3, <1>4, <1>5 DEF RunnerNext

(* Who sets a room to running runs it.                                     *)
LEMMA RoomSteps == RoundHolds /\ RoomsRun /\ [RunnerNext]_runnerVars => RoomsRun'
<1> SUFFICES ASSUME RoundHolds, RoomsRun, [RunnerNext]_runnerVars PROVE RoomsRun'
  OBVIOUS
<1> DEFINE Round == [room : Positions, at : {"looking", "building"}]
           Call == [room : Rooms, at : {"none", "looking", "building", "answered"}]
           RoundAt(r) == \E n \in 1 .. Len(rounds) : RoomNames[rounds[n].room] = r /\ rounds[n].at = "building"
           VisitAt(r) == \E v \in Visits : visit[v] = [room |-> r, at |-> "building"]
<1>0. /\ rounds \in Seq(Round) /\ Len(rounds) \in 0 .. 1
      /\ visit \in [Visits -> Call] /\ rooms \in [Rooms -> {"none", "running", "idle"}]
      /\ \A r \in Rooms : rooms[r] = "running" => RoundAt(r) \/ VisitAt(r)
  BY DEF RoundHolds, RoomsRun, RunningRoomIsRun
<1>r. \A n \in 1 .. Len(rounds) : rounds[n] \in Round
  <2> HIDE DEF Round
  <2> QED
    BY <1>0
<1>q. ASSUME visit' \in [Visits -> Call], rooms' \in [Rooms -> {"none", "running", "idle"}],
             \A r \in Rooms : rooms'[r] = "running" => RoundAt(r)' \/ VisitAt(r)'
      PROVE  RoomsRun'
  BY <1>q DEF RoomsRun, RunningRoomIsRun
<1>1. CASE Tick
  BY <1>1, <1>0, <1>q DEF Tick, RoundHolds
<1>2. ASSUME NEW n \in 1 .. MaxRounds, RoundRuns(n) PROVE RoomsRun'
  <2>1. /\ n \in 1 .. Len(rounds) /\ rounds' = [rounds EXCEPT ![n] = [rounds[n] EXCEPT !.at = "building"]]
        /\ rooms' = [rooms EXCEPT ![RoomNames[rounds[n].room]] = "running"] /\ visit' = visit
        /\ rounds[n].at = "looking"
    BY <1>2 DEF RoundRuns
  <2>2. n = 1 /\ Len(rounds) = 1 /\ rounds[n] \in Round
    BY <1>0, <1>r, <2>1
  <2>3. RoomNames[rounds[n].room] \in Rooms
    BY <2>2, RoomsAre
  <2>4. Len(rounds') = 1 /\ rounds'[1].at = "building" /\ rounds'[1].room = rounds[n].room
    BY <1>0, <2>1, <2>2
  <2>5. ASSUME NEW r \in Rooms, rooms'[r] = "running" PROVE RoundAt(r)' \/ VisitAt(r)'
    <3>1. CASE r = RoomNames[rounds[n].room]
      BY <3>1, <2>4
    <3>2. CASE r # RoomNames[rounds[n].room]
      BY <3>2, <2>1, <2>5, <1>0, <2>2
    <3> QED
      BY <3>1, <3>2
  <2> QED
    BY <1>0, <1>q, <2>1, <2>3, <2>5
<1>3. ASSUME NEW n \in 1 .. MaxRounds, RoundMovesOn(n) PROVE RoomsRun'
  <2>1. /\ n \in 1 .. Len(rounds) /\ rounds[n].at = "building" /\ visit' = visit
        /\ rooms' = [rooms EXCEPT ![RoomNames[rounds[n].room]] = "idle"]
    BY <1>3 DEF RoundMovesOn
  <2>2. n = 1 /\ Len(rounds) = 1 /\ rounds[n] \in Round
    BY <1>0, <1>r, <2>1
  <2>3. RoomNames[rounds[n].room] \in Rooms
    BY <2>2, RoomsAre
  <2>5. ASSUME NEW r \in Rooms, rooms'[r] = "running" PROVE VisitAt(r)'
    BY <2>1, <2>3, <2>5, <1>0, <2>2
  <2>6. visit' \in [Visits -> Call] /\ rooms' \in [Rooms -> {"none", "running", "idle"}]
    BY <1>0, <2>1, <2>3
  <2> HIDE DEF RoundAt, VisitAt, Call
  <2> QED
    BY <1>q, <2>5, <2>6
<1>4. ASSUME NEW v \in Visits, NEW r \in Rooms, Visit(v, r) PROVE RoomsRun'
  <2>1. /\ visit' = [visit EXCEPT ![v] = [room |-> r, at |-> "looking"]] /\ UNCHANGED <<rounds, rooms>>
        /\ visit[v].at = "none"
    BY <1>4 DEF Visit
  <2>2. \A s \in Rooms : VisitAt(s) => VisitAt(s)'
    BY <2>1, <1>0
  <2>3. \A s \in Rooms : RoundAt(s) => RoundAt(s)'
    BY <2>1
  <2>4. visit' \in [Visits -> Call] /\ rooms' = rooms
    BY <1>0, <2>1
  <2> HIDE DEF RoundAt, VisitAt, Call
  <2> QED
    BY <1>0, <1>q, <2>2, <2>3, <2>4
<1>5. ASSUME NEW v \in Visits, VisitRuns(v) PROVE RoomsRun'
  <2>1. /\ visit' = [visit EXCEPT ![v] = [visit[v] EXCEPT !.at = "building"]] /\ rounds' = rounds
        /\ rooms' = [rooms EXCEPT ![visit[v].room] = "running"] /\ visit[v].at = "looking"
    BY <1>5 DEF VisitRuns
  <2>2. visit[v] \in Call /\ visit[v].room \in Rooms
    BY <1>0
  <2>3. visit'[v] = [room |-> visit[v].room, at |-> "building"]
    BY <1>0, <2>1, <2>2
  <2>4. \A s \in Rooms : VisitAt(s) => VisitAt(s)'
    BY <2>1, <1>0
  <2>5. \A s \in Rooms : RoundAt(s) => RoundAt(s)'
    BY <2>1
  <2>6. visit' \in [Visits -> Call] /\ rooms' \in [Rooms -> {"none", "running", "idle"}]
    BY <1>0, <2>1, <2>2
  <2>7. VisitAt(visit[v].room)'
    BY <2>3
  <2>8. \A s \in Rooms : rooms'[s] = "running" => s = visit[v].room \/ rooms[s] = "running"
    BY <1>0, <2>1, <2>2
  <2> HIDE DEF RoundAt, VisitAt, Call
  <2>9. ASSUME NEW s \in Rooms, rooms'[s] = "running" PROVE RoundAt(s)' \/ VisitAt(s)'
    <3>1. CASE s = visit[v].room
      BY <3>1, <2>3 DEF VisitAt
    <3>2. CASE rooms[s] = "running"
      BY <3>2, <1>0, <2>4, <2>5
    <3> QED
      BY <2>8, <2>9, <3>1, <3>2
  <2> QED
    BY <1>q, <2>6, <2>9
<1>6. ASSUME NEW v \in Visits, VisitEnds(v) PROVE RoomsRun'
  <2>1. /\ visit' = [visit EXCEPT ![v] = [visit[v] EXCEPT !.at = "answered"]] /\ rounds' = rounds
        /\ rooms' = [rooms EXCEPT ![visit[v].room] = "idle"] /\ visit[v].at = "building"
    BY <1>6 DEF VisitEnds
  <2>2. visit[v] \in Call /\ visit[v].room \in Rooms
    BY <1>0
  <2>4. \A s \in Rooms : VisitAt(s) => VisitAt(s)' \/ s = visit[v].room
    BY <2>1, <1>0
  <2>5. \A s \in Rooms : RoundAt(s) => RoundAt(s)'
    BY <2>1
  <2>6. visit' \in [Visits -> Call] /\ rooms' \in [Rooms -> {"none", "running", "idle"}]
    BY <1>0, <2>1, <2>2
  <2>8. \A s \in Rooms : rooms'[s] = "running" => s # visit[v].room /\ rooms[s] = "running"
    BY <1>0, <2>1, <2>2
  <2> HIDE DEF RoundAt, VisitAt, Call
  <2> QED
    BY <1>0, <1>q, <2>4, <2>5, <2>6, <2>8
<1>7. CASE UNCHANGED <<rounds, visit, rooms>>
  BY <1>7 DEF RoomsRun, RunningRoomIsRun
<1>8. ASSUME Start \/ Stop \/ (\E i \in 1 .. MaxStarts : Listens(i) \/ ListenFails(i) \/ Closes(i))
             \/ UNCHANGED runnerVars
      PROVE  UNCHANGED <<rounds, visit, rooms>>
  BY <1>8 DEF Start, Stop, Listens, ListenFails, Closes, runnerVars, loopVars
<1> QED
  BY <1>1, <1>2, <1>3, <1>4, <1>5, <1>6, <1>7, <1>8 DEF RunnerNext

(* The loop, the port and the rooms.                                       *)
LEMMA RunnerSteps == RunnerInv /\ [RunnerNext]_runnerVars => RunnerInv'
BY NodeSteps, RoundSteps, RoomSteps DEF RunnerInv

(* What the invariant says of the runner.                                  *)
LEMMA RunnerHolds == RunnerInv => RunnerSound
BY DEF RunnerInv, RoundHolds, OneRoundAtATime, NodeHolds, NoServerIsForgotten, Listening, RoomsRun,
   RunnerSound

-----------------------------------------------------------------------------
(***************************************************************************)
(* The least of a set of numbers.                                          *)
(***************************************************************************)

(* A set of natural numbers has a least one.                               *)
LEMMA NatMin ==
  ASSUME NEW T, T \subseteq Nat, T # {}
  PROVE  \E x \in T : \A y \in T : x <= y
<1>1. \E x \in T : \A y \in T : <<y, x>> \notin OpToRel(<, Nat)
  BY NatLessThanWellFounded, WFMin
<1>2. \A x, y \in Nat : <<y, x>> \notin OpToRel(<, Nat) => ~(y < x)
  BY Zenon DEF OpToRel
<1>3. \E x \in T : \A y \in T : ~(y < x)
  BY <1>1, <1>2, Zenon
<1> QED
  BY <1>3

-----------------------------------------------------------------------------
(***************************************************************************)
(* Certificates, listed and read page by page.                             *)
(***************************************************************************)

ListFilters == {q[1] : q \in ListQueries} \cup {AnyOf}
Froms == {q[2] : q \in ListQueries} \cup {0}
Run == [at : {"idle", "paging", "read"}, runs : Nat, cursor : Nat \cup {NoCursor}, limit : Nat, filter : ListFilters,
        from : Froms, listed : Seq(SUBSET Certificates), asked : SUBSET Certificates]

ReadsTyped ==
  /\ moment \in Nat
  /\ issue \in [Certificates -> [at : {"none", "begun", "committed"}, created : Nat]]
  /\ status \in [Certificates -> {"sealed", "revoked"}]
  /\ reading \in Run

(* A page that was listed ends at the cursor or before it; later ones are  *)
(* older.                                                                  *)
PagesHold ==
  /\ \A n \in PagesRead : \A c \in reading.listed[n] :
       c \in Visible /\ reading.cursor # NoCursor /\ issue[c].created >= reading.cursor
  /\ \A m, n \in PagesRead : m < n =>
       \A c \in reading.listed[m], d \in reading.listed[n] : issue[c].created > issue[d].created

(* What matched when the reader began matches until it is revoked.         *)
AskedHold ==
  /\ reading.at # "idle" => reading.limit >= 1
  /\ \A c \in reading.asked :
       /\ c \in Visible /\ issue[c].created >= reading.from
       /\ reading.filter \in {AnyOf, status[c], Categories[c]} \/ status[c] = "revoked"

(* It is in the millisecond in which a full page ended.                    *)
PagePassed(c) ==
  \E n \in PagesRead : /\ Cardinality(reading.listed[n]) = reading.limit
                       /\ CursorOf(reading.listed[n]) <= issue[c].created
                       /\ issue[c].created <= Oldest(reading.listed[n])

(* It is on a page, to come, or one of those that may be missed.           *)
NoneLost ==
  reading.at # "idle" =>
    \A c \in reading.asked \ ListedBy(Len(reading.listed)) :
      \/ ~Matches(c, reading.filter, reading.from)
      \/ PagePassed(c)
      \/ reading.at = "paging" /\ BeforeCursor(c, reading.cursor)

ReadsInv == ReadsTyped /\ PagesHold /\ AskedHold /\ NoneLost

(* The oldest of a page, now and while its certificates stay.              *)
LEMMA OldestIs ==
  ASSUME NEW page \in SUBSET Certificates, page # {}, \A c \in page : issue[c].created \in Nat
  PROVE  \E c \in page : Oldest(page) = issue[c].created /\ \A d \in page : Oldest(page) <= issue[d].created
<1> DEFINE T == {issue[c].created : c \in page}
<1>1. \E m \in T : \A n \in T : m <= n
  BY NatMin, ZenonT(30)
<1>2. \E m \in T : \A c \in page : m <= issue[c].created
  BY <1>1
<1>3. Oldest(page) \in T /\ \A c \in page : Oldest(page) <= issue[c].created
  BY <1>2 DEF Oldest
<1> QED
  BY <1>3

(* The oldest of a page after a step is the creation of one of them, and   *)
(* no other is older ...                                                   *)
LEMMA OldestWillBe ==
  ASSUME NEW page \in SUBSET Certificates, page # {}, \A c \in page : issue'[c].created \in Nat
  PROVE  \E c \in page : Oldest(page)' = issue'[c].created /\ \A d \in page : Oldest(page)' <= issue'[d].created
<1> DEFINE T == {issue'[c].created : c \in page}
<1>1. \E m \in T : \A n \in T : m <= n
  BY NatMin, ZenonT(30)
<1>2. \E m \in T : \A c \in page : m <= issue'[c].created
  BY <1>1
<1>3. Oldest(page)' \in T /\ \A c \in page : Oldest(page)' <= issue'[c].created
  BY <1>2 DEF Oldest
<1> QED
  BY <1>3

(* ... and stays while the creations stay.                                 *)
LEMMA OldestStays ==
  ASSUME NEW page \in SUBSET Certificates, page # {},
         \A c \in page : issue[c].created \in Nat /\ issue'[c].created = issue[c].created
  PROVE  Oldest(page)' = Oldest(page)
<1>1. PICK c \in page : Oldest(page) = issue[c].created /\ \A d \in page : Oldest(page) <= issue[d].created
  BY OldestIs
<1>2. PICK e \in page : Oldest(page)' = issue'[e].created /\ \A d \in page : Oldest(page)' <= issue'[d].created
  BY OldestWillBe
<1> QED
  BY <1>1, <1>2

(* A cursor is a moment of the same millisecond, no later.                 *)
LEMMA CursorIs ==
  ASSUME NEW m \in Nat
  PROVE  PerMillisecond * (m \div PerMillisecond) \in Nat /\ PerMillisecond * (m \div PerMillisecond) <= m
BY CertificateReadsAssumption

(* Nobody reads.                                                           *)
LEMMA ReadsStart == ReadsInit => ReadsInv
BY EmptySeq DEF NotReading, Run, ListFilters, Froms, ReadsInit, ReadsTyped, ReadsInv, PagesHold, PagesRead,
   AskedHold, NoneLost

(* Time passes, and certificates are issued and revoked.                   *)
LEMMA IssuesKeep ==
  ASSUME ReadsInv, reading' = reading, ReadsTyped',
         \A c \in Visible : issue'[c] = issue[c] /\ (status[c] = "revoked" => status'[c] = "revoked"),
         \A c \in Certificates : status'[c] = status[c] \/ status'[c] = "revoked"
  PROVE  ReadsInv'
<1>t. ReadsTyped /\ reading.listed \in Seq(SUBSET Certificates)
  BY DEF ReadsInv, ReadsTyped, Run
<1>1. \A c \in Visible : c \in Visible'
  BY DEF Visible
<1>2. PagesRead' = PagesRead /\ \A n \in PagesRead : reading.listed[n] \subseteq Visible
  BY DEF PagesRead, ReadsInv, PagesHold
<1>3. PagesHold'
  BY <1>1, <1>2 DEF ReadsInv, PagesHold, PagesRead
<1>4. AskedHold'
  BY <1>1 DEF ReadsInv, AskedHold, Visible
<1>5. \A c \in reading.asked : ~Matches(c, reading.filter, reading.from) => ~Matches(c, reading.filter, reading.from)'
  BY <1>1 DEF ReadsInv, AskedHold, Matches, Visible
<1>6. ASSUME NEW c \in Visible, PagePassed(c), reading.at # "idle" PROVE PagePassed(c)'
  <2>1. PICK n \in PagesRead : /\ Cardinality(reading.listed[n]) = reading.limit
                               /\ CursorOf(reading.listed[n]) <= issue[c].created
                               /\ issue[c].created <= Oldest(reading.listed[n])
    BY <1>6 DEF PagePassed
  <2>2. reading.listed[n] # {} /\ reading.listed[n] \in SUBSET Certificates
    <3>1. reading.limit >= 1
      BY <1>6 DEF ReadsInv, AskedHold
    <3>2. reading.listed[n] # {}
      BY <2>1, <3>1, FS_EmptySet
    <3>3. n \in 1 .. Len(reading.listed)
      BY <1>t DEF PagesRead
    <3> QED
      BY <1>t, <3>2, <3>3
  <2>3. \A d \in reading.listed[n] : issue[d].created \in Nat /\ issue'[d].created = issue[d].created
    BY <1>2, <1>t DEF Visible, ReadsTyped
  <2>4. Oldest(reading.listed[n])' = Oldest(reading.listed[n])
    BY <2>2, <2>3, OldestStays
  <2> QED
    BY <1>2, <2>1, <2>4 DEF PagePassed, CursorOf
<1>7. NoneLost'
  BY <1>5, <1>6 DEF NoneLost, ListedBy, ReadsInv, AskedHold, BeforeCursor
<1> QED
  BY <1>3, <1>4, <1>7 DEF ReadsInv

(* A run through the list, with what it knows.                             *)
Began(run, limit, query, asked) ==
  [run EXCEPT !.at = "paging", !.runs = reading.runs + 1, !.limit = limit, !.filter = query[1], !.from = query[2],
              !.asked = asked]

(* A reader begins.                                                        *)
LEMMA StartingReads ==
  ASSUME ReadsInv, StartReading
  PROVE  ReadsInv'
<1>t. ReadsTyped /\ reading \in Run
  BY DEF ReadsInv, ReadsTyped
<1>1. PICK raw \in -1 .. MostPage + 1, query \in ListQueries :
        reading' = Began(NotReading, PageLimit(raw), query, {c \in Visible : Matches(c, query[1], query[2])})
  BY DEF StartReading, Began
<1>2. UNCHANGED <<moment, issue, status>>
  BY DEF StartReading
<1>3. PageLimit(raw) \in Nat /\ PageLimit(raw) >= 1
  BY CertificateReadsAssumption DEF PageLimit
<1> DEFINE limit == PageLimit(raw)
           asked == {c \in Visible : Matches(c, query[1], query[2])}
<1>4. asked \subseteq Certificates
  BY DEF Visible
<1>5. query[1] \in ListFilters /\ query[2] \in Froms /\ reading.runs + 1 \in Nat
  BY <1>t DEF ListFilters, Froms, Run
<1>6. \A c \in asked : c \in Visible /\ issue[c].created >= query[2] /\ query[1] \in {AnyOf, status[c], Categories[c]}
  BY DEF Matches
<1> HIDE DEF limit, asked
<1>7. reading' = Began(NotReading, limit, query, asked)
  BY <1>1 DEF limit, asked
<1>8. /\ reading' \in Run /\ reading'.at = "paging" /\ reading'.limit = limit /\ reading'.filter = query[1]
      /\ reading'.from = query[2] /\ reading'.asked = asked /\ reading'.listed = <<>> /\ reading'.cursor = NoCursor
  BY <1>3, <1>4, <1>5, <1>7, EmptySeq DEF limit, Began, NotReading, Run
<1>9. ReadsTyped'
  BY <1>t, <1>2, <1>8 DEF ReadsTyped
<1>10. PagesHold'
  BY <1>8 DEF PagesHold, PagesRead
<1>11. AskedHold'
  BY <1>2, <1>3, <1>6, <1>8 DEF AskedHold, limit, Visible
<1>12. NoneLost'
  BY <1>2, <1>8 DEF NoneLost, BeforeCursor
<1> QED
  BY <1>9, <1>10, <1>11, <1>12 DEF ReadsInv

PageTurned(run, page, at, cursor) == [run EXCEPT !.listed = Append(run.listed, page), !.at = at, !.cursor = cursor]

(* A page is read.                                                         *)
LEMMA ReadingPages ==
  ASSUME ReadsInv, ReadPage
  PROVE  ReadsInv'
<1>t. ReadsTyped /\ reading \in Run
  BY DEF ReadsInv, ReadsTyped
<1> DEFINE rows == {c \in Visible : Matches(c, reading.filter, reading.from) /\ BeforeCursor(c, reading.cursor)}
<1>1. PICK page \in Pages(reading.limit, rows) :
        reading' = [reading EXCEPT !.listed = Append(@, page),
                                   !.at = IF Cardinality(page) = reading.limit THEN "paging" ELSE "read",
                                   !.cursor = IF page = {} THEN @ ELSE CursorOf(page)]
  BY DEF ReadPage
<1>2. UNCHANGED <<moment, issue, status>> /\ reading.at = "paging" /\ reading.limit \in Nat /\ reading.limit >= 1
  BY <1>t DEF ReadPage, ReadsInv, AskedHold, Run
<1>3. /\ page \subseteq rows /\ Cardinality(page) = IF Cardinality(rows) < reading.limit THEN Cardinality(rows) ELSE reading.limit
      /\ \A c \in page, d \in rows \ page : issue[c].created >= issue[d].created
  BY DEF Pages
<1>4. IsFiniteSet(rows) /\ rows \subseteq Certificates
  <2>1. rows \subseteq Certificates
    BY DEF Visible
  <2> HIDE DEF rows
  <2> QED
    BY <2>1, CertificateReadsAssumption, FS_Subset
<1>5. \A c \in rows : c \in Visible /\ BeforeCursor(c, reading.cursor) /\ issue[c].created \in Nat
  BY <1>t, <1>4 DEF ReadsTyped
<1>6. \A c \in Visible : Matches(c, reading.filter, reading.from) /\ BeforeCursor(c, reading.cursor) => c \in rows
  OBVIOUS
<1> HIDE DEF rows
<1>7. Cardinality(page) # reading.limit => page = rows
  BY <1>3, <1>4, FS_Subset
<1>8. Cardinality(page) = reading.limit => page # {}
  BY <1>2, FS_EmptySet
<1> DEFINE at == IF Cardinality(page) = reading.limit THEN "paging" ELSE "read"
           cursor == IF page = {} THEN reading.cursor ELSE CursorOf(page)
<1>9. reading' = PageTurned(reading, page, at, cursor)
  BY <1>1, <1>t DEF PageTurned, Run
<1>10. page # {} => /\ CursorOf(page) \in Nat /\ CursorOf(page) <= Oldest(page) /\ Oldest(page) \in Nat
                    /\ \A c \in page : Oldest(page) <= issue[c].created
                    /\ \E c \in page : Oldest(page) = issue[c].created
  <2> SUFFICES ASSUME page # {}
               PROVE  /\ CursorOf(page) \in Nat /\ CursorOf(page) <= Oldest(page) /\ Oldest(page) \in Nat
                      /\ \A c \in page : Oldest(page) <= issue[c].created
                      /\ \E c \in page : Oldest(page) = issue[c].created
    OBVIOUS
  <2>1. page \in SUBSET Certificates /\ \A c \in page : issue[c].created \in Nat
    BY <1>3, <1>4, <1>5
  <2>2. PICK c \in page : Oldest(page) = issue[c].created /\ \A d \in page : Oldest(page) <= issue[d].created
    BY <2>1, OldestIs
  <2>3. Oldest(page) \in Nat
    BY <2>1, <2>2
  <2>4. CursorOf(page) \in Nat /\ CursorOf(page) <= Oldest(page)
    BY <2>3, CursorIs DEF CursorOf
  <2> QED
    BY <2>2, <2>3, <2>4
<1>11. at \in {"paging", "read"} /\ cursor \in Nat \cup {NoCursor} /\ (page = {} => cursor = reading.cursor)
       /\ (page # {} => cursor = CursorOf(page)) /\ (at = "paging" <=> Cardinality(page) = reading.limit)
  BY <1>t, <1>10 DEF Run
<1> HIDE DEF at, cursor
<1> DEFINE n == Len(reading.listed)
<1>12. /\ reading.listed \in Seq(SUBSET Certificates) /\ n \in Nat
       /\ Append(reading.listed, page) \in Seq(SUBSET Certificates) /\ Len(Append(reading.listed, page)) = n + 1
       /\ Append(reading.listed, page)[n + 1] = page
       /\ \A m \in 1 .. n : Append(reading.listed, page)[m] = reading.listed[m]
  BY <1>3, <1>4, <1>t, AppendProperties DEF Run
<1> DEFINE listed == Append(reading.listed, page)
<1> HIDE DEF listed, n
<1>13. /\ reading' \in Run /\ reading'.listed = listed /\ reading'.at = at /\ reading'.cursor = cursor
       /\ reading'.limit = reading.limit /\ reading'.filter = reading.filter /\ reading'.from = reading.from
       /\ reading'.asked = reading.asked
  BY <1>9, <1>11, <1>12, <1>t DEF PageTurned, Run, listed
<1>14. /\ listed \in Seq(SUBSET Certificates) /\ Len(listed) = n + 1 /\ n \in Nat /\ listed[n + 1] = page
       /\ \A m \in 1 .. n : listed[m] = reading.listed[m]
       /\ PagesRead = 1 .. n /\ PagesRead' = 1 .. n + 1
  BY <1>12, <1>13 DEF listed, n, PagesRead
<1>15. ReadsTyped'
  BY <1>t, <1>2, <1>13 DEF ReadsTyped
<1>16. \A m \in 1 .. n : \A c \in reading.listed[m] :
         c \in Visible /\ reading.cursor # NoCursor /\ reading.cursor \in Nat
           /\ issue[c].created >= reading.cursor /\ issue[c].created \in Nat
  BY <1>t, <1>14 DEF ReadsTyped, Visible, ReadsInv, PagesHold, Run
<1>17. \A m \in 1 .. n : \A c \in reading.listed[m], d \in page : issue[c].created > issue[d].created
  BY <1>3, <1>5, <1>16 DEF BeforeCursor
<1>18. PagesHold'
  <2>1. ASSUME NEW m \in 1 .. n + 1, NEW c \in listed[m]
        PROVE  c \in Visible /\ cursor # NoCursor /\ issue[c].created >= cursor
    <3>1. CASE m = n + 1
      BY <3>1, <2>1, <1>14, <1>3, <1>5, <1>10, <1>11 DEF NoCursor
    <3>2. CASE m # n + 1
      <4>1. m \in 1 .. n /\ c \in reading.listed[m]
        BY <3>2, <2>1, <1>14
      <4>2. c \in Visible /\ reading.cursor # NoCursor /\ issue[c].created >= reading.cursor /\ issue[c].created \in Nat
        BY <4>1, <1>16
      <4>3. CASE page = {}
        BY <4>2, <4>3, <1>11
      <4>4. CASE page # {}
        <5>1. PICK d \in page : Oldest(page) = issue[d].created
          BY <4>4, <1>10
        <5>2. issue[c].created > issue[d].created
          BY <4>1, <1>17
        <5> QED
          BY <4>2, <4>4, <5>1, <5>2, <1>10, <1>11 DEF NoCursor
      <4> QED
        BY <4>3, <4>4
    <3> QED
      BY <3>1, <3>2
  <2>2. ASSUME NEW m \in 1 .. n + 1, NEW k \in 1 .. n + 1, m < k, NEW c \in listed[m], NEW d \in listed[k]
        PROVE  issue[c].created > issue[d].created
    <3>1. m \in 1 .. n /\ c \in reading.listed[m]
      BY <2>2, <1>14
    <3>2. CASE k = n + 1
      BY <3>1, <3>2, <2>2, <1>14, <1>17
    <3>3. CASE k # n + 1
      BY <3>3, <2>2, <1>14, <3>1 DEF ReadsInv, PagesHold
    <3> QED
      BY <3>2, <3>3
  <2>3. Visible' = Visible
    BY <1>2 DEF Visible
  <2> QED
    BY <1>2, <1>13, <1>14, <2>1, <2>2, <2>3 DEF PagesHold
<1>19. AskedHold'
  BY <1>2, <1>11, <1>13 DEF ReadsInv, AskedHold, Visible
<1>20. NoneLost'
  <2> SUFFICES ASSUME NEW c \in reading.asked, c \notin UNION {listed[m] : m \in 1 .. n + 1}
               PROVE  \/ ~Matches(c, reading.filter, reading.from)'
                      \/ PagePassed(c)'
                      \/ at = "paging" /\ BeforeCursor(c, reading.cursor)'
    BY <1>13, <1>14 DEF ListedBy, NoneLost
  <2>1. c \notin page
    BY <1>14
  <2>2. c \notin ListedBy(n)
    BY <1>14 DEF ListedBy
  <2>3. \/ ~Matches(c, reading.filter, reading.from) \/ PagePassed(c) \/ BeforeCursor(c, reading.cursor)
    BY <1>2, <2>2 DEF ReadsInv, NoneLost, n
  <2>4. Matches(c, reading.filter, reading.from)' <=> Matches(c, reading.filter, reading.from)
    BY <1>2, <1>13 DEF Matches
  <2>5. c \in Visible /\ issue[c].created \in Nat
    BY <1>t DEF ReadsInv, AskedHold, ReadsTyped, Visible
  <2>6. \A k \in SUBSET Certificates : Oldest(k)' = Oldest(k) /\ CursorOf(k)' = CursorOf(k)
    BY <1>2 DEF Oldest, CursorOf
  <2>7. CASE PagePassed(c)
    <3>1. PICK m \in 1 .. n : /\ Cardinality(reading.listed[m]) = reading.limit
                              /\ CursorOf(reading.listed[m]) <= issue[c].created
                              /\ issue[c].created <= Oldest(reading.listed[m])
      BY <2>7, <1>14 DEF PagePassed
    <3>2. m \in PagesRead' /\ reading'.listed[m] = reading.listed[m] /\ reading.listed[m] \in SUBSET Certificates
      BY <1>12, <1>13, <1>14 DEF n
    <3> QED
      BY <1>2, <1>13, <2>6, <3>1, <3>2 DEF PagePassed
  <2>8. CASE Matches(c, reading.filter, reading.from) /\ BeforeCursor(c, reading.cursor)
    <3>1. c \in rows \ page
      BY <1>6, <2>1, <2>5, <2>8
    <3>2. Cardinality(page) = reading.limit /\ page # {} /\ at = "paging" /\ cursor = CursorOf(page)
      BY <1>7, <1>8, <1>11, <3>1
    <3>3. issue[c].created <= Oldest(page) /\ CursorOf(page) \in Nat
      BY <1>3, <1>10, <3>1, <3>2
    <3>4. CASE CursorOf(page) <= issue[c].created
      BY <1>3, <1>4, <1>13, <1>14, <1>2, <2>6, <3>2, <3>3, <3>4 DEF PagePassed
    <3>5. CASE ~(CursorOf(page) <= issue[c].created)
      BY <2>5, <3>3, <3>5, <1>2, <1>13, <3>2 DEF BeforeCursor
    <3> QED
      BY <3>4, <3>5
  <2> QED
    BY <2>3, <2>4, <2>7, <2>8
<1> QED
  BY <1>15, <1>18, <1>19, <1>20 DEF ReadsInv

(* Every step of the database and the reader.                              *)
LEMMA ReadsSteps == ReadsInv /\ [ReadsNext]_readsVars => ReadsInv'
<1> SUFFICES ASSUME ReadsInv, [ReadsNext]_readsVars PROVE ReadsInv'
  OBVIOUS
<1>t. ReadsTyped
  BY DEF ReadsInv
<1>1. CASE MomentPasses \/ UNCHANGED readsVars
  BY <1>1, <1>t, IssuesKeep DEF MomentPasses, readsVars, ReadsTyped
<1>2. ASSUME NEW c \in Certificates, BeginIssue(c) PROVE ReadsInv'
  BY <1>2, <1>t, IssuesKeep DEF BeginIssue, ReadsTyped, Visible
<1>3. ASSUME NEW c \in Certificates, CommitIssue(c) PROVE ReadsInv'
  BY <1>3, <1>t, IssuesKeep DEF CommitIssue, ReadsTyped, Visible
<1>4. ASSUME NEW c \in Certificates, RevokeCertificate(c) PROVE ReadsInv'
  BY <1>4, <1>t, IssuesKeep DEF RevokeCertificate, ReadsTyped, Visible
<1>5. CASE StopReading
  <2>1. reading' = [NotReading EXCEPT !.runs = reading.runs] /\ UNCHANGED <<moment, issue, status>>
    BY <1>5 DEF StopReading
  <2>2. reading' \in Run /\ reading'.at = "idle" /\ reading'.listed = <<>> /\ reading'.asked = {}
    BY <1>t, <2>1, EmptySeq DEF ReadsTyped, NotReading, Run, ListFilters, Froms
  <2> QED
    BY <1>t, <2>1, <2>2 DEF ReadsInv, ReadsTyped, PagesHold, PagesRead, AskedHold, NoneLost
<1> QED
  BY <1>1, <1>2, <1>3, <1>4, <1>5, StartingReads, ReadingPages DEF ReadsNext

(* The list is then whole, and pages and files agree.                      *)
LEMMA ReadsHold == ReadsInv => ReadsHonest
BY DEF ReadsInv, PagesHold, NoneLost, ListIsWhole, PagePassed, ReadsTyped, PagesAreVerifiable, ProofPage,
   CertificateFile, Visible, ReadsHonest

-----------------------------------------------------------------------------
(***************************************************************************)
(* The agent gateway: what each step does to its connection and to the     *)
(* adapter (agentgateway.py, mcp-server.py).                               *)
(***************************************************************************)

ConnFields == {"at", "ask", "file", "stat", "held", "since", "ran", "answer", "lists", "admitted"}
AdapterFields == {"commands", "at", "op", "call", "on", "heard"}
FileFields == {"holds", "mtime"}
AskedOf == {"stat", "read", "assign", "note", "use", "limit"}

GateTyped ==
  /\ DOMAIN conn = Connections
  /\ \A c \in Connections :
       /\ DOMAIN conn[c] = ConnFields /\ DOMAIN conn[c].since = GatewayFiles
       /\ conn[c].stat \in Int /\ conn[c].admitted \in Int
       /\ conn[c].at \in AskedOf \cup {"new", "running", "closed"}
       /\ conn[c].at \in AskedOf => conn[c].file \in GatewayFiles
  /\ DOMAIN watched = GatewayFiles /\ DOMAIN cache = GatewayFiles
  /\ \A f \in GatewayFiles : DOMAIN watched[f] = FileFields /\ watched[f].mtime \in Nat
  /\ \A f \in GatewayFiles : DOMAIN cache[f] = FileFields /\ cache[f].mtime \in Int
  /\ DOMAIN buckets = AllowedCallers /\ \A k \in AllowedCallers : buckets[k] \in Seq(Int)
  /\ DOMAIN sampled = Connections /\ \A c \in Connections : sampled[c] \in Int
  /\ gatewayTime \in Nat /\ gatewayAt \in {"reading", "noting", "up"}
  /\ DOMAIN adapter = AdapterFields /\ adapter.call \in Nat

-----------------------------------------------------------------------------
(* The connection's record after a step that does not close it.            *)
Turned(c, at, ask, file, stat, held, since, ran, answer, lists, admitted) ==
  /\ DOMAIN conn' = Connections /\ \A d \in Connections : d # c => conn'[d] = conn[d]
  /\ DOMAIN conn'[c] = ConnFields
  /\ conn'[c].at = at /\ conn'[c].ask = ask /\ conn'[c].file = file /\ conn'[c].stat = stat /\ conn'[c].held = held
  /\ conn'[c].since = since /\ conn'[c].ran = ran /\ conn'[c].answer = answer /\ conn'[c].lists = lists
  /\ conn'[c].admitted = admitted

(* The record of a connection that closed.                                 *)
Shut(c, ask, ran, answer, admitted) ==
  /\ DOMAIN conn' = Connections /\ \A d \in Connections : d # c => conn'[d] = conn[d]
  /\ DOMAIN conn'[c] = ConnFields /\ DOMAIN conn'[c].since = GatewayFiles
  /\ conn'[c].at = "closed" /\ conn'[c].ran = ran /\ conn'[c].admitted = admitted /\ conn'[c].stat = -1
  /\ conn'[c].held = "none"
  /\ IF ask.call # 0 THEN conn'[c].ask = ask /\ conn'[c].answer = answer
     ELSE conn'[c].ask = [path |-> "closed", caller |-> ask.caller, call |-> 0]

(* A step that leaves its connection open, field by field ...              *)
LEMMA TurnsOn ==
  ASSUME GateTyped, NEW c \in Connections, NEW next, DOMAIN next = ConnFields, Turns(c, next), next.at # "closed"
  PROVE  Turned(c, next.at, next.ask, next.file, next.stat, next.held, next.since, next.ran, next.answer, next.lists, next.admitted)
BY DEF Turns, GateTyped, Turned

(* ... and one that ends it.                                               *)
LEMMA TurnsShut ==
  ASSUME GateTyped, NEW c \in Connections, NEW next, DOMAIN next = ConnFields, Turns(c, next), next.at = "closed"
  PROVE  Shut(c, next.ask, next.ran, next.answer, next.admitted)
<1>1. conn' = [conn EXCEPT ![c] = Forgot(next)]
  BY DEF Turns
<1>2. DOMAIN conn = Connections
  BY DEF GateTyped
<1>3. DOMAIN conn' = Connections /\ conn'[c] = Forgot(next) /\ \A d \in Connections : d # c => conn'[d] = conn[d]
  BY <1>1, <1>2
<1> DEFINE none == [f \in GatewayFiles |-> {}]
           shut == [next EXCEPT !.file = "none", !.stat = -1, !.held = "none", !.since = none]
           seen == [path |-> "closed", caller |-> next.ask.caller, call |-> 0]
<1>4. DOMAIN none = GatewayFiles
  OBVIOUS
<1> HIDE DEF none
<1>5. /\ DOMAIN shut = ConnFields /\ shut.since = none /\ shut.at = next.at /\ shut.ran = next.ran
      /\ shut.admitted = next.admitted /\ shut.stat = -1 /\ shut.ask = next.ask /\ shut.answer = next.answer
      /\ shut.held = "none"
  BY DEF ConnFields
<1>6. Forgot(next) = IF next.ask.call # 0 THEN shut
                     ELSE [shut EXCEPT !.answer = "told", !.lists = "none", !.ask = [path |-> "closed", caller |-> next.ask.caller, call |-> 0]]
  BY DEF Forgot, none
<1> HIDE DEF shut
<1>7. CASE next.ask.call # 0
  BY <1>3, <1>4, <1>5, <1>6, <1>7 DEF Shut
<1>8. CASE next.ask.call = 0
  <2> DEFINE last == [shut EXCEPT !.answer = "told", !.lists = "none", !.ask = seen]
  <2>1. conn'[c] = last
    BY <1>3, <1>6, <1>8
  <2> HIDE DEF seen
  <2>2. /\ DOMAIN last = ConnFields /\ last.since = none /\ last.at = next.at /\ last.ran = next.ran
        /\ last.admitted = next.admitted /\ last.stat = -1 /\ last.ask = seen
        /\ last.held = "none"
    BY <1>5 DEF ConnFields
  <2> HIDE DEF last
  <2> QED
    BY <1>3, <1>4, <2>1, <2>2, <1>8 DEF Shut, seen
<1> QED
  BY <1>7, <1>8

(* What the steps of a connection do to it.                                *)
LEMMA ArrivesDoes ==
  ASSUME GateTyped, NEW c \in Connections, NEW ask, Arrives(c, ask)
  PROVE  LET k == conn[c]
         IN  /\ gatewayAt = "up" /\ k.at = "new"
             /\ \/ \E file \in GatewayFiles :
                     /\ Turned(c, "stat", ask, file, k.stat, k.held, k.since, k.ran, k.answer, k.lists, k.admitted)
                     /\ file = "registry" => ask.path = "health"
                     /\ file = "token" => ask.path # "health" /\ ask.caller \in AllowedCallers
                \/ \E answer \in {"401", "403"} : Shut(c, ask, k.ran, answer, k.admitted)
<1>1. DOMAIN conn[c] = ConnFields /\ gatewayAt = "up" /\ conn[c].at = "new"
  BY DEF GateTyped, Arrives
<1> DEFINE asks(file) == [conn[c] EXCEPT !.at = "stat", !.file = file, !.ask = ask]
           turned(outcome) == [conn[c] EXCEPT !.at = "closed", !.ask = ask, !.answer = outcome]
<1>2. \/ ask.path = "health" /\ Turns(c, asks("registry"))
      \/ Turns(c, turned("403"))
      \/ Turns(c, turned("401"))
      \/ ask.path # "health" /\ ask.caller \in AllowedCallers /\ Turns(c, asks("token"))
  BY DEF Arrives
<1>3. ASSUME NEW file, Turns(c, asks(file))
      PROVE  Turned(c, "stat", ask, file, conn[c].stat, conn[c].held, conn[c].since, conn[c].ran, conn[c].answer, conn[c].lists,
                    conn[c].admitted)
  <2> DEFINE next == asks(file)
  <2>1. /\ DOMAIN next = ConnFields /\ next.at = "stat" /\ next.ask = ask /\ next.file = file /\ next.stat = conn[c].stat
        /\ next.held = conn[c].held /\ next.since = conn[c].since /\ next.ran = conn[c].ran /\ next.answer = conn[c].answer
        /\ next.lists = conn[c].lists /\ next.admitted = conn[c].admitted
    BY <1>1 DEF ConnFields
  <2>2. Turns(c, next)
    BY <1>3
  <2> HIDE DEF next
  <2> QED
    BY <2>1, <2>2, TurnsOn
<1>4. ASSUME NEW outcome, Turns(c, turned(outcome)) PROVE Shut(c, ask, conn[c].ran, outcome, conn[c].admitted)
  <2> DEFINE next == turned(outcome)
  <2>1. /\ DOMAIN next = ConnFields /\ next.at = "closed" /\ next.ask = ask /\ next.ran = conn[c].ran /\ next.answer = outcome
        /\ next.admitted = conn[c].admitted
    BY <1>1 DEF ConnFields
  <2>2. Turns(c, next)
    BY <1>4
  <2> HIDE DEF next
  <2> QED
    BY <2>1, <2>2, TurnsShut
<1> HIDE DEF asks, turned
<1>5. {"token", "registry"} = GatewayFiles
  BY DEF GatewayFiles
<1> QED
  BY <1>1, <1>2, <1>3, <1>4, <1>5

(* The time of a file is looked at (agentgateway.py:46).                   *)
LEMMA StatDoes ==
  ASSUME GateTyped, NEW c \in Connections, StatFile(c)
  PROVE  LET k == conn[c]
             f == k.file
         IN  /\ k.at = "stat"
             /\ Turned(c, IF watched[f].holds = Absent \/ watched[f].mtime = cache[f].mtime THEN "use" ELSE "read", k.ask, f,
                       watched[f].mtime, IF watched[f].holds = Absent THEN Absent ELSE "none",
                       [k.since EXCEPT ![f] = {watched[f].holds}], k.ran, k.answer, k.lists, k.admitted)
<1> DEFINE f == conn[c].file
           at == IF watched[f].holds = Absent \/ watched[f].mtime = cache[f].mtime THEN "use" ELSE "read"
           held == IF watched[f].holds = Absent THEN Absent ELSE "none"
           since == [conn[c].since EXCEPT ![f] = {watched[f].holds}]
           stat == watched[f].mtime
           next == [conn[c] EXCEPT !.at = at, !.stat = stat, !.held = held, !.since = since]
<1>1. DOMAIN conn[c] = ConnFields
  BY DEF GateTyped
<1>2. Turns(c, next) /\ conn[c].at = "stat"
  <2>1. next = [conn[c] EXCEPT !.at = at, !.stat = watched[f].mtime, !.held = held, !.since[f] = {watched[f].holds}]
    OBVIOUS
  <2> HIDE DEF next
  <2> QED
    BY <2>1 DEF StatFile
<1>3. at # "closed"
  OBVIOUS
<1> HIDE DEF at, held, since, stat
<1>4. /\ DOMAIN next = ConnFields /\ next.at = at /\ next.ask = conn[c].ask /\ next.file = f /\ next.stat = stat
      /\ next.held = held /\ next.since = since /\ next.ran = conn[c].ran /\ next.answer = conn[c].answer
      /\ next.lists = conn[c].lists /\ next.admitted = conn[c].admitted
  BY <1>1 DEF ConnFields
<1> HIDE DEF next
<1>5. Turned(c, at, conn[c].ask, f, stat, held, since, conn[c].ran, conn[c].answer, conn[c].lists, conn[c].admitted)
  BY <1>2, <1>3, <1>4, TurnsOn
<1> QED
  BY <1>2, <1>5 DEF at, held, since, stat

(* A file that changed is read.                                            *)
LEMMA ReadDoes ==
  ASSUME GateTyped, NEW c \in Connections, ReadFile(c)
  PROVE  LET k == conn[c]
         IN  /\ k.at = "read"
             /\ \/ Shut(c, k.ask, k.ran, "dropped", k.admitted)
                \/ Turned(c, "assign", k.ask, k.file, k.stat, watched[k.file].holds, k.since, k.ran, k.answer, k.lists, k.admitted)
<1>1. DOMAIN conn[c] = ConnFields
  BY DEF GateTyped
<1> DEFINE f == conn[c].file
           gone == [conn[c] EXCEPT !.at = "closed", !.answer = "dropped"]
           next == [conn[c] EXCEPT !.at = "assign", !.held = watched[f].holds]
<1>2. conn[c].at = "read" /\ (Turns(c, gone) \/ Turns(c, next))
  BY DEF ReadFile, HangsUp
<1>3. /\ DOMAIN gone = ConnFields /\ gone.at = "closed" /\ gone.ask = conn[c].ask /\ gone.ran = conn[c].ran
      /\ gone.answer = "dropped" /\ gone.admitted = conn[c].admitted
  BY <1>1 DEF ConnFields
<1>4. /\ DOMAIN next = ConnFields /\ next.at = "assign" /\ next.ask = conn[c].ask /\ next.file = f /\ next.stat = conn[c].stat
      /\ next.held = watched[f].holds /\ next.since = conn[c].since /\ next.ran = conn[c].ran /\ next.answer = conn[c].answer
      /\ next.lists = conn[c].lists /\ next.admitted = conn[c].admitted
  BY <1>1 DEF ConnFields
<1> HIDE DEF gone, next
<1>5. CASE Turns(c, gone)
  BY <1>2, <1>3, <1>5, TurnsShut
<1>6. CASE Turns(c, next)
  BY <1>4, <1>6, TurnsOn, <1>2
<1> QED
  BY <1>2, <1>5, <1>6

(* What was read is cached ...                                             *)
LEMMA AssignDoes ==
  ASSUME GateTyped, NEW c \in Connections, AssignCache(c)
  PROVE  LET k == conn[c]
         IN  /\ k.at = "assign" /\ cache' = [cache EXCEPT ![k.file].holds = k.held]
             /\ Turned(c, "note", k.ask, k.file, k.stat, k.held, k.since, k.ran, k.answer, k.lists, k.admitted)
<1>1. DOMAIN conn[c] = ConnFields
  BY DEF GateTyped
<1> DEFINE next == [conn[c] EXCEPT !.at = "note"]
<1>2. conn[c].at = "assign" /\ Turns(c, next) /\ cache' = [cache EXCEPT ![conn[c].file].holds = conn[c].held]
  BY DEF AssignCache
<1>3. /\ DOMAIN next = ConnFields /\ next.at = "note" /\ next.ask = conn[c].ask /\ next.file = conn[c].file /\ next.stat = conn[c].stat
      /\ next.held = conn[c].held /\ next.since = conn[c].since /\ next.ran = conn[c].ran /\ next.answer = conn[c].answer
      /\ next.lists = conn[c].lists /\ next.admitted = conn[c].admitted
  BY <1>1 DEF ConnFields
<1> HIDE DEF next
<1> QED
  BY <1>2, <1>3, TurnsOn

(* ... and then its time.                                                  *)
LEMMA NoteDoes ==
  ASSUME GateTyped, NEW c \in Connections, NoteTime(c)
  PROVE  LET k == conn[c]
         IN  /\ k.at = "note" /\ cache' = [cache EXCEPT ![k.file].mtime = k.stat]
             /\ Turned(c, "use", k.ask, k.file, k.stat, "none", k.since, k.ran, k.answer, k.lists, k.admitted)
<1>1. DOMAIN conn[c] = ConnFields
  BY DEF GateTyped
<1> DEFINE next == [conn[c] EXCEPT !.at = "use", !.held = "none"]
<1>2. conn[c].at = "note" /\ Turns(c, next) /\ cache' = [cache EXCEPT ![conn[c].file].mtime = conn[c].stat]
  BY DEF NoteTime
<1>3. /\ DOMAIN next = ConnFields /\ next.at = "use" /\ next.ask = conn[c].ask /\ next.file = conn[c].file /\ next.stat = conn[c].stat
      /\ next.held = "none" /\ next.since = conn[c].since /\ next.ran = conn[c].ran /\ next.answer = conn[c].answer
      /\ next.lists = conn[c].lists /\ next.admitted = conn[c].admitted
  BY <1>1 DEF ConnFields
<1> HIDE DEF next
<1> QED
  BY <1>2, <1>3, TurnsOn

(* The cached token decides who gets to the limit ...                      *)
LEMMA TokenDoes ==
  ASSUME GateTyped, NEW c \in Connections, UseToken(c)
  PROVE  LET k == conn[c]
         IN  /\ k.at = "use" /\ k.file = "token" /\ buckets' = buckets
             /\ \/ Shut(c, k.ask, k.ran, "401", k.admitted) /\ sampled' = sampled
                \/ /\ IsToken(c) /\ sampled' = [sampled EXCEPT ![c] = gatewayTime]
                   /\ Turned(c, "limit", k.ask, k.file, k.stat, k.held, k.since, k.ran, k.answer, k.lists, k.admitted)
<1>1. DOMAIN conn[c] = ConnFields
  BY DEF GateTyped
<1> DEFINE gone == [conn[c] EXCEPT !.at = "closed", !.answer = "401"]
           next == [conn[c] EXCEPT !.at = "limit"]
<1>2. /\ conn[c].at = "use" /\ conn[c].file = "token" /\ buckets' = buckets
      /\ IF ~IsToken(c) THEN Turns(c, gone) /\ sampled' = sampled
         ELSE Turns(c, next) /\ sampled' = [sampled EXCEPT ![c] = gatewayTime]
  BY Zenon DEF UseToken, HangsUp
<1>3. /\ DOMAIN gone = ConnFields /\ gone.at = "closed" /\ gone.ask = conn[c].ask /\ gone.ran = conn[c].ran
      /\ gone.answer = "401" /\ gone.admitted = conn[c].admitted
  BY <1>1 DEF ConnFields
<1>4. /\ DOMAIN next = ConnFields /\ next.at = "limit" /\ next.ask = conn[c].ask /\ next.file = conn[c].file /\ next.stat = conn[c].stat
      /\ next.held = conn[c].held /\ next.since = conn[c].since /\ next.ran = conn[c].ran /\ next.answer = conn[c].answer
      /\ next.lists = conn[c].lists /\ next.admitted = conn[c].admitted
  BY <1>1 DEF ConnFields
<1> HIDE DEF gone, next
<1>5. CASE IsToken(c)
  BY <1>2, <1>4, <1>5, TurnsOn
<1>6. CASE ~IsToken(c)
  BY <1>2, <1>3, <1>6, TurnsShut
<1> QED
  BY <1>5, <1>6

(* ... and the window of the caller, at a time since then, who gets on.    *)
LEMMA AllowDoes ==
  ASSUME GateTyped, NEW c \in Connections, AllowRequest(c), conn[c].ask.path \in {"commands", "dispatch"}
  PROVE  LET k == conn[c]
             who == k.ask.caller
         IN  /\ k.at = "limit" /\ k.file = "token"
             /\ \E now \in sampled[c] .. gatewayTime :
                  \/ /\ buckets' = [buckets EXCEPT ![who] = InWindow(who, now)] /\ sampled' = [sampled EXCEPT ![c] = -1]
                     /\ Shut(c, k.ask, k.ran, "429", k.admitted)
                  \/ /\ Admits(who, now) /\ buckets' = [buckets EXCEPT ![who] = Append(InWindow(who, now), now)]
                     /\ sampled' = [sampled EXCEPT ![c] = now]
                     /\ \/ k.ask.path = "commands" /\ Shut(c, k.ask, k.ran, "200", gatewayTime)
                        \/ k.ask.path = "dispatch" /\ Shut(c, k.ask, k.ran, "400", gatewayTime)
                        \/ k.ask.path = "dispatch"
                           /\ Turned(c, "stat", k.ask, "registry", k.stat, k.held, k.since, k.ran, k.answer, k.lists, gatewayTime)
<1>1. DOMAIN conn[c] = ConnFields
  BY DEF GateTyped
<1> DEFINE ask == conn[c].ask
           gone == [conn[c] EXCEPT !.at = "closed", !.answer = "429"]
           listed == [Admitted(c) EXCEPT !.at = "closed", !.answer = "200", !.lists = cache["registry"].holds]
           next == [Admitted(c) EXCEPT !.at = "stat", !.file = "registry"]
           bad == [Admitted(c) EXCEPT !.at = "closed", !.answer = "400"]
<1>2. /\ conn[c].at = "limit" /\ conn[c].file = "token"
      /\ \E now \in sampled[c] .. gatewayTime :
           IF Admits(ask.caller, now)
           THEN /\ buckets' = [buckets EXCEPT ![ask.caller] = Append(InWindow(ask.caller, now), now)]
                /\ sampled' = [sampled EXCEPT ![c] = now]
                /\ CASE ask.path = "commands" -> Turns(c, listed)
                     [] ask.path = "dispatch" /\ ask.params # "bad body" -> Turns(c, next)
                     [] ask.path = "dispatch" /\ ask.params = "bad body" -> Turns(c, bad)
           ELSE /\ buckets' = [buckets EXCEPT ![ask.caller] = InWindow(ask.caller, now)]
                /\ sampled' = [sampled EXCEPT ![c] = -1]
                /\ Turns(c, gone)
  BY Zenon DEF AllowRequest, HangsUp
<1>3. PICK now \in sampled[c] .. gatewayTime :
        IF Admits(ask.caller, now)
        THEN /\ buckets' = [buckets EXCEPT ![ask.caller] = Append(InWindow(ask.caller, now), now)]
             /\ sampled' = [sampled EXCEPT ![c] = now]
             /\ CASE ask.path = "commands" -> Turns(c, listed)
                  [] ask.path = "dispatch" /\ ask.params # "bad body" -> Turns(c, next)
                  [] ask.path = "dispatch" /\ ask.params = "bad body" -> Turns(c, bad)
        ELSE /\ buckets' = [buckets EXCEPT ![ask.caller] = InWindow(ask.caller, now)]
             /\ sampled' = [sampled EXCEPT ![c] = -1]
             /\ Turns(c, gone)
  BY <1>2, Zenon
<1>4. ASSUME Turns(c, gone) PROVE Shut(c, ask, conn[c].ran, "429", conn[c].admitted)
  <2>1. /\ DOMAIN gone = ConnFields /\ gone.at = "closed" /\ gone.ask = ask /\ gone.ran = conn[c].ran
        /\ gone.answer = "429" /\ gone.admitted = conn[c].admitted
    BY <1>1 DEF ConnFields
  <2> HIDE DEF gone
  <2> QED
    BY <1>4, <2>1, TurnsShut
<1> DEFINE admitted == Admitted(c)
<1>5. /\ DOMAIN admitted = ConnFields /\ admitted.ask = ask /\ admitted.stat = conn[c].stat /\ admitted.held = conn[c].held
      /\ admitted.since = conn[c].since /\ admitted.ran = conn[c].ran /\ admitted.answer = conn[c].answer
      /\ admitted.lists = conn[c].lists /\ admitted.admitted = gatewayTime
  BY <1>1 DEF ConnFields, Admitted
<1>6. listed = [admitted EXCEPT !.at = "closed", !.answer = "200", !.lists = cache["registry"].holds]
      /\ next = [admitted EXCEPT !.at = "stat", !.file = "registry"] /\ bad = [admitted EXCEPT !.at = "closed", !.answer = "400"]
  OBVIOUS
<1> HIDE DEF admitted, listed, next, bad, gone, ask
<1>7. ASSUME Turns(c, listed) PROVE Shut(c, ask, conn[c].ran, "200", gatewayTime)
  <2>1. /\ DOMAIN listed = ConnFields /\ listed.at = "closed" /\ listed.ask = ask /\ listed.ran = conn[c].ran
        /\ listed.answer = "200" /\ listed.admitted = gatewayTime
    BY <1>5, <1>6 DEF ConnFields
  <2> QED
    BY <1>7, <2>1, TurnsShut
<1>8. ASSUME Turns(c, bad) PROVE Shut(c, ask, conn[c].ran, "400", gatewayTime)
  <2>1. /\ DOMAIN bad = ConnFields /\ bad.at = "closed" /\ bad.ask = ask /\ bad.ran = conn[c].ran
        /\ bad.answer = "400" /\ bad.admitted = gatewayTime
    BY <1>5, <1>6 DEF ConnFields
  <2> QED
    BY <1>8, <2>1, TurnsShut
<1>9. ASSUME Turns(c, next)
      PROVE  Turned(c, "stat", ask, "registry", conn[c].stat, conn[c].held, conn[c].since, conn[c].ran, conn[c].answer,
                    conn[c].lists, gatewayTime)
  <2>1. /\ DOMAIN next = ConnFields /\ next.at = "stat" /\ next.ask = ask /\ next.file = "registry" /\ next.stat = conn[c].stat
        /\ next.held = conn[c].held /\ next.since = conn[c].since /\ next.ran = conn[c].ran /\ next.answer = conn[c].answer
        /\ next.lists = conn[c].lists /\ next.admitted = gatewayTime
    BY <1>5, <1>6 DEF ConnFields
  <2> QED
    BY <1>9, <2>1, TurnsOn
<1>10. ask.path \in {"commands", "dispatch"}
  BY DEF ask
<1> DEFINE entered == buckets' = [buckets EXCEPT ![ask.caller] = Append(InWindow(ask.caller, now), now)]
           noted == sampled' = [sampled EXCEPT ![c] = now]
           left == buckets' = [buckets EXCEPT ![ask.caller] = InWindow(ask.caller, now)] /\ sampled' = [sampled EXCEPT ![c] = -1]
<1>11. CASE Admits(ask.caller, now)
  <2>1. /\ entered /\ noted
        /\ CASE ask.path = "commands" -> Turns(c, listed)
             [] ask.path = "dispatch" /\ ask.params # "bad body" -> Turns(c, next)
             [] ask.path = "dispatch" /\ ask.params = "bad body" -> Turns(c, bad)
    BY <1>3, <1>11
  <2> HIDE DEF entered, noted
  <2>2. entered /\ noted /\ \/ ask.path = "commands" /\ Turns(c, listed)
                            \/ ask.path = "dispatch" /\ (Turns(c, next) \/ Turns(c, bad))
    BY <1>10, <2>1
  <2> QED
    BY <1>2, <1>7, <1>8, <1>9, <1>11, <2>2, Zenon DEF entered, noted, ask
<1>12. CASE ~Admits(ask.caller, now)
  <2>1. left /\ Turns(c, gone)
    BY <1>3, <1>12
  <2> QED
    BY <1>2, <1>4, <2>1, Zenon DEF left, ask
<1> QED
  BY <1>11, <1>12

(* The cached registry decides what runs.                                  *)
LEMMA RegistryDoes ==
  ASSUME GateTyped, NEW c \in Connections, UseRegistry(c), conn[c].ask.path \in {"health", "dispatch"}
  PROVE  LET k == conn[c]
         IN  /\ k.at = "use" /\ k.file = "registry"
             /\ \/ k.ask.path = "health" /\ Shut(c, k.ask, k.ran, "200", k.admitted)
                \/ k.ask.path = "dispatch" /\ \E answer \in {"404", "400"} : Shut(c, k.ask, k.ran, answer, k.admitted)
                \/ k.ask.path = "dispatch"
                   /\ Turned(c, "running", k.ask, k.file, k.stat, k.held, k.since, cache["registry"].holds, k.answer, k.lists, k.admitted)
<1>1. DOMAIN conn[c] = ConnFields
  BY DEF GateTyped
<1> DEFINE turned(outcome) == [conn[c] EXCEPT !.at = "closed", !.answer = outcome]
           next == [conn[c] EXCEPT !.at = "running", !.ran = cache["registry"].holds]
<1>2. /\ conn[c].at = "use" /\ conn[c].file = "registry"
      /\ \/ conn[c].ask.path = "health" /\ Turns(c, turned("200"))
         \/ conn[c].ask.path = "dispatch" /\ Turns(c, turned("404"))
         \/ conn[c].ask.path = "dispatch" /\ Turns(c, turned("400"))
         \/ conn[c].ask.path = "dispatch" /\ Turns(c, next)
  <2>1. /\ conn[c].at = "use" /\ conn[c].file = "registry"
        /\ CASE conn[c].ask.path = "health" -> Turns(c, turned("200"))
            [] conn[c].ask.path = "dispatch" /\ cache["registry"].holds = "empty" -> Turns(c, turned("404"))
            [] conn[c].ask.path = "dispatch" /\ cache["registry"].holds # "empty" /\ conn[c].ask.params = "bad" ->
                 Turns(c, turned("400"))
            [] OTHER -> Turns(c, next)
    BY Zenon DEF UseRegistry, HangsUp
  <2> HIDE DEF turned, next
  <2> QED
    BY <2>1
<1>4. ASSUME NEW outcome, Turns(c, turned(outcome)) PROVE Shut(c, conn[c].ask, conn[c].ran, outcome, conn[c].admitted)
  <2> DEFINE over == turned(outcome)
  <2>1. /\ DOMAIN over = ConnFields /\ over.at = "closed" /\ over.ask = conn[c].ask /\ over.ran = conn[c].ran
        /\ over.answer = outcome /\ over.admitted = conn[c].admitted
    BY <1>1 DEF ConnFields
  <2>2. Turns(c, over)
    BY <1>4
  <2> HIDE DEF over
  <2> QED
    BY <2>1, <2>2, TurnsShut
<1>5. ASSUME Turns(c, next)
      PROVE  Turned(c, "running", conn[c].ask, conn[c].file, conn[c].stat, conn[c].held, conn[c].since, cache["registry"].holds,
                    conn[c].answer, conn[c].lists, conn[c].admitted)
  <2>1. /\ DOMAIN next = ConnFields /\ next.at = "running" /\ next.ask = conn[c].ask /\ next.file = conn[c].file
        /\ next.stat = conn[c].stat /\ next.held = conn[c].held /\ next.since = conn[c].since /\ next.ran = cache["registry"].holds
        /\ next.answer = conn[c].answer /\ next.lists = conn[c].lists /\ next.admitted = conn[c].admitted
    BY <1>1 DEF ConnFields
  <2> HIDE DEF next
  <2> QED
    BY <1>5, <2>1, TurnsOn
<1> HIDE DEF turned, next
<1> QED
  BY <1>2, <1>4, <1>5

(* A command ends, runs out of time or breaks its connection.              *)
LEMMA EndDoes ==
  ASSUME GateTyped, NEW c \in Connections, CommandEnds(c)
  PROVE  LET k == conn[c]
         IN  /\ k.at = "running"
             /\ \/ Shut(c, k.ask, k.ran, "200", k.admitted) /\ auditLog' = auditLog \cup {<<c, "dispatch">>}
                \/ Shut(c, k.ask, k.ran, "504", k.admitted) /\ auditLog' = auditLog \cup {<<c, "timeout">>}
                \/ Shut(c, k.ask, "nothing", "dropped", k.admitted) /\ auditLog' = auditLog
<1>1. DOMAIN conn[c] = ConnFields
  BY DEF GateTyped
<1> DEFINE turned(outcome) == [conn[c] EXCEPT !.at = "closed", !.answer = outcome]
           unran == [conn[c] EXCEPT !.at = "closed", !.answer = "dropped", !.ran = "nothing"]
<1>2. /\ conn[c].at = "running"
      /\ \/ Turns(c, turned("200")) /\ auditLog' = auditLog \cup {<<c, "dispatch">>}
         \/ Turns(c, turned("504")) /\ auditLog' = auditLog \cup {<<c, "timeout">>}
         \/ Turns(c, unran) /\ auditLog' = auditLog
  BY Zenon DEF CommandEnds, Audits
<1>3. ASSUME NEW outcome, Turns(c, turned(outcome)) PROVE Shut(c, conn[c].ask, conn[c].ran, outcome, conn[c].admitted)
  <2> DEFINE over == turned(outcome)
  <2>1. /\ DOMAIN over = ConnFields /\ over.at = "closed" /\ over.ask = conn[c].ask /\ over.ran = conn[c].ran
        /\ over.answer = outcome /\ over.admitted = conn[c].admitted
    BY <1>1 DEF ConnFields
  <2>2. Turns(c, over)
    BY <1>3
  <2> HIDE DEF over
  <2> QED
    BY <2>1, <2>2, TurnsShut
<1>4. ASSUME Turns(c, unran) PROVE Shut(c, conn[c].ask, "nothing", "dropped", conn[c].admitted)
  <2>1. /\ DOMAIN unran = ConnFields /\ unran.at = "closed" /\ unran.ask = conn[c].ask /\ unran.ran = "nothing"
        /\ unran.answer = "dropped" /\ unran.admitted = conn[c].admitted
    BY <1>1 DEF ConnFields
  <2> HIDE DEF unran
  <2> QED
    BY <1>4, <2>1, TurnsShut
<1> HIDE DEF turned, unran
<1> QED
  BY <1>2, <1>3, <1>4, Zenon

(* An edit and what the requests in hand see of it.                        *)
LEMMA EditDoes ==
  ASSUME GateTyped, NEW f \in GatewayFiles, Edit(f)
  PROVE  /\ DOMAIN conn' = Connections
         /\ \A c \in Connections :
              LET k == conn[c]
                  next == conn'[c]
              IN  /\ DOMAIN next = ConnFields /\ next.at = k.at /\ next.ask = k.ask /\ next.file = k.file /\ next.stat = k.stat
                  /\ next.held = k.held /\ next.ran = k.ran /\ next.answer = k.answer /\ next.lists = k.lists
                  /\ next.admitted = k.admitted
                  /\ next.since = IF k.at \in {"new", "closed"} THEN k.since
                                  ELSE [k.since EXCEPT ![f] = @ \cup {watched'[f].holds}]
         /\ DOMAIN watched' = GatewayFiles /\ DOMAIN watched'[f] = FileFields /\ watched'[f].mtime = watched[f].mtime + 1
         /\ \A g \in GatewayFiles : g # f => watched'[g] = watched[g]
         /\ watched'[f].holds \in {Emptied, Absent} \cup Edits[f]
<1>1. conn' = [c \in Connections |-> IF conn[c].at \in {"new", "closed"} THEN conn[c]
                                    ELSE [conn[c] EXCEPT !.since[f] = @ \cup {watched'[f].holds}]]
  BY DEF Edit
<1>2. PICK v \in {Emptied, Absent} \cup Edits[f] : watched' = [watched EXCEPT ![f] = [holds |-> v, mtime |-> @.mtime + 1]]
  BY DEF Edit
<1> DEFINE new == [holds |-> v, mtime |-> watched[f].mtime + 1]
<1>3. watched' = [watched EXCEPT ![f] = new] /\ DOMAIN watched = GatewayFiles
  BY <1>2 DEF GateTyped
<1>4. DOMAIN new = FileFields /\ new.mtime = watched[f].mtime + 1 /\ new.holds = v
  BY DEF FileFields
<1> HIDE DEF new
<1>5. DOMAIN watched' = GatewayFiles /\ watched'[f] = new /\ \A g \in GatewayFiles : g # f => watched'[g] = watched[g]
  BY <1>3
<1>6. ASSUME NEW c \in Connections
      PROVE  LET k == conn[c]
                 next == conn'[c]
             IN  /\ DOMAIN next = ConnFields /\ next.at = k.at /\ next.ask = k.ask /\ next.file = k.file /\ next.stat = k.stat
                 /\ next.held = k.held /\ next.ran = k.ran /\ next.answer = k.answer /\ next.lists = k.lists
                 /\ next.admitted = k.admitted
                 /\ next.since = IF k.at \in {"new", "closed"} THEN k.since
                                 ELSE [k.since EXCEPT ![f] = @ \cup {watched'[f].holds}]
  BY <1>1 DEF GateTyped, ConnFields
<1>7. DOMAIN conn' = Connections
  BY <1>1
<1> QED
  BY <1>2, <1>4, <1>5, <1>6, <1>7

(* What the adapter sends, or does not.                                    *)
Heard(at, op, number, on, heard) ==
  /\ DOMAIN adapter' = AdapterFields /\ adapter'.at = at /\ adapter'.op = op /\ adapter'.call = number /\ adapter'.on = on
  /\ adapter'.heard = heard

(* The adapter sends a request or learns that nothing listens.             *)
LEMMA SendsDoes ==
  ASSUME GateTyped, NEW path, NEW toolCall, NEW commands, Sends(path, toolCall, commands)
  PROVE  \/ \E c \in Connections : \E ask :
              /\ ask.path = path /\ ask.call = toolCall.number /\ Arrives(c, ask) /\ Heard(path, toolCall.op, toolCall.number, c, "none")
         \/ UNCHANGED <<conn, auditLog>> /\ Heard("idle", "none", toolCall.number, "none", "error")
<1>1. DOMAIN adapter = AdapterFields
  BY DEF GateTyped
<1> DEFINE ask == [caller |-> AdapterCaller, bearer |-> watched["token"].holds, path |-> path, params |-> "fine",
                         call |-> toolCall.number]
           sent(c) == [adapter EXCEPT !.at = path, !.op = toolCall.op, !.call = toolCall.number, !.commands = commands,
                                        !.on = c, !.heard = "none"]
           failed == [adapter EXCEPT !.at = "idle", !.op = "none", !.call = toolCall.number, !.commands = commands,
                                   !.on = "none", !.heard = "error"]
<1>2. ask.path = path /\ ask.call = toolCall.number
  OBVIOUS
<1>3. \/ \E c \in Connections : Arrives(c, ask) /\ adapter' = sent(c)
      \/ adapter' = failed /\ UNCHANGED <<conn, auditLog>>
  BY DEF Sends
<1>4. ASSUME NEW c, adapter' = sent(c) PROVE Heard(path, toolCall.op, toolCall.number, c, "none")
  <2> DEFINE next == sent(c)
  <2>1. /\ DOMAIN next = AdapterFields /\ next.at = path /\ next.op = toolCall.op /\ next.call = toolCall.number /\ next.on = c
        /\ next.heard = "none"
    BY <1>1 DEF AdapterFields
  <2>2. adapter' = next
    BY <1>4
  <2> HIDE DEF next
  <2> QED
    BY <2>1, <2>2 DEF Heard
<1>5. ASSUME adapter' = failed PROVE Heard("idle", "none", toolCall.number, "none", "error")
  <2>1. /\ DOMAIN failed = AdapterFields /\ failed.at = "idle" /\ failed.op = "none" /\ failed.call = toolCall.number
        /\ failed.on = "none" /\ failed.heard = "error"
    BY <1>1 DEF AdapterFields
  <2> HIDE DEF failed
  <2> QED
    BY <2>1, <1>5 DEF Heard
<1> HIDE DEF ask, sent, failed
<1> QED
  BY <1>2, <1>3, <1>4, <1>5

(* A tool call sends a request or is answered from the list.               *)
LEMMA ToolDoes ==
  ASSUME GateTyped, NEW op, ToolCall(op)
  PROVE  LET toolCall == [op |-> op, number |-> adapter.call + 1]
         IN  /\ adapter.at = "idle"
             /\ \/ \E path \in {"commands", "dispatch"} : Sends(path, toolCall, adapter.commands)
                \/ /\ UNCHANGED <<conn, auditLog>>
                   /\ \E heard \in {"unknown", "listed"} :
                        Heard("idle", adapter.op, adapter.call + 1, adapter.on, heard)
<1>1. DOMAIN adapter = AdapterFields /\ adapter.at = "idle"
  BY DEF GateTyped, ToolCall
<1> DEFINE toolCall == [op |-> op, number |-> adapter.call + 1]
           heard == IF op = "dispatch" THEN "unknown" ELSE "listed"
           next == [adapter EXCEPT !.call = adapter.call + 1, !.heard = heard]
<1>2. \/ Sends("commands", toolCall, adapter.commands) \/ Sends("dispatch", toolCall, adapter.commands)
      \/ adapter' = next /\ UNCHANGED <<conn, auditLog>>
  <2> DEFINE told == [adapter EXCEPT !.call = toolCall.number, !.heard = IF op = "dispatch" THEN "unknown" ELSE "listed"]
             other == adapter' = told /\ UNCHANGED <<conn, auditLog>>
  <2>1. (CASE op = "refresh" \/ adapter.commands = "unread" -> Sends("commands", toolCall, adapter.commands)
       [] op = "dispatch" /\ adapter.commands \notin {"unread", "empty"} ->
            Sends("dispatch", toolCall, adapter.commands)
       [] OTHER -> other)
    BY Zenon DEF ToolCall
  <2>3. told = next
    OBVIOUS
  <2> HIDE DEF other, toolCall
  <2>2. Sends("commands", toolCall, adapter.commands) \/ Sends("dispatch", toolCall, adapter.commands) \/ other
    BY <2>1
  <2> QED
    BY <2>2, <2>3 DEF other
<1>3. ASSUME adapter' = next PROVE \E h \in {"unknown", "listed"} : Heard("idle", adapter.op, adapter.call + 1, adapter.on, h)
  <2>1. heard \in {"unknown", "listed"}
    OBVIOUS
  <2> HIDE DEF heard
  <2>2. /\ DOMAIN next = AdapterFields /\ next.at = "idle" /\ next.op = adapter.op /\ next.call = adapter.call + 1
        /\ next.on = adapter.on /\ next.heard = heard
    BY <1>1 DEF AdapterFields
  <2> HIDE DEF next
  <2> QED
    BY <2>1, <2>2, <1>3 DEF Heard
<1> HIDE DEF next
<1> QED
  BY <1>1, <1>2, <1>3

(* The adapter is idle once it was answered.                               *)
LEMMA HearsDoes ==
  ASSUME GateTyped, NEW result, NEW commands, Hears(result, commands)
  PROVE  Heard("idle", "none", adapter.call, "none", result)
<1>1. DOMAIN adapter = AdapterFields
  BY DEF GateTyped
<1> DEFINE next == [adapter EXCEPT !.at = "idle", !.commands = commands, !.on = "none", !.op = "none", !.heard = result]
<1>2. /\ DOMAIN next = AdapterFields /\ next.at = "idle" /\ next.op = "none" /\ next.call = adapter.call
      /\ next.on = "none" /\ next.heard = result
  BY <1>1 DEF AdapterFields
<1>3. adapter' = next
  BY DEF Hears
<1> HIDE DEF next
<1> QED
  BY <1>2, <1>3 DEF Heard

(* The adapter reads an answer: an error, a list, a result, or commands to *)
(* pick from.                                                              *)
LEMMA AdapterDoes ==
  ASSUME GateTyped, AdapterHears
  PROVE  LET c == adapter.on
         IN  /\ adapter.at # "idle" /\ conn[c].at = "closed"
             /\ \/ /\ UNCHANGED <<conn, auditLog>>
                   /\ \E heard \in {"error", "unknown", "listed"} : Heard("idle", "none", adapter.call, "none", heard)
                \/ /\ conn[c].answer = "200" /\ adapter.at = "dispatch" /\ UNCHANGED <<conn, auditLog>>
                   /\ Heard("idle", "none", adapter.call, "none", "result")
                \/ /\ adapter.at = "commands"
                   /\ Sends("dispatch", [op |-> "dispatch", number |-> adapter.call], conn[c].lists)
<1> DEFINE c == adapter.on
           toolCall == [op |-> "dispatch", number |-> adapter.call]
           over == IF adapter.op = "dispatch" THEN "unknown" ELSE "listed"
<1>1. adapter.at # "idle" /\ conn[c].at = "closed"
  BY DEF AdapterHears
<1>2. \/ Hears("error", adapter.commands) /\ UNCHANGED <<conn, auditLog>>
      \/ conn[c].answer = "200" /\ adapter.at = "dispatch" /\ Hears("result", adapter.commands) /\ UNCHANGED <<conn, auditLog>>
      \/ adapter.at = "commands" /\ Sends("dispatch", toolCall, conn[c].lists)
      \/ Hears(over, conn[c].lists) /\ UNCHANGED <<conn, auditLog>>
  <2> DEFINE same == UNCHANGED <<conn, auditLog>>
  <2>1. (CASE conn[c].answer # "200" -> Hears("error", adapter.commands) /\ same
       [] conn[c].answer = "200" /\ adapter.at = "dispatch" ->
            Hears("result", adapter.commands) /\ same
       [] conn[c].answer = "200" /\ adapter.at = "commands" /\ adapter.op = "dispatch" /\ conn[c].lists # "empty" ->
            Sends("dispatch", toolCall, conn[c].lists)
       [] OTHER -> Hears(over, conn[c].lists) /\ same)
    BY Zenon DEF AdapterHears, HearsError
  <2> HIDE DEF same, toolCall, over, c
  <2>2. \/ Hears("error", adapter.commands) /\ same
        \/ conn[c].answer = "200" /\ adapter.at = "dispatch" /\ Hears("result", adapter.commands) /\ same
        \/ adapter.at = "commands" /\ Sends("dispatch", toolCall, conn[c].lists)
        \/ Hears(over, conn[c].lists) /\ same
    BY <2>1
  <2> QED
    BY <2>2, Zenon DEF same
<1>3. over \in {"error", "unknown", "listed"} /\ "error" \in {"error", "unknown", "listed"}
  OBVIOUS
<1> HIDE DEF over, toolCall
<1>4. \/ UNCHANGED <<conn, auditLog>> /\ Heard("idle", "none", adapter.call, "none", "error")
      \/ /\ conn[c].answer = "200" /\ adapter.at = "dispatch" /\ UNCHANGED <<conn, auditLog>>
         /\ Heard("idle", "none", adapter.call, "none", "result")
      \/ adapter.at = "commands" /\ Sends("dispatch", toolCall, conn[c].lists)
      \/ UNCHANGED <<conn, auditLog>> /\ Heard("idle", "none", adapter.call, "none", over)
  BY <1>2, HearsDoes, Zenon
<1> QED
  BY <1>1, <1>3, <1>4, Zenon DEF toolCall

-----------------------------------------------------------------------------
(***************************************************************************)
(* Types of the gateway.                                                   *)
(***************************************************************************)

-----------------------------------------------------------------------------
(* What is always so of a connection, n being the adapter's call.          *)
KnownConn(k) ==
  /\ DOMAIN k = ConnFields /\ DOMAIN k.since = GatewayFiles
  /\ k.stat \in Int /\ k.admitted \in Int
  /\ k.at \in AskedOf \cup {"new", "running", "closed"}
  /\ k.at \in AskedOf => k.file \in GatewayFiles

FitConn(k, n) ==
  /\ k.ask.call \in Nat /\ k.ask.call <= n /\ k.held # "nothing"
  /\ k.at = "new" => k.ask.path = "none" /\ k.ask.call = 0 /\ k.admitted = -1
  /\ k.at # "new" => k.ask.path # "none"
  /\ k.at \in AskedOf /\ k.file = "token" => k.ask.path \in {"commands", "dispatch"} /\ k.ask.caller \in AllowedCallers
  /\ k.at \in AskedOf /\ k.file = "registry" => k.ask.path \in {"health", "dispatch"}
  /\ k.at \notin {"running", "closed"} => k.ran = "nothing"
  /\ k.at = "running" => k.ask.path = "dispatch" /\ k.ran # "nothing"
  /\ k.at = "closed" /\ k.ran # "nothing" => k.ask.call = 0 \/ k.ask.path = "dispatch"
  /\ k.at = "closed" /\ k.ask.call # 0 /\ k.ask.path = "dispatch" /\ k.answer = "200" => k.ran # "nothing"

ConnsFit ==
  /\ DOMAIN conn = Connections
  /\ \A c \in Connections : KnownConn(conn[c]) /\ FitConn(conn[c], adapter.call)
  /\ \A f \in GatewayFiles : watched[f].holds # "nothing" /\ cache[f].holds # "nothing"

RestTyped ==
  /\ DOMAIN watched = GatewayFiles /\ DOMAIN cache = GatewayFiles
  /\ \A f \in GatewayFiles : DOMAIN watched[f] = FileFields /\ watched[f].mtime \in Nat
  /\ \A f \in GatewayFiles : DOMAIN cache[f] = FileFields /\ cache[f].mtime \in Int
  /\ DOMAIN buckets = AllowedCallers /\ \A k \in AllowedCallers : buckets[k] \in Seq(Int)
  /\ DOMAIN sampled = Connections /\ \A c \in Connections : sampled[c] \in Int
  /\ gatewayTime \in Nat /\ gatewayAt \in {"reading", "noting", "up"}
  /\ DOMAIN adapter = AdapterFields /\ adapter.call \in Nat

(* The types of a gateway are those of each connection and of the rest.    *)
LEMMA GateParts == GateTyped <=> RestTyped /\ DOMAIN conn = Connections /\ \A c \in Connections : KnownConn(conn[c])
BY DEF GateTyped, RestTyped, KnownConn

(* One connection's turn leaves the others as they were.                   *)
LEMMA FitTurned ==
  ASSUME ConnsFit, adapter' = adapter \/ (adapter'.call \in Nat /\ adapter.call <= adapter'.call), adapter.call \in Nat,
         NEW c \in Connections,
         NEW at, NEW ask, NEW file, NEW stat, NEW held, NEW since, NEW ran, NEW answer, NEW lists, NEW admitted,
         Turned(c, at, ask, file, stat, held, since, ran, answer, lists, admitted),
         DOMAIN since = GatewayFiles, stat \in Int, admitted \in Int, at \in AskedOf \cup {"running"},
         at \in AskedOf => file \in GatewayFiles /\ ran = "nothing",
         at \in AskedOf /\ file = "token" => ask.path \in {"commands", "dispatch"} /\ ask.caller \in AllowedCallers,
         at \in AskedOf /\ file = "registry" => ask.path \in {"health", "dispatch"},
         at = "running" => ask.path = "dispatch" /\ ran # "nothing",
         ask.call \in Nat, ask.call <= adapter'.call, held # "nothing", ask.path # "none"
  PROVE  DOMAIN conn' = Connections /\ \A d \in Connections : KnownConn(conn'[d]) /\ FitConn(conn'[d], adapter'.call)
<1>1. DOMAIN conn' = Connections /\ \A d \in Connections : d # c => conn'[d] = conn[d]
  BY DEF Turned
<1>2. KnownConn(conn'[c])
  BY DEF Turned, KnownConn, AskedOf
<1>3. FitConn(conn'[c], adapter'.call)
  <2> DEFINE k == conn'[c]
  <2>1. k.at = at /\ k.ask = ask /\ k.file = file /\ k.held = held /\ k.ran = ran /\ k.admitted = admitted
    BY DEF Turned
  <2>2. at # "new" /\ at # "closed" /\ (at = "running" \/ at \in AskedOf) /\ "running" \notin AskedOf
    BY DEF AskedOf
  <2> HIDE DEF k
  <2>3. FitConn(k, adapter'.call)
    BY <2>1, <2>2 DEF FitConn
  <2> QED
    BY <2>3 DEF k
<1>4. ASSUME NEW d \in Connections, d # c PROVE KnownConn(conn'[d]) /\ FitConn(conn'[d], adapter'.call)
  BY <1>1, <1>4 DEF ConnsFit, FitConn
<1> QED
  BY <1>1, <1>2, <1>3, <1>4

(* A connection that ends fits the calls there were.                       *)
LEMMA FitShut ==
  ASSUME ConnsFit, adapter' = adapter \/ (adapter'.call \in Nat /\ adapter.call <= adapter'.call), adapter.call \in Nat,
         NEW c \in Connections, NEW ask, NEW ran, NEW answer, NEW admitted, Shut(c, ask, ran, answer, admitted), admitted \in Int,
         ask.call \in Nat, ask.call <= adapter'.call, ask.path # "none",
         ran # "nothing" => ask.path = "dispatch", ask.path = "dispatch" /\ answer = "200" => ran # "nothing"
  PROVE  DOMAIN conn' = Connections /\ \A d \in Connections : KnownConn(conn'[d]) /\ FitConn(conn'[d], adapter'.call)
<1>1. DOMAIN conn' = Connections /\ \A d \in Connections : d # c => conn'[d] = conn[d]
  BY DEF Shut
<1>2. KnownConn(conn'[c])
  BY DEF Shut, KnownConn, AskedOf
<1>3. FitConn(conn'[c], adapter'.call)
  <2> DEFINE k == conn'[c]
  <2>1. /\ k.at = "closed" /\ k.ran = ran /\ k.held = "none"
        /\ IF ask.call # 0 THEN k.ask = ask /\ k.answer = answer
           ELSE k.ask = [path |-> "closed", caller |-> ask.caller, call |-> 0]
    BY DEF Shut
  <2>2. "closed" \notin AskedOf
    BY DEF AskedOf
  <2> HIDE DEF k
  <2>3. FitConn(k, adapter'.call)
    BY <2>1, <2>2 DEF FitConn
  <2> QED
    BY <2>3 DEF k
<1>4. ASSUME NEW d \in Connections, d # c PROVE KnownConn(conn'[d]) /\ FitConn(conn'[d], adapter'.call)
  BY <1>1, <1>4 DEF ConnsFit, FitConn
<1> QED
  BY <1>1, <1>2, <1>3, <1>4

(* What is left of a caller's bucket is its end, from the first request of *)
(* the window on.                                                          *)
LEMMA WindowOf ==
  ASSUME GateTyped, NEW k \in AllowedCallers, NEW now
  PROVE  \E g \in 0 .. Len(buckets[k]) :
           /\ InWindow(k, now) = SubSeq(buckets[k], g + 1, Len(buckets[k]))
           /\ \A m \in 1 .. g : Expired(now, buckets[k][m])
           /\ g = Len(buckets[k]) \/ ~Expired(now, buckets[k][g + 1])
<1> DEFINE b == buckets[k]
           Fits(n) == (\A m \in 1 .. n : Expired(now, b[m])) /\ (n = Len(b) \/ ~Expired(now, b[n + 1]))
           gone == CHOOSE n \in 0 .. Len(b) : Fits(n)
           T == {n \in 0 .. Len(b) : n = Len(b) \/ ~Expired(now, b[n + 1])}
<1>1. b \in Seq(Int)
  BY DEF GateTyped
<1>2. Len(b) \in Nat
  BY <1>1
<1>3. T \subseteq Nat /\ T # {}
  BY <1>2
<1>4. PICK g \in T : \A y \in T : g <= y
  BY <1>3, NatMin
<1>5. g \in 0 .. Len(b) /\ Fits(g)
  <2>1. g \in 0 .. Len(b) /\ (g = Len(b) \/ ~Expired(now, b[g + 1]))
    BY <1>4
  <2>2. ASSUME NEW m \in 1 .. g, ~Expired(now, b[m]) PROVE FALSE
    <3>1. m - 1 \in 0 .. Len(b) /\ (m - 1) + 1 = m /\ m - 1 < g
      BY <1>2, <2>1
    <3>2. m - 1 \in T
      BY <2>2, <3>1
    <3> HIDE DEF T
    <3>3. g <= m - 1 /\ g \in Nat
      BY <1>3, <1>4, <3>2
    <3> QED
      BY <3>1, <3>3
  <2> QED
    BY <2>1, <2>2
<1>6. gone \in 0 .. Len(b) /\ Fits(gone)
  <2> HIDE DEF Fits
  <2> QED
    BY <1>5
<1>7. InWindow(k, now) = SubSeq(b, gone + 1, Len(b))
  BY DEF InWindow
<1> QED
  BY <1>6, <1>7

(* A window is a list of times.                                            *)
LEMMA WindowTyped ==
  ASSUME GateTyped, NEW k \in AllowedCallers, NEW now PROVE InWindow(k, now) \in Seq(Int)
<1>1. PICK g \in 0 .. Len(buckets[k]) : InWindow(k, now) = SubSeq(buckets[k], g + 1, Len(buckets[k]))
  BY WindowOf
<1>2. buckets[k] \in Seq(Int) /\ Len(buckets[k]) \in Nat
  BY DEF GateTyped
<1>3. g + 1 \in 1 .. Len(buckets[k]) + 1
  BY <1>2
<1> QED
  BY <1>1, <1>2, <1>3, SubSeqProperties

(* Every step keeps what is always so of the connections and their rest.   *)
GateBase == GateTyped /\ ConnsFit

(* Types after an edit of a file ...                                       *)
LEMMA EditTyped == ASSUME GateBase, NEW f \in GatewayFiles, Edit(f) PROVE GateBase'
<1>1. GateTyped /\ ConnsFit
  BY DEF GateBase
<1>2. UNCHANGED <<cache, buckets, sampled, auditLog, gatewayAt, gatewayTime, adapter>>
  BY DEF Edit
<1>3. /\ DOMAIN conn' = Connections
      /\ \A c \in Connections :
           LET k == conn[c]
               next == conn'[c]
           IN  /\ DOMAIN next = ConnFields /\ next.at = k.at /\ next.ask = k.ask /\ next.file = k.file /\ next.stat = k.stat
               /\ next.held = k.held /\ next.ran = k.ran /\ next.answer = k.answer /\ next.lists = k.lists
               /\ next.admitted = k.admitted
               /\ next.since = IF k.at \in {"new", "closed"} THEN k.since
                               ELSE [k.since EXCEPT ![f] = @ \cup {watched'[f].holds}]
      /\ DOMAIN watched' = GatewayFiles /\ DOMAIN watched'[f] = FileFields /\ watched'[f].mtime = watched[f].mtime + 1
      /\ \A g \in GatewayFiles : g # f => watched'[g] = watched[g]
      /\ watched'[f].holds \in {Emptied, Absent} \cup Edits[f]
  BY <1>1, EditDoes
<1>4. ASSUME NEW c \in Connections PROVE KnownConn(conn'[c]) /\ FitConn(conn'[c], adapter'.call)
  <2>1. KnownConn(conn[c]) /\ FitConn(conn[c], adapter.call)
    BY <1>1 DEF ConnsFit
  <2> DEFINE k == conn[c]
             next == conn'[c]
  <2>2. /\ DOMAIN next = ConnFields /\ next.at = k.at /\ next.ask = k.ask /\ next.file = k.file /\ next.stat = k.stat
        /\ next.held = k.held /\ next.ran = k.ran /\ next.answer = k.answer /\ next.lists = k.lists
        /\ next.admitted = k.admitted
        /\ next.since = IF k.at \in {"new", "closed"} THEN k.since
                        ELSE [k.since EXCEPT ![f] = @ \cup {watched'[f].holds}]
    BY <1>3
  <2>3. DOMAIN next.since = GatewayFiles
    BY <2>1, <2>2 DEF KnownConn
  <2> HIDE DEF next
  <2>4. KnownConn(next)
    BY <2>1, <2>2, <2>3 DEF KnownConn
  <2>5. FitConn(next, adapter.call)
    BY <2>1, <2>2 DEF FitConn
  <2> QED
    BY <2>4, <2>5, <1>2 DEF next
<1>5. ASSUME NEW g \in GatewayFiles PROVE DOMAIN watched'[g] = FileFields /\ watched'[g].mtime \in Nat /\ watched'[g].holds # "nothing"
  BY <1>1, GatewayAssumption, <1>3 DEF GateTyped, ConnsFit, GatewayFiles, Emptied, Absent
<1>6. RestTyped'
  BY <1>1, <1>2, <1>3, <1>5 DEF GateTyped, RestTyped
<1>7. ConnsFit'
  BY <1>1, <1>2, <1>3, <1>4, <1>5 DEF ConnsFit
<1>8. GateTyped'
  BY <1>6, <1>3, <1>4 DEF GateTyped, RestTyped, KnownConn
<1> QED
  BY <1>7, <1>8 DEF GateBase

(* ... while connections stay ...                                          *)
LEMMA SameConns ==
  ASSUME GateBase, UNCHANGED conn, adapter'.call \in Nat, adapter.call <= adapter'.call
  PROVE  /\ DOMAIN conn' = Connections
         /\ \A c \in Connections : KnownConn(conn'[c]) /\ FitConn(conn'[c], adapter'.call)
<1>1. ASSUME NEW c \in Connections PROVE KnownConn(conn'[c]) /\ FitConn(conn'[c], adapter'.call)
  BY DEF GateBase, GateTyped, ConnsFit, FitConn
<1> QED
  BY <1>1 DEF GateBase, ConnsFit

(* ... when time passes or the files are watched ...                       *)
LEMMA ClockTyped == ASSUME GateBase, SecondPasses \/ GatewayReads \/ GatewayNotes PROVE GateBase'
<1>1. GateTyped /\ ConnsFit /\ RestTyped
  BY GateParts DEF GateBase
<1>2. UNCHANGED <<watched, conn, buckets, sampled, auditLog, adapter, edits, crossed>>
  BY DEF SecondPasses, GatewayReads, GatewayNotes
<1>3. DOMAIN conn' = Connections /\ \A c \in Connections : KnownConn(conn'[c]) /\ FitConn(conn'[c], adapter'.call)
  BY <1>1, <1>2, SameConns DEF RestTyped
<1>4. "registry" \in GatewayFiles /\ DOMAIN cache = GatewayFiles /\ watched["registry"].mtime \in Nat
      /\ watched["registry"].holds # "nothing"
  BY <1>1 DEF GatewayFiles, RestTyped, ConnsFit
<1>5. gatewayTime' \in Nat /\ gatewayAt' \in {"reading", "noting", "up"}
  BY <1>1 DEF RestTyped, SecondPasses, GatewayReads, GatewayNotes
<1>6. DOMAIN cache' = GatewayFiles
      /\ \A f \in GatewayFiles : DOMAIN cache'[f] = FileFields /\ cache'[f].mtime \in Int /\ cache'[f].holds # "nothing"
  <2>1. \A f \in GatewayFiles : DOMAIN cache[f] = FileFields /\ cache[f].mtime \in Int /\ cache[f].holds # "nothing"
    BY <1>1 DEF RestTyped, ConnsFit
  <2>2. CASE SecondPasses
    BY <1>4, <2>1, <2>2 DEF SecondPasses
  <2>3. CASE GatewayReads
    <3>1. cache' = [cache EXCEPT !["registry"] = [@ EXCEPT !.holds = watched["registry"].holds]]
      BY <2>3 DEF GatewayReads
    <3> DEFINE next == [cache["registry"] EXCEPT !.holds = watched["registry"].holds]
    <3>2. DOMAIN next = FileFields /\ next.mtime = cache["registry"].mtime /\ next.holds = watched["registry"].holds
      BY <1>4, <2>1 DEF FileFields
    <3> HIDE DEF next
    <3>3. DOMAIN cache' = GatewayFiles /\ cache'["registry"] = next /\ \A f \in GatewayFiles : f # "registry" => cache'[f] = cache[f]
      BY <1>4, <3>1 DEF next
    <3> QED
      BY <1>4, <2>1, <3>2, <3>3
  <2>4. CASE GatewayNotes
    <3> DEFINE file == watched["registry"]
               time == IF file.holds = Absent THEN -1 ELSE file.mtime
    <3>1. cache' = [cache EXCEPT !["registry"] = [@ EXCEPT !.mtime = time]]
      BY <2>4 DEF GatewayNotes
    <3>4. time \in Int
      BY <1>4
    <3> HIDE DEF time
    <3> DEFINE next == [cache["registry"] EXCEPT !.mtime = time]
    <3>2. DOMAIN next = FileFields /\ next.mtime = time /\ next.holds = cache["registry"].holds
      BY <1>4, <2>1 DEF FileFields
    <3> HIDE DEF next
    <3>3. DOMAIN cache' = GatewayFiles /\ cache'["registry"] = next /\ \A f \in GatewayFiles : f # "registry" => cache'[f] = cache[f]
      BY <1>4, <3>1 DEF next
    <3> QED
      BY <1>4, <2>1, <3>2, <3>3, <3>4
  <2> QED
    BY <2>2, <2>3, <2>4
<1>7. RestTyped'
  BY <1>1, <1>2, <1>5, <1>6 DEF RestTyped
<1>8. ConnsFit'
  BY <1>1, <1>2, <1>3, <1>6 DEF ConnsFit
<1>9. GateTyped'
  BY <1>7, <1>3 DEF GateTyped, RestTyped, KnownConn
<1> QED
  BY <1>8, <1>9 DEF GateBase

(* ... and put together.                                                   *)
LEMMA Packed ==
  ASSUME RestTyped', DOMAIN conn' = Connections, \A c \in Connections : KnownConn(conn'[c]) /\ FitConn(conn'[c], adapter'.call),
         \A f \in GatewayFiles : watched'[f].holds # "nothing" /\ cache'[f].holds # "nothing"
  PROVE  GateBase'
BY DEF GateBase, GateTyped, RestTyped, KnownConn, ConnsFit

(* A connection's step that leaves files, copies and adapter.              *)
LEMMA Framed ==
  ASSUME GateBase, UNCHANGED <<watched, cache, gatewayAt, gatewayTime, adapter>>, DOMAIN buckets' = AllowedCallers,
         \A k \in AllowedCallers : buckets'[k] \in Seq(Int), DOMAIN sampled' = Connections, \A c \in Connections : sampled'[c] \in Int,
         DOMAIN conn' = Connections, \A c \in Connections : KnownConn(conn'[c]) /\ FitConn(conn'[c], adapter'.call)
  PROVE  GateBase'
BY GateParts, Packed DEF GateBase, RestTyped, ConnsFit

(* What a connection's record is known to be.                              *)
LEMMA BaseOf ==
  ASSUME GateBase, NEW c \in Connections
  PROVE  KnownConn(conn[c]) /\ FitConn(conn[c], adapter.call) /\ GateTyped /\ ConnsFit /\ adapter.call \in Nat
BY DEF GateBase, ConnsFit, GateTyped

(* Types after a request arrives ...                                       *)
LEMMA ArrivesTyped ==
  ASSUME GateBase, NEW c \in Connections, NEW ask, Arrives(c, ask), ask.call \in Nat, ask.call <= adapter'.call,
         ask.path \in {"health", "commands", "dispatch"}, adapter' = adapter \/ (adapter'.call \in Nat /\ adapter.call <= adapter'.call)
  PROVE  DOMAIN conn' = Connections /\ \A d \in Connections : KnownConn(conn'[d]) /\ FitConn(conn'[d], adapter'.call)
<1> DEFINE k == conn[c]
<1>1. KnownConn(k) /\ FitConn(k, adapter.call) /\ GateTyped /\ ConnsFit /\ adapter.call \in Nat
  BY BaseOf
<1>2. /\ k.at = "new"
      /\ \/ \E file \in GatewayFiles :
              /\ Turned(c, "stat", ask, file, k.stat, k.held, k.since, k.ran, k.answer, k.lists, k.admitted)
              /\ file = "registry" => ask.path = "health"
              /\ file = "token" => ask.path # "health" /\ ask.caller \in AllowedCallers
         \/ \E answer \in {"401", "403"} : Shut(c, ask, k.ran, answer, k.admitted)
  BY <1>1, ArrivesDoes
<1>3. k.ran = "nothing" /\ k.held # "nothing" /\ DOMAIN k.since = GatewayFiles /\ k.stat \in Int /\ k.admitted \in Int
  BY <1>1, <1>2 DEF FitConn, KnownConn
<1>4. ask.path # "none"
  OBVIOUS
<1> HIDE DEF k
<1>5. ASSUME NEW file \in GatewayFiles,
             Turned(c, "stat", ask, file, k.stat, k.held, k.since, k.ran, k.answer, k.lists, k.admitted),
             file = "registry" => ask.path = "health", file = "token" => ask.path # "health" /\ ask.caller \in AllowedCallers
      PROVE  DOMAIN conn' = Connections /\ \A d \in Connections : KnownConn(conn'[d]) /\ FitConn(conn'[d], adapter'.call)
  BY <1>5, <1>1, <1>3, <1>4, FitTurned DEF AskedOf
<1>6. ASSUME NEW answer \in {"401", "403"}, Shut(c, ask, k.ran, answer, k.admitted)
      PROVE  DOMAIN conn' = Connections /\ \A d \in Connections : KnownConn(conn'[d]) /\ FitConn(conn'[d], adapter'.call)
  BY <1>1, <1>3, <1>4, <1>6, FitShut
<1> QED
  BY <1>2, <1>5, <1>6

(* ... after a file is looked at ...                                       *)
LEMMA StatTyped == ASSUME GateBase, NEW c \in Connections, StatFile(c) PROVE GateBase'
<1> DEFINE k == conn[c]
           f == k.file
           at == IF watched[f].holds = Absent \/ watched[f].mtime = cache[f].mtime THEN "use" ELSE "read"
           held == IF watched[f].holds = Absent THEN Absent ELSE "none"
           since == [k.since EXCEPT ![f] = {watched[f].holds}]
<1>1. KnownConn(k) /\ FitConn(k, adapter.call) /\ GateTyped /\ ConnsFit /\ adapter.call \in Nat
  BY BaseOf
<1>2. k.at = "stat" /\ Turned(c, at, k.ask, f, watched[f].mtime, held, since, k.ran, k.answer, k.lists, k.admitted)
  BY <1>1, StatDoes
<1>3. "stat" \in AskedOf /\ at \in AskedOf /\ at # "running" /\ held # "nothing"
  BY DEF AskedOf, Absent
<1>4. f \in GatewayFiles
  BY <1>1, <1>2, <1>3 DEF KnownConn
<1>5. watched[f].mtime \in Int
  BY <1>1, <1>4 DEF GateTyped
<1>6. DOMAIN since = GatewayFiles
  BY <1>1 DEF KnownConn
<1> HIDE DEF at, held, since
<1>7. /\ k.ran = "nothing" /\ k.admitted \in Int /\ k.ask.call \in Nat /\ k.ask.call <= adapter.call /\ k.ask.path # "none"
      /\ f = "token" => k.ask.path \in {"commands", "dispatch"} /\ k.ask.caller \in AllowedCallers
      /\ f = "registry" => k.ask.path \in {"health", "dispatch"}
  BY <1>1, <1>2, <1>3 DEF FitConn, KnownConn
<1>8. UNCHANGED <<watched, cache, buckets, sampled, gatewayAt, gatewayTime, adapter>>
  BY DEF StatFile
<1> HIDE DEF k
<1>9. DOMAIN conn' = Connections /\ \A d \in Connections : KnownConn(conn'[d]) /\ FitConn(conn'[d], adapter'.call)
  BY <1>1, <1>2, <1>3, <1>4, <1>5, <1>6, <1>7, <1>8, FitTurned
<1> QED
  BY <1>1, <1>8, <1>9, Framed DEF GateTyped

(* What is known of a connection whose thread is at a file.                *)
LEMMA AskedFits ==
  ASSUME GateBase, NEW c \in Connections, conn[c].at \in AskedOf
  PROVE  LET k == conn[c]
         IN  /\ k.file \in GatewayFiles /\ DOMAIN k.since = GatewayFiles /\ k.stat \in Int /\ k.held # "nothing"
             /\ k.ran = "nothing" /\ k.admitted \in Int /\ k.ask.call \in Nat /\ k.ask.call <= adapter.call /\ k.ask.path # "none"
             /\ k.file = "token" => k.ask.path \in {"commands", "dispatch"} /\ k.ask.caller \in AllowedCallers
             /\ k.file = "registry" => k.ask.path \in {"health", "dispatch"}
BY BaseOf DEF AskedOf, KnownConn, FitConn

(* ... read ...                                                            *)
LEMMA ReadTyped == ASSUME GateBase, NEW c \in Connections, ReadFile(c) PROVE GateBase'
<1> DEFINE k == conn[c]
<1>1. GateTyped /\ ConnsFit /\ adapter.call \in Nat
  BY BaseOf
<1>2. /\ k.at = "read"
      /\ \/ Shut(c, k.ask, k.ran, "dropped", k.admitted)
         \/ Turned(c, "assign", k.ask, k.file, k.stat, watched[k.file].holds, k.since, k.ran, k.answer, k.lists, k.admitted)
  BY <1>1, ReadDoes
<1>3. "read" \in AskedOf /\ "assign" \in AskedOf
  BY DEF AskedOf
<1>4. /\ k.file \in GatewayFiles /\ DOMAIN k.since = GatewayFiles /\ k.stat \in Int
      /\ k.ran = "nothing" /\ k.admitted \in Int /\ k.ask.call \in Nat /\ k.ask.call <= adapter.call /\ k.ask.path # "none"
      /\ k.file = "token" => k.ask.path \in {"commands", "dispatch"} /\ k.ask.caller \in AllowedCallers
      /\ k.file = "registry" => k.ask.path \in {"health", "dispatch"}
  BY <1>2, <1>3, AskedFits
<1>5. UNCHANGED <<watched, cache, buckets, sampled, gatewayAt, gatewayTime, adapter>>
  BY DEF ReadFile
<1>6. watched[k.file].holds # "nothing"
  BY <1>1, <1>4 DEF ConnsFit
<1> HIDE DEF k
<1>7. CASE Shut(c, k.ask, k.ran, "dropped", k.admitted)
  <2>1. DOMAIN conn' = Connections /\ \A d \in Connections : KnownConn(conn'[d]) /\ FitConn(conn'[d], adapter'.call)
    BY <1>1, <1>4, <1>5, <1>7, FitShut
  <2> QED
    BY <1>1, <1>5, <2>1, Framed DEF GateTyped
<1>8. CASE Turned(c, "assign", k.ask, k.file, k.stat, watched[k.file].holds, k.since, k.ran, k.answer, k.lists, k.admitted)
  <2>1. DOMAIN conn' = Connections /\ \A d \in Connections : KnownConn(conn'[d]) /\ FitConn(conn'[d], adapter'.call)
    BY <1>1, <1>3, <1>4, <1>5, <1>6, <1>8, FitTurned
  <2> QED
    BY <1>1, <1>5, <2>1, Framed DEF GateTyped
<1> QED
  BY <1>2, <1>7, <1>8

(* What an assignment to the copy of a file does to the copies.            *)
LEMMA CopiesTyped ==
  ASSUME GateBase, NEW f \in GatewayFiles, NEW holds, NEW time \in Int, holds # "nothing",
         \/ cache' = [cache EXCEPT ![f].holds = holds]
         \/ cache' = [cache EXCEPT ![f].mtime = time]
  PROVE  /\ DOMAIN cache' = GatewayFiles
         /\ \A g \in GatewayFiles : DOMAIN cache'[g] = FileFields /\ cache'[g].mtime \in Int /\ cache'[g].holds # "nothing"
         /\ \A g \in GatewayFiles : g # f => cache'[g] = cache[g]
         /\ \/ cache' = [cache EXCEPT ![f].holds = holds] /\ cache'[f].holds = holds /\ cache'[f].mtime = cache[f].mtime
            \/ cache' = [cache EXCEPT ![f].mtime = time] /\ cache'[f].holds = cache[f].holds /\ cache'[f].mtime = time
<1>1. /\ DOMAIN cache = GatewayFiles
      /\ \A g \in GatewayFiles : DOMAIN cache[g] = FileFields /\ cache[g].mtime \in Int /\ cache[g].holds # "nothing"
  BY DEF GateBase, GateTyped, ConnsFit
<1> DEFINE filled == [cache[f] EXCEPT !.holds = holds]
           noted == [cache[f] EXCEPT !.mtime = time]
<1>2. cache' = [cache EXCEPT ![f] = filled] \/ cache' = [cache EXCEPT ![f] = noted]
  OBVIOUS
<1>3. /\ DOMAIN filled = FileFields /\ filled.holds = holds /\ filled.mtime = cache[f].mtime
      /\ DOMAIN noted = FileFields /\ noted.holds = cache[f].holds /\ noted.mtime = time
  BY <1>1 DEF FileFields
<1>6. /\ cache' = [cache EXCEPT ![f].holds = holds] => cache' = [cache EXCEPT ![f] = filled]
      /\ cache' = [cache EXCEPT ![f].mtime = time] => cache' = [cache EXCEPT ![f] = noted]
  OBVIOUS
<1> HIDE DEF filled, noted
<1>4. CASE cache' = [cache EXCEPT ![f].holds = holds]
  BY <1>1, <1>4, <1>6, <1>3
<1>5. CASE cache' = [cache EXCEPT ![f].mtime = time]
  BY <1>1, <1>5, <1>6, <1>3
<1> QED
  BY <1>4, <1>5

(* ... cached ...                                                          *)
LEMMA AssignTyped == ASSUME GateBase, NEW c \in Connections, AssignCache(c) PROVE GateBase'
<1> DEFINE k == conn[c]
<1>1. GateTyped /\ ConnsFit /\ adapter.call \in Nat
  BY BaseOf
<1>2. /\ k.at = "assign" /\ cache' = [cache EXCEPT ![k.file].holds = k.held]
      /\ Turned(c, "note", k.ask, k.file, k.stat, k.held, k.since, k.ran, k.answer, k.lists, k.admitted)
  BY <1>1, AssignDoes
<1>3. "assign" \in AskedOf /\ "note" \in AskedOf
  BY DEF AskedOf
<1>4. /\ k.file \in GatewayFiles /\ DOMAIN k.since = GatewayFiles /\ k.stat \in Int /\ k.held # "nothing"
      /\ k.ran = "nothing" /\ k.admitted \in Int /\ k.ask.call \in Nat /\ k.ask.call <= adapter.call /\ k.ask.path # "none"
      /\ k.file = "token" => k.ask.path \in {"commands", "dispatch"} /\ k.ask.caller \in AllowedCallers
      /\ k.file = "registry" => k.ask.path \in {"health", "dispatch"}
  BY <1>2, <1>3, AskedFits
<1>5. UNCHANGED <<watched, buckets, sampled, gatewayAt, gatewayTime, adapter>>
  BY DEF AssignCache
<1>6. /\ DOMAIN cache' = GatewayFiles
      /\ \A g \in GatewayFiles : DOMAIN cache'[g] = FileFields /\ cache'[g].mtime \in Int /\ cache'[g].holds # "nothing"
  BY <1>2, <1>4, CopiesTyped
<1> HIDE DEF k
<1>7. DOMAIN conn' = Connections /\ \A d \in Connections : KnownConn(conn'[d]) /\ FitConn(conn'[d], adapter'.call)
  BY <1>1, <1>2, <1>3, <1>4, <1>5, FitTurned
<1>8. RestTyped'
  BY <1>1, <1>5, <1>6 DEF GateTyped, RestTyped
<1>9. \A f \in GatewayFiles : watched'[f].holds # "nothing" /\ cache'[f].holds # "nothing"
  BY <1>1, <1>5, <1>6 DEF ConnsFit
<1> QED
  BY <1>7, <1>8, <1>9, Packed

(* ... and its time noted ...                                              *)
LEMMA NoteTyped == ASSUME GateBase, NEW c \in Connections, NoteTime(c) PROVE GateBase'
<1> DEFINE k == conn[c]
<1>1. GateTyped /\ ConnsFit /\ adapter.call \in Nat
  BY BaseOf
<1>2. /\ k.at = "note" /\ cache' = [cache EXCEPT ![k.file].mtime = k.stat]
      /\ Turned(c, "use", k.ask, k.file, k.stat, "none", k.since, k.ran, k.answer, k.lists, k.admitted)
  BY <1>1, NoteDoes
<1>3. "note" \in AskedOf /\ "use" \in AskedOf /\ "none" # "nothing"
  BY DEF AskedOf
<1>4. /\ k.file \in GatewayFiles /\ DOMAIN k.since = GatewayFiles /\ k.stat \in Int /\ k.held # "nothing"
      /\ k.ran = "nothing" /\ k.admitted \in Int /\ k.ask.call \in Nat /\ k.ask.call <= adapter.call /\ k.ask.path # "none"
      /\ k.file = "token" => k.ask.path \in {"commands", "dispatch"} /\ k.ask.caller \in AllowedCallers
      /\ k.file = "registry" => k.ask.path \in {"health", "dispatch"}
  BY <1>2, <1>3, AskedFits
<1>5. UNCHANGED <<watched, buckets, sampled, gatewayAt, gatewayTime, adapter>>
  BY DEF NoteTime
<1>6. /\ DOMAIN cache' = GatewayFiles
      /\ \A g \in GatewayFiles : DOMAIN cache'[g] = FileFields /\ cache'[g].mtime \in Int /\ cache'[g].holds # "nothing"
  BY <1>2, <1>4, CopiesTyped
<1> HIDE DEF k
<1>7. DOMAIN conn' = Connections /\ \A d \in Connections : KnownConn(conn'[d]) /\ FitConn(conn'[d], adapter'.call)
  BY <1>1, <1>2, <1>3, <1>4, <1>5, FitTurned
<1>8. RestTyped'
  BY <1>1, <1>5, <1>6 DEF GateTyped, RestTyped
<1>9. \A f \in GatewayFiles : watched'[f].holds # "nothing" /\ cache'[f].holds # "nothing"
  BY <1>1, <1>5, <1>6 DEF ConnsFit
<1> QED
  BY <1>7, <1>8, <1>9, Packed

(* ... after the token was used ...                                        *)
LEMMA TokenTyped == ASSUME GateBase, NEW c \in Connections, UseToken(c) PROVE GateBase'
<1> DEFINE k == conn[c]
           fine == DOMAIN conn' = Connections /\ \A d \in Connections : KnownConn(conn'[d]) /\ FitConn(conn'[d], adapter'.call)
<1>1. GateTyped /\ ConnsFit /\ adapter.call \in Nat
  BY BaseOf
<1>2. k.at \in AskedOf /\ k.file = "token" /\ UNCHANGED <<watched, cache, buckets, gatewayAt, gatewayTime, adapter>>
  BY DEF UseToken, AskedOf
<1>3. "limit" \in AskedOf /\ "limit" # "running" /\ k.file \in GatewayFiles /\ k.file # "registry" /\ "401" # "200"
  BY <1>2 DEF AskedOf, GatewayFiles
<1>4. /\ DOMAIN k.since = GatewayFiles /\ k.stat \in Int /\ k.held # "nothing"
      /\ k.ran = "nothing" /\ k.admitted \in Int /\ k.ask.call \in Nat /\ k.ask.call <= adapter.call /\ k.ask.path # "none"
      /\ k.ask.path \in {"commands", "dispatch"} /\ k.ask.caller \in AllowedCallers
  BY <1>2, AskedFits
<1>5. \/ Shut(c, k.ask, k.ran, "401", k.admitted) /\ sampled' = sampled
      \/ /\ sampled' = [sampled EXCEPT ![c] = gatewayTime]
         /\ Turned(c, "limit", k.ask, k.file, k.stat, k.held, k.since, k.ran, k.answer, k.lists, k.admitted)
  BY <1>1, TokenDoes
<1>6. DOMAIN sampled' = Connections /\ \A d \in Connections : sampled'[d] \in Int
  <2> HIDE DEF k
  <2> QED
    BY <1>1, <1>5 DEF GateTyped
<1> HIDE DEF k, fine
<1>7. ASSUME NEW answer, Shut(c, k.ask, k.ran, answer, k.admitted), answer # "200" PROVE fine
  BY <1>1, <1>2, <1>4, <1>7, FitShut DEF fine
<1>8. ASSUME Turned(c, "limit", k.ask, k.file, k.stat, k.held, k.since, k.ran, k.answer, k.lists, k.admitted) PROVE fine
  BY <1>1, <1>2, <1>3, <1>4, <1>8, FitTurned DEF fine
<1>9. DOMAIN buckets' = AllowedCallers /\ \A j \in AllowedCallers : buckets'[j] \in Seq(Int)
  BY <1>1, <1>2 DEF GateTyped
<1> QED
  BY <1>2, <1>3, <1>5, <1>6, <1>7, <1>8, <1>9, Framed DEF fine

(* ... after the limit ...                                                 *)
LEMMA AllowTyped == ASSUME GateBase, NEW c \in Connections, AllowRequest(c) PROVE GateBase'
<1> DEFINE k == conn[c]
           who == k.ask.caller
           fine == DOMAIN conn' = Connections /\ \A d \in Connections : KnownConn(conn'[d]) /\ FitConn(conn'[d], adapter'.call)
<1>1. GateTyped /\ ConnsFit /\ adapter.call \in Nat
  BY BaseOf
<1>2. k.at \in AskedOf /\ k.file = "token" /\ UNCHANGED <<watched, cache, gatewayAt, gatewayTime, adapter>>
  BY DEF AllowRequest, AskedOf
<1>3. "stat" \in AskedOf /\ "stat" # "running" /\ "registry" \in GatewayFiles /\ "registry" # "token"
  BY DEF AskedOf, GatewayFiles
<1>4. /\ DOMAIN k.since = GatewayFiles /\ k.stat \in Int /\ k.held # "nothing"
      /\ k.ran = "nothing" /\ k.admitted \in Int /\ k.ask.call \in Nat /\ k.ask.call <= adapter.call /\ k.ask.path # "none"
      /\ k.ask.path \in {"commands", "dispatch"} /\ who \in AllowedCallers
  BY <1>2, AskedFits
<1>5. PICK now \in sampled[c] .. gatewayTime :
        \/ /\ buckets' = [buckets EXCEPT ![who] = InWindow(who, now)] /\ sampled' = [sampled EXCEPT ![c] = -1]
           /\ Shut(c, k.ask, k.ran, "429", k.admitted)
        \/ /\ Admits(who, now) /\ buckets' = [buckets EXCEPT ![who] = Append(InWindow(who, now), now)]
           /\ sampled' = [sampled EXCEPT ![c] = now]
           /\ \/ k.ask.path = "commands" /\ Shut(c, k.ask, k.ran, "200", gatewayTime)
              \/ k.ask.path = "dispatch" /\ Shut(c, k.ask, k.ran, "400", gatewayTime)
              \/ k.ask.path = "dispatch"
                 /\ Turned(c, "stat", k.ask, "registry", k.stat, k.held, k.since, k.ran, k.answer, k.lists, gatewayTime)
  BY <1>1, <1>4, AllowDoes
<1>6. gatewayTime \in Int /\ now \in Int /\ "429" # "200" /\ "400" # "200"
  BY <1>1, <1>5 DEF GateTyped
<1>7. DOMAIN buckets' = AllowedCallers /\ \A j \in AllowedCallers : buckets'[j] \in Seq(Int)
  <2>1. DOMAIN buckets = AllowedCallers /\ \A j \in AllowedCallers : buckets[j] \in Seq(Int)
    BY <1>1 DEF GateTyped
  <2>2. InWindow(who, now) \in Seq(Int) /\ Append(InWindow(who, now), now) \in Seq(Int)
    BY <1>1, <1>4, <1>6, WindowTyped, AppendProperties
  <2> HIDE DEF k
  <2>3. \E bucket \in Seq(Int) : buckets' = [buckets EXCEPT ![who] = bucket]
    BY <1>5, <2>2
  <2> QED
    BY <2>1, <2>3
<1>8. DOMAIN sampled' = Connections /\ \A d \in Connections : sampled'[d] \in Int
  <2>1. \E t \in Int : sampled' = [sampled EXCEPT ![c] = t]
    BY <1>5, <1>6
  <2> QED
    BY <1>1, <2>1 DEF GateTyped
<1> HIDE DEF k, fine
<1>9. ASSUME NEW answer, NEW admitted \in Int, Shut(c, k.ask, k.ran, answer, admitted), answer # "200" \/ k.ask.path # "dispatch" PROVE fine
  BY <1>1, <1>2, <1>4, <1>9, FitShut DEF fine
<1>10. ASSUME Turned(c, "stat", k.ask, "registry", k.stat, k.held, k.since, k.ran, k.answer, k.lists, gatewayTime), k.ask.path = "dispatch"
       PROVE  fine
  BY <1>1, <1>2, <1>3, <1>4, <1>6, <1>10, FitTurned DEF fine
<1>11. fine
  BY <1>4, <1>5, <1>6, <1>9, <1>10
<1> QED
  BY <1>2, <1>7, <1>8, <1>11, Framed DEF fine

(* ... or the registry ...                                                 *)
LEMMA RegistryTyped == ASSUME GateBase, NEW c \in Connections, UseRegistry(c) PROVE GateBase'
<1> DEFINE k == conn[c]
           fine == DOMAIN conn' = Connections /\ \A d \in Connections : KnownConn(conn'[d]) /\ FitConn(conn'[d], adapter'.call)
<1>1. GateTyped /\ ConnsFit /\ adapter.call \in Nat
  BY BaseOf
<1>2. k.at \in AskedOf /\ k.file = "registry" /\ UNCHANGED <<watched, cache, buckets, sampled, gatewayAt, gatewayTime, adapter>>
  BY DEF UseRegistry, AskedOf
<1>4. /\ DOMAIN k.since = GatewayFiles /\ k.stat \in Int /\ k.held # "nothing"
      /\ k.ran = "nothing" /\ k.admitted \in Int /\ k.ask.call \in Nat /\ k.ask.call <= adapter.call /\ k.ask.path # "none"
      /\ k.ask.path \in {"health", "dispatch"}
  BY <1>2, AskedFits
<1>3. cache["registry"].holds # "nothing" /\ "running" \notin AskedOf
  BY <1>1 DEF ConnsFit, GatewayFiles, AskedOf
<1>5. \/ k.ask.path = "health" /\ Shut(c, k.ask, k.ran, "200", k.admitted)
      \/ k.ask.path = "dispatch" /\ \E answer \in {"404", "400"} : Shut(c, k.ask, k.ran, answer, k.admitted)
      \/ k.ask.path = "dispatch"
         /\ Turned(c, "running", k.ask, k.file, k.stat, k.held, k.since, cache["registry"].holds, k.answer, k.lists, k.admitted)
  BY <1>1, <1>4, RegistryDoes
<1> HIDE DEF k, fine
<1>8. ASSUME NEW answer, Shut(c, k.ask, k.ran, answer, k.admitted), answer # "200" \/ k.ask.path # "dispatch" PROVE fine
  BY <1>1, <1>2, <1>4, <1>8, FitShut DEF fine
<1>9. ASSUME Turned(c, "running", k.ask, k.file, k.stat, k.held, k.since, cache["registry"].holds, k.answer, k.lists, k.admitted),
             k.ask.path = "dispatch"
      PROVE  fine
  BY <1>1, <1>2, <1>3, <1>4, <1>9, FitTurned DEF fine
<1>10. fine
  BY <1>4, <1>5, <1>8, <1>9
<1> QED
  BY <1>1, <1>2, <1>10, Framed DEF fine, GateTyped

(* ... and when a command ends.                                            *)
LEMMA EndTyped == ASSUME GateBase, NEW c \in Connections, CommandEnds(c) PROVE GateBase'
<1> DEFINE k == conn[c]
           fine == DOMAIN conn' = Connections /\ \A d \in Connections : KnownConn(conn'[d]) /\ FitConn(conn'[d], adapter'.call)
<1>1. GateTyped /\ ConnsFit /\ adapter.call \in Nat /\ KnownConn(k) /\ FitConn(k, adapter.call)
  BY BaseOf
<1>2. UNCHANGED <<watched, cache, buckets, sampled, gatewayAt, gatewayTime, adapter>>
  BY DEF CommandEnds
<1>3. /\ k.at = "running"
      /\ \/ Shut(c, k.ask, k.ran, "200", k.admitted)
         \/ Shut(c, k.ask, k.ran, "504", k.admitted)
         \/ Shut(c, k.ask, "nothing", "dropped", k.admitted)
  BY <1>1, EndDoes
<1>4. k.ask.path = "dispatch" /\ k.ran # "nothing" /\ k.admitted \in Int /\ k.ask.call \in Nat /\ k.ask.call <= adapter.call
      /\ k.ask.path # "none"
  BY <1>1, <1>3 DEF FitConn, KnownConn
<1> HIDE DEF k, fine
<1>5. ASSUME NEW answer, NEW ran, Shut(c, k.ask, ran, answer, k.admitted), ran # "nothing" \/ answer # "200" PROVE fine
  BY <1>1, <1>2, <1>4, <1>5, FitShut DEF fine
<1>6. fine
  BY <1>3, <1>4, <1>5
<1> QED
  BY <1>1, <1>2, <1>6, Framed DEF fine, GateTyped

-----------------------------------------------------------------------------
(***************************************************************************)
(* The calls of the adapter and what they were answered.                   *)
(***************************************************************************)

-----------------------------------------------------------------------------
(* The adapter has one request in hand, and a number of a call is given to *)
(* one dispatch only.                                                      *)
AdapterFits ==
  /\ adapter.at \in {"idle", "commands", "dispatch"}
  /\ adapter.at # "idle" =>
       /\ adapter.on \in Connections /\ conn[adapter.on].at # "new" /\ conn[adapter.on].ask.path = adapter.at
       /\ conn[adapter.on].ask.call = adapter.call /\ adapter.call >= 1 /\ adapter.heard = "none"
  /\ adapter.at = "commands" => \A c \in Connections : ~(conn[c].ask.path = "dispatch" /\ conn[c].ask.call = adapter.call)
  /\ \A c, d \in Connections :
       conn[c].ask.path = "dispatch" /\ conn[d].ask.path = "dispatch" /\ conn[c].ask.call = conn[d].ask.call
         /\ conn[c].ask.call # 0 => c = d
  /\ adapter.heard = "result" =>
       \E c \in Connections : conn[c].at = "closed" /\ conn[c].ran # "nothing" /\ conn[c].ask.call = adapter.call

(* What a connection's step leaves: who asked, and what closed.            *)
AskKept ==
  /\ auditLog \subseteq auditLog'
  /\ \A c \in Connections :
       /\ conn[c].at = "closed" => conn'[c] = conn[c]
       /\ conn[c].at # "new" => conn'[c].at # "new"
       /\ conn'[c].ask = conn[c].ask \/ (conn[c].ask.call = 0 /\ conn'[c].ask.call = 0)

EndsKept ==
  /\ auditLog \subseteq auditLog'
  /\ \A c \in Connections :
       /\ conn[c].at = "closed" => conn'[c] = conn[c]
       /\ conn[c].at # "closed" /\ conn'[c].at = "closed" /\ conn'[c].ran # "nothing" =>
            \E e \in {"dispatch", "timeout"} : <<c, e>> \in auditLog'

(* What the adapter waits for stays known while its connection keeps its   *)
(* ask ...                                                                 *)
LEMMA AdapterFrame == ASSUME AdapterFits, AskKept, UNCHANGED adapter PROVE AdapterFits'
BY DEF AskKept, AdapterFits

(* ... and what ended stays audited while endings stay.                    *)
LEMMA EndsFrame == ASSUME EndsAudited, EndsKept PROVE EndsAudited'
BY DEF EndsKept, EndsAudited

(* A step that leaves its connection open keeps asks and endings ...       *)
LEMMA TurnedKeeps ==
  ASSUME GateBase, NEW c \in Connections, conn[c].at # "closed", auditLog \subseteq auditLog',
         NEW at, NEW file, NEW stat, NEW held, NEW since, NEW ran, NEW answer, NEW lists, NEW admitted, at \notin {"new", "closed"},
         Turned(c, at, conn[c].ask, file, stat, held, since, ran, answer, lists, admitted)
  PROVE  AskKept /\ EndsKept
BY DEF Turned, AskKept, EndsKept

(* ... and so does one that ends it, if what ran is in the audit log.      *)
LEMMA ShutKeeps ==
  ASSUME GateBase, NEW c \in Connections, conn[c].at # "closed", auditLog \subseteq auditLog',
         NEW ran, NEW answer, NEW admitted, Shut(c, conn[c].ask, ran, answer, admitted),
         ran # "nothing" => \E e \in {"dispatch", "timeout"} : <<c, e>> \in auditLog'
  PROVE  AskKept /\ EndsKept
<1>1. conn'[c].at = "closed" /\ conn'[c].ran = ran /\ \A d \in Connections : d # c => conn'[d] = conn[d]
  BY DEF Shut
<1>2. conn'[c].ask = conn[c].ask \/ (conn[c].ask.call = 0 /\ conn'[c].ask.call = 0)
  <2> DEFINE seen == [path |-> "closed", caller |-> conn[c].ask.caller, call |-> 0]
  <2>1. seen.call = 0
    OBVIOUS
  <2> HIDE DEF seen
  <2>2. conn[c].ask.call = 0 => conn'[c].ask = seen
    BY DEF Shut, seen
  <2>3. conn[c].ask.call # 0 => conn'[c].ask = conn[c].ask
    BY DEF Shut
  <2> QED
    BY <2>1, <2>2, <2>3
<1>3. AskKept
  BY <1>1, <1>2 DEF AskKept
<1>4. EndsKept
  BY <1>1 DEF EndsKept
<1> QED
  BY <1>3, <1>4

(* An arrival opens a connection that was new, with this request.          *)
LEMMA ArrivesKeeps ==
  ASSUME GateBase, NEW c \in Connections, NEW ask, Arrives(c, ask)
  PROVE  /\ EndsKept /\ conn[c].at = "new" /\ conn[c].ask.call = 0 /\ conn[c].ask.path = "none"
         /\ conn'[c].at # "new" /\ \A d \in Connections : d # c => conn'[d] = conn[d]
         /\ conn'[c].ask.call = ask.call /\ (ask.call # 0 => conn'[c].ask = ask)
<1> DEFINE k == conn[c]
<1>1. KnownConn(k) /\ FitConn(k, adapter.call) /\ GateTyped
  BY BaseOf
<1>2. /\ k.at = "new"
      /\ \/ \E file \in GatewayFiles : Turned(c, "stat", ask, file, k.stat, k.held, k.since, k.ran, k.answer, k.lists, k.admitted)
         \/ \E answer \in {"401", "403"} : Shut(c, ask, k.ran, answer, k.admitted)
  BY <1>1, ArrivesDoes
<1>3. auditLog \subseteq auditLog'
  BY DEF Arrives, Audits
<1>4. k.ran = "nothing" /\ k.ask.call = 0 /\ k.ask.path = "none"
  BY <1>1, <1>2 DEF FitConn
<1> HIDE DEF k
<1>5. CASE \E file \in GatewayFiles : Turned(c, "stat", ask, file, k.stat, k.held, k.since, k.ran, k.answer, k.lists, k.admitted)
  BY <1>2, <1>3, <1>4, <1>5 DEF Turned, EndsKept, k
<1>6. CASE \E answer \in {"401", "403"} : Shut(c, ask, k.ran, answer, k.admitted)
  <2>1. PICK answer \in {"401", "403"} : Shut(c, ask, k.ran, answer, k.admitted)
    BY <1>6
  <2> DEFINE seen == [path |-> "closed", caller |-> ask.caller, call |-> 0]
  <2>2. seen.call = 0
    OBVIOUS
  <2> HIDE DEF seen
  <2>3. /\ conn'[c].at = "closed" /\ conn'[c].ran = k.ran /\ \A d \in Connections : d # c => conn'[d] = conn[d]
        /\ ask.call = 0 => conn'[c].ask = seen
        /\ ask.call # 0 => conn'[c].ask = ask
    BY <2>1 DEF Shut, seen
  <2>4. EndsKept
    BY <1>2, <1>3, <1>4, <2>3 DEF EndsKept, k
  <2> QED
    BY <1>2, <1>4, <2>2, <2>3, <2>4 DEF k
<1> QED
  BY <1>2, <1>5, <1>6

(* The steps of a thread at the files.                                     *)
FileStep(c) == StatFile(c) \/ ReadFile(c) \/ AssignCache(c) \/ NoteTime(c) \/ UseToken(c) \/ AllowRequest(c) \/ UseRegistry(c)

(* So every step of a request does ...                                     *)
LEMMA StepsKeep == ASSUME GateBase, NEW c \in Connections, FileStep(c) \/ CommandEnds(c) PROVE AskKept /\ EndsKept /\ UNCHANGED adapter
<1> DEFINE k == conn[c]
<1>1. GateTyped
  BY DEF GateBase
<1>2. UNCHANGED adapter
  BY DEF FileStep, StatFile, ReadFile, AssignCache, NoteTime, UseToken, AllowRequest, UseRegistry, CommandEnds
<1>3. k.at \in AskedOf \cup {"running"} /\ k.at # "closed"
  BY DEF FileStep, StatFile, ReadFile, AssignCache, NoteTime, UseToken, AllowRequest, UseRegistry, CommandEnds, AskedOf
<1>4. auditLog \subseteq auditLog'
  <2>1. auditLog' = auditLog \/ \E e : auditLog' = auditLog \cup {<<c, e>>}
    <3>1. CASE UseToken(c)
      BY <3>1 DEF UseToken, Audits
    <3>2. CASE CommandEnds(c)
      BY <3>2 DEF CommandEnds, Audits
    <3> QED
      BY <3>1, <3>2 DEF FileStep, StatFile, ReadFile, AssignCache, NoteTime, AllowRequest, UseRegistry
  <2> QED
    BY <2>1
<1>5. CASE FileStep(c)
  <2>1. k.at \in AskedOf
    BY <1>5 DEF FileStep, StatFile, ReadFile, AssignCache, NoteTime, UseToken, AllowRequest, UseRegistry, AskedOf
  <2>2. k.ran = "nothing" /\ (k.file = "token" => k.ask.path \in {"commands", "dispatch"})
        /\ (k.file = "registry" => k.ask.path \in {"health", "dispatch"})
    BY <2>1, AskedFits
  <2>3. ASSUME NEW answer, NEW admitted, Shut(c, k.ask, k.ran, answer, admitted) PROVE AskKept /\ EndsKept
    BY <1>3, <1>4, <2>2, <2>3, ShutKeeps
  <2>4. ASSUME NEW at, NEW file, NEW stat, NEW held, NEW since, NEW ran, NEW answer, NEW lists, NEW admitted, at \notin {"new", "closed"},
               Turned(c, at, k.ask, file, stat, held, since, ran, answer, lists, admitted)
        PROVE  AskKept /\ EndsKept
    BY <1>3, <1>4, <2>4, TurnedKeeps
  <2>5. CASE StatFile(c)
    <3> DEFINE at == IF watched[k.file].holds = Absent \/ watched[k.file].mtime = cache[k.file].mtime THEN "use" ELSE "read"
               held == IF watched[k.file].holds = Absent THEN Absent ELSE "none"
               since == [k.since EXCEPT ![k.file] = {watched[k.file].holds}]
    <3>1. Turned(c, at, k.ask, k.file, watched[k.file].mtime, held, since, k.ran, k.answer, k.lists, k.admitted)
      BY <1>1, <2>5, StatDoes
    <3>2. at \notin {"new", "closed"}
      OBVIOUS
    <3> HIDE DEF at, held, since, k
    <3> QED
      BY <1>2, <2>4, <3>1, <3>2
  <2>6. CASE ReadFile(c)
    <3>1. \/ Shut(c, k.ask, k.ran, "dropped", k.admitted)
          \/ Turned(c, "assign", k.ask, k.file, k.stat, watched[k.file].holds, k.since, k.ran, k.answer, k.lists, k.admitted)
      BY <1>1, <2>6, ReadDoes
    <3> HIDE DEF k
    <3> QED
      BY <1>2, <2>3, <2>4, <3>1
  <2>7. CASE AssignCache(c)
    <3>1. Turned(c, "note", k.ask, k.file, k.stat, k.held, k.since, k.ran, k.answer, k.lists, k.admitted)
      BY <1>1, <2>7, AssignDoes
    <3> HIDE DEF k
    <3> QED
      BY <1>2, <2>4, <3>1
  <2>8. CASE NoteTime(c)
    <3>1. Turned(c, "use", k.ask, k.file, k.stat, "none", k.since, k.ran, k.answer, k.lists, k.admitted)
      BY <1>1, <2>8, NoteDoes
    <3> HIDE DEF k
    <3> QED
      BY <1>2, <2>4, <3>1
  <2>9. CASE UseToken(c)
    <3>1. \/ Shut(c, k.ask, k.ran, "401", k.admitted)
          \/ Turned(c, "limit", k.ask, k.file, k.stat, k.held, k.since, k.ran, k.answer, k.lists, k.admitted)
      BY <1>1, <2>9, TokenDoes
    <3> HIDE DEF k
    <3> QED
      BY <1>2, <2>3, <2>4, <3>1
  <2>10. CASE AllowRequest(c)
    <3>1. k.ask.path \in {"commands", "dispatch"}
      BY <2>2, <2>10 DEF AllowRequest
    <3>2. \/ Shut(c, k.ask, k.ran, "429", k.admitted)
          \/ Shut(c, k.ask, k.ran, "200", gatewayTime)
          \/ Shut(c, k.ask, k.ran, "400", gatewayTime)
          \/ Turned(c, "stat", k.ask, "registry", k.stat, k.held, k.since, k.ran, k.answer, k.lists, gatewayTime)
      BY <1>1, <2>10, <3>1, AllowDoes
    <3> HIDE DEF k
    <3> QED
      BY <1>2, <2>3, <2>4, <3>2
  <2>11. CASE UseRegistry(c)
    <3>1. k.ask.path \in {"health", "dispatch"}
      BY <2>2, <2>11 DEF UseRegistry
    <3>2. \/ \E answer : Shut(c, k.ask, k.ran, answer, k.admitted)
          \/ Turned(c, "running", k.ask, k.file, k.stat, k.held, k.since, cache["registry"].holds, k.answer, k.lists, k.admitted)
      BY <1>1, <2>11, <3>1, RegistryDoes
    <3> HIDE DEF k
    <3> QED
      BY <1>2, <2>3, <2>4, <3>2
  <2> QED
    BY <1>2, <1>5, <2>5, <2>6, <2>7, <2>8, <2>9, <2>10, <2>11 DEF FileStep
<1>6. CASE CommandEnds(c)
  <2>1. \/ Shut(c, k.ask, k.ran, "200", k.admitted) /\ auditLog' = auditLog \cup {<<c, "dispatch">>}
        \/ Shut(c, k.ask, k.ran, "504", k.admitted) /\ auditLog' = auditLog \cup {<<c, "timeout">>}
        \/ Shut(c, k.ask, "nothing", "dropped", k.admitted)
    BY <1>1, <1>6, EndDoes
  <2> HIDE DEF k
  <2>2. ASSUME NEW ran, NEW answer, Shut(c, k.ask, ran, answer, k.admitted),
               ran # "nothing" => \E e \in {"dispatch", "timeout"} : <<c, e>> \in auditLog'
        PROVE  AskKept /\ EndsKept
    BY <1>3, <1>4, <2>2, ShutKeeps DEF k
  <2>3. CASE Shut(c, k.ask, k.ran, "200", k.admitted) /\ auditLog' = auditLog \cup {<<c, "dispatch">>}
    BY <2>3, <1>2, <2>2
  <2>4. CASE Shut(c, k.ask, k.ran, "504", k.admitted) /\ auditLog' = auditLog \cup {<<c, "timeout">>}
    BY <2>4, <1>2, <2>2
  <2>5. CASE Shut(c, k.ask, "nothing", "dropped", k.admitted)
    BY <1>2, <2>2, <2>5
  <2> QED
    BY <1>2, <2>1, <2>3, <2>4, <2>5
<1> QED
  BY <1>5, <1>6

(* ... and every new connection.                                           *)
LEMMA ConnectsKeep == ASSUME GateBase, NEW c \in Connections, Connects(c) PROVE GateBase' /\ AskKept /\ EndsKept /\ UNCHANGED adapter
<1>1. PICK ask \in DirectAsks : Arrives(c, ask)
  BY DEF Connects
<1>2. UNCHANGED <<watched, cache, buckets, sampled, gatewayAt, gatewayTime, adapter>>
  BY DEF Connects
<1>3. ask.call = 0 /\ ask.path \in {"health", "commands", "dispatch"}
  BY GatewayAssumption
<1>4. adapter.call \in Nat /\ GateTyped
  BY DEF GateBase, GateTyped
<1>5. DOMAIN conn' = Connections /\ \A d \in Connections : KnownConn(conn'[d]) /\ FitConn(conn'[d], adapter'.call)
  BY <1>1, <1>2, <1>3, <1>4, ArrivesTyped
<1>6. GateBase'
  BY <1>2, <1>4, <1>5, Framed DEF GateTyped
<1>7. /\ EndsKept /\ conn[c].at = "new" /\ conn[c].ask.call = 0
      /\ conn'[c].at # "new" /\ \A d \in Connections : d # c => conn'[d] = conn[d]
      /\ conn'[c].ask.call = ask.call
  BY <1>1, ArrivesKeeps
<1>8. AskKept
  BY <1>3, <1>7 DEF AskKept, EndsKept
<1> QED
  BY <1>2, <1>6, <1>7, <1>8

(* A request of the adapter is of its newest call.                         *)
LEMMA SendsFit ==
  ASSUME GateBase, AdapterFits, NEW path \in {"commands", "dispatch"}, NEW toolCall, NEW commands, Sends(path, toolCall, commands),
         toolCall.number \in Nat, toolCall.number >= 1, adapter.call <= toolCall.number,
         toolCall.number = adapter.call => adapter.at = "commands" /\ path = "dispatch",
         UNCHANGED <<watched, cache, buckets, sampled, gatewayAt, gatewayTime>>
  PROVE  GateBase' /\ AdapterFits' /\ EndsKept
<1> DEFINE n == toolCall.number
<1>1. GateTyped /\ adapter.call \in Nat /\ DOMAIN conn = Connections
  BY DEF GateBase, GateTyped
<1>2. \/ \E c \in Connections : \E ask :
              /\ ask.path = path /\ ask.call = n /\ Arrives(c, ask) /\ Heard(path, toolCall.op, n, c, "none")
      \/ UNCHANGED <<conn, auditLog>> /\ Heard("idle", "none", n, "none", "error")
  BY <1>1, SendsDoes
<1>3. \A d \in Connections : conn[d].ask.call \in Nat /\ conn[d].ask.call <= adapter.call
  BY DEF GateBase, ConnsFit, FitConn
<1>4. \A c, d \in Connections :
       conn[c].ask.path = "dispatch" /\ conn[d].ask.path = "dispatch" /\ conn[c].ask.call = conn[d].ask.call
         /\ conn[c].ask.call # 0 => c = d
  BY DEF AdapterFits
<1>5. \A d \in Connections : ~(path = "dispatch" /\ conn[d].ask.path = "dispatch" /\ conn[d].ask.call = n)
  <2>1. CASE n = adapter.call
    BY <2>1 DEF AdapterFits
  <2>2. CASE adapter.call < n
    <3> HIDE DEF n
    <3> QED
      BY <1>1, <1>3, <2>2
  <2> QED
    BY <1>1, <2>1, <2>2
<1>6. path = "commands" => \A d \in Connections : conn[d].ask.call # n
  <2> HIDE DEF n
  <2>1. path = "commands" => adapter.call < n /\ n \in Nat
    BY <1>1 DEF n
  <2> QED
    BY <1>1, <1>3, <2>1
<1>7. n \in Nat /\ n >= 1 /\ adapter.call <= n
  OBVIOUS
<1> HIDE DEF n
<1>8. CASE \E c \in Connections : \E ask :
              /\ ask.path = path /\ ask.call = n /\ Arrives(c, ask) /\ Heard(path, toolCall.op, n, c, "none")
  <2>1. PICK c, ask : c \in Connections /\ ask.path = path /\ ask.call = n /\ Arrives(c, ask) /\ Heard(path, toolCall.op, n, c, "none")
    BY <1>8
  <2>2. DOMAIN adapter' = AdapterFields /\ adapter'.at = path /\ adapter'.call = n /\ adapter'.on = c /\ adapter'.heard = "none"
    BY <2>1 DEF Heard
  <2>3. DOMAIN conn' = Connections /\ \A d \in Connections : KnownConn(conn'[d]) /\ FitConn(conn'[d], adapter'.call)
    BY <1>1, <1>7, <2>1, <2>2, ArrivesTyped
  <2>4. /\ EndsKept /\ conn'[c].at # "new" /\ conn'[c].ask = ask /\ \A d \in Connections : d # c => conn'[d] = conn[d]
    BY <1>7, <2>1, ArrivesKeeps
  <2>5. RestTyped'
    BY <1>1, <1>7, <2>2 DEF GateTyped, RestTyped
  <2>6. GateBase'
    BY <2>3, <2>5, Packed DEF GateBase, ConnsFit
  <2>7. path = "commands" => \A d \in Connections : ~(conn'[d].ask.path = "dispatch" /\ conn'[d].ask.call = n)
    BY <1>6, <2>1, <2>4
  <2>8. ASSUME NEW d \in Connections, NEW e \in Connections, conn'[d].ask.path = "dispatch", conn'[e].ask.path = "dispatch",
               conn'[d].ask.call = conn'[e].ask.call, conn'[d].ask.call # 0
        PROVE  d = e
    BY <1>5, <2>1, <2>4, <2>8, <1>4
  <2>9. AdapterFits'
    BY <1>7, <2>1, <2>2, <2>4, <2>7, <2>8 DEF AdapterFits
  <2> QED
    BY <2>4, <2>6, <2>9
<1>9. CASE UNCHANGED <<conn, auditLog>> /\ Heard("idle", "none", n, "none", "error")
  BY <1>9, <1>7, SameConns, <1>1, Packed, <1>4 DEF Heard, GateTyped, RestTyped, GateBase, ConnsFit,
     AdapterFits, EndsKept
<1> QED
  BY <1>2, <1>8, <1>9

(* The adapter hears, and has nothing more in hand.                        *)
LEMMA QuietFits ==
  ASSUME GateBase, AdapterFits, UNCHANGED <<conn, auditLog, watched, cache, buckets, sampled, gatewayAt, gatewayTime>>,
         NEW op, NEW n \in Nat, NEW on, NEW heard, Heard("idle", op, n, on, heard), adapter.call <= n,
         heard = "result" => \E c \in Connections : conn[c].at = "closed" /\ conn[c].ran # "nothing" /\ conn[c].ask.call = n
  PROVE  GateBase' /\ AdapterFits' /\ EndsKept
BY SameConns, Packed DEF GateBase, GateTyped, Heard, RestTyped, ConnsFit, AdapterFits, EndsKept

AdapterStep == (\E op \in {"list", "refresh", "dispatch"} : ToolCall(op)) \/ AdapterHears \/ AdapterGivesUp

(* So the steps of the adapter keep what it waits for.                     *)
LEMMA AdapterSteps == ASSUME GateBase, AdapterFits, AdapterStep PROVE GateBase' /\ AdapterFits' /\ EndsKept
<1>1. GateTyped /\ adapter.call \in Nat /\ ConnsFit
  BY DEF GateBase, GateTyped
<1>2. UNCHANGED <<watched, cache, buckets, sampled, gatewayAt, gatewayTime>>
  BY DEF AdapterStep, ToolCall, AdapterHears, AdapterGivesUp
<1>3. CASE \E op \in {"list", "refresh", "dispatch"} : ToolCall(op)
  <2>1. PICK op : ToolCall(op)
    BY <1>3
  <2> DEFINE toolCall == [op |-> op, number |-> adapter.call + 1]
  <2>2. \/ \E path \in {"commands", "dispatch"} : Sends(path, toolCall, adapter.commands)
        \/ /\ UNCHANGED <<conn, auditLog>>
           /\ \E heard \in {"unknown", "listed"} : Heard("idle", adapter.op, adapter.call + 1, adapter.on, heard)
    BY <1>1, <2>1, ToolDoes
  <2>3. toolCall.number = adapter.call + 1
    OBVIOUS
  <2> HIDE DEF toolCall
  <2>4. toolCall.number \in Nat /\ toolCall.number >= 1 /\ adapter.call <= toolCall.number /\ toolCall.number # adapter.call
    BY <1>1, <2>3
  <2>5. CASE \E path \in {"commands", "dispatch"} : Sends(path, toolCall, adapter.commands)
    BY <1>2, <2>4, <2>5, SendsFit
  <2>6. ASSUME UNCHANGED <<conn, auditLog>>, NEW heard \in {"unknown", "listed"},
               Heard("idle", adapter.op, adapter.call + 1, adapter.on, heard)
        PROVE  GateBase' /\ AdapterFits' /\ EndsKept
    <3>1. heard # "result" /\ adapter.call + 1 \in Nat /\ adapter.call <= adapter.call + 1
      BY <1>1
    <3> QED
      BY <1>2, <2>6, <3>1, QuietFits
  <2> QED
    BY <2>2, <2>5, <2>6
<1>4. CASE AdapterHears
  <2> DEFINE c == adapter.on
             toolCall == [op |-> "dispatch", number |-> adapter.call]
  <2>1. /\ adapter.at # "idle" /\ conn[c].at = "closed"
        /\ \/ /\ UNCHANGED <<conn, auditLog>>
              /\ \E heard \in {"error", "unknown", "listed"} : Heard("idle", "none", adapter.call, "none", heard)
           \/ /\ conn[c].answer = "200" /\ adapter.at = "dispatch" /\ UNCHANGED <<conn, auditLog>>
              /\ Heard("idle", "none", adapter.call, "none", "result")
           \/ adapter.at = "commands" /\ Sends("dispatch", toolCall, conn[c].lists)
    BY <1>1, <1>4, AdapterDoes
  <2>2. /\ c \in Connections /\ conn[c].ask.path = adapter.at /\ conn[c].ask.call = adapter.call /\ adapter.call >= 1
    BY <2>1 DEF AdapterFits
  <2>3. toolCall.number = adapter.call
    OBVIOUS
  <2> HIDE DEF toolCall
  <2>4. ASSUME UNCHANGED <<conn, auditLog>>, NEW heard \in {"error", "unknown", "listed"}, Heard("idle", "none", adapter.call, "none", heard)
        PROVE  GateBase' /\ AdapterFits' /\ EndsKept
    BY <1>1, <1>2, <2>4, QuietFits
  <2>5. CASE conn[c].answer = "200" /\ adapter.at = "dispatch" /\ UNCHANGED <<conn, auditLog>>
             /\ Heard("idle", "none", adapter.call, "none", "result")
    BY <1>1, <2>2, <2>1, <2>5, <1>2, QuietFits DEF ConnsFit, FitConn
  <2>6. CASE adapter.at = "commands" /\ Sends("dispatch", toolCall, conn[c].lists)
    BY <1>1, <2>2, <2>3, <1>2, <2>6, SendsFit
  <2> QED
    BY <2>1, <2>4, <2>5, <2>6
<1>5. CASE AdapterGivesUp
  BY <1>5, <1>1, HearsDoes, <1>2, QuietFits DEF AdapterGivesUp
<1> QED
  BY <1>3, <1>4, <1>5 DEF AdapterStep

-----------------------------------------------------------------------------
FileClock == SecondPasses \/ GatewayReads \/ GatewayNotes

(* Files, clock and watchers leave connections alone.                      *)
LEMMA GateFrame == ASSUME GateBase, (\E f \in GatewayFiles : Edit(f)) \/ FileClock PROVE GateBase' /\ AskKept /\ EndsKept /\ UNCHANGED adapter
<1>1. CASE FileClock
  BY <1>1, ClockTyped DEF FileClock, SecondPasses, GatewayReads, GatewayNotes, AskKept, EndsKept
<1>2. ASSUME NEW f \in GatewayFiles, Edit(f) PROVE GateBase' /\ AskKept /\ EndsKept /\ UNCHANGED adapter
  BY <1>2, EditTyped, EditDoes DEF Edit, GateBase, AskKept, EndsKept
<1> QED
  BY <1>1, <1>2

(* What of the gateway does not speak of the clock or of the files.        *)
GateCalls == GateBase /\ AdapterFits /\ EndsAudited

(* The steps of a gateway, grouped by what they touch.                     *)
LEMMA NextParts ==
  GatewayNext <=> \/ \E f \in GatewayFiles : Edit(f)
                  \/ FileClock
                  \/ \E c \in Connections : Connects(c) \/ FileStep(c) \/ CommandEnds(c)
                  \/ AdapterStep
BY Zenon DEF GatewayNext, FileClock, FileStep, AdapterStep

(* Types after a step of a request.                                        *)
LEMMA FileStepTyped == ASSUME GateBase, NEW c \in Connections, FileStep(c) \/ CommandEnds(c) PROVE GateBase'
BY StatTyped, ReadTyped, AssignTyped, NoteTyped, TokenTyped, AllowTyped, RegistryTyped, EndTyped, Zenon DEF FileStep

(* What is known of calls and their endings is kept by every step.         *)
LEMMA CallsStep == ASSUME GateCalls, GatewayNext PROVE GateCalls'
BY AdapterFrame, EndsFrame, GateFrame, ConnectsKeep, StepsKeep, FileStepTyped, AdapterSteps, NextParts DEF
   GateCalls

-----------------------------------------------------------------------------
(***************************************************************************)
(* The watched files and what is cached of them.                           *)
(***************************************************************************)

-----------------------------------------------------------------------------
(* A thread that has the time of the file, and one that reads it anew.     *)
Passed(k, f) == k.file = f /\ k.at \in {"read", "assign", "note", "use"}
Reloads(k, f) == k.file = f /\ k.at \in {"read", "assign", "note"}
AtFile(k, at, f) == k.file = f /\ k.at = at

(* What is so of a file whatever the threads do.                           *)
SeenOf(f) ==
  /\ cache[f].mtime <= watched[f].mtime
  /\ \A c \in Connections : Passed(conn[c], f) =>
       conn[c].stat \in Int /\ conn[c].stat <= watched[f].mtime /\ watched[f].holds \in conn[c].since[f]
  /\ \A e \in Connections : AtFile(conn[e], "assign", f) /\ conn[e].stat = watched[f].mtime => conn[e].held = watched[f].holds
  /\ \A c, e \in Connections :
       Reloads(conn[c], f) /\ AtFile(conn[e], "assign", f) /\ conn[c].stat = conn[e].stat => conn[e].held \in conn[c].since[f]
  /\ \A c \in Connections : AtFile(conn[c], "use", f) /\ conn[c].held = Absent => Absent \in conn[c].since[f]

(* A thread is at noting another time than this one's.                     *)
Rivalled(c, f) == \E e \in Connections : AtFile(conn[e], "note", f) /\ conn[e].stat # conn[c].stat

(* What is so of a file of which no two threads noted times at once.       *)
FreshOf(f) ==
  f \notin crossed =>
    /\ cache[f].mtime = watched[f].mtime => cache[f].holds = watched[f].holds
    /\ \A e \in Connections : Reloads(conn[e], f) /\ conn[e].stat # watched[f].mtime => cache[f].mtime # watched[f].mtime
    /\ \A d \in Connections : AtFile(conn[d], "note", f) /\ conn[d].stat = watched[f].mtime =>
         cache[f].holds = watched[f].holds \/ Rivalled(d, f)
    /\ \A c \in Connections : AtFile(conn[c], "note", f) => cache[f].holds \in conn[c].since[f] \/ Rivalled(c, f)
    /\ \A c \in Connections : AtFile(conn[c], "use", f) /\ conn[c].held # Absent => cache[f].holds \in conn[c].since[f]
    /\ \A c, e \in Connections :
         AtFile(conn[c], "use", f) /\ conn[c].held # Absent /\ AtFile(conn[e], "assign", f) => conn[e].held \in conn[c].since[f]

FilesFresh ==
  /\ \A f \in GatewayFiles : SeenOf(f) /\ FreshOf(f)
  /\ gatewayAt # "up" => (\A c \in Connections : conn[c].at = "new") /\ \A f \in GatewayFiles : cache[f].mtime = -1
  /\ gatewayAt = "noting" /\ "registry" \notin crossed => cache["registry"].holds = watched["registry"].holds

-----------------------------------------------------------------------------
(* What the file's part of a connection is.                                *)
Alikes(m, k, f) == m.at = k.at /\ m.file = k.file /\ m.stat = k.stat /\ m.held = k.held /\ m.since[f] = k.since[f]

(* A step that no thread past the file's time takes.                       *)
LEMMA FreshSame ==
  ASSUME NEW f \in GatewayFiles, SeenOf(f), FreshOf(f), watched'[f] = watched[f], cache'[f] = cache[f],
         f \in crossed => f \in crossed',
         \A d \in Connections : Passed(conn'[d], f) => Alikes(conn'[d], conn[d], f),
         \A d \in Connections : AtFile(conn[d], "note", f) => Alikes(conn'[d], conn[d], f)
  PROVE  SeenOf(f)' /\ FreshOf(f)'
<1>1. \A d \in Connections :
        /\ Reloads(conn'[d], f) => Reloads(conn[d], f) /\ Alikes(conn'[d], conn[d], f)
        /\ Passed(conn'[d], f) => Passed(conn[d], f) /\ Alikes(conn'[d], conn[d], f)
        /\ AtFile(conn'[d], "note", f) => AtFile(conn[d], "note", f) /\ Alikes(conn'[d], conn[d], f)
        /\ AtFile(conn'[d], "assign", f) => AtFile(conn[d], "assign", f) /\ Alikes(conn'[d], conn[d], f)
        /\ AtFile(conn'[d], "use", f) => AtFile(conn[d], "use", f) /\ Alikes(conn'[d], conn[d], f)
  BY DEF Passed, Reloads, AtFile, Alikes
<1>2. ASSUME NEW c \in Connections, AtFile(conn'[c], "note", f), Rivalled(c, f) PROVE Rivalled(c, f)'
  <2>1. PICK e \in Connections : AtFile(conn[e], "note", f) /\ conn[e].stat # conn[c].stat
    BY <1>2 DEF Rivalled
  <2>2. Alikes(conn'[e], conn[e], f) /\ Alikes(conn'[c], conn[c], f)
    BY <1>1, <1>2, <2>1
  <2>3. AtFile(conn'[e], "note", f) /\ conn'[e].stat # conn'[c].stat
    BY <2>1, <2>2 DEF Alikes, AtFile
  <2> QED
    BY <2>3 DEF Rivalled
<1>3. SeenOf(f)'
  BY <1>1 DEF SeenOf, Alikes
<1>4. ASSUME f \notin crossed' PROVE FreshOf(f)'
  BY <1>4, <1>1, <1>2 DEF FreshOf, Alikes
<1> QED
  BY <1>3, <1>4 DEF FreshOf

(* A file that is edited has a time that nobody noted.                     *)
LEMMA EditFresh == ASSUME GateBase, FilesFresh, NEW f \in GatewayFiles, Edit(f) PROVE FilesFresh'
<1>1. GateTyped /\ ConnsFit /\ SeenOf(f) /\ FreshOf(f)
  BY DEF GateBase, FilesFresh
<1>2. UNCHANGED <<cache, gatewayAt>> /\ crossed \subseteq crossed' /\ (gatewayAt = "noting" /\ f = "registry" => f \in crossed')
  BY DEF Edit
<1>3. /\ watched'[f].mtime = watched[f].mtime + 1
      /\ \A g \in GatewayFiles : g # f => watched'[g] = watched[g]
  BY <1>1, EditDoes
<1>4. ASSUME NEW c \in Connections
      PROVE  LET k == conn[c]
                 next == conn'[c]
             IN  /\ next.at = k.at /\ next.file = k.file /\ next.stat = k.stat /\ next.held = k.held
                 /\ \A g \in GatewayFiles : g # f => next.since[g] = k.since[g]
                 /\ k.at \notin {"new", "closed"} => next.since[f] = k.since[f] \cup {watched'[f].holds}
  <2>1. LET k == conn[c]
            next == conn'[c]
        IN  /\ next.at = k.at /\ next.file = k.file /\ next.stat = k.stat /\ next.held = k.held
            /\ next.since = IF k.at \in {"new", "closed"} THEN k.since
                            ELSE [k.since EXCEPT ![f] = @ \cup {watched'[f].holds}]
    BY <1>1, EditDoes
  <2>2. DOMAIN conn[c].since = GatewayFiles
    BY <1>1 DEF ConnsFit, KnownConn
  <2> QED
    BY <2>1, <2>2
<1>5. ASSUME NEW g \in GatewayFiles, g # f PROVE SeenOf(g)' /\ FreshOf(g)'
  BY <1>4, <1>5, <1>2, <1>3, FreshSame DEF FilesFresh, Alikes
<1>6. watched[f].mtime \in Nat /\ cache[f].mtime \in Int
  BY <1>1 DEF GateTyped
<1>7. \A c \in Connections :
        /\ Passed(conn'[c], f) => Passed(conn[c], f) /\ conn'[c].since[f] = conn[c].since[f] \cup {watched'[f].holds}
        /\ Reloads(conn'[c], f) => Reloads(conn[c], f) /\ Passed(conn[c], f) /\ conn'[c].since[f] = conn[c].since[f] \cup {watched'[f].holds}
        /\ AtFile(conn'[c], "assign", f) => AtFile(conn[c], "assign", f) /\ Passed(conn[c], f)
        /\ AtFile(conn'[c], "note", f) <=> AtFile(conn[c], "note", f)
        /\ AtFile(conn'[c], "note", f) => Passed(conn[c], f) /\ conn'[c].since[f] = conn[c].since[f] \cup {watched'[f].holds}
        /\ AtFile(conn'[c], "use", f) => AtFile(conn[c], "use", f) /\ conn'[c].since[f] = conn[c].since[f] \cup {watched'[f].holds}
        /\ conn'[c].held = conn[c].held /\ conn'[c].stat = conn[c].stat
  BY <1>4 DEF Passed, Reloads, AtFile
<1>8. SeenOf(f)'
  BY <1>1, <1>2, <1>3, <1>6, <1>7 DEF SeenOf
<1>9. ASSUME f \notin crossed' PROVE FreshOf(f)'
  <2>0. f \notin crossed
    BY <1>2, <1>9
  <2>1. cache'[f].mtime # watched'[f].mtime
    BY <1>1, <1>2, <1>3, <1>6 DEF SeenOf
  <2>2. \A c \in Connections : AtFile(conn'[c], "note", f) => conn'[c].stat # watched'[f].mtime
    BY <1>1, <1>3, <1>6, <1>7 DEF SeenOf
  <2>3. ASSUME NEW c \in Connections, AtFile(conn'[c], "note", f) PROVE cache'[f].holds \in conn'[c].since[f] \/ Rivalled(c, f)'
    BY <1>7, <1>1, <1>2, <2>0, <2>3 DEF Rivalled, FreshOf
  <2>4. \A c \in Connections : AtFile(conn'[c], "use", f) /\ conn'[c].held # Absent => cache'[f].holds \in conn'[c].since[f]
    BY <1>1, <1>2, <1>7, <2>0 DEF FreshOf
  <2>5. \A c, e \in Connections :
         AtFile(conn'[c], "use", f) /\ conn'[c].held # Absent /\ AtFile(conn'[e], "assign", f) => conn'[e].held \in conn'[c].since[f]
    BY <1>1, <1>7, <2>0 DEF FreshOf
  <2> QED
    BY <2>1, <2>2, <2>3, <2>4, <2>5 DEF FreshOf
<1>10. FreshOf(f)'
  BY <1>9 DEF FreshOf
<1>11. gatewayAt' # "up" => (\A c \in Connections : conn'[c].at = "new") /\ \A g \in GatewayFiles : cache'[g].mtime = -1
  BY <1>2, <1>4 DEF FilesFresh
<1>12. gatewayAt' = "noting" /\ "registry" \notin crossed' => cache'["registry"].holds = watched'["registry"].holds
  BY <1>2, <1>3 DEF FilesFresh, GatewayFiles
<1> QED
  BY <1>5, <1>8, <1>10, <1>11, <1>12 DEF FilesFresh

(* The files that a step of a connection is not at.                        *)
LEMMA OthersFresh ==
  ASSUME FilesFresh, NEW c \in Connections, NEW f \in GatewayFiles, gatewayAt = "up", gatewayAt' = gatewayAt, watched' = watched,
         crossed \subseteq crossed', \A g \in GatewayFiles : g # f => cache'[g] = cache[g],
         \A d \in Connections : d # c => conn'[d] = conn[d],
         \A g \in GatewayFiles : g # f => ~Passed(conn'[c], g) /\ ~AtFile(conn[c], "note", g),
         SeenOf(f)', FreshOf(f)'
  PROVE  FilesFresh'
<1>1. ASSUME NEW g \in GatewayFiles, g # f PROVE SeenOf(g)' /\ FreshOf(g)'
  BY <1>1, FreshSame DEF FilesFresh, Alikes
<1> QED
  BY <1>1 DEF FilesFresh

(* A connection that leaves the files, or that comes to one.               *)
LEMMA LeavesFresh ==
  ASSUME FilesFresh, NEW c \in Connections, gatewayAt = "up", UNCHANGED <<gatewayAt, watched, cache, crossed>>,
         \A d \in Connections : d # c => conn'[d] = conn[d],
         conn'[c].at \in {"stat", "limit", "running", "closed"}, conn[c].at # "note"
  PROVE  FilesFresh'
<1>1. ASSUME NEW g \in GatewayFiles PROVE SeenOf(g)' /\ FreshOf(g)'
  BY FreshSame DEF FilesFresh, Alikes, Passed, AtFile
<1> QED
  BY <1>1 DEF FilesFresh

(* A gateway that was asked is up.                                         *)
LEMMA UpOf == ASSUME FilesFresh, GateTyped, NEW c \in Connections, conn[c].at # "new" PROVE gatewayAt = "up"
BY DEF FilesFresh, GateTyped

(* The cache stays as fresh as the files were, when a file is looked at    *)
(* ...                                                                     *)
LEMMA StatFresh ==
  ASSUME GateBase, FilesFresh, NEW c \in Connections, NEW f \in GatewayFiles, conn[c].file = f, StatFile(c) PROVE FilesFresh'
<1> DEFINE k == conn[c]
           at == IF watched[f].holds = Absent \/ watched[f].mtime = cache[f].mtime THEN "use" ELSE "read"
           held == IF watched[f].holds = Absent THEN Absent ELSE "none"
           since == [k.since EXCEPT ![f] = {watched[f].holds}]
           next == conn'[c]
<1>1. GateTyped /\ ConnsFit
  BY DEF GateBase
<1>2. k.at = "stat" /\ Turned(c, at, k.ask, f, watched[f].mtime, held, since, k.ran, k.answer, k.lists, k.admitted)
  BY <1>1, StatDoes
<1>3. f \in GatewayFiles /\ DOMAIN k.since = GatewayFiles
  BY <1>2, AskedFits DEF AskedOf
<1>4. SeenOf(f) /\ FreshOf(f) /\ gatewayAt = "up"
  BY <1>1, <1>2, <1>3, UpOf DEF FilesFresh
<1>5. UNCHANGED <<watched, cache, gatewayAt, crossed>>
  BY DEF StatFile
<1>6. watched[f].mtime \in Nat /\ cache[f].mtime \in Int
  BY <1>1, <1>3 DEF GateTyped
<1>7. /\ next.at = at /\ next.file = f /\ next.stat = watched[f].mtime /\ next.held = held /\ next.since[f] = {watched[f].holds}
      /\ \A d \in Connections : d # c => conn'[d] = conn[d]
  BY <1>2, <1>3 DEF Turned
<1>8. /\ at \in {"use", "read"} /\ (at = "use" => held = Absent \/ cache[f].mtime = watched[f].mtime)
      /\ (held = Absent => watched[f].holds = Absent) /\ (held # Absent => held = "none")
  BY DEF Absent
<1> HIDE DEF at, held, since, next
<1>9. /\ ~AtFile(k, "note", f) /\ ~AtFile(k, "assign", f) /\ ~AtFile(k, "use", f)
      /\ ~AtFile(next, "note", f) /\ ~AtFile(next, "assign", f) /\ (AtFile(next, "use", f) => at = "use")
  BY <1>2, <1>7, <1>8 DEF AtFile
<1> HIDE DEF k
<1>10. SeenOf(f)'
  <2>1. \A d \in Connections : Passed(conn'[d], f) =>
          conn'[d].stat \in Int /\ conn'[d].stat <= watched[f].mtime /\ watched[f].holds \in conn'[d].since[f]
    BY <1>4, <1>6, <1>7 DEF SeenOf, next
  <2>2. \A e \in Connections : AtFile(conn'[e], "assign", f) => e # c
    BY <1>9 DEF next
  <2>3. \A e \in Connections : AtFile(conn'[e], "assign", f) /\ conn'[e].stat = watched[f].mtime => conn'[e].held = watched[f].holds
    BY <1>4, <1>7, <2>2 DEF SeenOf, next
  <2>4. ASSUME NEW d \in Connections, NEW e \in Connections, Reloads(conn'[d], f), AtFile(conn'[e], "assign", f), conn'[d].stat = conn'[e].stat
        PROVE  conn'[e].held \in conn'[d].since[f]
    BY <1>7, <2>3, <2>4, <1>4, <2>2 DEF next, SeenOf
  <2>5. ASSUME NEW d \in Connections, AtFile(conn'[d], "use", f), conn'[d].held = Absent PROVE Absent \in conn'[d].since[f]
    BY <1>7, <1>8, <2>5, <1>4 DEF next, SeenOf
  <2> QED
    BY <1>4, <1>5, <2>1, <2>3, <2>4, <2>5 DEF SeenOf
<1>11. ASSUME f \notin crossed PROVE FreshOf(f)'
  <2>1. \A d \in Connections : AtFile(conn'[d], "note", f) => d # c
    BY <1>9 DEF next
  <2>2. ASSUME NEW d \in Connections, d # c, Rivalled(d, f) PROVE Rivalled(d, f)'
    <3>1. PICK e \in Connections : AtFile(conn[e], "note", f) /\ conn[e].stat # conn[d].stat
      BY <2>2 DEF Rivalled
    <3>2. e # c
      BY <1>9, <3>1 DEF k
    <3> QED
      BY <1>7, <2>2, <3>1, <3>2 DEF Rivalled
  <2>3. \A e \in Connections : Reloads(conn'[e], f) /\ conn'[e].stat # watched[f].mtime => cache[f].mtime # watched[f].mtime
    BY <1>4, <1>7, <1>11 DEF FreshOf, next
  <2>4. ASSUME NEW d \in Connections, AtFile(conn'[d], "note", f), conn'[d].stat = watched[f].mtime
        PROVE  cache[f].holds = watched[f].holds \/ Rivalled(d, f)'
    BY <1>4, <1>7, <1>11, <2>1, <2>2, <2>4 DEF FreshOf
  <2>5. ASSUME NEW d \in Connections, AtFile(conn'[d], "note", f) PROVE cache[f].holds \in conn'[d].since[f] \/ Rivalled(d, f)'
    BY <1>4, <1>7, <1>11, <2>1, <2>2, <2>5 DEF FreshOf
  <2>6. ASSUME NEW d \in Connections, AtFile(conn'[d], "use", f), conn'[d].held # Absent PROVE cache[f].holds \in conn'[d].since[f]
    <3>1. CASE d = c
      BY <1>7, <1>8, <1>9, <2>6, <3>1, <1>4, <1>11 DEF next, FreshOf
    <3>2. CASE d # c
      BY <1>4, <1>7, <1>11, <2>6, <3>2 DEF FreshOf
    <3> QED
      BY <3>1, <3>2
  <2>7. ASSUME NEW d \in Connections, NEW e \in Connections, AtFile(conn'[d], "use", f), conn'[d].held # Absent, AtFile(conn'[e], "assign", f)
        PROVE  conn'[e].held \in conn'[d].since[f]
    <3>0. e # c /\ AtFile(conn[e], "assign", f)
      BY <1>7, <1>9, <2>7 DEF next
    <3>1. CASE d = c
      BY <1>7, <1>8, <1>9, <2>7, <3>1, <3>0, <1>4, <1>11 DEF next, AtFile, Reloads, FreshOf, SeenOf
    <3>2. CASE d # c
      BY <1>4, <1>7, <1>11, <2>7, <3>0, <3>2 DEF FreshOf
    <3> QED
      BY <3>1, <3>2
  <2>8. cache[f].mtime = watched[f].mtime => cache[f].holds = watched[f].holds
    BY <1>4, <1>11 DEF FreshOf
  <2> QED
    BY <1>5, <2>3, <2>4, <2>5, <2>6, <2>7, <2>8 DEF FreshOf
<1>12. FreshOf(f)'
  BY <1>5, <1>11 DEF FreshOf
<1>13. \A g \in GatewayFiles : g # f => ~Passed(next, g) /\ ~AtFile(k, "note", g)
  BY <1>7 DEF Passed, AtFile, k
<1> QED
  BY <1>3, <1>4, <1>5, <1>7, <1>10, <1>12, <1>13, OthersFresh DEF next, k

(* ... read ...                                                            *)
LEMMA ReadFresh ==
  ASSUME GateBase, FilesFresh, NEW c \in Connections, NEW f \in GatewayFiles, conn[c].file = f, ReadFile(c) PROVE FilesFresh'
<1> DEFINE k == conn[c]
           next == conn'[c]
<1>1. GateTyped /\ ConnsFit
  BY DEF GateBase
<1>2. /\ k.at = "read"
      /\ \/ Shut(c, k.ask, k.ran, "dropped", k.admitted)
         \/ Turned(c, "assign", k.ask, k.file, k.stat, watched[k.file].holds, k.since, k.ran, k.answer, k.lists, k.admitted)
  BY <1>1, ReadDoes
<1>3. SeenOf(f) /\ FreshOf(f) /\ gatewayAt = "up"
  BY <1>1, <1>2, UpOf DEF FilesFresh
<1>4. UNCHANGED <<watched, cache, gatewayAt, crossed>>
  BY DEF ReadFile
<1>5. CASE Shut(c, k.ask, k.ran, "dropped", k.admitted)
  BY <1>5, <1>2, <1>3, <1>4, LeavesFresh DEF Shut
<1>6. CASE Turned(c, "assign", k.ask, k.file, k.stat, watched[k.file].holds, k.since, k.ran, k.answer, k.lists, k.admitted)
  <2>1. /\ next.at = "assign" /\ next.file = f /\ next.stat = k.stat /\ next.held = watched[f].holds /\ next.since = k.since
        /\ \A d \in Connections : d # c => conn'[d] = conn[d]
    BY <1>6 DEF Turned
  <2> HIDE DEF next
  <2>2. /\ Reloads(k, f) /\ Passed(k, f) /\ ~AtFile(k, "note", f) /\ ~AtFile(k, "assign", f) /\ ~AtFile(k, "use", f)
        /\ ~AtFile(next, "note", f) /\ ~AtFile(next, "use", f)
    BY <1>2, <2>1 DEF AtFile, Reloads, Passed
  <2>3. watched[f].holds \in k.since[f] /\ k.stat \in Int /\ k.stat <= watched[f].mtime
    BY <1>3, <2>2 DEF SeenOf
  <2> HIDE DEF k
  <2>4. SeenOf(f)'
    <3>1. \A d \in Connections : Passed(conn'[d], f) =>
            conn'[d].stat \in Int /\ conn'[d].stat <= watched[f].mtime /\ watched[f].holds \in conn'[d].since[f]
      BY <1>3, <2>1, <2>3 DEF SeenOf, next
    <3>2. \A e \in Connections : AtFile(conn'[e], "assign", f) /\ conn'[e].stat = watched[f].mtime => conn'[e].held = watched[f].holds
      BY <1>3, <2>1 DEF SeenOf, next
    <3>3. ASSUME NEW d \in Connections, NEW e \in Connections, Reloads(conn'[d], f), AtFile(conn'[e], "assign", f), conn'[d].stat = conn'[e].stat
          PROVE  conn'[e].held \in conn'[d].since[f]
      <4>1. Reloads(conn[d], f) /\ conn'[d].stat = conn[d].stat /\ conn'[d].since = conn[d].since
        BY <2>1, <2>2, <3>3 DEF next, k
      <4>2. CASE e = c
        BY <1>3, <4>1, <2>1, <4>2 DEF SeenOf, Passed, Reloads, next
      <4>3. CASE e # c
        BY <1>3, <2>1, <3>3, <4>1, <4>3 DEF SeenOf
      <4> QED
        BY <4>2, <4>3
    <3>4. \A d \in Connections : AtFile(conn'[d], "use", f) /\ conn'[d].held = Absent => Absent \in conn'[d].since[f]
      BY <1>3, <2>1, <2>2 DEF SeenOf, next
    <3> QED
      BY <1>3, <1>4, <3>1, <3>2, <3>3, <3>4 DEF SeenOf
  <2>5. ASSUME f \notin crossed PROVE FreshOf(f)'
    <3>1. \A d \in Connections : (AtFile(conn'[d], "note", f) \/ AtFile(conn'[d], "use", f)) => d # c
      BY <2>2 DEF next
    <3>2. ASSUME NEW d \in Connections, d # c, Rivalled(d, f) PROVE Rivalled(d, f)'
      <4>1. PICK e \in Connections : AtFile(conn[e], "note", f) /\ conn[e].stat # conn[d].stat
        BY <3>2 DEF Rivalled
      <4>2. e # c
        BY <2>2, <4>1 DEF k
      <4> QED
        BY <2>1, <3>2, <4>1, <4>2 DEF Rivalled
    <3>3. ASSUME NEW e \in Connections, Reloads(conn'[e], f), conn'[e].stat # watched[f].mtime PROVE cache[f].mtime # watched[f].mtime
      BY <2>1, <2>2, <3>3, <1>3, <2>5 DEF next, k, FreshOf
    <3>4. ASSUME NEW d \in Connections, AtFile(conn'[d], "note", f), conn'[d].stat = watched[f].mtime
          PROVE  cache[f].holds = watched[f].holds \/ Rivalled(d, f)'
      BY <1>3, <2>1, <2>5, <3>1, <3>2, <3>4 DEF FreshOf
    <3>5. ASSUME NEW d \in Connections, AtFile(conn'[d], "note", f) PROVE cache[f].holds \in conn'[d].since[f] \/ Rivalled(d, f)'
      BY <1>3, <2>1, <2>5, <3>1, <3>2, <3>5 DEF FreshOf
    <3>6. ASSUME NEW d \in Connections, AtFile(conn'[d], "use", f), conn'[d].held # Absent
          PROVE  /\ cache[f].holds \in conn'[d].since[f]
                 /\ \A e \in Connections : AtFile(conn'[e], "assign", f) => conn'[e].held \in conn'[d].since[f]
      BY <2>1, <3>1, <3>6, <1>3, <2>5 DEF FreshOf, SeenOf, AtFile, Passed, next
    <3>7. cache[f].mtime = watched[f].mtime => cache[f].holds = watched[f].holds
      BY <1>3, <2>5 DEF FreshOf
    <3> QED
      BY <1>4, <3>3, <3>4, <3>5, <3>6, <3>7 DEF FreshOf
  <2>6. FreshOf(f)'
    BY <1>4, <2>5 DEF FreshOf
  <2>7. \A g \in GatewayFiles : g # f => ~Passed(next, g) /\ ~AtFile(k, "note", g)
    BY <2>1 DEF Passed, AtFile, k
  <2> QED
    BY <1>3, <1>4, <2>1, <2>4, <2>6, <2>7, OthersFresh DEF next, k
<1> QED
  BY <1>2, <1>5, <1>6

(* ... cached ...                                                          *)
LEMMA AssignFresh ==
  ASSUME GateBase, FilesFresh, NEW c \in Connections, NEW f \in GatewayFiles, conn[c].file = f, AssignCache(c) PROVE FilesFresh'
<1> DEFINE k == conn[c]
           next == conn'[c]
<1>1. GateTyped /\ ConnsFit
  BY DEF GateBase
<1>2. /\ k.at = "assign" /\ cache' = [cache EXCEPT ![f].holds = k.held]
      /\ Turned(c, "note", k.ask, k.file, k.stat, k.held, k.since, k.ran, k.answer, k.lists, k.admitted)
  BY <1>1, AssignDoes
<1>3. SeenOf(f) /\ FreshOf(f) /\ gatewayAt = "up"
  BY <1>1, <1>2, UpOf DEF FilesFresh
<1>4. UNCHANGED <<watched, gatewayAt, crossed>>
  BY DEF AssignCache
<1>5. /\ cache'[f].holds = k.held /\ cache'[f].mtime = cache[f].mtime
      /\ \A g \in GatewayFiles : g # f => cache'[g] = cache[g]
  <2>1. DOMAIN cache = GatewayFiles /\ DOMAIN cache[f] = FileFields
    BY <1>1 DEF GateTyped
  <2> HIDE DEF k
  <2> DEFINE filled == [cache[f] EXCEPT !.holds = k.held]
  <2>2. cache' = [cache EXCEPT ![f] = filled]
    BY <1>2
  <2>3. filled.holds = k.held /\ filled.mtime = cache[f].mtime
    BY <2>1 DEF FileFields
  <2> HIDE DEF filled
  <2> QED
    BY <2>1, <2>2, <2>3
<1>6. /\ next.at = "note" /\ next.file = f /\ next.stat = k.stat /\ next.held = k.held /\ next.since = k.since
      /\ \A d \in Connections : d # c => conn'[d] = conn[d]
  BY <1>2 DEF Turned
<1> HIDE DEF next
<1>7. /\ Reloads(k, f) /\ Passed(k, f) /\ AtFile(k, "assign", f) /\ ~AtFile(k, "note", f) /\ ~AtFile(k, "use", f)
      /\ AtFile(next, "note", f) /\ ~AtFile(next, "use", f) /\ ~AtFile(next, "assign", f)
  BY <1>2, <1>6 DEF AtFile, Reloads, Passed
<1>8. \A d \in Connections : conn'[d].since = conn[d].since /\ conn'[d].stat = conn[d].stat /\ conn'[d].held = conn[d].held
  BY <1>6 DEF next, k
<1>9. \A d \in Connections :
        /\ Passed(conn'[d], f) => Passed(conn[d], f)
        /\ Reloads(conn'[d], f) => Reloads(conn[d], f)
        /\ AtFile(conn'[d], "assign", f) => AtFile(conn[d], "assign", f)
        /\ AtFile(conn'[d], "use", f) => AtFile(conn[d], "use", f)
        /\ AtFile(conn[d], "note", f) => AtFile(conn'[d], "note", f)
        /\ AtFile(conn'[d], "note", f) => Reloads(conn[d], f)
        /\ AtFile(conn'[d], "note", f) => d = c \/ AtFile(conn[d], "note", f)
  BY <1>6, <1>7 DEF AtFile, Reloads, next, k
<1>10. SeenOf(f)'
  BY <1>3, <1>4, <1>5, <1>8, <1>9 DEF SeenOf
<1>11. ASSUME f \notin crossed PROVE FreshOf(f)'
  <2>1. k.stat = watched[f].mtime => k.held = watched[f].holds
    BY <1>3, <1>7 DEF SeenOf
  <2>2. cache[f].mtime = watched[f].mtime => k.stat = watched[f].mtime
    BY <1>3, <1>7, <1>11 DEF FreshOf
  <2>3. ASSUME NEW d \in Connections, d # c, conn[d].stat # k.stat PROVE Rivalled(d, f)'
    BY <1>7, <1>8, <2>3 DEF next, k, Rivalled
  <2>4. \A e \in Connections : Reloads(conn'[e], f) /\ conn'[e].stat # watched'[f].mtime => cache'[f].mtime # watched'[f].mtime
    BY <1>3, <1>4, <1>5, <1>8, <1>9, <1>11 DEF FreshOf
  <2>5. ASSUME NEW d \in Connections, AtFile(conn'[d], "note", f), conn'[d].stat = watched'[f].mtime
        PROVE  cache'[f].holds = watched'[f].holds \/ Rivalled(d, f)'
    <3>1. CASE k.stat = watched[f].mtime
      BY <1>4, <1>5, <2>1, <3>1
    <3>2. CASE k.stat # watched[f].mtime
      BY <1>4, <1>8, <2>5, <3>2, <2>3
    <3> QED
      BY <3>1, <3>2
  <2>6. ASSUME NEW d \in Connections, AtFile(conn'[d], "note", f) PROVE cache'[f].holds \in conn'[d].since[f] \/ Rivalled(d, f)'
    <3>1. CASE conn[d].stat = k.stat
      BY <1>9, <2>6, <1>3, <1>7, <3>1, <1>5, <1>8 DEF SeenOf
    <3>2. CASE conn[d].stat # k.stat
      BY <2>3, <3>2
    <3> QED
      BY <3>1, <3>2
  <2>7. \A d \in Connections : AtFile(conn'[d], "use", f) /\ conn'[d].held # Absent => cache'[f].holds \in conn'[d].since[f]
    BY <1>3, <1>5, <1>7, <1>8, <1>9, <1>11 DEF FreshOf
  <2>8. \A d, e \in Connections :
         AtFile(conn'[d], "use", f) /\ conn'[d].held # Absent /\ AtFile(conn'[e], "assign", f) => conn'[e].held \in conn'[d].since[f]
    BY <1>3, <1>8, <1>9, <1>11 DEF FreshOf
  <2>9. cache'[f].mtime = watched'[f].mtime => cache'[f].holds = watched'[f].holds
    BY <1>4, <1>5, <2>1, <2>2
  <2> QED
    BY <2>4, <2>5, <2>6, <2>7, <2>8, <2>9 DEF FreshOf
<1>12. FreshOf(f)'
  BY <1>4, <1>11 DEF FreshOf
<1>13. \A g \in GatewayFiles : g # f => ~Passed(next, g) /\ ~AtFile(k, "note", g)
  BY <1>6 DEF Passed, AtFile
<1> QED
  BY <1>3, <1>4, <1>5, <1>6, <1>10, <1>12, <1>13, OthersFresh DEF next

(* ... and its time noted ...                                              *)
LEMMA NoteFresh ==
  ASSUME GateBase, FilesFresh, NEW c \in Connections, NEW f \in GatewayFiles, conn[c].file = f, NoteTime(c) PROVE FilesFresh'
<1> DEFINE k == conn[c]
           next == conn'[c]
<1>1. GateTyped /\ ConnsFit
  BY DEF GateBase
<1>2. /\ k.at = "note" /\ cache' = [cache EXCEPT ![f].mtime = k.stat]
      /\ Turned(c, "use", k.ask, k.file, k.stat, "none", k.since, k.ran, k.answer, k.lists, k.admitted)
  BY <1>1, NoteDoes
<1>3. SeenOf(f) /\ FreshOf(f) /\ gatewayAt = "up"
  BY <1>1, <1>2, UpOf DEF FilesFresh
<1>4. UNCHANGED <<watched, gatewayAt>> /\ crossed \subseteq crossed'
  BY DEF NoteTime
<1>5. f \notin crossed' => f \notin crossed /\ \A d \in Connections : d # c /\ Reloads(conn[d], f) => conn[d].stat = k.stat
  BY DEF NoteTime, Reloads
<1>6. /\ cache'[f].holds = cache[f].holds /\ cache'[f].mtime = k.stat
      /\ \A g \in GatewayFiles : g # f => cache'[g] = cache[g]
  <2>1. DOMAIN cache = GatewayFiles /\ DOMAIN cache[f] = FileFields
    BY <1>1 DEF GateTyped
  <2> HIDE DEF k
  <2> DEFINE noted == [cache[f] EXCEPT !.mtime = k.stat]
  <2>2. cache' = [cache EXCEPT ![f] = noted]
    BY <1>2
  <2>3. noted.holds = cache[f].holds /\ noted.mtime = k.stat
    BY <2>1 DEF FileFields
  <2> HIDE DEF noted
  <2> QED
    BY <2>1, <2>2, <2>3
<1>7. /\ next.at = "use" /\ next.file = f /\ next.stat = k.stat /\ next.held = "none" /\ next.since = k.since
      /\ \A d \in Connections : d # c => conn'[d] = conn[d]
  BY <1>2 DEF Turned
<1> HIDE DEF next
<1>8. /\ Reloads(k, f) /\ Passed(k, f) /\ AtFile(k, "note", f)
      /\ ~AtFile(next, "note", f) /\ ~AtFile(next, "assign", f) /\ ~Reloads(next, f)
  BY <1>2, <1>7 DEF AtFile, Reloads, Passed
<1>9. k.stat \in Int /\ k.stat <= watched[f].mtime
  BY <1>3, <1>8 DEF SeenOf
<1> HIDE DEF k
<1>10. \A d \in Connections :
        /\ conn'[d].since = conn[d].since /\ conn'[d].stat = conn[d].stat
        /\ Passed(conn'[d], f) => Passed(conn[d], f)
        /\ Reloads(conn'[d], f) => d # c
        /\ AtFile(conn'[d], "assign", f) => d # c
        /\ AtFile(conn'[d], "note", f) => d # c
  BY <1>7, <1>8 DEF next, k
<1>11. SeenOf(f)'
  <2>1. cache'[f].mtime <= watched'[f].mtime
    BY <1>4, <1>6, <1>9
  <2>2. \A d \in Connections : Passed(conn'[d], f) =>
          conn'[d].stat \in Int /\ conn'[d].stat <= watched'[f].mtime /\ watched'[f].holds \in conn'[d].since[f]
    BY <1>3, <1>4, <1>10 DEF SeenOf
  <2>3. \A e \in Connections : AtFile(conn'[e], "assign", f) /\ conn'[e].stat = watched'[f].mtime => conn'[e].held = watched'[f].holds
    BY <1>3, <1>4, <1>7, <1>10 DEF SeenOf
  <2>4. \A d, e \in Connections :
       Reloads(conn'[d], f) /\ AtFile(conn'[e], "assign", f) /\ conn'[d].stat = conn'[e].stat => conn'[e].held \in conn'[d].since[f]
    BY <1>3, <1>7, <1>10 DEF SeenOf
  <2>5. ASSUME NEW d \in Connections, AtFile(conn'[d], "use", f), conn'[d].held = Absent PROVE Absent \in conn'[d].since[f]
    BY <1>7, <2>5, <1>3 DEF Absent, next, SeenOf
  <2> QED
    BY <2>1, <2>2, <2>3, <2>4, <2>5 DEF SeenOf
<1>12. ASSUME f \notin crossed' PROVE FreshOf(f)'
  <2>1. f \notin crossed /\ \A d \in Connections : d # c /\ Reloads(conn[d], f) => conn[d].stat = k.stat
    BY <1>5, <1>12
  <2>2. \A d \in Connections : d # c /\ (AtFile(conn[d], "note", f) \/ AtFile(conn[d], "assign", f)) => conn[d].stat = k.stat /\ Reloads(conn[d], f)
    BY <2>1 DEF AtFile, Reloads
  <2>3. \A d \in Connections : AtFile(conn[d], "note", f) => ~Rivalled(d, f)
    BY <2>2 DEF Rivalled, k
  <2>4. \A e \in Connections : Reloads(conn'[e], f) /\ conn'[e].stat # watched'[f].mtime => cache'[f].mtime # watched'[f].mtime
    BY <1>4, <1>6, <1>7, <1>10, <2>1
  <2>5. k.stat = watched[f].mtime => cache[f].holds = watched[f].holds
    BY <1>3, <1>8, <2>1, <2>3 DEF FreshOf, k
  <2>6. \A d \in Connections : AtFile(conn'[d], "note", f) /\ conn'[d].stat = watched'[f].mtime => cache'[f].holds = watched'[f].holds
    BY <1>4, <1>6, <1>7, <1>10, <2>2, <2>5
  <2>7. \A d \in Connections : AtFile(conn[d], "note", f) => cache[f].holds \in conn[d].since[f]
    BY <1>3, <2>1, <2>3 DEF FreshOf
  <2>8. \A d \in Connections : AtFile(conn'[d], "note", f) => cache'[f].holds \in conn'[d].since[f]
    BY <1>6, <1>7, <1>10, <2>7
  <2>9. ASSUME NEW d \in Connections, AtFile(conn'[d], "use", f), conn'[d].held # Absent
        PROVE  /\ cache'[f].holds \in conn'[d].since[f]
               /\ \A e \in Connections : AtFile(conn'[e], "assign", f) => conn'[e].held \in conn'[d].since[f]
    <3>1. CASE d = c
      <4>1. cache'[f].holds \in conn'[d].since[f]
        BY <1>6, <1>8, <1>10, <2>7, <3>1 DEF k
      <4>2. ASSUME NEW e \in Connections, AtFile(conn'[e], "assign", f) PROVE conn'[e].held \in conn'[d].since[f]
        BY <1>7, <1>10, <4>2, <2>2, <1>3, <1>8, <3>1 DEF SeenOf, k, next
      <4> QED
        BY <4>1, <4>2
    <3>2. CASE d # c
      BY <1>7, <1>10, <3>2, <1>3, <1>6, <2>1, <2>9 DEF FreshOf
    <3> QED
      BY <3>1, <3>2
  <2>10. cache'[f].mtime = watched'[f].mtime => cache'[f].holds = watched'[f].holds
    BY <1>4, <1>6, <2>5
  <2> QED
    BY <2>4, <2>6, <2>8, <2>9, <2>10 DEF FreshOf
<1>13. FreshOf(f)'
  BY <1>12 DEF FreshOf
<1>14. \A g \in GatewayFiles : g # f => ~Passed(next, g) /\ ~AtFile(k, "note", g)
  BY <1>7 DEF Passed, AtFile, k
<1> QED
  BY <1>3, <1>4, <1>6, <1>7, <1>11, <1>13, <1>14, OthersFresh DEF next, k

(* The gateway starts, before anybody connects.                            *)
LEMMA ClockFresh == ASSUME GateBase, FilesFresh, FileClock PROVE FilesFresh'
<1>1. GateTyped /\ ConnsFit
  BY DEF GateBase
<1>2. UNCHANGED <<watched, conn, crossed>>
  BY DEF FileClock, SecondPasses, GatewayReads, GatewayNotes
<1>3. CASE SecondPasses
  BY <1>3, <1>2, FreshSame DEF SecondPasses, FilesFresh, Alikes
<1>4. CASE GatewayReads \/ GatewayNotes
  <2>1. \A c \in Connections : conn[c].at = "new"
    BY <1>4 DEF FilesFresh, GatewayReads, GatewayNotes
  <2>2. \A f \in GatewayFiles : cache[f].mtime = -1 /\ watched[f].mtime \in Nat
    BY <1>1, <1>4 DEF FilesFresh, GatewayReads, GatewayNotes, GateTyped
  <2>3. DOMAIN cache = GatewayFiles /\ DOMAIN cache["registry"] = FileFields /\ "registry" \in GatewayFiles
    BY <1>1 DEF GateTyped, GatewayFiles
  <2>4. \A c \in Connections, f \in GatewayFiles :
          ~Passed(conn'[c], f) /\ ~Reloads(conn'[c], f) /\ \A at \in {"assign", "note", "use"} : ~AtFile(conn'[c], at, f)
    BY <1>2, <2>1 DEF Passed, Reloads, AtFile
  <2>5. ASSUME NEW f \in GatewayFiles, cache'[f].mtime <= watched[f].mtime,
               f \notin crossed => (cache'[f].mtime = watched[f].mtime => cache'[f].holds = watched[f].holds)
        PROVE  SeenOf(f)' /\ FreshOf(f)'
    BY <1>2, <2>4, <2>5 DEF SeenOf, FreshOf
  <2>6. CASE GatewayReads
    <3>1. cache' = [cache EXCEPT !["registry"] = [@ EXCEPT !.holds = watched["registry"].holds]] /\ gatewayAt' = "noting"
      BY <2>6 DEF GatewayReads
    <3> DEFINE filled == [cache["registry"] EXCEPT !.holds = watched["registry"].holds]
    <3>2. filled.mtime = cache["registry"].mtime /\ filled.holds = watched["registry"].holds
      BY <2>3 DEF FileFields
    <3> HIDE DEF filled
    <3>3. cache'["registry"] = filled /\ \A f \in GatewayFiles : f # "registry" => cache'[f] = cache[f]
      BY <2>3, <3>1 DEF filled
    <3>4. \A f \in GatewayFiles : cache'[f].mtime = -1
      BY <2>2, <2>3, <3>2, <3>3
    <3>5. \A f \in GatewayFiles : SeenOf(f)' /\ FreshOf(f)'
      BY <2>2, <2>5, <3>4
    <3> QED
      BY <1>2, <2>1, <3>1, <3>2, <3>3, <3>4, <3>5 DEF FilesFresh
  <2>7. CASE GatewayNotes
    <3> DEFINE file == watched["registry"]
               time == IF file.holds = Absent THEN -1 ELSE file.mtime
    <3>1. cache' = [cache EXCEPT !["registry"] = [@ EXCEPT !.mtime = time]] /\ gatewayAt' = "up" /\ gatewayAt = "noting"
      BY <2>7 DEF GatewayNotes
    <3>2. time = -1 \/ time = watched["registry"].mtime
      OBVIOUS
    <3> HIDE DEF time
    <3> DEFINE noted == [cache["registry"] EXCEPT !.mtime = time]
    <3>3. noted.mtime = time /\ noted.holds = cache["registry"].holds
      BY <2>3 DEF FileFields
    <3> HIDE DEF noted
    <3>4. cache'["registry"] = noted /\ \A f \in GatewayFiles : f # "registry" => cache'[f] = cache[f]
      BY <2>3, <3>1 DEF noted
    <3>5. \A f \in GatewayFiles : f # "registry" => SeenOf(f)' /\ FreshOf(f)'
      BY <2>2, <2>5, <3>4
    <3>6. SeenOf("registry")' /\ FreshOf("registry")'
      BY <3>1, <2>2, <2>3, <3>2, <3>3, <3>4, <2>5 DEF FilesFresh
    <3> QED
      BY <1>2, <3>1, <3>5, <3>6 DEF FilesFresh
  <2> QED
    BY <1>4, <2>6, <2>7
<1> QED
  BY <1>3, <1>4 DEF FileClock

-----------------------------------------------------------------------------
(***************************************************************************)
(* The reasons of refusals.                                                *)
(***************************************************************************)

(* ... when a request arrives ...                                          *)
LEMMA ArrivesFresh ==
  ASSUME GateBase, FilesFresh, NEW c \in Connections, NEW ask, Arrives(c, ask), UNCHANGED <<gatewayAt, watched, cache, crossed>>
  PROVE  FilesFresh'
<1> DEFINE k == conn[c]
<1>1. GateTyped
  BY DEF GateBase
<1>2. /\ gatewayAt = "up" /\ k.at = "new"
      /\ \/ \E file \in GatewayFiles :
              Turned(c, "stat", ask, file, k.stat, k.held, k.since, k.ran, k.answer, k.lists, k.admitted)
         \/ \E answer \in {"401", "403"} : Shut(c, ask, k.ran, answer, k.admitted)
  BY <1>1, ArrivesDoes
<1>3. conn'[c].at \in {"stat", "limit", "running", "closed"} /\ \A d \in Connections : d # c => conn'[d] = conn[d]
  BY <1>2 DEF Turned, Shut
<1> QED
  BY <1>2, <1>3, LeavesFresh

(* The adapter's step is an arrival, or no step of a connection.           *)
LEMMA AdapterMoves ==
  ASSUME GateBase, AdapterStep
  PROVE  /\ UNCHANGED <<watched, cache, buckets, sampled, gatewayAt, gatewayTime, crossed>>
         /\ conn' = conn \/ \E c \in Connections : \E ask : Arrives(c, ask)
<1>1. UNCHANGED <<watched, cache, buckets, sampled, gatewayAt, gatewayTime, crossed>>
  BY DEF AdapterStep, ToolCall, AdapterHears, AdapterGivesUp
<1>2. GateTyped
  BY DEF GateBase
<1>3. ASSUME NEW path, NEW toolCall, NEW commands, Sends(path, toolCall, commands)
      PROVE  conn' = conn \/ \E c \in Connections : \E ask : Arrives(c, ask)
  BY <1>2, <1>3, SendsDoes
<1>4. CASE \E op \in {"list", "refresh", "dispatch"} : ToolCall(op)
  <2>1. PICK op : ToolCall(op)
    BY <1>4
  <2> DEFINE toolCall == [op |-> op, number |-> adapter.call + 1]
  <2>2. \/ \E path \in {"commands", "dispatch"} : Sends(path, toolCall, adapter.commands)
        \/ UNCHANGED <<conn, auditLog>>
    BY <1>2, <2>1, ToolDoes
  <2> HIDE DEF toolCall
  <2> QED
    BY <1>1, <1>3, <2>2
<1>5. CASE AdapterHears
  <2> DEFINE toolCall == [op |-> "dispatch", number |-> adapter.call]
  <2>1. UNCHANGED <<conn, auditLog>> \/ Sends("dispatch", toolCall, conn[adapter.on].lists)
    BY <1>2, <1>5, AdapterDoes
  <2> HIDE DEF toolCall
  <2> QED
    BY <1>1, <1>3, <2>1
<1>6. CASE AdapterGivesUp
  BY <1>1, <1>6 DEF AdapterGivesUp
<1> QED
  BY <1>4, <1>5, <1>6 DEF AdapterStep

(* ... and after every step.                                               *)
LEMMA FreshStep == ASSUME GateBase, FilesFresh, GatewayNext PROVE FilesFresh'
<1>1. GateTyped
  BY DEF GateBase
<1>2. ASSUME NEW f \in GatewayFiles, Edit(f) PROVE FilesFresh'
  BY <1>2, EditFresh
<1>3. CASE FileClock
  BY <1>3, ClockFresh
<1>4. ASSUME NEW c \in Connections, Connects(c) PROVE FilesFresh'
  <2>1. PICK ask : Arrives(c, ask)
    BY <1>4 DEF Connects
  <2> QED
    BY <1>4, <2>1, ArrivesFresh DEF Connects
<1>5. ASSUME NEW c \in Connections, FileStep(c) PROVE FilesFresh'
  <2>1. conn[c].at \in AskedOf /\ conn[c].at # "new"
    BY <1>5 DEF FileStep, StatFile, ReadFile, AssignCache, NoteTime, UseToken, AllowRequest, UseRegistry, AskedOf
  <2>2. PICK f \in GatewayFiles : conn[c].file = f
    BY <2>1, AskedFits
  <2>3. (f = "token" => conn[c].ask.path \in {"commands", "dispatch"}) /\ (f = "registry" => conn[c].ask.path \in {"health", "dispatch"})
    BY <2>1, <2>2, AskedFits
  <2>4. gatewayAt = "up"
    BY <1>1, <2>1, UpOf
  <2>5. CASE UseToken(c) \/ AllowRequest(c) \/ UseRegistry(c)
    <3>1. UNCHANGED <<gatewayAt, watched, cache, crossed>> /\ conn[c].at # "note"
      BY <2>5 DEF UseToken, AllowRequest, UseRegistry
    <3>2. conn'[c].at \in {"stat", "limit", "running", "closed"} /\ \A d \in Connections : d # c => conn'[d] = conn[d]
      <4>1. CASE UseToken(c)
        BY <4>1, <1>1, TokenDoes DEF Shut, Turned
      <4>2. CASE AllowRequest(c)
        BY <2>2, <2>3, <4>2, <1>1, AllowDoes DEF AllowRequest, Shut, Turned
      <4>3. CASE UseRegistry(c)
        BY <2>2, <2>3, <4>3, <1>1, RegistryDoes DEF UseRegistry, Shut, Turned
      <4> QED
        BY <2>5, <4>1, <4>2, <4>3
    <3> QED
      BY <2>4, <3>1, <3>2, LeavesFresh
  <2>6. CASE StatFile(c)
    BY <2>2, <2>6, StatFresh
  <2>7. CASE ReadFile(c)
    BY <2>2, <2>7, ReadFresh
  <2>8. CASE AssignCache(c)
    BY <2>2, <2>8, AssignFresh
  <2>9. CASE NoteTime(c)
    BY <2>2, <2>9, NoteFresh
  <2> QED
    BY <1>5, <2>5, <2>6, <2>7, <2>8, <2>9 DEF FileStep
<1>6. ASSUME NEW c \in Connections, CommandEnds(c) PROVE FilesFresh'
  BY <1>1, <1>6, EndDoes, UpOf, LeavesFresh DEF Shut, CommandEnds
<1>7. CASE AdapterStep
  <2>1. /\ UNCHANGED <<watched, cache, buckets, sampled, gatewayAt, gatewayTime, crossed>>
        /\ conn' = conn \/ \E c \in Connections : \E ask : Arrives(c, ask)
    BY <1>7, AdapterMoves
  <2>2. CASE conn' = conn
    BY <2>1, <2>2, FreshSame DEF FilesFresh, Alikes
  <2> QED
    BY <2>1, <2>2, ArrivesFresh
<1> QED
  BY <1>2, <1>3, <1>4, <1>5, <1>6, <1>7, NextParts

-----------------------------------------------------------------------------
(* What let a request through, and what it runs, was there.                *)
Reasoned(k, over) ==
  /\ k.at \in AskedOf /\ k.file = "token" => k.admitted = -1
  /\ k.at # "closed" =>
       /\ (k.admitted >= 0 \/ k.at = "limit") /\ "token" \notin over => k.ask.bearer \in k.since["token"]
       /\ k.ran # "nothing" /\ "registry" \notin over => {k.ran, Absent} \cap k.since["registry"] # {}

AllReasoned == \A c \in Connections : Reasoned(conn[c], crossed)

(* A refusal keeps its reason when one connection goes on with a reason    *)
(* ...                                                                     *)
LEMMA ReasonTurned ==
  ASSUME AllReasoned, crossed \subseteq crossed', NEW c \in Connections, \A d \in Connections : d # c => conn'[d] = conn[d],
         Reasoned(conn'[c], crossed')
  PROVE  AllReasoned'
BY DEF AllReasoned, Reasoned

(* ... or ends with one ...                                                *)
LEMMA ReasonShut ==
  ASSUME AllReasoned, crossed' = crossed, NEW c \in Connections, NEW ask, NEW ran, NEW answer, NEW admitted, Shut(c, ask, ran, answer, admitted)
  PROVE  AllReasoned'
BY ReasonTurned DEF Shut, Reasoned, AskedOf

(* ... and while connections stay.                                         *)
LEMMA ReasonSame == ASSUME AllReasoned, crossed \subseteq crossed', conn' = conn PROVE AllReasoned'
BY DEF AllReasoned, Reasoned

(* A request that arrives is refused only for a reason ...                 *)
LEMMA ReasonArrives ==
  ASSUME GateBase, AllReasoned, NEW c \in Connections, NEW ask, Arrives(c, ask), UNCHANGED crossed PROVE AllReasoned'
<1> DEFINE k == conn[c]
<1>1. KnownConn(k) /\ FitConn(k, adapter.call) /\ GateTyped
  BY BaseOf
<1>2. /\ k.at = "new"
      /\ \/ \E file \in GatewayFiles :
              Turned(c, "stat", ask, file, k.stat, k.held, k.since, k.ran, k.answer, k.lists, k.admitted)
         \/ \E answer \in {"401", "403"} : Shut(c, ask, k.ran, answer, k.admitted)
  BY <1>1, ArrivesDoes
<1>3. k.admitted = -1 /\ k.ran = "nothing"
  BY <1>1, <1>2 DEF FitConn
<1> HIDE DEF k
<1>4. ASSUME NEW file, Turned(c, "stat", ask, file, k.stat, k.held, k.since, k.ran, k.answer, k.lists, k.admitted) PROVE AllReasoned'
  BY <1>3, <1>4, ReasonTurned DEF Turned, Reasoned
<1> QED
  BY <1>2, <1>4, ReasonShut

(* ... and so is one that uses a file ...                                  *)
LEMMA ReasonFiles == ASSUME GateBase, FilesFresh, AllReasoned, NEW c \in Connections, FileStep(c) PROVE AllReasoned'
<1> DEFINE k == conn[c]
           next == conn'[c]
<1>1. GateTyped
  BY DEF GateBase
<1>2. k.at \in AskedOf
  BY DEF FileStep, StatFile, ReadFile, AssignCache, NoteTime, UseToken, AllowRequest, UseRegistry, AskedOf
<1>3. /\ k.file \in GatewayFiles /\ DOMAIN k.since = GatewayFiles /\ k.ran = "nothing"
      /\ k.file = "token" => k.ask.path \in {"commands", "dispatch"}
      /\ k.file = "registry" => k.ask.path \in {"health", "dispatch"}
  BY <1>2, AskedFits
<1>4. crossed \subseteq crossed' /\ (crossed' = crossed \/ NoteTime(c))
  BY DEF FileStep, StatFile, ReadFile, AssignCache, NoteTime, UseToken, AllowRequest, UseRegistry
<1>5. Reasoned(k, crossed) /\ k.at # "closed" /\ "token" \in GatewayFiles /\ "registry" \in GatewayFiles
  BY <1>2 DEF AllReasoned, AskedOf, GatewayFiles
<1>6. SeenOf(k.file) /\ FreshOf(k.file)
  BY <1>3 DEF FilesFresh
<1> HIDE DEF k, next
<1>7. ASSUME NEW at, NEW file, NEW stat, NEW held, NEW since, NEW ran, NEW answer, NEW lists, NEW admitted,
             Turned(c, at, k.ask, file, stat, held, since, ran, answer, lists, admitted),
             at \in AskedOf /\ file = "token" => admitted = -1,
             (admitted >= 0 \/ at = "limit") /\ "token" \notin crossed' => k.ask.bearer \in since["token"],
             ran # "nothing" /\ "registry" \notin crossed' => {ran, Absent} \cap since["registry"] # {}
      PROVE  AllReasoned'
  BY <1>7, <1>4, ReasonTurned DEF Turned, next, Reasoned
<1>8. ASSUME NEW at, at # "limit", NEW stat, NEW held,
             Turned(c, at, k.ask, k.file, stat, held, k.since, k.ran, k.answer, k.lists, k.admitted)
      PROVE  AllReasoned'
  BY <1>2, <1>4, <1>5, <1>3, <1>7, <1>8 DEF Reasoned
<1>9. CASE StatFile(c)
  <2> DEFINE at == IF watched[k.file].holds = Absent \/ watched[k.file].mtime = cache[k.file].mtime THEN "use" ELSE "read"
             held == IF watched[k.file].holds = Absent THEN Absent ELSE "none"
             since == [k.since EXCEPT ![k.file] = {watched[k.file].holds}]
  <2>1. Turned(c, at, k.ask, k.file, watched[k.file].mtime, held, since, k.ran, k.answer, k.lists, k.admitted)
    BY <1>1, <1>9, StatDoes DEF k
  <2>2. /\ k.file = "token" => k.admitted = -1
        /\ k.admitted >= 0 /\ "token" \notin crossed' => k.ask.bearer \in k.since["token"]
    BY <1>2, <1>4, <1>5 DEF Reasoned
  <2>3. (k.file # "token" => since["token"] = k.since["token"]) /\ at # "limit"
    BY <1>3, <1>5
  <2> HIDE DEF at, held, since
  <2>4. k.admitted >= 0 /\ "token" \notin crossed' => k.ask.bearer \in since["token"]
    BY <2>2, <2>3
  <2> QED
    BY <1>3, <1>7, <2>1, <2>2, <2>3, <2>4
<1>10. CASE ReadFile(c)
  BY <1>1, <1>10, ReadDoes, <1>8, ReasonShut DEF k, ReadFile
<1>11. CASE AssignCache(c)
  BY <1>1, <1>11, AssignDoes, <1>8 DEF k
<1>12. CASE NoteTime(c)
  BY <1>1, <1>12, NoteDoes, <1>8 DEF k
<1>13. CASE UseToken(c)
  <2>1. k.file = "token" /\ k.at = "use" /\ crossed' = crossed
    BY <1>13 DEF UseToken, k
  <2>2. \/ Shut(c, k.ask, k.ran, "401", k.admitted)
        \/ IsToken(c) /\ Turned(c, "limit", k.ask, k.file, k.stat, k.held, k.since, k.ran, k.answer, k.lists, k.admitted)
    BY <1>1, <1>13, TokenDoes DEF k
  <2>3. ASSUME IsToken(c), "token" \notin crossed PROVE k.ask.bearer \in k.since["token"]
    BY <2>3, <2>1, <1>6 DEF IsToken, k, AtFile, FreshOf
  <2>4. k.admitted = -1
    BY <1>2, <1>5, <2>1 DEF Reasoned
  <2>5. CASE IsToken(c) /\ Turned(c, "limit", k.ask, k.file, k.stat, k.held, k.since, k.ran, k.answer, k.lists, k.admitted)
    BY <1>3, <1>7, <2>1, <2>3, <2>4, <2>5
  <2> QED
    BY <2>1, <2>2, <2>5, ReasonShut
<1>14. CASE AllowRequest(c)
  <2>1. k.file = "token" /\ k.at = "limit" /\ crossed' = crossed /\ k.ask.path \in {"commands", "dispatch"}
    BY <1>3, <1>14 DEF AllowRequest, k
  <2>2. \/ \E answer, admitted : Shut(c, k.ask, k.ran, answer, admitted)
        \/ Turned(c, "stat", k.ask, "registry", k.stat, k.held, k.since, k.ran, k.answer, k.lists, gatewayTime)
    BY <1>1, <1>14, <2>1, AllowDoes DEF k
  <2>3. "token" \notin crossed => k.ask.bearer \in k.since["token"]
    BY <2>1, <1>5 DEF Reasoned
  <2>4. CASE Turned(c, "stat", k.ask, "registry", k.stat, k.held, k.since, k.ran, k.answer, k.lists, gatewayTime)
    BY <1>3, <1>7, <2>1, <2>3, <2>4
  <2> QED
    BY <2>1, <2>2, <2>4, ReasonShut
<1>15. CASE UseRegistry(c)
  <2>1. k.file = "registry" /\ k.at = "use" /\ crossed' = crossed /\ k.ask.path \in {"health", "dispatch"}
    BY <1>3, <1>15 DEF UseRegistry, k
  <2> DEFINE ran == cache["registry"].holds
  <2>2. \/ \E answer : Shut(c, k.ask, k.ran, answer, k.admitted)
        \/ Turned(c, "running", k.ask, k.file, k.stat, k.held, k.since, ran, k.answer, k.lists, k.admitted)
    BY <1>1, <1>15, <2>1, RegistryDoes DEF k
  <2>3. "registry" \notin crossed' => {ran, Absent} \cap k.since["registry"] # {}
    BY <1>6, <2>1 DEF AtFile, SeenOf, k, FreshOf
  <2>4. k.admitted >= 0 /\ "token" \notin crossed' => k.ask.bearer \in k.since["token"]
    BY <1>4, <1>5 DEF Reasoned
  <2>5. "running" \notin AskedOf
    BY DEF AskedOf
  <2> HIDE DEF ran
  <2> QED
    BY <1>7, <2>1, <2>2, <2>3, <2>4, <2>5, ReasonShut
<1> QED
  BY <1>9, <1>10, <1>11, <1>12, <1>13, <1>14, <1>15 DEF FileStep

(* ... so after every step each refusal has its reason.                    *)
LEMMA ReasonStep == ASSUME GateBase, FilesFresh, AllReasoned, GatewayNext PROVE AllReasoned'
<1>1. GateTyped /\ ConnsFit
  BY DEF GateBase
<1>2. ASSUME NEW f \in GatewayFiles, Edit(f) PROVE AllReasoned'
  <2>1. ASSUME NEW c \in Connections PROVE Reasoned(conn'[c], crossed')
    <3> DEFINE k == conn[c]
               next == conn'[c]
    <3>1. /\ next.at = k.at /\ next.ask = k.ask /\ next.file = k.file /\ next.ran = k.ran /\ next.admitted = k.admitted
          /\ next.since = IF k.at \in {"new", "closed"} THEN k.since
                          ELSE [k.since EXCEPT ![f] = @ \cup {watched'[f].holds}]
      BY <1>1, <1>2, EditDoes
    <3>2. Reasoned(k, crossed) /\ DOMAIN k.since = GatewayFiles
      BY <1>1 DEF AllReasoned, ConnsFit, KnownConn
    <3>3. \A g \in GatewayFiles : k.since[g] \subseteq next.since[g]
      BY <3>1, <3>2
    <3>4. k.since["token"] \subseteq next.since["token"] /\ k.since["registry"] \subseteq next.since["registry"]
      BY <3>3 DEF GatewayFiles
    <3>5. crossed \subseteq crossed'
      BY <1>2 DEF Edit
    <3> HIDE DEF next, k
    <3>6. Reasoned(next, crossed')
      BY <3>1, <3>2, <3>4, <3>5 DEF Reasoned
    <3> QED
      BY <3>6 DEF next
  <2> QED
    BY <2>1 DEF AllReasoned
<1>3. CASE FileClock
  BY <1>3, ReasonSame DEF FileClock, SecondPasses, GatewayReads, GatewayNotes
<1>4. ASSUME NEW c \in Connections, Connects(c) PROVE AllReasoned'
  BY <1>4, ReasonArrives DEF Connects
<1>5. ASSUME NEW c \in Connections, FileStep(c) PROVE AllReasoned'
  BY <1>5, ReasonFiles
<1>6. ASSUME NEW c \in Connections, CommandEnds(c) PROVE AllReasoned'
  BY <1>1, <1>6, EndDoes, ReasonShut DEF CommandEnds
<1>7. CASE AdapterStep
  BY <1>7, AdapterMoves, ReasonArrives, ReasonSame
<1> QED
  BY <1>2, <1>3, <1>4, <1>5, <1>6, <1>7, NextParts

-----------------------------------------------------------------------------
(***************************************************************************)
(* The window of a caller: what is in it was admitted.                     *)
(***************************************************************************)

-----------------------------------------------------------------------------
(* Each of the connections has a place of its own in the bucket, with the  *)
(* time it asked for.                                                      *)
Books(S, bucket, all, place) ==
  /\ place \in [S -> 1 .. Len(bucket)]
  /\ \A c \in S : bucket[place[c]] = all[c]
  /\ \A c, d \in S : place[c] = place[d] => c = d

Recent(k) ==
  {c \in Connections : /\ conn[c].admitted >= 0 /\ gatewayTime - sampled[c] <= WindowSeconds
                       /\ conn[c].ask.caller = k}
Booked(k) == \E place : Books(Recent(k), buckets[k], sampled, place)
Span(k, t) ==
  {c \in Connections : conn[c].ask.path # "none" /\ conn[c].admitted >= 0 /\ conn[c].ask.caller = k
                       /\ sampled[c] >= t /\ conn[c].admitted <= t + WindowSeconds}

RequestsHeld == \A k \in AllowedCallers : Booked(k)

SpansHeld == \A k \in AllowedCallers, t \in Nat : Cardinality(Span(k, t)) <= MaxRequests

(* The places of some of them.                                             *)
LEMMA BooksSame ==
  ASSUME NEW S, NEW T, T \subseteq S, NEW b, NEW n, NEW m, NEW g, Books(S, b, n, g), \A c \in T : m[c] = n[c]
  PROVE  \E h : Books(T, b, m, h)
<1> PICK h : h = [c \in T |-> g[c]]
  OBVIOUS
<1>1. h \in [T -> 1 .. Len(b)] /\ \A c \in T : h[c] = g[c]
  BY DEF Books
<1>2. Books(T, b, m, h)
  BY <1>1 DEF Books
<1> QED
  BY <1>2

(* The places after the bucket lost its oldest.                            *)
LEMMA BooksPruned ==
  ASSUME NEW S, NEW b \in Seq(Int), NEW n, NEW g, Books(S, b, n, g), NEW z \in 0 .. Len(b),
         \A m \in 1 .. z, c \in S : b[m] # n[c]
  PROVE  \E h : Books(S, SubSeq(b, z + 1, Len(b)), n, h)
<1> DEFINE rest == SubSeq(b, z + 1, Len(b))
<1>1. Len(b) \in Nat /\ z \in Nat /\ z <= Len(b)
  OBVIOUS
<1>2. Len(rest) = Len(b) - z /\ \A i \in 1 .. Len(rest) : rest[i] = b[i + z]
  <2>1. rest = [i \in 1 .. (Len(b) - z) |-> b[i + z]]
    BY <1>1, SubSeqProperties
  <2>2. rest \in Seq(Int)
    BY <1>1, SubSeqProperties
  <2>3. Len(rest) = Len(b) - z
    BY <1>1, SubSeqProperties
  <2> QED
    BY <2>1, <2>3
<1> PICK h : h = [c \in S |-> g[c] - z]
  OBVIOUS
<1>3. \A c \in S : g[c] \in 1 .. Len(b) /\ b[g[c]] = n[c] /\ g[c] \notin 1 .. z
  BY DEF Books
<1>4. \A c \in S : h[c] = g[c] - z /\ h[c] \in 1 .. (Len(b) - z) /\ h[c] + z = g[c]
  BY <1>1, <1>3
<1> HIDE DEF rest
<1>5. h \in [S -> 1 .. Len(rest)]
  BY <1>2, <1>4
<1>6. \A c \in S : rest[h[c]] = n[c]
  <2>1. \A i \in 1 .. (Len(b) - z) : rest[i] = b[i + z]
    BY <1>2
  <2> TAKE c \in S
  <2>2. rest[h[c]] = b[h[c] + z]
    BY <1>4, <2>1
  <2> QED
    BY <1>3, <1>4, <2>2
<1>7. \A c, d \in S : h[c] = h[d] => c = d
  BY <1>4 DEF Books
<1>8. Books(S, rest, n, h)
  BY <1>5, <1>6, <1>7 DEF Books
<1> QED
  BY <1>8 DEF rest

(* One more is admitted.                                                   *)
LEMMA BooksMore ==
  ASSUME NEW S, NEW b \in Seq(Int), NEW n, NEW m, NEW g, Books(S, b, n, g), NEW c, c \notin S, NEW now \in Int,
         m[c] = now, \A d \in S : m[d] = n[d]
  PROVE  \E h : Books(S \cup {c}, Append(b, now), m, h)
<1> DEFINE more == Append(b, now)
<1>1. Len(b) \in Nat /\ Len(more) = Len(b) + 1 /\ more[Len(b) + 1] = now /\ \A i \in 1 .. Len(b) : more[i] = b[i]
  BY AppendProperties
<1> HIDE DEF more
<1> PICK h : h = [d \in S \cup {c} |-> IF d = c THEN Len(b) + 1 ELSE g[d]]
  OBVIOUS
<1>2. \A d \in S : h[d] = g[d] /\ g[d] \in 1 .. Len(b) /\ b[g[d]] = n[d]
  BY DEF Books
<1>3. h[c] = Len(b) + 1
  OBVIOUS
<1>4. h \in [S \cup {c} -> 1 .. Len(more)]
  BY <1>1, <1>2, <1>3
<1>5. \A d \in S \cup {c} : more[h[d]] = m[d]
  BY <1>1, <1>2, <1>3
<1>6. \A d, e \in S \cup {c} : h[d] = h[e] => d = e
  BY <1>1, <1>2, <1>3 DEF Books
<1>7. Books(S \cup {c}, more, m, h)
  BY <1>4, <1>5, <1>6 DEF Books
<1> QED
  BY <1>7 DEF more

(* There are no more of them than places.                                  *)
LEMMA BooksCount ==
  ASSUME NEW S, NEW b, Len(b) \in Nat, NEW n, NEW g, Books(S, b, n, g)
  PROVE  IsFiniteSet(S) /\ Cardinality(S) \in Nat /\ Cardinality(S) <= Len(b)
<1>1. g \in Injection(S, 1 .. Len(b))
  BY DEF Books, Injection, IsInjective
<1>2. IsFiniteSet(1 .. Len(b)) /\ Cardinality(1 .. Len(b)) = Len(b)
  BY FS_Interval, SMTT(30)
<1>3. IsFiniteSet(S) /\ Cardinality(S) <= Cardinality(1 .. Len(b))
  BY <1>1, <1>2, FS_Injection
<1> QED
  BY <1>2, <1>3, FS_CardinalityType

(* Who was admitted, when, for whom: left as it is.                        *)
AdmittedSame ==
  \A c \in Connections :
    /\ conn'[c].admitted = conn[c].admitted
    /\ conn[c].admitted >= 0 => conn'[c].ask.caller = conn[c].ask.caller /\ sampled'[c] = sampled[c]

(* A caller's recent requests when nobody was admitted.                    *)
LEMMA RecentSame ==
  ASSUME GateTyped, AdmittedSame, gatewayTime' \in {gatewayTime, gatewayTime + 1}, NEW k
  PROVE  Recent(k)' \subseteq Recent(k)
<1>1. gatewayTime \in Int /\ WindowSeconds \in Int
  BY GatewayAssumption DEF GateTyped
<1>2. ASSUME NEW c \in Connections, conn'[c].admitted >= 0, gatewayTime' - sampled'[c] <= WindowSeconds, conn'[c].ask.caller = k
      PROVE  conn[c].admitted >= 0 /\ gatewayTime - sampled[c] <= WindowSeconds /\ conn[c].ask.caller = k
  BY <1>2, <1>1 DEF GateTyped, AdmittedSame
<1> QED
  BY <1>2 DEF Recent

(* A span of time holds the same admissions while admissions stay.         *)
LEMMA SpanSame ==
  ASSUME GateBase, GateBase', AdmittedSame, NEW k, NEW t \in Nat PROVE Span(k, t)' = Span(k, t)
<1>1. ASSUME NEW c \in Connections
      PROVE  /\ conn[c].admitted >= 0 => /\ conn[c].ask.path # "none" /\ conn'[c].ask.path # "none"
                                         /\ conn'[c].ask.caller = conn[c].ask.caller /\ sampled'[c] = sampled[c]
             /\ conn'[c].admitted = conn[c].admitted
  BY DEF GateBase, ConnsFit, KnownConn, AdmittedSame, FitConn
<1> QED
  BY <1>1 DEF Span

WindowInv == RequestsHeld /\ SpansHeld

(* Nobody is admitted.                                                     *)
LEMMA WindowSame ==
  ASSUME GateBase, GateBase', WindowInv, AdmittedSame, gatewayTime' \in {gatewayTime, gatewayTime + 1},
         \A k \in AllowedCallers : \E place : Books(Recent(k), buckets'[k], sampled, place)
  PROVE  WindowInv'
<1>1. GateTyped
  BY DEF GateBase
<1>2. ASSUME NEW k \in AllowedCallers PROVE Booked(k)'
  <2>1. PICK place : Books(Recent(k), buckets'[k], sampled, place)
    OBVIOUS
  <2>2. Recent(k)' \subseteq Recent(k)
    BY <1>1, RecentSame
  <2>3. \A c \in Recent(k)' : sampled'[c] = sampled[c]
    BY DEF Recent, AdmittedSame
  <2>4. \E h : Books(Recent(k)', buckets'[k], sampled', h)
    BY <2>1, <2>2, <2>3, BooksSame
  <2> QED
    BY <2>4 DEF Booked
<1>3. SpansHeld'
  BY SpanSame DEF WindowInv, SpansHeld
<1> QED
  BY <1>2, <1>3 DEF WindowInv, RequestsHeld

(* A caller's recent requests have their places in what is left of the     *)
(* bucket.                                                                 *)
LEMMA BookedInWindow ==
  ASSUME GateTyped, NEW k \in AllowedCallers, Booked(k), NEW now \in Int, now <= gatewayTime
  PROVE  \E place : Books(Recent(k), InWindow(k, now), sampled, place)
<1>1. PICK g : Books(Recent(k), buckets[k], sampled, g)
  BY DEF Booked
<1>2. buckets[k] \in Seq(Int)
  BY DEF GateTyped
<1>3. PICK z \in 0 .. Len(buckets[k]) :
        InWindow(k, now) = SubSeq(buckets[k], z + 1, Len(buckets[k])) /\ \A m \in 1 .. z : Expired(now, buckets[k][m])
  BY WindowOf
<1>4. ASSUME NEW m \in 1 .. z, NEW c \in Recent(k) PROVE buckets[k][m] # sampled[c]
  <2>1. Expired(now, buckets[k][m])
    BY <1>3
  <2>2. ~Expired(now, sampled[c])
    BY GatewayAssumption DEF Recent, GateTyped, Expired
  <2> QED
    BY <2>1, <2>2
<1> QED
  BY <1>1, <1>2, <1>3, <1>4, BooksPruned

-----------------------------------------------------------------------------
(***************************************************************************)
(* Requests in the window, and the gateway as a whole.                     *)
(***************************************************************************)

(* A request gets through: it takes the next place.                        *)
LEMMA WindowAdmits ==
  ASSUME GateBase, GateBase', WindowInv, NEW c \in Connections, NEW who \in AllowedCallers, conn[c].admitted = -1,
         conn[c].ask.caller = who, NEW now \in Int, now <= gatewayTime, Admits(who, now), conn'[c].admitted = gatewayTime,
         conn'[c].ask.caller = who, \A d \in Connections : d # c => conn'[d] = conn[d], gatewayTime' = gatewayTime,
         sampled' = [sampled EXCEPT ![c] = now], buckets' = [buckets EXCEPT ![who] = Append(InWindow(who, now), now)]
  PROVE  WindowInv'
<1>1. GateTyped /\ gatewayTime \in Nat /\ WindowSeconds \in Nat /\ MaxRequests \in Nat /\ DOMAIN buckets = AllowedCallers
  BY GatewayAssumption DEF GateBase, GateTyped
<1>2. InWindow(who, now) \in Seq(Int)
  BY <1>1, WindowTyped
<1>3. PICK g : Books(Recent(who), InWindow(who, now), sampled, g)
  BY <1>1, BookedInWindow DEF WindowInv, RequestsHeld
<1>4. /\ sampled'[c] = now
      /\ \A d \in Connections : d # c => conn'[d].admitted = conn[d].admitted /\ conn'[d].ask = conn[d].ask /\ sampled'[d] = sampled[d]
  BY <1>1 DEF GateTyped
<1>5. c \notin Recent(who) /\ \A k : c \notin Recent(k)
  BY DEF Recent
<1>6. Recent(who)' \subseteq Recent(who) \cup {c}
  BY <1>1, <1>4 DEF Recent
<1>7. Booked(who)'
  <2>1. \A d \in Recent(who) : sampled'[d] = sampled[d]
    BY <1>4, <1>5 DEF Recent
  <2>2. PICK h : Books(Recent(who) \cup {c}, Append(InWindow(who, now), now), sampled', h)
    BY <1>2, <1>3, <1>4, <1>5, <2>1, BooksMore
  <2>3. buckets'[who] = Append(InWindow(who, now), now)
    BY <1>1
  <2>4. \E l : Books(Recent(who)', Append(InWindow(who, now), now), sampled', l)
    BY <1>6, <2>2, BooksSame
  <2> QED
    BY <2>3, <2>4 DEF Booked
<1>8. ASSUME NEW k \in AllowedCallers, k # who PROVE Booked(k)'
  <2>1. PICK h : Books(Recent(k), buckets[k], sampled, h)
    BY DEF WindowInv, RequestsHeld, Booked
  <2>2. Recent(k)' = Recent(k)
    BY <1>4, <1>8 DEF Recent
  <2>3. \A d \in Recent(k) : sampled'[d] = sampled[d]
    BY <1>4, <1>5 DEF Recent
  <2>4. buckets'[k] = buckets[k]
    BY <1>1, <1>8
  <2> DEFINE S == Recent(k)
             b == buckets[k]
             then == sampled'
  <2>5. Books(S, b, sampled, h) /\ (\A d \in S : then[d] = sampled[d]) /\ S \subseteq S
    BY <2>1, <2>3
  <2> HIDE DEF S, b, then
  <2>6. \E l : Books(S, b, then, l)
    BY <2>5, BooksSame
  <2> QED
    BY <2>2, <2>4, <2>6 DEF Booked, S, b, then
<1>9. IsFiniteSet(Recent(who)) /\ Cardinality(Recent(who)) \in Nat /\ Cardinality(Recent(who)) < MaxRequests
  <2>1. Len(InWindow(who, now)) \in Nat /\ Len(InWindow(who, now)) < MaxRequests
    BY <1>2 DEF Admits
  <2>2. IsFiniteSet(Recent(who)) /\ Cardinality(Recent(who)) \in Nat /\ Cardinality(Recent(who)) <= Len(InWindow(who, now))
    BY <1>3, <2>1, BooksCount
  <2> HIDE DEF Admits
  <2> QED
    BY <1>1, <2>1, <2>2
<1>10. ASSUME NEW k \in AllowedCallers, NEW t \in Nat PROVE Cardinality(Span(k, t)') <= MaxRequests
  <2>1. Cardinality(Span(k, t)) <= MaxRequests
    BY DEF WindowInv, SpansHeld
  <2>2. CASE k = who /\ now >= t /\ gatewayTime <= t + WindowSeconds
    <3>1. ASSUME NEW d \in Span(k, t) PROVE d \in Recent(who)
      BY <1>1, <2>2 DEF Span, GateTyped, Recent
    <3>2. Span(k, t) \in SUBSET Recent(who)
      BY <3>1
    <3>3. IsFiniteSet(Span(k, t)) /\ Cardinality(Span(k, t)) <= Cardinality(Recent(who))
      BY <1>9, <3>2, FS_Subset
    <3>4. Span(k, t)' \subseteq Span(k, t) \cup {c}
      BY <1>4 DEF Span
    <3>5. Cardinality(Span(k, t)) \in Nat
      BY <3>3, FS_CardinalityType
    <3>6. /\ IsFiniteSet(Span(k, t) \cup {c})
          /\ Cardinality(Span(k, t) \cup {c}) \in Nat
          /\ Cardinality(Span(k, t) \cup {c}) <= Cardinality(Span(k, t)) + 1
      <4>1. /\ IsFiniteSet(Span(k, t) \cup {c})
            /\ Cardinality(Span(k, t) \cup {c}) = IF c \in Span(k, t) THEN Cardinality(Span(k, t)) ELSE Cardinality(Span(k, t)) + 1
        BY <3>3, FS_AddElement
      <4> DEFINE old == Cardinality(Span(k, t))
                 more == Cardinality(Span(k, t) \cup {c})
      <4>2. old \in Nat /\ (more = old \/ more = old + 1)
        BY <3>5, <4>1
      <4> HIDE DEF old, more
      <4>3. more \in Nat /\ more <= old + 1
        BY <4>2
      <4> QED
        BY <4>1, <4>3 DEF old, more
    <3>7. Cardinality(Span(k, t)') <= Cardinality(Span(k, t) \cup {c}) /\ IsFiniteSet(Span(k, t)')
      BY <3>4, <3>6, FS_Subset
    <3>8. Cardinality(Span(k, t)') \in Nat
      BY <3>7, FS_CardinalityType
    <3> QED
      BY <1>1, <1>9, <3>3, <3>5, <3>6, <3>7, <3>8
  <2>3. CASE ~(k = who /\ now >= t /\ gatewayTime <= t + WindowSeconds)
    <3>1. Span(k, t)' = Span(k, t)
      BY <1>4, <2>3 DEF Span
    <3> QED
      BY <2>1, <3>1
  <2> QED
    BY <2>2, <2>3
<1>11. SpansHeld'
  BY <1>10 DEF SpansHeld
<1> QED
  BY <1>7, <1>8, <1>11 DEF WindowInv, RequestsHeld

(* The requests of a caller that lost old ones of its bucket.              *)
LEMMA WindowTurned ==
  ASSUME GateBase, GateBase', WindowInv, AdmittedSame, NEW who \in AllowedCallers, NEW now \in Int, now <= gatewayTime,
         gatewayTime' = gatewayTime, buckets' = [buckets EXCEPT ![who] = InWindow(who, now)]
  PROVE  WindowInv'
<1>1. GateTyped /\ DOMAIN buckets = AllowedCallers
  BY DEF GateBase, GateTyped
<1>2. ASSUME NEW k \in AllowedCallers PROVE \E place : Books(Recent(k), buckets'[k], sampled, place)
  BY <1>1, BookedInWindow DEF WindowInv, RequestsHeld, Booked
<1> QED
  BY <1>2, WindowSame

(* Most steps leave the buckets alone.                                     *)
LEMMA WindowLeft ==
  ASSUME GateBase, GateBase', WindowInv, AdmittedSame, gatewayTime' \in {gatewayTime, gatewayTime + 1}, buckets' = buckets
  PROVE  WindowInv'
BY WindowSame DEF WindowInv, RequestsHeld, Booked

(* Steps that admit nobody leave admissions alone ...                      *)
LEMMA AdmittedTurned ==
  ASSUME NEW c \in Connections, NEW at, NEW ask, NEW file, NEW stat, NEW held, NEW since, NEW ran, NEW answer, NEW lists,
         Turned(c, at, ask, file, stat, held, since, ran, answer, lists, conn[c].admitted),
         ask = conn[c].ask \/ ~(conn[c].admitted >= 0),
         \A d \in Connections : conn[d].admitted >= 0 => sampled'[d] = sampled[d]
  PROVE  AdmittedSame
BY DEF Turned, AdmittedSame

(* ... also those that end a connection.                                   *)
LEMMA AdmittedShut ==
  ASSUME NEW c \in Connections, NEW ask, NEW ran, NEW answer, Shut(c, ask, ran, answer, conn[c].admitted),
         ask = conn[c].ask \/ ~(conn[c].admitted >= 0),
         \A d \in Connections : conn[d].admitted >= 0 => sampled'[d] = sampled[d]
  PROVE  AdmittedSame
<1>1. conn'[c].ask.caller = ask.caller
  <2> DEFINE seen == [path |-> "closed", caller |-> ask.caller, call |-> 0]
  <2>1. seen.caller = ask.caller
    OBVIOUS
  <2> HIDE DEF seen
  <2>2. conn'[c].ask = ask \/ conn'[c].ask = seen
    BY DEF Shut, seen
  <2> QED
    BY <2>1, <2>2
<1> QED
  BY <1>1 DEF Shut, AdmittedSame

(* The windows are kept when a request arrives ...                         *)
LEMMA WindowArrives ==
  ASSUME GateBase, GateBase', WindowInv, NEW c \in Connections, NEW ask, Arrives(c, ask), UNCHANGED <<buckets, sampled, gatewayTime>>
  PROVE  WindowInv'
<1> DEFINE k == conn[c]
<1>1. KnownConn(k) /\ FitConn(k, adapter.call) /\ GateTyped
  BY BaseOf
<1>2. /\ k.at = "new"
      /\ \/ \E file \in GatewayFiles : Turned(c, "stat", ask, file, k.stat, k.held, k.since, k.ran, k.answer, k.lists, k.admitted)
         \/ \E answer \in {"401", "403"} : Shut(c, ask, k.ran, answer, k.admitted)
  BY <1>1, ArrivesDoes
<1>3. ~(k.admitted >= 0)
  BY <1>1, <1>2 DEF FitConn
<1>4. AdmittedSame
  BY <1>2, <1>3, AdmittedTurned, AdmittedShut
<1> QED
  BY <1>4, WindowLeft

(* ... when one is admitted or turned away ...                             *)
LEMMA WindowToken ==
  ASSUME GateBase, GateBase', AllReasoned, WindowInv, NEW c \in Connections, UseToken(c) \/ AllowRequest(c)
  PROVE  WindowInv'
<1> DEFINE k == conn[c]
           who == k.ask.caller
<1>1. GateTyped /\ gatewayTime \in Int /\ sampled[c] \in Int /\ DOMAIN sampled = Connections
  BY DEF GateBase, GateTyped
<1>2. k.at \in AskedOf /\ k.file = "token" /\ gatewayTime' = gatewayTime
  BY DEF UseToken, AllowRequest, AskedOf
<1>3. k.ask.path \in {"commands", "dispatch"} /\ who \in AllowedCallers
  BY <1>2, AskedFits
<1>4. k.admitted = -1
  BY <1>2 DEF AllReasoned, Reasoned
<1>5. ASSUME NEW time, sampled' = [sampled EXCEPT ![c] = time]
      PROVE  \A d \in Connections : conn[d].admitted >= 0 => sampled'[d] = sampled[d]
  BY <1>1, <1>4, <1>5
<1>6. CASE UseToken(c)
  <2>1. /\ buckets' = buckets
        /\ \/ Shut(c, k.ask, k.ran, "401", k.admitted) /\ sampled' = sampled
           \/ /\ sampled' = [sampled EXCEPT ![c] = gatewayTime]
              /\ Turned(c, "limit", k.ask, k.file, k.stat, k.held, k.since, k.ran, k.answer, k.lists, k.admitted)
    BY <1>1, <1>6, TokenDoes
  <2>2. AdmittedSame
    BY <2>1, <1>5, AdmittedShut, AdmittedTurned
  <2> QED
    BY <1>2, <2>1, <2>2, WindowLeft
<1>7. CASE AllowRequest(c)
  <2>1. PICK now \in sampled[c] .. gatewayTime :
          \/ /\ buckets' = [buckets EXCEPT ![who] = InWindow(who, now)] /\ sampled' = [sampled EXCEPT ![c] = -1]
             /\ Shut(c, k.ask, k.ran, "429", k.admitted)
          \/ /\ Admits(who, now) /\ buckets' = [buckets EXCEPT ![who] = Append(InWindow(who, now), now)]
             /\ sampled' = [sampled EXCEPT ![c] = now]
             /\ \/ k.ask.path = "commands" /\ Shut(c, k.ask, k.ran, "200", gatewayTime)
                \/ k.ask.path = "dispatch" /\ Shut(c, k.ask, k.ran, "400", gatewayTime)
                \/ k.ask.path = "dispatch"
                   /\ Turned(c, "stat", k.ask, "registry", k.stat, k.held, k.since, k.ran, k.answer, k.lists, gatewayTime)
    BY <1>1, <1>3, <1>7, AllowDoes
  <2>2. now \in Int /\ now <= gatewayTime
    BY <1>1, <2>1
  <2> HIDE DEF k, who
  <2>3. CASE /\ buckets' = [buckets EXCEPT ![who] = InWindow(who, now)] /\ sampled' = [sampled EXCEPT ![c] = -1]
             /\ Shut(c, k.ask, k.ran, "429", k.admitted)
    <3>1. AdmittedSame
      BY <2>3, <1>5, AdmittedShut DEF k
    <3> QED
      BY <1>2, <1>3, <2>2, <2>3, <3>1, WindowTurned
  <2>4. ASSUME NEW answer, Shut(c, k.ask, k.ran, answer, gatewayTime)
        PROVE  conn'[c].admitted = gatewayTime /\ conn'[c].ask.caller = who /\ \A d \in Connections : d # c => conn'[d] = conn[d]
    <3> DEFINE seen == [path |-> "closed", caller |-> who, call |-> 0]
    <3>1. seen.caller = who
      OBVIOUS
    <3> HIDE DEF seen
    <3>2. conn'[c].ask = k.ask \/ conn'[c].ask = seen
      BY <2>4 DEF Shut, seen, who
    <3> QED
      BY <2>4, <3>1, <3>2 DEF Shut, who
  <2>5. ASSUME Turned(c, "stat", k.ask, "registry", k.stat, k.held, k.since, k.ran, k.answer, k.lists, gatewayTime)
        PROVE  conn'[c].admitted = gatewayTime /\ conn'[c].ask.caller = who /\ \A d \in Connections : d # c => conn'[d] = conn[d]
    BY <2>5 DEF Turned, who
  <2>6. CASE /\ Admits(who, now) /\ buckets' = [buckets EXCEPT ![who] = Append(InWindow(who, now), now)]
             /\ sampled' = [sampled EXCEPT ![c] = now]
             /\ \/ Shut(c, k.ask, k.ran, "200", gatewayTime)
                \/ Shut(c, k.ask, k.ran, "400", gatewayTime)
                \/ Turned(c, "stat", k.ask, "registry", k.stat, k.held, k.since, k.ran, k.answer, k.lists, gatewayTime)
    <3>1. conn'[c].admitted = gatewayTime /\ conn'[c].ask.caller = who /\ \A d \in Connections : d # c => conn'[d] = conn[d]
      BY <2>4, <2>5, <2>6
    <3> QED
      BY <1>2, <1>3, <1>4, <2>2, <2>6, <3>1, WindowAdmits DEF who, k
  <2> QED
    BY <2>1, <2>3, <2>6
<1> QED
  BY <1>6, <1>7

(* ... and by every step.                                                  *)
LEMMA WindowStep == ASSUME GateBase, GateBase', AllReasoned, WindowInv, GatewayNext PROVE WindowInv'
<1>1. GateTyped
  BY DEF GateBase
<1>2. ASSUME NEW f \in GatewayFiles, Edit(f) PROVE WindowInv'
  BY <1>2, <1>1, EditDoes, WindowLeft DEF Edit, AdmittedSame
<1>3. CASE FileClock
  BY <1>3, WindowLeft DEF FileClock, SecondPasses, GatewayReads, GatewayNotes, AdmittedSame
<1>4. ASSUME NEW c \in Connections, Connects(c) PROVE WindowInv'
  BY <1>4, WindowArrives DEF Connects
<1>5. ASSUME NEW c \in Connections, FileStep(c) \/ CommandEnds(c), ~UseToken(c), ~AllowRequest(c) PROVE WindowInv'
  <2> DEFINE k == conn[c]
  <2>1. UNCHANGED <<buckets, sampled, gatewayTime>>
    BY <1>5 DEF FileStep, StatFile, ReadFile, AssignCache, NoteTime, UseRegistry, CommandEnds
  <2>2. FileStep(c) => k.at \in AskedOf
    BY DEF FileStep, StatFile, ReadFile, AssignCache, NoteTime, UseToken, AllowRequest, UseRegistry, AskedOf
  <2>3. FileStep(c) => (k.file = "registry" => k.ask.path \in {"health", "dispatch"})
    BY <2>2, AskedFits
  <2>4. \/ \E ran, answer : Shut(c, k.ask, ran, answer, k.admitted)
        \/ \E at, file, stat, held, since, ran, answer, lists :
             Turned(c, at, k.ask, file, stat, held, since, ran, answer, lists, k.admitted)
    <3>1. CASE StatFile(c)
      BY <1>1, <3>1, StatDoes, Zenon
    <3>2. CASE ReadFile(c)
      BY <1>1, <3>2, ReadDoes, Zenon
    <3>3. CASE AssignCache(c)
      BY <1>1, <3>3, AssignDoes, Zenon
    <3>4. CASE NoteTime(c)
      BY <1>1, <3>4, NoteDoes, Zenon
    <3>5. CASE UseRegistry(c)
      BY <2>3, <3>5, <1>1, RegistryDoes DEF UseRegistry, FileStep
    <3>6. CASE CommandEnds(c)
      BY <1>1, <3>6, EndDoes, Zenon
    <3> QED
      BY <1>5, <3>1, <3>2, <3>3, <3>4, <3>5, <3>6 DEF FileStep
  <2>5. AdmittedSame
    BY <2>1, <2>4, AdmittedTurned, AdmittedShut
  <2> QED
    BY <2>1, <2>5, WindowLeft
<1>6. CASE AdapterStep
  <2>1. /\ UNCHANGED <<watched, cache, buckets, sampled, gatewayAt, gatewayTime, crossed>>
        /\ conn' = conn \/ \E c \in Connections : \E ask : Arrives(c, ask)
    BY <1>6, AdapterMoves
  <2>2. CASE conn' = conn
    BY <2>2, <2>1, WindowLeft DEF AdmittedSame
  <2> QED
    BY <2>1, <2>2, WindowArrives
<1> QED
  BY <1>2, <1>3, <1>4, <1>5, <1>6, WindowToken, NextParts

-----------------------------------------------------------------------------
(* Together.                                                               *)
GateInv == GateCalls /\ FilesFresh /\ AllReasoned /\ WindowInv

(* Every step of the gateway keeps the invariant ...                       *)
LEMMA GateStep == ASSUME GateInv, GatewayNext PROVE GateInv'
BY CallsStep, FreshStep, ReasonStep, WindowStep DEF GateInv, GateCalls

(* ... which its variables decide.                                         *)
LEMMA GateRests == ASSUME GateInv, UNCHANGED gatewayVars PROVE GateInv'
<1>0. UNCHANGED <<watched, cache, conn, buckets, sampled, auditLog, gatewayAt, gatewayTime, adapter, edits, crossed>>
  BY DEF gatewayVars
<1>1. GateCalls'
  BY <1>0 DEF GateInv, GateCalls, GateBase, GateTyped, ConnsFit, AdapterFits, EndsAudited
<1>2. FilesFresh'
  BY <1>0 DEF GateInv, FilesFresh, SeenOf, FreshOf, Rivalled
<1>3. AllReasoned'
  BY <1>0, ReasonSame DEF GateInv
<1>4. WindowInv'
  BY <1>0, <1>1, WindowLeft DEF AdmittedSame, GateInv, GateCalls
<1> QED
  BY <1>1, <1>2, <1>3, <1>4 DEF GateInv

(* So it is kept in every step.                                            *)
LEMMA GateSteps == ASSUME GateInv, GatewayNext \/ UNCHANGED gatewayVars PROVE GateInv'
BY GateStep, GateRests

(* The invariant holds of a gateway that starts.                           *)
LEMMA GateStarts == GatewayInit => GateInv
<1> SUFFICES ASSUME GatewayInit PROVE GateInv
  OBVIOUS
<1>1. conn = [c \in Connections |-> Unopened]
  BY DEF GatewayInit
<1>2. DOMAIN conn = Connections /\ \A c \in Connections : conn[c] = Unopened
  BY <1>1
<1> DEFINE none == [f \in GatewayFiles |-> {}]
           nobody == [path |-> "none", call |-> 0]
<1>3. DOMAIN none = GatewayFiles /\ nobody.path = "none" /\ nobody.call = 0
  OBVIOUS
<1> HIDE DEF none, nobody
<1>4. /\ DOMAIN Unopened = ConnFields /\ Unopened.since = none /\ Unopened.ask = nobody /\ Unopened.at = "new"
      /\ Unopened.stat = -1 /\ Unopened.admitted = -1 /\ Unopened.ran = "nothing" /\ Unopened.held = "none"
  BY DEF Unopened, none, nobody, ConnFields
<1> HIDE DEF Unopened
<1>5. KnownConn(Unopened) /\ FitConn(Unopened, adapter.call)
  BY <1>3, <1>4 DEF GatewayInit, KnownConn, FitConn, AskedOf
<1>6. PICK known : adapter = [commands |-> known, at |-> "idle", op |-> "none", call |-> 0, on |-> "none", heard |-> "none"]
  BY DEF GatewayInit
<1>7. DOMAIN adapter = AdapterFields /\ adapter.at = "idle" /\ adapter.call = 0 /\ adapter.heard = "none"
  BY <1>6 DEF AdapterFields
<1>8. watched = [f \in GatewayFiles |-> [holds |-> "v1", mtime |-> 0]]
  BY DEF GatewayInit
<1>9. DOMAIN watched = GatewayFiles
      /\ \A f \in GatewayFiles : DOMAIN watched[f] = FileFields /\ watched[f].mtime = 0 /\ watched[f].holds = "v1"
  BY <1>8 DEF FileFields
<1>10. /\ DOMAIN cache = GatewayFiles
       /\ \A f \in GatewayFiles : DOMAIN cache[f] = FileFields /\ cache[f].mtime \in Int /\ cache[f].holds # "nothing"
       /\ \/ gatewayAt = "up" /\ cache = watched
          \/ gatewayAt = "reading" /\ \A f \in GatewayFiles : cache[f].mtime = -1
  BY <1>9 DEF FileFields, GatewayInit
<1>11. /\ buckets = [k \in AllowedCallers |-> <<>>] /\ sampled = [c \in Connections |-> -1] /\ gatewayTime = 0 /\ crossed = {} /\ auditLog = {}
  BY DEF GatewayInit
<1>12. DOMAIN buckets = AllowedCallers /\ \A k \in AllowedCallers : buckets[k] = <<>>
  BY <1>11
<1>13. <<>> \in Seq(Int)
  OBVIOUS
<1>14. RestTyped
  BY <1>7, <1>9, <1>10, <1>11, <1>12, <1>13 DEF RestTyped
<1>15. GateBase
  BY <1>2, <1>5, <1>9, <1>10, <1>14, GateParts DEF ConnsFit, GateBase
<1>16. AdapterFits /\ EndsAudited
  BY <1>2, <1>3, <1>4, <1>7 DEF AdapterFits, EndsAudited
<1>17. FilesFresh
  <2>1. \A c \in Connections : conn[c].at = "new"
    BY <1>2, <1>4
  <2>2. \A c \in Connections : \A f : ~Passed(conn[c], f) /\ ~Reloads(conn[c], f)
    BY <2>1 DEF Passed, Reloads
  <2>3. \A c \in Connections : \A f : ~AtFile(conn[c], "assign", f) /\ ~AtFile(conn[c], "note", f) /\ ~AtFile(conn[c], "use", f)
    BY <2>1 DEF AtFile
  <2>4. ASSUME NEW f \in GatewayFiles PROVE SeenOf(f) /\ FreshOf(f)
    <3>1. cache[f].mtime <= watched[f].mtime /\ (cache[f].mtime = watched[f].mtime => cache[f].holds = watched[f].holds)
      BY <1>9, <1>10
    <3> QED
      BY <2>2, <2>3, <3>1 DEF SeenOf, FreshOf
  <2>5. gatewayAt # "noting"
    BY <1>10
  <2> QED
    BY <1>10, <2>1, <2>4, <2>5 DEF FilesFresh
<1>18. AllReasoned
  BY <1>2, <1>4 DEF AllReasoned, Reasoned
<1>19. WindowInv
  <2>1. \A c \in Connections : conn[c].admitted = -1
    BY <1>2, <1>4
  <2>2. ASSUME NEW k \in AllowedCallers PROVE Booked(k)
    <3>1. Recent(k) = {}
      BY <2>1 DEF Recent
    <3> PICK h : h = [c \in {} |-> 0]
      OBVIOUS
    <3>2. h \in [{} -> 1 .. Len(buckets[k])]
      OBVIOUS
    <3>3. Books({}, buckets[k], sampled, h)
      BY <3>2 DEF Books
    <3> QED
      BY <3>1, <3>3 DEF Booked
  <2>3. ASSUME NEW k \in AllowedCallers, NEW t \in Nat PROVE Cardinality(Span(k, t)) <= MaxRequests
    <3>1. Span(k, t) = {}
      BY <2>1 DEF Span
    <3> QED
      BY <3>1, FS_EmptySet, GatewayAssumption
  <2> QED
    BY <2>2, <2>3 DEF WindowInv, RequestsHeld, SpansHeld
<1> QED
  BY <1>15, <1>16, <1>17, <1>18, <1>19 DEF GateInv, GateCalls

(* What the invariant says of the gateway.                                 *)
LEMMA GateHolds == GateInv => GatewaySound
<1> SUFFICES ASSUME GateInv PROVE GatewaySound
  OBVIOUS
<1>1. GateTyped /\ ConnsFit /\ AdapterFits /\ EndsAudited /\ adapter.call \in Nat
  BY DEF GateInv, GateCalls, GateBase, GateTyped
<1>2. WindowHeld
  BY DEF GateInv, WindowInv, SpansHeld, Span, WindowHeld
<1>3. CacheFresh
  BY DEF GateInv, FilesFresh, FreshOf, CacheFresh
<1>4. RanForReason
  BY DEF GateInv, AllReasoned, Reasoned, RanForReason
<1>5. RunsOnce
  <2> DEFINE runs(n) == {c \in Connections : conn[c].ran # "nothing" /\ conn[c].ask.call = n}
  <2>1. ASSUME NEW n \in 1 .. adapter.call PROVE Cardinality(runs(n)) <= 1
    <3>1. ASSUME NEW c \in runs(n), NEW d \in runs(n) PROVE c = d
      <4>1. n # 0
        BY <1>1
      <4>2. \A e \in runs(n) : e \in Connections /\ conn[e].ask.path = "dispatch" /\ conn[e].ask.call = n
        BY <1>1, <4>1 DEF ConnsFit, FitConn
      <4> HIDE DEF runs
      <4> QED
        BY <1>1, <4>1, <4>2 DEF AdapterFits
    <3> HIDE DEF runs
    <3>2. runs(n) = {} \/ \E c : runs(n) = {c}
      BY <3>1
    <3>3. Cardinality(runs(n)) = 0 \/ Cardinality(runs(n)) = 1
      BY FS_EmptySet, FS_Singleton, <3>2
    <3> QED
      BY <3>3
  <2>2. adapter.heard = "result" => runs(adapter.call) # {}
    BY <1>1 DEF AdapterFits
  <2> QED
    BY <2>1, <2>2 DEF RunsOnce
<1> QED
  BY <1>1, <1>2, <1>3, <1>4, <1>5 DEF GatewaySound

=============================================================================
