-------------------------- MODULE ServiceInvariants -------------------------
(***************************************************************************)
(* An inductive invariant of each of these services, and what it gives:    *)
(* the node bridge, the mesh's heartbeats and the authority, the bindings  *)
(* to the phase-2 backend, the operators' desk, the station's engines and  *)
(* servers, and the local seal store.  ServicesProofs states the theorems. *)
(***************************************************************************)
EXTENDS NodeBridge, ConsoLab, OperatorDesk, StationEngines, LocalSeals,
        TLAPS, FiniteSetTheorems, FunctionTheorems, SequenceTheorems

-----------------------------------------------------------------------------
(***************************************************************************)
(* The node bridge: registry, staleness and challenges (bridge/*.ts).      *)
(***************************************************************************)

(* The registry keeps the capabilities a node came with; one that has not  *)
(* spoken since the last run of markStale was recent then, or is offline.  *)
RegistryHolds ==
  /\ clock \in Nat /\ spoke.swept \in Nat
  /\ DOMAIN first = DOMAIN registry
  /\ \A n \in DOMAIN registry :
       /\ first[n] = registry[n].caps
       /\ registry[n].beat \in Nat
       /\ n \in spoke.nodes \/ registry[n].status = "offline" \/ spoke.swept - registry[n].beat <= Threshold

(* An open challenge has not been met.                                     *)
ChallengesHold ==
  /\ accepted \in [Challenges -> 0 .. 1]
  /\ \A c \in DOMAIN challenge : c \in Challenges /\ accepted[c] = 0

BridgeInv == RegistryHolds /\ ChallengesHold

(* Nothing is registered, no challenge is open.                            *)
LEMMA BridgeStarts == BridgeInit => BridgeInv
BY DEF BridgeInit, BridgeInv, RegistryHolds, ChallengesHold, NoEntries

(* Each handler of the registry keeps what it holds.                       *)
LEMMA RegistrySteps == RegistryHolds /\ [BridgeNext]_bridgeVars => RegistryHolds'
<1> SUFFICES ASSUME RegistryHolds, [BridgeNext]_bridgeVars PROVE RegistryHolds'
  OBVIOUS
<1> USE DEF RegistryHolds
<1>1. ASSUME NEW n \in Nodes, NEW caps \in CapabilitySets, NEW trust \in Trusts,
             RegisterNode(n, caps, "online", trust, clock)
      PROVE  RegistryHolds'
  BY <1>1 DEF RegisterNode, Extended
<1>2. ASSUME NEW n \in Nodes, NEW state \in NodeStatuses, NEW observed \in 0 .. clock,
             RecordHeartbeat(n, state, observed)
      PROVE  RegistryHolds'
  BY <1>2 DEF RecordHeartbeat
<1>3. CASE MarkStale
  BY <1>3, NodeBridgeAssumption DEF MarkStale, Stale
<1>4. CASE BridgeClockTicks
  BY <1>4 DEF BridgeClockTicks
<1>5. CASE UNCHANGED <<registry, clock, first, spoke>>
  BY <1>5
<1> QED
  BY <1>1, <1>2, <1>3, <1>4, <1>5 DEF BridgeNext, bridgeVars, Issue, Verify

(* A challenge that is met is gone.                                        *)
LEMMA ChallengesStep == ChallengesHold /\ [BridgeNext]_bridgeVars => ChallengesHold'
<1> SUFFICES ASSUME ChallengesHold, [BridgeNext]_bridgeVars PROVE ChallengesHold'
  OBVIOUS
<1> USE DEF ChallengesHold
<1>1. ASSUME NEW n \in Nodes, NEW c \in Challenges, Issue(c, n) PROVE ChallengesHold'
  BY <1>1 DEF Issue, Extended
<1>2. ASSUME NEW n \in Nodes, NEW c \in Challenges, NEW signed \in BOOLEAN, Verify(c, n, signed)
      PROVE  ChallengesHold'
  BY <1>2 DEF Verify, Dropped
<1>3. CASE UNCHANGED <<challenge, accepted>>
  BY <1>3
<1> QED
  BY <1>1, <1>2, <1>3
  DEF BridgeNext, bridgeVars, RegisterNode, RecordHeartbeat, MarkStale, BridgeClockTicks

(* What the registry holds gives what is promised of picks and challenges. *)
LEMMA BridgeSound == BridgeInv => NodesSound
BY DEF BridgeInv, RegistryHolds, PickedIsSound, Picks, PreferredPicks, Eligible, ChallengesHold,
   ChallengeMetOnce, NodesSound

-----------------------------------------------------------------------------
(***************************************************************************)
(* The heartbeat manager of the ConsoLab mesh (heartbeat.ts).              *)
(***************************************************************************)

PeerStates == [healthy : BOOLEAN, missed : Nat, word : {"registered", "well", "ill", "acknowledged"}]
PeerMaps == UNION {[P -> PeerStates] : P \in SUBSET Peers}
MeshFiles == [ids : Seq(Peers), of : PeerMaps]
Rounds == [at : {"sending", "saving"}, pos : Nat \ {0}, saves : MeshFiles, mixed : BOOLEAN]

MeshTypes ==
  /\ known \in Seq(Peers) /\ node \in PeerMaps
  /\ beats \in Seq(Rounds) /\ file \in MeshFiles

(* Ids and states that belong together, each state explained.              *)
Explains(state) == ~state.healthy <=> state.missed >= MaxMissed \/ state.word = "ill"
Explained(ids, of) ==
  /\ \A i \in 1 .. Len(ids) : ids[i] \in DOMAIN of
  /\ \A n \in DOMAIN of : Explains(of[n])

(* What is known, what is saved and what a round is about to save.         *)
MeshInv ==
  /\ MeshTypes
  /\ Explained(known, node) /\ Explained(file.ids, file.of)
  /\ \A b \in 1 .. Len(beats) : Explained(beats[b].saves.ids, beats[b].saves.of)

(* States are kept for some of the peers.                                  *)
LEMMA PeerMapsAre ==
  ASSUME NEW f
  PROVE  f \in PeerMaps <=> DOMAIN f \subseteq Peers /\ f \in [DOMAIN f -> PeerStates]
BY Zenon DEF PeerMaps

(* The file that cannot be read stands for no nodes at all.                *)
LEMMA NothingSaved ==
  /\ None \in MeshFiles /\ None.ids = <<>> /\ None.of = NoNodes
  /\ NoNodes \in PeerMaps /\ Explained(<<>>, NoNodes)
<1>1. NoNodes \in PeerMaps
  BY PeerMapsAre DEF NoNodes
<1>2. Explained(<<>>, NoNodes)
  BY DEF Explained, NoNodes
<1> QED
  BY <1>1, <1>2 DEF MeshFiles, None

(* The manager starts without nodes, files and rounds.                     *)
LEMMA MeshStarts == MeshInit => MeshInv
BY NothingSaved DEF MeshInit, MeshInv, MeshTypes

(* A state is added, or replaces the one of a node.                        *)
LEMMA WithNodeExplained ==
  ASSUME MeshInv, NEW n \in Peers, NEW state \in PeerStates, Explains(state)
  PROVE  /\ WithNode(n, state) \in PeerMaps
         /\ Explained(known, WithNode(n, state)) /\ Explained(Append(known, n), WithNode(n, state))
BY PeerMapsAre DEF MeshInv, MeshTypes, WithNode, Explained

(* What one end of a send makes of a node.                                 *)
LEMMA SendExplains ==
  ASSUME MeshInv, NEW n \in Peers, n \in DOMAIN node, Acknowledged(n) \/ Missed(n)
  PROVE  node' \in PeerMaps /\ Explained(known, node')
<1> DEFINE well == [healthy |-> TRUE, missed |-> 0, word |-> "acknowledged"]
           less == [healthy |-> node[n].healthy /\ node[n].missed + 1 < MaxMissed,
                    missed |-> node[n].missed + 1, word |-> node[n].word]
<1>6. node' = WithNode(n, well) \/ node' = WithNode(n, less)
  BY DEF Acknowledged, Missed
<1>1. well \in PeerStates /\ Explains(well)
  BY HeartbeatAssumption DEF PeerStates, Explains
<1>2. node[n] \in PeerStates /\ Explains(node[n])
  BY PeerMapsAre DEF MeshInv, MeshTypes, Explained
<1>3. PICK healthy \in BOOLEAN, missed \in Nat, word \in {"registered", "well", "ill", "acknowledged"} :
        node[n] = [healthy |-> healthy, missed |-> missed, word |-> word]
  BY <1>2 DEF PeerStates
<1> DEFINE left == healthy /\ missed + 1 < MaxMissed
<1>4. less = [healthy |-> left, missed |-> missed + 1, word |-> word]
  BY <1>3
<1>5. (~left <=> missed + 1 >= MaxMissed \/ word = "ill") /\ left \in BOOLEAN
  BY <1>2, <1>3, HeartbeatAssumption DEF Explains
<1> HIDE DEF left, less
<1>7. less \in PeerStates
  BY <1>4, <1>5 DEF PeerStates
<1>8. Explains(less)
  BY <1>4, <1>5 DEF Explains
<1> HIDE DEF well
<1> QED
  BY <1>1, <1>6, <1>7, <1>8, WithNodeExplained

(* A round that moves on, with what it saves or with what it now saves.    *)
LEMMA RoundsStay ==
  ASSUME MeshInv
  PROVE  /\ \A b \in 1 .. Len(beats) : beats[b] \in Rounds
         /\ \A b \in 1 .. Len(beats) : beats[b].saves \in MeshFiles
         /\ \A b \in 1 .. Len(beats) :
              /\ [beats[b] EXCEPT !.pos = @ + 1] \in Rounds
              /\ [beats[b] EXCEPT !.pos = @ + 1].saves = beats[b].saves
<1> SUFFICES ASSUME NEW b \in 1 .. Len(beats)
             PROVE  /\ beats[b] \in Rounds /\ beats[b].saves \in MeshFiles
                    /\ [beats[b] EXCEPT !.pos = @ + 1] \in Rounds
                    /\ [beats[b] EXCEPT !.pos = @ + 1].saves = beats[b].saves
  OBVIOUS
<1>1. beats[b] \in Rounds
  BY DEF MeshInv, MeshTypes
<1>2. PICK at \in {"sending", "saving"}, pos \in Nat \ {0}, saves \in MeshFiles, mixed \in BOOLEAN :
        beats[b] = [at |-> at, pos |-> pos, saves |-> saves, mixed |-> mixed]
  BY <1>1 DEF Rounds
<1>3. [beats[b] EXCEPT !.pos = @ + 1] = [at |-> at, pos |-> pos + 1, saves |-> saves, mixed |-> mixed]
  BY <1>2
<1> QED
  BY <1>1, <1>2, <1>3 DEF Rounds

(* Registrations, heartbeats, rounds, saves and restarts keep each state   *)
(* explained.                                                              *)
LEMMA MeshSteps == MeshInv /\ [MeshNext]_meshVars => MeshInv'
<1> SUFFICES ASSUME MeshInv, [MeshNext]_meshVars PROVE MeshInv'
  OBVIOUS
<1>0. ASSUME NEW n \in Peers, NEW state \in PeerStates, Explains(state), Noted(n, state), UNCHANGED <<beats, file>>
      PROVE  MeshInv'
  BY <1>0, WithNodeExplained DEF Noted, MeshInv, MeshTypes
<1>1. ASSUME NEW n \in Peers, Register(n) PROVE MeshInv'
  <2> DEFINE state == [healthy |-> TRUE, missed |-> 0, word |-> "registered"]
  <2>1. state \in PeerStates /\ Explains(state)
    BY HeartbeatAssumption DEF PeerStates, Explains
  <2>2. Noted(n, state) /\ UNCHANGED <<beats, file>>
    BY <1>1 DEF Register
  <2> HIDE DEF state
  <2> QED
    BY <1>0, <2>1, <2>2
<1>2. ASSUME NEW n \in Peers, NEW well \in BOOLEAN, Receive(n, well) PROVE MeshInv'
  <2> DEFINE state == [healthy |-> well, missed |-> 0, word |-> IF well THEN "well" ELSE "ill"]
  <2>1. state \in PeerStates /\ Explains(state)
    BY HeartbeatAssumption DEF PeerStates, Explains
  <2>2. Noted(n, state) /\ UNCHANGED <<beats, file>>
    BY <1>2 DEF Receive
  <2> HIDE DEF state
  <2> QED
    BY <1>0, <2>1, <2>2
<1>3. CASE Round
  <2> DEFINE starting == [at |-> "sending", pos |-> 1, saves |-> None, mixed |-> FALSE]
  <2>1. starting \in Rounds /\ starting.saves = None
    BY NothingSaved DEF Rounds
  <2>2. beats' = Append(beats, starting) /\ UNCHANGED <<known, node, file>>
    BY <1>3 DEF Round
  <2> HIDE DEF starting
  <2> QED
    BY <2>1, <2>2, NothingSaved DEF MeshInv, MeshTypes
<1>4. ASSUME NEW b \in 1 .. Len(beats), NEW answered \in BOOLEAN, SendEnds(b, answered) PROVE MeshInv'
  <2> DEFINE moved == [beats[b] EXCEPT !.pos = @ + 1]
             n == known[beats[b].pos]
  <2>1. moved \in Rounds /\ moved.saves = beats[b].saves
    BY RoundsStay
  <2>2. n \in Peers /\ n \in DOMAIN node
    BY <1>4, RoundsStay DEF SendEnds, Rounds, MeshInv, MeshTypes, Explained
  <2>3. (Acknowledged(n) \/ Missed(n)) /\ beats' = [beats EXCEPT ![b] = moved] /\ UNCHANGED <<known, file>>
    BY <1>4 DEF SendEnds
  <2> HIDE DEF moved, n
  <2> QED
    BY <2>1, <2>2, <2>3, SendExplains DEF MeshInv, MeshTypes
<1>5. ASSUME NEW b \in 1 .. Len(beats), SaveBegins(b) PROVE MeshInv'
  <2> DEFINE now == [ids |-> known, of |-> node]
  <2>1. now \in MeshFiles /\ Explained(now.ids, now.of)
    BY DEF MeshInv, MeshTypes, MeshFiles
  <2>2. \A c \in 1 .. Len(beats) : beats'[c] \in Rounds /\ beats'[c].saves \in {now, beats[c].saves}
    <3> SUFFICES ASSUME NEW c \in 1 .. Len(beats)
                 PROVE  beats'[c] \in Rounds /\ beats'[c].saves \in {now, beats[c].saves}
      OBVIOUS
    <3>1. beats[c] \in Rounds
      BY RoundsStay
    <3>2. PICK at \in {"sending", "saving"}, pos \in Nat \ {0}, saves \in MeshFiles, mixed \in BOOLEAN :
            beats[c] = [at |-> at, pos |-> pos, saves |-> saves, mixed |-> mixed]
      BY <3>1 DEF Rounds
    <3>3. CASE c = b
      <4> DEFINE some == Saving # {}
      <4>1. beats'[c] = [at |-> "saving", pos |-> beats[b].pos, saves |-> now, mixed |-> some]
        BY <1>5, <3>3 DEF SaveBegins
      <4>2. some \in BOOLEAN
        OBVIOUS
      <4> HIDE DEF now, some
      <4> QED
        BY <2>1, <3>2, <3>3, <4>1, <4>2 DEF Rounds
    <3>4. CASE c # b
      <4> DEFINE both == mixed \/ c \in Saving
      <4>1. beats'[c] = [beats[c] EXCEPT !.mixed = beats[c].mixed \/ c \in Saving]
        BY <1>5, <3>4 DEF SaveBegins
      <4>2. beats'[c] = [at |-> at, pos |-> pos, saves |-> saves, mixed |-> both]
        BY <3>2, <4>1
      <4>3. both \in BOOLEAN
        OBVIOUS
      <4> HIDE DEF both
      <4> QED
        BY <3>2, <4>2, <4>3 DEF Rounds
    <3> QED
      BY <3>3, <3>4
  <2>3. beats' \in Seq(Rounds) /\ Len(beats') = Len(beats)
    <3> DEFINE next(c) == IF c = b THEN [at |-> "saving", pos |-> beats[b].pos, saves |-> now, mixed |-> Saving # {}]
                          ELSE [beats[c] EXCEPT !.mixed = @ \/ c \in Saving]
    <3>1. beats' = [c \in 1 .. Len(beats) |-> next(c)]
      BY <1>5 DEF SaveBegins
    <3>2. Len(beats) \in Nat
      BY DEF MeshInv, MeshTypes
    <3> HIDE DEF next
    <3> QED
      BY <2>2, <3>1, <3>2
  <2>4. file' = None /\ UNCHANGED <<known, node>>
    BY <1>5 DEF SaveBegins, Garbled
  <2> HIDE DEF now
  <2> QED
    BY <2>1, <2>2, <2>3, <2>4, NothingSaved DEF MeshInv, MeshTypes
<1>6. ASSUME NEW b \in 1 .. Len(beats), NEW failed \in BOOLEAN, SaveEnds(b, failed) PROVE MeshInv'
  <2>1. beats' = SubSeq(beats, 1, b - 1) \o SubSeq(beats, b + 1, Len(beats)) /\ beats \in Seq(Rounds)
    BY <1>6 DEF SaveEnds, MeshInv, MeshTypes
  <2>2. beats' \in Seq(Rounds) /\ \A c \in 1 .. Len(beats') : \E d \in 1 .. Len(beats) : beats'[c] = beats[d]
    <3> DEFINE left == SubSeq(beats, 1, b - 1)
               right == SubSeq(beats, b + 1, Len(beats))
    <3>1. left \in Seq(Rounds) /\ Len(left) = b - 1 /\ \A c \in 1 .. b - 1 : left[c] = beats[c]
      BY <2>1
    <3>2. right \in Seq(Rounds) /\ Len(right) = Len(beats) - b /\ \A c \in 1 .. Len(beats) - b : right[c] = beats[c + b]
      BY <2>1
    <3>3. beats' = left \o right
      BY <2>1
    <3>0. Len(beats) \in Nat /\ b \in Nat /\ 1 <= b /\ b <= Len(beats)
      BY <2>1
    <3> HIDE DEF left, right
    <3>4. beats' \in Seq(Rounds) /\ Len(beats') = Len(beats) - 1
      BY <3>0, <3>1, <3>2, <3>3, ConcatProperties
    <3>5. \A c \in 1 .. Len(beats') : beats'[c] = beats[IF c < b THEN c ELSE c + 1]
      BY <3>1, <3>2, <3>3, <3>4, ConcatProperties
    <3>6. \A c \in 1 .. Len(beats') : (IF c < b THEN c ELSE c + 1) \in 1 .. Len(beats)
      BY <3>0, <3>4
    <3> QED
      BY <3>4, <3>5, <3>6
  <2>3. file' \in {file, beats[b].saves, None} /\ UNCHANGED <<known, node>>
    BY <1>6 DEF SaveEnds, Garbled
  <2>4. file' \in MeshFiles /\ Explained(file'.ids, file'.of)
    BY <2>3, NothingSaved, RoundsStay DEF MeshInv, MeshTypes
  <2> QED
    BY <2>2, <2>3, <2>4 DEF MeshInv, MeshTypes
<1>7. CASE StopAndStart
  BY <1>7, NothingSaved DEF StopAndStart, MeshInv, MeshTypes, MeshFiles
<1>8. CASE UNCHANGED meshVars
  BY <1>8 DEF meshVars, MeshInv, MeshTypes
<1> QED
  BY <1>1, <1>2, <1>3, <1>4, <1>5, <1>6, <1>7, <1>8 DEF MeshNext

-----------------------------------------------------------------------------
(***************************************************************************)
(* The bindings to the phase-2 backend (phase2-slice.ts, policy.ts,        *)
(* evidence.ts).                                                           *)
(***************************************************************************)

Parts == {"op", "about", "at", "services", "blockers", "proof", "manifest", "faults"}

(* A request that asks, in the order of its fetches.                       *)
AtFetch(r) ==
  /\ r.at \in {"new", "answered", "unavailable", "services", "spine", "rooms", "list", "proofs"}
  /\ r.at \in {"services", "spine", "rooms"} => r.op \in {"gate", "ops"}
  /\ r.at \in {"spine", "rooms"} => r.op = "gate" /\ DOMAIN r.services = Workers
  /\ r.at \in {"list", "proofs"} => r.op \in {"list", "proof"}
  /\ r.at \notin {"new", "answered", "unavailable"} => sliceOn

ServicesRead(r, moments) ==
  \A w \in DOMAIN r.services :
    \/ \E f \in moments : f.workers[w] = r.services[w]
    \/ r.services[w] = "down" /\ r.faults > 0

SpineRead(blockers, r, moments) ==
  \/ \E f \in moments : blockers = SpineBlockers(f.spine)
  \/ blockers = {<<"spine", "unreachable">>} /\ r.faults > 0

RoomsRead(blockers, r, moments) ==
  \/ r.at = "rooms" /\ blockers = {}
  \/ r.at = "answered" /\ \E f \in moments : blockers = RoomBlockers(f.rooms)
  \/ r.at = "answered" /\ blockers = {} /\ r.faults > 0

BlockersRead(r, moments) ==
  r.at \in {"rooms", "answered"} =>
    /\ DOMAIN r.services = Workers
    /\ \E spine, red :
         /\ r.blockers = ServiceBlockers(r.services) \cup spine \cup red
         /\ SpineRead(spine, r, moments) /\ RoomsRead(red, r, moments)

ChainsRead(r, moments, stage) ==
  /\ r.about \subseteq PhaseReceipts /\ DOMAIN r.proof \subseteq PhaseReceipts
  /\ r.at = "answered" => r.about \subseteq DOMAIN r.proof
  /\ \A x \in DOMAIN r.proof :
       /\ r.proof[x] \in 0 .. stage[x]
       /\ r.faults = 0 => \E f \in moments : f.stage[x] = r.proof[x]
  /\ \A x \in DOMAIN r.manifest :
       x \in DOMAIN r.proof /\ r.proof[x] >= 2 /\ r.manifest[x] \in 0 .. stage[x]

MomentsTyped(op, moments) ==
  \A f \in moments :
    /\ op \in {"gate", "ops"} => f.workers \in [Workers -> Health] /\ f.spine \in 0 .. 3 /\ f.rooms \in [GateRooms -> Colours]
    /\ op \in {"list", "proof"} => f.stage \in [PhaseReceipts -> 0 .. 3]

(* What a request has collected, and when that was so.                     *)
RequestHolds(r, moments) ==
  /\ DOMAIN r = Parts /\ r.faults \in Nat /\ r.op \in {"none", "gate", "ops", "list", "proof"}
  /\ AtFetch(r)
  /\ MomentsTyped(r.op, moments)
  /\ r.at \notin {"new", "answered", "unavailable"} => Observed(r.op, backend) \in moments
  /\ r.op \in {"gate", "ops"} => ServicesRead(r, moments)
  /\ r.op = "gate" /\ sliceOn => BlockersRead(r, moments)
  /\ r.op \in {"list", "proof"} => ChainsRead(r, moments, backend.stage)

BackendTyped ==
  /\ backend.workers \in [Workers -> Health] /\ backend.spine \in 0 .. 3
  /\ backend.stage \in [PhaseReceipts -> 0 .. 3] /\ backend.rooms \in [GateRooms -> Colours]
  /\ backend = [workers |-> backend.workers, spine |-> backend.spine, stage |-> backend.stage, rooms |-> backend.rooms]

PhaseInv ==
  /\ BackendTyped
  /\ lookup = [q \in Lookups |-> lookup[q]] /\ seenBy = [q \in Lookups |-> seenBy[q]]
  /\ \A q \in Lookups : RequestHolds(lookup[q], seenBy[q])

(* Nothing was asked of the backend.                                       *)
LEMMA PhaseStarts == PhaseInit => PhaseInv
<1> SUFFICES ASSUME PhaseInit PROVE PhaseInv
  OBVIOUS
<1>1. BackendTyped
  <2>1. PICK spine \in {0, 2, 3}, stage \in [PhaseReceipts -> {0, 2, 3}], health \in {"healthy", "degraded"} :
          backend = [workers |-> [w \in Workers |-> health], spine |-> spine, stage |-> stage,
                     rooms |-> [r \in GateRooms |-> "green"]]
    BY DEF PhaseInit
  <2> QED
    BY <2>1 DEF BackendTyped, Health, Colours
<1>2. RequestHolds(NotAsked, {})
  BY DEF RequestHolds, NotAsked, Parts, AtFetch, MomentsTyped
<1> QED
  BY <1>1, <1>2 DEF PhaseInit, PhaseInv

(* Another request, or another state of one.                               *)
LEMMA RequestMoves ==
  ASSUME PhaseInv, UNCHANGED <<sliceOn, backend>>, NEW q \in Lookups, NEW r, NEW moments,
         lookup' = [lookup EXCEPT ![q] = r], seenBy' = [seenBy EXCEPT ![q] = moments],
         RequestHolds(r, moments)
  PROVE  PhaseInv'
<1>1. ASSUME NEW p \in Lookups, NEW s, NEW seen, RequestHolds(s, seen), lookup'[p] = s, seenBy'[p] = seen
      PROVE  RequestHolds(lookup[p], seenBy[p])'
  <2>1. /\ RequestHolds(lookup[p], seenBy[p])' <=> RequestHolds(lookup'[p], seenBy'[p])
    BY DEF RequestHolds, AtFetch, BlockersRead, SpineRead, RoomsRead, ServicesRead, ChainsRead, MomentsTyped, ServiceBlockers
  <2> QED
    BY <1>1, <2>1
<1>2. \A p \in Lookups : RequestHolds(lookup'[p], seenBy'[p])
  BY DEF PhaseInv
<1>3. \A p \in Lookups : RequestHolds(lookup[p], seenBy[p])'
  BY <1>1, <1>2
<1> QED
  BY <1>3 DEF PhaseInv, BackendTyped

(* A moment of the backend, as the requests see it.                        *)
LEMMA ObservedTyped ==
  ASSUME BackendTyped, NEW op \in {"gate", "ops", "list", "proof"}
  PROVE  /\ MomentsTyped(op, {Observed(op, backend)})
         /\ op \in {"gate", "ops"} => /\ Observed(op, backend).workers = backend.workers
                                      /\ Observed(op, backend).spine = backend.spine
                                      /\ Observed(op, backend).rooms = backend.rooms
         /\ op \in {"list", "proof"} => Observed(op, backend).stage = backend.stage
BY DEF BackendTyped, MomentsTyped, Observed

(* A request that arrives has seen the present.                            *)
LEMMA AskHolds ==
  ASSUME PhaseInv, NEW q \in Lookups, NEW op \in {"gate", "ops", "list", "proof"}, NEW about \in SUBSET PhaseReceipts,
         AskPhase(q, op, about)
  PROVE  PhaseInv'
<1> DEFINE to == CASE ~sliceOn /\ op = "gate" -> "answered"
                [] ~sliceOn /\ op # "gate" -> "unavailable"
                [] sliceOn /\ op \in {"gate", "ops"} -> "services"
                [] sliceOn /\ op = "list" -> "list"
                [] OTHER -> "proofs"
           r == [NotAsked EXCEPT !.op = op, !.about = about, !.at = to]
<1>1. /\ DOMAIN r = Parts /\ r.op = op /\ r.about = about /\ r.at = to /\ r.services = NotAsked.services
      /\ r.proof = NotAsked.proof /\ r.manifest = NotAsked.manifest /\ r.faults = 0
  <2>1. DOMAIN NotAsked = Parts /\ NotAsked.faults = 0
    BY DEF NotAsked, Parts
  <2> HIDE DEF to
  <2> QED
    BY <2>1 DEF Parts
<1>2. lookup' = [lookup EXCEPT ![q] = r] /\ seenBy' = [seenBy EXCEPT ![q] = {Observed(op, backend)}]
      /\ UNCHANGED <<sliceOn, backend>>
  BY DEF AskPhase
<1>3. DOMAIN NotAsked.services = {} /\ DOMAIN NotAsked.proof = {} /\ DOMAIN NotAsked.manifest = {}
  BY DEF NotAsked
<1>4. /\ to \in {"answered", "unavailable", "services", "list", "proofs"}
      /\ to = "services" => op \in {"gate", "ops"} /\ sliceOn
      /\ to \in {"list", "proofs"} => op \in {"list", "proof"} /\ sliceOn
      /\ to = "answered" => op = "gate" /\ ~sliceOn
  OBVIOUS
<1> HIDE DEF to, r
<1>5. RequestHolds(r, {Observed(op, backend)})
  <2>1. MomentsTyped(op, {Observed(op, backend)})
    BY ObservedTyped DEF PhaseInv
  <2> QED
    BY <1>1, <1>3, <1>4, <2>1
    DEF RequestHolds, AtFetch, ServicesRead, BlockersRead, ChainsRead
<1> QED
  BY <1>2, <1>5, RequestMoves

(* A status is the present one, or down for a failed fetch.                *)
LEMMA FetchServiceHolds ==
  ASSUME PhaseInv, NEW q \in Lookups, NEW w \in Workers, FetchService(q, w)
  PROVE  PhaseInv'
<1> DEFINE r == lookup[q]
           moments == seenBy[q]
           services(health) == [v \in DOMAIN r.services \cup {w} |-> IF v = w THEN health ELSE r.services[v]]
           at == IF DOMAIN r.services \cup {w} = Workers THEN AfterServices(r) ELSE r.at
           With(health) == [r EXCEPT !.services = services(health), !.at = at]
           Unreached == [With("down") EXCEPT !.faults = @ + 1]
<1>1. RequestHolds(r, moments) /\ r.at = "services" /\ UNCHANGED <<sliceOn, backend, seenBy>>
  BY DEF FetchService, PhaseInv, Untouched
<1>2. r.op \in {"gate", "ops"} /\ sliceOn /\ Observed(r.op, backend) \in moments /\ DOMAIN r = Parts /\ r.faults \in Nat
  BY <1>1 DEF RequestHolds, AtFetch
<1>3. Observed(r.op, backend).workers = backend.workers
  BY <1>2, ObservedTyped DEF PhaseInv
<1>4. at \in {"spine", "answered", "services"} /\ (at = "spine" => r.op = "gate")
      /\ (at # "services" => DOMAIN r.services \cup {w} = Workers) /\ (at = "answered" => r.op = "ops")
  BY <1>1, <1>2 DEF AfterServices
<1>5. lookup' = [lookup EXCEPT ![q] = With(backend.workers[w])] \/ lookup' = [lookup EXCEPT ![q] = Unreached]
  BY DEF FetchService, NextOf
<1>6. seenBy' = [seenBy EXCEPT ![q] = moments]
  BY <1>1 DEF PhaseInv
<1> HIDE DEF at
<1>7. RequestHolds(With(backend.workers[w]), moments)
  <2> DEFINE s == With(backend.workers[w])
  <2>1. /\ DOMAIN s = Parts /\ s.op = r.op /\ s.at = at /\ s.services = services(backend.workers[w])
        /\ s.faults = r.faults
    BY <1>2 DEF Parts
  <2> HIDE DEF s
  <2>2. ServicesRead(s, moments)
    BY <1>1, <1>2, <1>3, <2>1 DEF RequestHolds, ServicesRead
  <2>3. RequestHolds(s, moments)
    BY <1>1, <1>2, <1>4, <2>1, <2>2 DEF RequestHolds, AtFetch, BlockersRead
  <2> QED
    BY <2>3 DEF s
<1>8. RequestHolds(Unreached, moments)
  <2> DEFINE s == Unreached
  <2>1. /\ DOMAIN s = Parts /\ s.op = r.op /\ s.at = at /\ s.services = services("down")
        /\ s.faults = r.faults + 1
    BY <1>2 DEF Parts
  <2> HIDE DEF s
  <2>2. ServicesRead(s, moments)
    BY <1>1, <1>2, <1>3, <2>1 DEF RequestHolds, ServicesRead
  <2>3. RequestHolds(s, moments)
    BY <1>1, <1>2, <1>4, <2>1, <2>2 DEF RequestHolds, AtFetch, BlockersRead
  <2> QED
    BY <2>3 DEF s
<1> HIDE DEF With, Unreached, moments
<1> QED
  BY <1>1, <1>5, <1>6, <1>7, <1>8, RequestMoves

(* The totals are the present ones, or unreachable.                        *)
LEMMA FetchSpineHolds ==
  ASSUME PhaseInv, NEW q \in Lookups, FetchSpine(q)
  PROVE  PhaseInv'
<1> DEFINE r == lookup[q]
           moments == seenBy[q]
           With(more) == [r EXCEPT !.at = "rooms", !.blockers = ServiceBlockers(r.services) \cup more]
           Unreached == [With({<<"spine", "unreachable">>}) EXCEPT !.faults = @ + 1]
<1>1. RequestHolds(r, moments) /\ r.at = "spine" /\ UNCHANGED <<sliceOn, backend, seenBy>>
  BY DEF FetchSpine, PhaseInv, Untouched
<1>2. r.op = "gate" /\ sliceOn /\ Observed(r.op, backend) \in moments /\ DOMAIN r = Parts /\ r.faults \in Nat
      /\ DOMAIN r.services = Workers
  BY <1>1 DEF RequestHolds, AtFetch
<1>3. Observed(r.op, backend).spine = backend.spine
  BY <1>2, ObservedTyped DEF PhaseInv
<1>4. lookup' = [lookup EXCEPT ![q] = With(SpineBlockers(backend.spine))] \/ lookup' = [lookup EXCEPT ![q] = Unreached]
  BY DEF FetchSpine, NextOf
<1>5. seenBy' = [seenBy EXCEPT ![q] = moments]
  BY <1>1 DEF PhaseInv
<1>6. ASSUME NEW s, NEW more, DOMAIN s = Parts, s.op = r.op, s.at = "rooms", s.services = r.services,
             s.blockers = ServiceBlockers(r.services) \cup more, s.faults \in Nat, s.faults >= r.faults,
             SpineRead(more, s, moments)
      PROVE  RequestHolds(s, moments)
  <2>1. ServicesRead(s, moments)
    BY <1>1, <1>2, <1>6 DEF RequestHolds, ServicesRead
  <2>2. BlockersRead(s, moments)
    BY <1>6, <1>2 DEF RoomsRead, BlockersRead
  <2> QED
    BY <1>1, <1>2, <1>6, <2>1, <2>2 DEF RequestHolds, AtFetch
<1>7. RequestHolds(With(SpineBlockers(backend.spine)), moments)
  <2> DEFINE more == SpineBlockers(backend.spine)
             s == With(more)
  <2>1. SpineRead(more, s, moments)
    BY <1>2, <1>3 DEF SpineRead
  <2> HIDE DEF more
  <2>2. /\ DOMAIN s = Parts /\ s.op = r.op /\ s.at = "rooms" /\ s.services = r.services
        /\ s.faults = r.faults /\ s.blockers = ServiceBlockers(r.services) \cup more
    BY <1>2 DEF Parts
  <2> HIDE DEF s
  <2>3. RequestHolds(s, moments)
    BY <1>2, <1>6, <2>1, <2>2
  <2> QED
    BY <2>3 DEF s, more
<1>8. RequestHolds(Unreached, moments)
  <2> DEFINE more == {<<"spine", "unreachable">>}
             s == Unreached
  <2>1. /\ DOMAIN s = Parts /\ s.op = r.op /\ s.at = "rooms" /\ s.services = r.services
        /\ s.faults = r.faults + 1 /\ s.blockers = ServiceBlockers(r.services) \cup more
    BY <1>2 DEF Parts
  <2> HIDE DEF s
  <2>2. SpineRead(more, s, moments)
    BY <1>2, <2>1 DEF SpineRead
  <2> HIDE DEF more
  <2>3. RequestHolds(s, moments)
    BY <1>2, <1>6, <2>1, <2>2
  <2> QED
    BY <2>3 DEF s
<1> HIDE DEF With, Unreached, moments
<1> QED
  BY <1>1, <1>4, <1>5, <1>7, <1>8, RequestMoves

(* The rooms are the present ones, or a query failed.                      *)
LEMMA QueryRoomsHolds ==
  ASSUME PhaseInv, NEW q \in Lookups, QueryRooms(q)
  PROVE  PhaseInv'
<1> DEFINE r == lookup[q]
           moments == seenBy[q]
           With(more) == [r EXCEPT !.at = "answered", !.blockers = @ \cup more]
           Unreached == [With({}) EXCEPT !.faults = @ + 1]
<1>1. RequestHolds(r, moments) /\ r.at = "rooms" /\ UNCHANGED <<sliceOn, backend, seenBy>>
  BY DEF QueryRooms, PhaseInv, Untouched
<1>2. r.op = "gate" /\ sliceOn /\ Observed(r.op, backend) \in moments /\ DOMAIN r = Parts /\ r.faults \in Nat
      /\ DOMAIN r.services = Workers
  BY <1>1 DEF RequestHolds, AtFetch
<1>3. Observed(r.op, backend).rooms = backend.rooms
  BY <1>2, ObservedTyped DEF PhaseInv
<1>4. lookup' = [lookup EXCEPT ![q] = With(RoomBlockers(backend.rooms))] \/ lookup' = [lookup EXCEPT ![q] = Unreached]
  BY DEF QueryRooms, NextOf
<1>5. seenBy' = [seenBy EXCEPT ![q] = moments]
  BY <1>1 DEF PhaseInv
<1>6. ASSUME NEW s, NEW more, DOMAIN s = Parts, s.op = r.op, s.at = "answered", s.services = r.services,
             s.blockers = r.blockers \cup more, s.faults \in Nat, s.faults >= r.faults,
             RoomsRead(more, s, moments)
      PROVE  RequestHolds(s, moments)
  <2>1. ServicesRead(s, moments)
    BY <1>1, <1>2, <1>6 DEF RequestHolds, ServicesRead
  <2>2. BlockersRead(s, moments)
    <3>1. PICK spine : r.blockers = ServiceBlockers(r.services) \cup spine /\ SpineRead(spine, r, moments)
      BY <1>1, <1>2 DEF RequestHolds, BlockersRead, RoomsRead
    <3>2. s.blockers = ServiceBlockers(s.services) \cup spine \cup more
      BY <1>6, <3>1
    <3>3. SpineRead(spine, s, moments)
      BY <1>2, <1>6, <3>1 DEF SpineRead
    <3> QED
      BY <1>2, <1>6, <3>2, <3>3 DEF BlockersRead
  <2> QED
    BY <1>1, <1>2, <1>6, <2>1, <2>2 DEF RequestHolds, AtFetch
<1>7. RequestHolds(With(RoomBlockers(backend.rooms)), moments)
  <2> DEFINE more == RoomBlockers(backend.rooms)
             s == With(more)
  <2> HIDE DEF more
  <2>2. /\ DOMAIN s = Parts /\ s.op = r.op /\ s.at = "answered" /\ s.services = r.services
        /\ s.faults = r.faults /\ s.blockers = r.blockers \cup more
    BY <1>2 DEF Parts
  <2> HIDE DEF s
  <2>1. RoomsRead(more, s, moments)
    BY <1>2, <1>3, <2>2 DEF RoomsRead, more
  <2>3. RequestHolds(s, moments)
    BY <1>2, <1>6, <2>1, <2>2
  <2> QED
    BY <2>3 DEF s, more
<1>8. RequestHolds(Unreached, moments)
  <2> DEFINE s == Unreached
  <2>1. /\ DOMAIN s = Parts /\ s.op = r.op /\ s.at = "answered" /\ s.services = r.services
        /\ s.faults = r.faults + 1 /\ s.blockers = r.blockers \cup {}
    BY <1>2 DEF Parts
  <2> HIDE DEF s
  <2>2. RoomsRead({}, s, moments)
    BY <1>2, <2>1 DEF RoomsRead
  <2>3. RequestHolds(s, moments)
    BY <1>2, <1>6, <2>1, <2>2
  <2> QED
    BY <2>3 DEF s
<1> HIDE DEF With, Unreached, moments
<1> QED
  BY <1>1, <1>4, <1>5, <1>7, <1>8, RequestMoves

(* A lookup that has all it wants answers.                                 *)
LEMMA ClosedParts ==
  ASSUME NEW s, DOMAIN s = Parts, s.at = "proofs"
  PROVE  /\ DOMAIN Closed(s) = Parts /\ Closed(s).op = s.op /\ Closed(s).about = s.about
         /\ Closed(s).proof = s.proof /\ Closed(s).manifest = s.manifest /\ Closed(s).faults = s.faults
         /\ Closed(s).at \in {"proofs", "answered"}
         /\ Closed(s).at = "answered" => s.about \subseteq DOMAIN s.proof
<1>1. CASE \A x \in s.about : DoneWith(s, x)
  BY <1>1 DEF Closed, DoneWith, Parts
<1>2. CASE ~\A x \in s.about : DoneWith(s, x)
  BY <1>2 DEF Closed
<1> QED
  BY <1>1, <1>2

(* A lookup's next state, from what its chains say.                        *)
LEMMA LookupHolds ==
  ASSUME NEW r, NEW moments, RequestHolds(r, moments), r.at \in {"list", "proofs"},
         NEW s, DOMAIN s = Parts, s.op = r.op, s.at \in {"proofs", "answered", "unavailable"}, s.faults \in Nat,
         ChainsRead(s, moments, backend.stage)
  PROVE  RequestHolds(s, moments)
BY DEF RequestHolds, AtFetch

(* A list asks for every receipt.                                          *)
LEMMA FetchListHolds ==
  ASSUME PhaseInv, NEW q \in Lookups, FetchList(q)
  PROVE  PhaseInv'
<1> DEFINE r == lookup[q]
           moments == seenBy[q]
           All == [r EXCEPT !.at = "proofs", !.about = PhaseReceipts]
           Off == [r EXCEPT !.at = "unavailable"]
<1>1. RequestHolds(r, moments) /\ r.at = "list" /\ UNCHANGED <<sliceOn, backend, seenBy>>
  BY DEF FetchList, PhaseInv, Untouched
<1>2. DOMAIN r = Parts /\ r.faults \in Nat /\ ChainsRead(r, moments, backend.stage)
  BY <1>1 DEF RequestHolds, AtFetch
<1>3. lookup' = [lookup EXCEPT ![q] = All] \/ lookup' = [lookup EXCEPT ![q] = Off]
  BY DEF FetchList, NextOf
<1>4. seenBy' = [seenBy EXCEPT ![q] = moments]
  BY <1>1 DEF PhaseInv
<1>5. /\ DOMAIN All = Parts /\ All.op = r.op /\ All.at = "proofs" /\ All.about = PhaseReceipts
      /\ All.proof = r.proof /\ All.manifest = r.manifest /\ All.faults = r.faults
      /\ DOMAIN Off = Parts /\ Off.op = r.op /\ Off.at = "unavailable" /\ Off.about = r.about
      /\ Off.proof = r.proof /\ Off.manifest = r.manifest /\ Off.faults = r.faults
  BY <1>2 DEF Parts
<1> HIDE DEF All, Off, moments
<1>6. ChainsRead(All, moments, backend.stage) /\ ChainsRead(Off, moments, backend.stage)
  BY <1>2, <1>5 DEF ChainsRead
<1> HIDE DEF r
<1>7. RequestHolds(All, moments) /\ RequestHolds(Off, moments)
  BY <1>1, <1>2, <1>5, <1>6, LookupHolds
<1> QED
  BY <1>1, <1>3, <1>4, <1>7, RequestMoves

(* A proof is of the present stage, or missing.                            *)
LEMMA FetchProofHolds ==
  ASSUME PhaseInv, NEW q \in Lookups, NEW x \in PhaseReceipts, FetchProof(q, x)
  PROVE  PhaseInv'
<1> DEFINE r == lookup[q]
           moments == seenBy[q]
           proof(stage) == [y \in DOMAIN r.proof \cup {x} |-> IF y = x THEN stage ELSE r.proof[y]]
           Got(stage) == [r EXCEPT !.proof = proof(stage)]
           Missing == [Closed(Got(0)) EXCEPT !.faults = @ + 1]
           Off == [r EXCEPT !.at = "unavailable"]
           Failed == [r EXCEPT !.at = "unavailable", !.faults = @ + 1]
<1>1. RequestHolds(r, moments) /\ r.at = "proofs" /\ UNCHANGED <<sliceOn, backend, seenBy>>
      /\ x \in r.about /\ x \notin DOMAIN r.proof
  BY DEF FetchProof, PhaseInv, Untouched
<1>2. DOMAIN r = Parts /\ r.faults \in Nat /\ ChainsRead(r, moments, backend.stage) /\ r.op \in {"list", "proof"}
      /\ Observed(r.op, backend) \in moments
  BY <1>1 DEF RequestHolds, AtFetch
<1>3. lookup' \in {[lookup EXCEPT ![q] = Closed(Got(backend.stage[x]))], [lookup EXCEPT ![q] = Missing],
                   [lookup EXCEPT ![q] = Off], [lookup EXCEPT ![q] = Failed]}
  <2>1. LET With(stage) == Closed(Got(stage))
        IN \/ NextOf(q, IF backend.stage[x] = 0 /\ r.op # "list" THEN Off ELSE With(backend.stage[x]))
           \/ NextOf(q, IF r.op = "list" THEN Missing ELSE Failed)
    BY DEF FetchProof
  <2> HIDE DEF Got, Missing, Off, Failed
  <2> QED
    BY <2>1 DEF NextOf
<1>4. seenBy' = [seenBy EXCEPT ![q] = moments]
  BY <1>1 DEF PhaseInv
<1>5. backend.stage[x] \in 0 .. 3 /\ \E f \in moments : f.stage[x] = backend.stage[x]
  BY <1>2, ObservedTyped DEF PhaseInv, BackendTyped
<1>6. /\ DOMAIN Off = Parts /\ Off.op = r.op /\ Off.at = "unavailable" /\ Off.about = r.about
      /\ Off.proof = r.proof /\ Off.manifest = r.manifest /\ Off.faults = r.faults
      /\ DOMAIN Failed = Parts /\ Failed.op = r.op /\ Failed.at = "unavailable" /\ Failed.about = r.about
      /\ Failed.proof = r.proof /\ Failed.manifest = r.manifest /\ Failed.faults = r.faults + 1
  BY <1>2 DEF Parts
<1>7. \A stage : /\ DOMAIN Got(stage) = Parts /\ Got(stage).op = r.op /\ Got(stage).at = "proofs"
                 /\ Got(stage).about = r.about /\ Got(stage).proof = proof(stage)
                 /\ Got(stage).manifest = r.manifest /\ Got(stage).faults = r.faults
  BY <1>1, <1>2 DEF Parts
<1> HIDE DEF Got, Off, Failed
<1>8. ChainsRead(Off, moments, backend.stage) /\ ChainsRead(Failed, moments, backend.stage)
  BY <1>2, <1>6 DEF ChainsRead
<1>9. ASSUME NEW stage \in 0 .. backend.stage[x], NEW s, s.about = r.about, s.manifest = r.manifest,
             s.proof = proof(stage), s.at = "answered" => s.about \subseteq DOMAIN s.proof,
             s.faults \in Nat, s.faults >= r.faults, s.faults > 0 \/ \E f \in moments : f.stage[x] = stage
      PROVE  ChainsRead(s, moments, backend.stage)
  BY <1>1, <1>2, <1>9 DEF ChainsRead
<1>10. ChainsRead(Closed(Got(backend.stage[x])), moments, backend.stage) /\ DOMAIN Closed(Got(backend.stage[x])) = Parts
       /\ Closed(Got(backend.stage[x])).op = r.op /\ Closed(Got(backend.stage[x])).at \in {"proofs", "answered"}
       /\ Closed(Got(backend.stage[x])).faults \in Nat
  <2> DEFINE got == Got(backend.stage[x])
             s == Closed(got)
  <2>1. /\ DOMAIN got = Parts /\ got.op = r.op /\ got.at = "proofs" /\ got.about = r.about
        /\ got.proof = proof(backend.stage[x]) /\ got.manifest = r.manifest /\ got.faults = r.faults
    BY <1>7
  <2> HIDE DEF got
  <2>2. /\ DOMAIN s = Parts /\ s.op = r.op /\ s.about = r.about /\ s.proof = proof(backend.stage[x])
        /\ s.manifest = r.manifest /\ s.faults = r.faults /\ s.at \in {"proofs", "answered"}
        /\ s.at = "answered" => s.about \subseteq DOMAIN s.proof
    BY <2>1, ClosedParts
  <2> HIDE DEF s, proof, moments, r
  <2>3. ChainsRead(s, moments, backend.stage)
    BY <1>5, <1>2, <1>9, <2>2
  <2> QED
    BY <1>2, <2>2, <2>3 DEF s, got
<1>11. ChainsRead(Missing, moments, backend.stage) /\ DOMAIN Missing = Parts
       /\ Missing.op = r.op /\ Missing.at \in {"proofs", "answered"} /\ Missing.faults \in Nat
  <2> DEFINE got == Got(0)
             closed == Closed(got)
             s == [closed EXCEPT !.faults = @ + 1]
  <2>1. /\ DOMAIN got = Parts /\ got.op = r.op /\ got.at = "proofs" /\ got.about = r.about
        /\ got.proof = proof(0) /\ got.manifest = r.manifest /\ got.faults = r.faults
    BY <1>7
  <2> HIDE DEF got
  <2>2. /\ DOMAIN closed = Parts /\ closed.op = r.op /\ closed.about = r.about /\ closed.proof = proof(0)
        /\ closed.manifest = r.manifest /\ closed.faults = r.faults /\ closed.at \in {"proofs", "answered"}
        /\ closed.at = "answered" => closed.about \subseteq DOMAIN closed.proof
    BY <2>1, ClosedParts
  <2> HIDE DEF closed
  <2>3. /\ DOMAIN s = Parts /\ s.op = r.op /\ s.about = r.about /\ s.proof = proof(0)
        /\ s.manifest = r.manifest /\ s.faults = r.faults + 1 /\ s.at \in {"proofs", "answered"}
        /\ s.at = "answered" => s.about \subseteq DOMAIN s.proof
    BY <2>2, <1>2 DEF Parts
  <2> HIDE DEF s, proof, moments, r
  <2>4. ChainsRead(s, moments, backend.stage)
    BY <1>2, <1>5, <2>3, <1>9
  <2> QED
    BY <1>2, <2>3, <2>4 DEF s, closed, got
<1> HIDE DEF Missing, moments, r
<1>12. \A s \in {Closed(Got(backend.stage[x])), Missing, Off, Failed} : RequestHolds(s, moments)
  BY <1>1, <1>2, <1>6, <1>8, <1>10, <1>11, LookupHolds
<1> QED
  BY <1>1, <1>3, <1>4, <1>12, RequestMoves

(* A manifest is of the present stage, or without detail.                  *)
LEMMA FetchManifestHolds ==
  ASSUME PhaseInv, NEW q \in Lookups, NEW x \in PhaseReceipts, FetchManifest(q, x)
  PROVE  PhaseInv'
<1> DEFINE r == lookup[q]
           moments == seenBy[q]
           manifest(stage) == [y \in DOMAIN r.manifest \cup {x} |-> IF y = x THEN stage ELSE r.manifest[y]]
           Got(stage) == [r EXCEPT !.manifest = manifest(stage)]
<1>1. RequestHolds(r, moments) /\ r.at = "proofs" /\ UNCHANGED <<sliceOn, backend, seenBy>>
      /\ x \in DOMAIN r.proof /\ r.proof[x] >= 2
  BY DEF FetchManifest, PhaseInv, Untouched
<1>2. DOMAIN r = Parts /\ r.faults \in Nat /\ ChainsRead(r, moments, backend.stage) /\ r.op \in {"list", "proof"}
  BY <1>1 DEF RequestHolds, AtFetch
<1>3. PICK stage \in {backend.stage[x], 0} : lookup' = [lookup EXCEPT ![q] = Closed(Got(stage))]
  BY DEF FetchManifest, NextOf
<1>4. seenBy' = [seenBy EXCEPT ![q] = moments]
  BY <1>1 DEF PhaseInv
<1>5. backend.stage[x] \in 0 .. 3 /\ stage \in 0 .. backend.stage[x]
  BY DEF PhaseInv, BackendTyped
<1> DEFINE got == Got(stage)
           s == Closed(got)
<1>6. /\ DOMAIN got = Parts /\ got.op = r.op /\ got.at = "proofs" /\ got.about = r.about
      /\ got.proof = r.proof /\ got.manifest = manifest(stage) /\ got.faults = r.faults
  BY <1>1, <1>2 DEF Parts
<1> HIDE DEF got
<1>7. /\ DOMAIN s = Parts /\ s.op = r.op /\ s.about = r.about /\ s.proof = r.proof
      /\ s.manifest = manifest(stage) /\ s.faults = r.faults /\ s.at \in {"proofs", "answered"}
      /\ s.at = "answered" => s.about \subseteq DOMAIN s.proof
  BY <1>6, ClosedParts
<1> HIDE DEF s
<1>8. ChainsRead(s, moments, backend.stage)
  BY <1>1, <1>2, <1>5, <1>7 DEF ChainsRead
<1>9. lookup' = [lookup EXCEPT ![q] = s]
  BY <1>3 DEF s, got
<1> HIDE DEF moments, r
<1>10. RequestHolds(s, moments)
  BY <1>1, <1>2, <1>7, <1>8, LookupHolds
<1> QED
  BY <1>1, <1>4, <1>9, <1>10, RequestMoves

(* What a request has collected stays true of the moments it could look    *)
(* at, and a stage is only gained.                                         *)
LEMMA BackendHolds ==
  ASSUME PhaseInv, BackendMoves
  PROVE  PhaseInv'
<1>1. BackendTyped' /\ \A x \in PhaseReceipts : backend.stage[x] <= backend'.stage[x]
  <2> DEFINE b == backend
  <2>1. CASE \E w \in Workers, h \in Health : backend' = [backend EXCEPT !.workers[w] = h]
    BY <2>1 DEF PhaseInv, BackendTyped
  <2>2. CASE \E x \in PhaseReceipts : backend.stage[x] < 3 /\ backend' = [backend EXCEPT !.stage[x] = @ + 1]
    BY <2>2 DEF PhaseInv, BackendTyped
  <2>3. CASE backend.spine < 3 /\ backend' = [backend EXCEPT !.spine = @ + 1]
    BY <2>3 DEF PhaseInv, BackendTyped
  <2>4. CASE \E r \in GateRooms, c \in Colours : backend' = [backend EXCEPT !.rooms[r] = c]
    BY <2>4 DEF PhaseInv, BackendTyped
  <2> QED
    BY <2>1, <2>2, <2>3, <2>4 DEF BackendMoves
<1>2. ASSUME NEW q \in Lookups
      PROVE  RequestHolds(lookup[q], seenBy[q])'
  <2> DEFINE r == lookup[q]
             moments == seenBy[q]
             later == seenBy'[q]
  <2>1. RequestHolds(r, moments) /\ UNCHANGED <<sliceOn, lookup>>
    BY DEF PhaseInv, BackendMoves
  <2>2. later = IF Asked(q) THEN moments \cup {Observed(r.op, backend')} ELSE moments
    BY DEF BackendMoves
  <2>3. Asked(q) <=> r.at \notin {"new", "answered", "unavailable"}
    BY DEF Asked
  <2>4. Asked(q) => r.op \in {"gate", "ops", "list", "proof"}
    BY <2>1, <2>3 DEF RequestHolds, AtFetch
  <2>5. MomentsTyped(r.op, later)
    BY <1>1, <2>4, <2>1, <2>2 DEF BackendTyped, MomentsTyped, Observed, RequestHolds
  <2>6. moments \subseteq later /\ (Asked(q) => Observed(r.op, backend') \in later)
    BY <2>2
  <2> HIDE DEF moments, later, r
  <2>7. r.op \in {"gate", "ops"} => ServicesRead(r, later)
    BY <2>1, <2>6 DEF RequestHolds, ServicesRead
  <2>8. r.op = "gate" /\ sliceOn => BlockersRead(r, later)
    BY <2>6, <2>1 DEF SpineRead, RoomsRead, RequestHolds, BlockersRead
  <2>9. r.op \in {"list", "proof"} => ChainsRead(r, later, backend'.stage)
    BY <1>1, <2>1, <2>6, SMTT(30) DEF RequestHolds, ChainsRead, PhaseInv, BackendTyped, later, r
  <2> QED
    BY <2>1, <2>3, <2>5, <2>6, <2>7, <2>8, <2>9 DEF RequestHolds, AtFetch, r, later
<1> QED
  BY <1>1, <1>2 DEF PhaseInv, BackendMoves

(* Each fetch, and each move of the backend, keeps what requests hold.     *)
LEMMA PhaseSteps == PhaseInv /\ [PhaseNext]_phaseVars => PhaseInv'
<1> SUFFICES ASSUME PhaseInv, [PhaseNext]_phaseVars PROVE PhaseInv'
  OBVIOUS
<1>1. CASE UNCHANGED phaseVars
  BY <1>1 DEF phaseVars, PhaseInv, BackendTyped, RequestHolds, AtFetch
<1>2. ASSUME NEW q \in Lookups, NEW op \in {"gate", "ops", "list"}, AskPhase(q, op, {}) PROVE PhaseInv'
  BY <1>2, AskHolds
<1>3. ASSUME NEW q \in Lookups, NEW x \in PhaseReceipts, AskPhase(q, "proof", {x}) PROVE PhaseInv'
  BY <1>3, AskHolds
<1> QED
  BY <1>1, <1>2, <1>3, FetchServiceHolds, FetchSpineHolds, QueryRoomsHolds, FetchListHolds, FetchProofHolds,
     FetchManifestHolds, BackendHolds
  DEF PhaseNext

(* The tuples of the gate, told apart.                                     *)
LEMMA BlockersTold ==
  /\ \A services, w, c : <<"service", w, c>> \in ServiceBlockers(services) <=> w \in Workers /\ c = services[w] /\ c # "healthy"
  /\ \A red, r, c : <<"room", r, c>> \in RoomBlockers(red) <=> r \in GateRooms /\ c = red[r] /\ c # "green"
  /\ \A services, r, c : <<"room", r, c>> \notin ServiceBlockers(services)
  /\ \A red, w, c : <<"service", w, c>> \notin RoomBlockers(red)
  /\ \A spine, x, c : <<"service", x, c>> \notin SpineBlockers(spine) /\ <<"room", x, c>> \notin SpineBlockers(spine)
  /\ \A x, c : <<"service", x, c>> # <<"spine", "unreachable">> /\ <<"room", x, c>> # <<"spine", "unreachable">>
BY DEF ServiceBlockers, RoomBlockers, SpineBlockers

(* Of the spine, what is short is named.                                   *)
LEMMA SpineBlocks ==
  ASSUME NEW spine \in 0 .. 3
  PROVE  spine < 3 => <<"spine", "attestation">> \in SpineBlockers(spine)
<1> DEFINE parts == {<<1, "journal">>, <<2, "manifest">>, <<3, "attestation">>}
           part == <<3, "attestation">>
<1>1. part \in parts /\ part[1] = 3 /\ part[2] = "attestation"
  OBVIOUS
<1>2. SpineBlockers(spine) = {<<"spine", p[2]>> : p \in {p \in parts : spine < p[1]}}
  BY DEF SpineBlockers
<1> HIDE DEF parts, part
<1> QED
  BY <1>1, <1>2

(* A blocker of the spine blocks the gate.                                 *)
LEMMA SpineSevere ==
  /\ Severity(<<"spine", "attestation">>) = "P0" /\ Severity(<<"spine", "unreachable">>) = "P0"
  /\ \A x : Severity(<<"service", x, "down">>) = "P0" /\ Severity(<<"room", x, "red">>) = "P0"
BY DEF Severity

(* What a gate has read gives what is promised of its answer.              *)
LEMMA GateSound ==
  ASSUME PhaseInv
  PROVE  GateHonest
<1> SUFFICES ASSUME NEW q \in PhaseAnswers({"gate"}), sliceOn
             PROVE  LET b == lookup[q].blockers
                        moments == seenBy[q]
                    IN /\ GateState(q) = "pass" /\ lookup[q].faults = 0 =>
                            /\ \A w \in Workers : \E f \in moments : f.workers[w] # "down"
                            /\ \E f \in moments : f.spine = 3
                            /\ \A r \in GateRooms : \E f \in moments : f.rooms[r] # "red"
                       /\ lookup[q].faults = 0 =>
                            /\ \A w \in Workers : <<"service", w, "down">> \in b => \E f \in moments : f.workers[w] = "down"
                            /\ \A r \in GateRooms, c \in Colours : <<"room", r, c>> \in b => \E f \in moments : f.rooms[r] = c
                       /\ \A w \in Workers : (\A f \in moments : f.workers[w] = "down") => <<"service", w, "down">> \in b
                       /\ \A r \in GateRooms : (\A f \in moments : f.rooms[r] = "red") /\ lookup[q].faults = 0 => GateState(q) = "blocked"
                       /\ (\A f \in moments : f.spine < 3) => GateState(q) = "blocked"
  BY Zenon DEF GateHonest
<1> DEFINE s == lookup[q]
           b == lookup[q].blockers
           moments == seenBy[q]
<1>1. q \in Lookups /\ s.op = "gate" /\ s.at = "answered" /\ RequestHolds(s, moments)
  BY DEF PhaseAnswers, PhaseInv
<1>2. DOMAIN s.services = Workers /\ ServicesRead(s, moments) /\ MomentsTyped("gate", moments) /\ s.faults \in Nat
  BY <1>1 DEF RequestHolds, BlockersRead
<1>3. PICK spine, red :
        b = ServiceBlockers(s.services) \cup spine \cup red /\ SpineRead(spine, s, moments) /\ RoomsRead(red, s, moments)
  BY <1>1 DEF RequestHolds, BlockersRead
<1>4. \A blocker \in b : Severity(blocker) = "P0" => GateState(q) = "blocked"
  BY DEF GateState
<1>5. GateState(q) \in {"blocked", "pass"}
  BY DEF GateState
<1>6. \A w \in Workers : s.services[w] = "down" => <<"service", w, "down">> \in b
  BY <1>3, BlockersTold
<1>7. \A w \in Workers : <<"service", w, "down">> \in b => s.services[w] = "down"
  <2>1. \A w \in Workers : <<"service", w, "down">> \notin spine
    <3>1. CASE \E f \in moments : spine = SpineBlockers(f.spine)
      BY <3>1, BlockersTold
    <3>2. CASE spine = {<<"spine", "unreachable">>}
      BY <3>2, BlockersTold
    <3> QED
      BY <1>3, <3>1, <3>2 DEF SpineRead
  <2>2. \A w \in Workers : <<"service", w, "down">> \notin red
    BY <1>3, BlockersTold DEF RoomsRead
  <2> QED
    BY <1>3, <2>1, <2>2, BlockersTold
<1>8. \A r \in GateRooms, c \in Colours : <<"room", r, c>> \in b <=> <<"room", r, c>> \in red
  <2>1. \A r \in GateRooms, c \in Colours : <<"room", r, c>> \notin spine
    <3>1. CASE \E f \in moments : spine = SpineBlockers(f.spine)
      BY <3>1, BlockersTold
    <3>2. CASE spine = {<<"spine", "unreachable">>}
      BY <3>2, BlockersTold
    <3> QED
      BY <1>3, <3>1, <3>2 DEF SpineRead
  <2> QED
    BY <1>3, <2>1, BlockersTold
<1>9. s.faults = 0 => \E f \in moments : red = RoomBlockers(f.rooms)
  BY <1>1, <1>3 DEF RoomsRead
<1>10. ASSUME \A f \in moments : f.spine < 3 PROVE GateState(q) = "blocked"
  <2>1. CASE \E f \in moments : spine = SpineBlockers(f.spine)
    <3>1. PICK f \in moments : spine = SpineBlockers(f.spine)
      BY <2>1
    <3>2. <<"spine", "attestation">> \in spine
      BY <1>2, <1>10, <3>1, SpineBlocks DEF MomentsTyped
    <3> QED
      BY <1>3, <1>4, <3>2, SpineSevere
  <2>2. CASE spine = {<<"spine", "unreachable">>}
    BY <1>3, <1>4, <2>2, SpineSevere
  <2> QED
    BY <1>3, <2>1, <2>2 DEF SpineRead
<1>11. ASSUME GateState(q) = "pass", s.faults = 0
       PROVE  /\ \A w \in Workers : \E f \in moments : f.workers[w] # "down"
              /\ \E f \in moments : f.spine = 3
              /\ \A r \in GateRooms : \E f \in moments : f.rooms[r] # "red"
  <2>1. \A w \in Workers : s.services[w] # "down"
    BY <1>4, <1>6, <1>11, SpineSevere
  <2>2. \A w \in Workers : \E f \in moments : f.workers[w] # "down"
    BY <1>2, <2>1 DEF ServicesRead
  <2>3. PICK f \in moments : spine = SpineBlockers(f.spine)
    BY <1>3, <1>11 DEF SpineRead
  <2>4. f.spine = 3
    BY <1>2, <1>3, <1>4, <1>11, SpineSevere, <2>3, SpineBlocks DEF MomentsTyped
  <2>5. PICK g \in moments : red = RoomBlockers(g.rooms)
    BY <1>9, <1>11
  <2>6. \A r \in GateRooms : g.rooms[r] # "red"
    <3> SUFFICES ASSUME NEW r \in GateRooms, g.rooms[r] = "red" PROVE FALSE
      OBVIOUS
    <3>1. <<"room", r, "red">> \in b
      BY <1>3, <2>5, BlockersTold
    <3> QED
      BY <1>4, <1>11, <3>1, SpineSevere
  <2> QED
    BY <2>2, <2>4, <2>6
<1>12. ASSUME s.faults = 0
       PROVE  /\ \A w \in Workers : <<"service", w, "down">> \in b => \E f \in moments : f.workers[w] = "down"
              /\ \A r \in GateRooms, c \in Colours : <<"room", r, c>> \in b => \E f \in moments : f.rooms[r] = c
  <2>1. \A w \in Workers : <<"service", w, "down">> \in b => \E f \in moments : f.workers[w] = "down"
    BY <1>2, <1>7, <1>12 DEF ServicesRead
  <2>2. \A r \in GateRooms, c \in Colours : <<"room", r, c>> \in b => \E f \in moments : f.rooms[r] = c
    <3>1. PICK f \in moments : red = RoomBlockers(f.rooms)
      BY <1>9, <1>12
    <3> QED
      BY <1>8, <3>1, BlockersTold
  <2> QED
    BY <2>1, <2>2
<1>13. \A w \in Workers : (\A f \in moments : f.workers[w] = "down") => <<"service", w, "down">> \in b
  BY <1>2, <1>6 DEF ServicesRead
<1>14. ASSUME NEW r \in GateRooms, \A f \in moments : f.rooms[r] = "red", s.faults = 0
       PROVE  GateState(q) = "blocked"
  <2>1. PICK f \in moments : red = RoomBlockers(f.rooms)
    BY <1>9, <1>14
  <2>2. <<"room", r, "red">> \in b
    BY <1>3, <1>14, <2>1, BlockersTold
  <2> QED
    BY <1>4, <2>2, SpineSevere
<1> QED
  BY <1>10, <1>11, <1>12, <1>13, <1>14

(* What requests hold gives what is promised of their answers.             *)
LEMMA PhaseHolds == PhaseInv => PhaseSound
<1> SUFFICES ASSUME PhaseInv PROVE PhaseSound
  OBVIOUS
<1>1. ServicesHonest
  BY DEF PhaseInv, ServicesHonest, PhaseAnswers, RequestHolds, ServicesRead
<1>2. ChainsHonest
  <2> SUFFICES ASSUME NEW q \in PhaseAnswers({"list", "proof"}), NEW x \in lookup[q].about
               PROVE  /\ StatusOf(q, x) <= backend.stage[x]
                      /\ lookup[q].faults = 0 => \A f \in seenBy[q] : (\A g \in seenBy[q] : f.stage[x] <= g.stage[x])
                                                                       => StatusOf(q, x) >= f.stage[x]
    BY Zenon DEF ChainsHonest
  <2> DEFINE r == lookup[q]
             moments == seenBy[q]
             manifest == IF x \in DOMAIN r.manifest THEN r.manifest[x] ELSE 0
  <2>1. q \in Lookups /\ r.op \in {"list", "proof"} /\ r.at = "answered" /\ RequestHolds(r, moments)
    BY DEF PhaseAnswers, PhaseInv
  <2>2. ChainsRead(r, moments, backend.stage) /\ MomentsTyped(r.op, moments)
    BY <2>1 DEF RequestHolds
  <2>3. x \in PhaseReceipts /\ x \in DOMAIN r.proof /\ backend.stage[x] \in 0 .. 3
    BY <2>1, <2>2 DEF ChainsRead, PhaseInv, BackendTyped
  <2>4. r.proof[x] \in 0 .. backend.stage[x] /\ (r.faults = 0 => \E f \in moments : f.stage[x] = r.proof[x])
    BY <2>2, <2>3 DEF ChainsRead
  <2>5. manifest \in 0 .. backend.stage[x]
    BY <2>2, <2>3 DEF ChainsRead
  <2>6. \A f \in moments : f.stage[x] \in 0 .. 3
    BY <2>1, <2>2, <2>3 DEF MomentsTyped
  <2>7. StatusOf(q, x) = Rank[ChainStatus(r.proof[x], manifest)]
    BY DEF StatusOf
  <2> HIDE DEF manifest, moments, r
  <2>8. StatusOf(q, x) \in r.proof[x] .. backend.stage[x]
    BY <2>3, <2>4, <2>5, <2>7 DEF ChainStatus, Rank
  <2>9. ASSUME r.faults = 0, NEW f \in moments, \A g \in moments : f.stage[x] <= g.stage[x]
        PROVE  StatusOf(q, x) >= f.stage[x]
    BY <2>3, <2>4, <2>6, <2>8, <2>9
  <2> QED
    BY <2>3, <2>4, <2>8, <2>9 DEF moments, r
<1> QED
  BY <1>1, <1>2, GateSound DEF PhaseSound

-----------------------------------------------------------------------------
(***************************************************************************)
(* The operators' routes over the rooms' tables (commercial.ts,            *)
(* operations.ts, market.ts, evidence.ts).                                 *)
(***************************************************************************)

(* Where each statement stands.                                            *)
Stands(op, at, statement) ==
  /\ statement = "readInvoice" => op = "receipt" /\ at = 1
  /\ statement = "countJobs" => (op = "receipt" /\ at = 2) \/ (op = "stamp" /\ at = 1)
  /\ statement = "insertReceipt" => op = "receipt" /\ at = 3
  /\ statement = "insertStamp" => op = "stamp" /\ at = 2
  /\ statement = "readStamps" => op = "listStamps" /\ at = 1
  /\ statement = "readSeals" => op = "listStamps" /\ at = 2
  /\ statement = "readStamp" => op = "stampDetail" /\ at = 1
  /\ statement = "readSeal" => op = "stampDetail" /\ at = 2
  /\ statement = "insertCertificate" => op = "issue" /\ at = 1
  /\ statement = "updateCertificate" => op = "revoke" /\ at = 1
  /\ statement = "readCertificates" => op = "entitlement" /\ at = 1
  /\ statement = "insertIncident" => op = "open" /\ at = 1
  /\ statement = "readIncident" => op = "resolve" /\ at = 1
  /\ statement = "updateIncident" => op = "resolve" /\ at = 2
  /\ statement = "readJob" => op = "retry" /\ at = 1
  /\ statement = "updateJob" => op = "retry" /\ at = 2
  /\ statement = "countBoth" => op = "metrics" /\ at = 1
  /\ statement = "readTarget" => op \in {"refresh", "intel", "analyst"} /\ at = 1
  /\ statement = "insertChange" => (op = "refresh" /\ at = 2) \/ (op = "intel" /\ at = 3)
  /\ statement = "insertIntel" => op = "intel" /\ at = 2
  /\ statement = "countIntel" => op = "analyst" /\ at = 2
  /\ statement = "readEvents" => (op \in {"export", "customer"} /\ at = 1) \/ (op = "exported" /\ at = 2)
  /\ statement = "insertExport" => op = "export" /\ at = 2
  /\ statement = "readExport" => op = "exported" /\ at = 1
  /\ statement = "countEvents" => op = "customer" /\ at = 2

LastPlace(op) ==
  CASE op \in {"receipt", "intel"} -> 3
    [] op \in {"issue", "revoke", "entitlement", "open", "metrics"} -> 1
    [] OTHER -> 2

(* The routes by name.                                                     *)
LEMMA RoutesAre ==
  Routes = {"receipt", "stamp", "listStamps", "stampDetail", "issue", "revoke", "entitlement", "open", "resolve",
            "retry", "metrics", "refresh", "intel", "analyst", "export", "exported", "customer"}
BY DEF Routes, Script

(* The statements of each route, and how many there are.                   *)
LEMMA Places ==
  ASSUME NEW op \in Routes, NEW at \in 1 .. Len(Script[op])
  PROVE  Stands(op, at, Script[op][at]) /\ Len(Script[op]) = LastPlace(op)
<1>1. CASE op = "receipt"
  BY <1>1 DEF Script, Stands, LastPlace
<1>2. CASE op = "stamp"
  BY <1>2 DEF Script, Stands, LastPlace
<1>3. CASE op = "listStamps"
  BY <1>3 DEF Script, Stands, LastPlace
<1>4. CASE op = "stampDetail"
  BY <1>4 DEF Script, Stands, LastPlace
<1>5. CASE op = "issue"
  BY <1>5 DEF Script, Stands, LastPlace
<1>6. CASE op = "revoke"
  BY <1>6 DEF Script, Stands, LastPlace
<1>7. CASE op = "entitlement"
  BY <1>7 DEF Script, Stands, LastPlace
<1>8. CASE op = "open"
  BY <1>8 DEF Script, Stands, LastPlace
<1>9. CASE op = "resolve"
  BY <1>9 DEF Script, Stands, LastPlace
<1>10. CASE op = "retry"
  BY <1>10 DEF Script, Stands, LastPlace
<1>11. CASE op = "metrics"
  BY <1>11 DEF Script, Stands, LastPlace
<1>12. CASE op = "refresh"
  BY <1>12 DEF Script, Stands, LastPlace
<1>13. CASE op = "intel"
  BY <1>13 DEF Script, Stands, LastPlace
<1>14. CASE op = "analyst"
  BY <1>14 DEF Script, Stands, LastPlace
<1>15. CASE op = "export"
  BY <1>15 DEF Script, Stands, LastPlace
<1>16. CASE op = "exported"
  BY <1>16 DEF Script, Stands, LastPlace
<1>17. CASE op = "customer"
  BY <1>17 DEF Script, Stands, LastPlace
<1> QED
  BY <1>1, <1>2, <1>3, <1>4, <1>5, <1>6, <1>7, <1>8, <1>9, <1>10, <1>11, <1>12, <1>13, <1>14, <1>15, <1>16, <1>17, RoutesAre

DeskParts == {"op", "row", "at", "seen", "also", "out"}
TableParts == {"bill", "jobs", "target", "events", "receipts", "stamps", "certificates", "incidents", "intel",
               "changes", "exports"}
Outs == {"new", "asked", "done", "refused", "seals", "missing", "failed"}

TableTyped ==
  /\ DOMAIN table = TableParts
  /\ table.target \in BOOLEAN /\ table.events \in Nat
  /\ table.receipts \in Seq([by : DeskRequests, succeeded : Nat])
  /\ table.stamps \in Seq([by : DeskRequests, state : {"partial", "failed", "executed"}])
  /\ table.certificates \in Seq({"issued", "revoked"})
  /\ table.incidents \in Seq([status : {"open", "resolved"}, notes : Nat])
  /\ table.intel \in Seq(DeskRequests) /\ table.changes \in Seq([by : DeskRequests, intel : Nat])
  /\ table.exports \in Seq(Nat)

RequestTyped(r) ==
  /\ DOMAIN r = DeskParts
  /\ r.row \in Nat /\ r.seen \in Nat /\ r.also \in Nat /\ r.at \in Nat
  /\ r.out \in Outs /\ r.op \in Routes \cup {"none"}
  /\ r.op = "none" <=> r.out = "new"
  /\ r.op # "none" => r.row > 0
  /\ r.out = "asked" => r.op \in Routes /\ r.at \in 1 .. LastPlace(r.op)

(* Requests of their types; one on its way has seen the present.           *)
Present ==
  /\ desk = [q \in DeskRequests |-> desk[q]] /\ was = [q \in DeskRequests |-> was[q]]
  /\ \A q \in DeskRequests : RequestTyped(desk[q])
  /\ \A q \in DeskRequests : desk[q].out = "asked" => Facts(desk[q].op, table) \in was[q]

Common == TableTyped /\ Present

Seeing(q) == was[q] \subseteq was'[q] \/ desk[q].op = "none"

(* Nothing was asked of the tables that a boot has filled.                 *)
LEMMA CommonStarts == DeskInit => Common
<1> SUFFICES ASSUME DeskInit PROVE Common
  OBVIOUS
<1>1. PICK bill, jobs :
       table = [bill |-> bill, jobs |-> jobs, target |-> TRUE, events |-> 1,
                receipts |-> <<>>, stamps |-> <<>>, certificates |-> <<"issued">>,
                incidents |-> <<[status |-> "open", notes |-> 0]>>,
                intel |-> <<>>, changes |-> <<>>, exports |-> <<1>>]
  BY DEF DeskInit
<1>2. TableTyped
  BY <1>1 DEF TableTyped, TableParts
<1>3. RequestTyped(Blank) /\ Blank.out = "new"
  BY DEF RequestTyped, Blank, DeskParts, Outs
<1> QED
  BY <1>2, <1>3 DEF Common, Present, DeskInit

(* A request that goes on keeps its name and row.                          *)
LEMMA OnFields ==
  ASSUME Common, NEW q \in DeskRequests, desk[q].out = "asked",
         NEW r, DOMAIN r = DeskParts, r.op = desk[q].op, r.at = desk[q].at, r.out = "asked", r.row = desk[q].row,
         r.seen \in Nat, r.also \in Nat, OnWith(q, r)
  PROVE  /\ \A p \in DeskRequests \ {q} : desk'[p] = desk[p]
         /\ desk' = [p \in DeskRequests |-> desk'[p]]
         /\ RequestTyped(desk'[q]) /\ desk'[q].op = desk[q].op /\ desk'[q].row = desk[q].row
         /\ desk'[q].seen = r.seen /\ desk'[q].also = r.also
         /\ desk[q].at < LastPlace(desk[q].op) => desk'[q].at = desk[q].at + 1 /\ desk'[q].out = "asked"
         /\ desk[q].at >= LastPlace(desk[q].op) => desk'[q].at = desk[q].at /\ desk'[q].out = "done"
<1>1. RequestTyped(desk[q]) /\ desk[q].op \in Routes /\ desk[q].at \in 1 .. LastPlace(desk[q].op)
  BY DEF Common, Present, RequestTyped
<1>2. LastPlace(r.op) \in Nat
  BY DEF LastPlace
<1>3. Len(Script[r.op]) = LastPlace(r.op)
  <2>1. 1 \in 1 .. Len(Script[r.op])
    BY <1>1, RoutesAre DEF Script
  <2> QED
    BY <1>1, <2>1, Places
<1>4. desk' = [desk EXCEPT ![q] = IF r.at < LastPlace(r.op) THEN [r EXCEPT !.at = @ + 1] ELSE [r EXCEPT !.out = "done"]]
  BY <1>3 DEF OnWith
<1>5. CASE r.at < LastPlace(r.op)
  <2> DEFINE s == [r EXCEPT !.at = @ + 1]
  <2>1. desk' = [desk EXCEPT ![q] = s]
    BY <1>4, <1>5
  <2>2. DOMAIN s = DeskParts /\ s.op = r.op /\ s.at = r.at + 1 /\ s.row = r.row /\ s.seen = r.seen /\ s.also = r.also
        /\ s.out = "asked"
    BY DEF DeskParts
  <2> HIDE DEF s
  <2> QED
    BY <1>1, <1>2, <1>5, <2>1, <2>2 DEF Common, Present, RequestTyped
<1>6. CASE ~(r.at < LastPlace(r.op))
  <2> DEFINE s == [r EXCEPT !.out = "done"]
  <2>1. desk' = [desk EXCEPT ![q] = s]
    BY <1>4, <1>6
  <2>2. DOMAIN s = DeskParts /\ s.op = r.op /\ s.at = r.at /\ s.row = r.row /\ s.seen = r.seen /\ s.also = r.also
        /\ s.out = "done"
    BY DEF DeskParts
  <2> HIDE DEF s
  <2> QED
    BY <1>1, <1>2, <1>6, <2>1, <2>2 DEF Common, Present, RequestTyped, Outs
<1> QED
  BY <1>5, <1>6

(* A request that ends keeps what it has read.                             *)
LEMMA SaysFields ==
  ASSUME Common, NEW q \in DeskRequests, desk[q].out = "asked",
         NEW out \in {"done", "refused", "seals", "missing", "failed"}, Says(q, out)
  PROVE  /\ \A p \in DeskRequests \ {q} : desk'[p] = desk[p]
         /\ desk' = [p \in DeskRequests |-> desk'[p]]
         /\ RequestTyped(desk'[q]) /\ desk'[q].op = desk[q].op /\ desk'[q].row = desk[q].row
         /\ desk'[q].seen = desk[q].seen /\ desk'[q].also = desk[q].also /\ desk'[q].at = desk[q].at
         /\ desk'[q].out = out
<1>1. RequestTyped(desk[q])
  BY DEF Common, Present
<1> DEFINE s == [desk[q] EXCEPT !.out = out]
<1>2. desk' = [desk EXCEPT ![q] = s]
  BY DEF Says
<1>3. DOMAIN s = DeskParts /\ s.op = desk[q].op /\ s.at = desk[q].at /\ s.row = desk[q].row /\ s.seen = desk[q].seen
      /\ s.also = desk[q].also /\ s.out = out
  BY <1>1 DEF DeskParts, RequestTyped
<1> HIDE DEF s
<1> QED
  BY <1>1, <1>2, <1>3 DEF Common, Present, RequestTyped, Outs

(* A request at a statement.                                               *)
LEMMA AtPlace ==
  ASSUME Common, NEW q \in DeskRequests, NEW statement, AtStatement(q, statement)
  PROVE  /\ desk[q].out = "asked" /\ Stands(desk[q].op, desk[q].at, statement) /\ DOMAIN desk[q] = DeskParts
         /\ desk[q].seen \in Nat /\ desk[q].also \in Nat /\ desk[q].row \in Nat
         /\ Facts(desk[q].op, table) \in was[q]
<1>1. RequestTyped(desk[q]) /\ desk[q].out = "asked"
  BY DEF Common, Present, AtStatement
<1>2. desk[q].op \in Routes /\ desk[q].at \in 1 .. LastPlace(desk[q].op)
  BY <1>1 DEF RequestTyped
<1>3. Len(Script[desk[q].op]) = LastPlace(desk[q].op)
  <2>1. 1 \in 1 .. Len(Script[desk[q].op])
    BY <1>2, RoutesAre DEF Script
  <2> QED
    BY <1>2, <2>1, Places
<1> QED
  BY <1>1, <1>2, <1>3, Places DEF AtStatement, Common, Present, RequestTyped

(* The effects of a step of q: it goes on, with what it has seen, or it    *)
(* ends; it writes one table, or only reads.                               *)
Others(q) == \A p \in DeskRequests \ {q} : desk'[p] = desk[p]

GoesOn(q, seen, also) ==
  /\ Others(q)
  /\ desk'[q].op = desk[q].op /\ desk'[q].row = desk[q].row /\ desk'[q].seen = seen /\ desk'[q].also = also
  /\ desk[q].at < LastPlace(desk[q].op) => desk'[q].at = desk[q].at + 1 /\ desk'[q].out = "asked"
  /\ desk[q].at >= LastPlace(desk[q].op) => desk'[q].at = desk[q].at /\ desk'[q].out = "done"

EndsAs(q, out) ==
  /\ Others(q)
  /\ desk'[q].op = desk[q].op /\ desk'[q].row = desk[q].row /\ desk'[q].seen = desk[q].seen
  /\ desk'[q].also = desk[q].also /\ desk'[q].at = desk[q].at /\ desk'[q].out = out

Stepped(q) ==
  /\ desk' = [p \in DeskRequests |-> desk'[p]] /\ Others(q) /\ RequestTyped(desk'[q])
  /\ desk'[q].op = desk[q].op /\ desk[q].out = "asked" /\ desk[q].op # "none"

(* It goes on with what it has read ...                                    *)
LEMMA Going ==
  ASSUME Common, NEW q \in DeskRequests, desk[q].out = "asked", On(q)
  PROVE  GoesOn(q, desk[q].seen, desk[q].also) /\ Stepped(q)
BY OnFields DEF On, GoesOn, Others, Stepped, Common, Present, RequestTyped

(* ... with both numbers it reads now ...                                  *)
LEMMA GoingWith ==
  ASSUME Common, NEW q \in DeskRequests, desk[q].out = "asked",
         NEW seen \in Nat, NEW also \in Nat, OnWith(q, [desk[q] EXCEPT !.seen = seen, !.also = also])
  PROVE  GoesOn(q, seen, also) /\ Stepped(q)
<1> DEFINE r == [desk[q] EXCEPT !.seen = seen, !.also = also]
<1>1. RequestTyped(desk[q])
  BY DEF Common, Present
<1>2. DOMAIN r = DeskParts /\ r.op = desk[q].op /\ r.at = desk[q].at /\ r.out = "asked" /\ r.row = desk[q].row
      /\ r.seen = seen /\ r.also = also
  BY <1>1 DEF RequestTyped, DeskParts
<1> HIDE DEF r
<1> QED
  BY <1>1, <1>2, OnFields DEF GoesOn, Others, Stepped, RequestTyped, r

(* ... with the one, the rows it counts ...                                *)
LEMMA GoingSeen ==
  ASSUME Common, NEW q \in DeskRequests, desk[q].out = "asked",
         NEW seen \in Nat, OnWith(q, [desk[q] EXCEPT !.seen = seen])
  PROVE  GoesOn(q, seen, desk[q].also) /\ Stepped(q)
<1> DEFINE r == [desk[q] EXCEPT !.seen = seen]
<1>1. RequestTyped(desk[q])
  BY DEF Common, Present
<1>2. DOMAIN r = DeskParts /\ r.op = desk[q].op /\ r.at = desk[q].at /\ r.out = "asked" /\ r.row = desk[q].row
      /\ r.seen = seen /\ r.also = desk[q].also
  BY <1>1 DEF RequestTyped, DeskParts
<1> HIDE DEF r
<1> QED
  BY <1>1, <1>2, OnFields DEF GoesOn, Others, Stepped, RequestTyped, r

(* ... or with the other.                                                  *)
LEMMA GoingAlso ==
  ASSUME Common, NEW q \in DeskRequests, desk[q].out = "asked",
         NEW also \in Nat, OnWith(q, [desk[q] EXCEPT !.also = also])
  PROVE  GoesOn(q, desk[q].seen, also) /\ Stepped(q)
<1> DEFINE r == [desk[q] EXCEPT !.also = also]
<1>1. RequestTyped(desk[q])
  BY DEF Common, Present
<1>2. DOMAIN r = DeskParts /\ r.op = desk[q].op /\ r.at = desk[q].at /\ r.out = "asked" /\ r.row = desk[q].row
      /\ r.seen = desk[q].seen /\ r.also = also
  BY <1>1 DEF RequestTyped, DeskParts
<1> HIDE DEF r
<1> QED
  BY <1>1, <1>2, OnFields DEF GoesOn, Others, Stepped, RequestTyped, r

(* An answer ends it.                                                      *)
LEMMA Saying ==
  ASSUME Common, NEW q \in DeskRequests, desk[q].out = "asked",
         NEW out \in {"done", "refused", "seals", "missing", "failed"}, Says(q, out)
  PROVE  EndsAs(q, out) /\ Stepped(q)
BY SaysFields DEF EndsAs, Others, Stepped, Common, Present, RequestTyped

(* Requests that are on their way see what is stored.                      *)
LEMMA Storing ==
  ASSUME Common, NEW next, Stores(next)
  PROVE  /\ table' = next /\ was' = [p \in DeskRequests |-> was'[p]] /\ \A p \in DeskRequests : Seeing(p)
         /\ \A p \in DeskRequests : desk[p].out = "asked" => Facts(desk[p].op, table') \in was'[p]
BY DEF Stores, Seeing

(* What is only read stays present.                                        *)
LEMMA ReadingOnly ==
  ASSUME Common, UNCHANGED <<table, was>>
  PROVE  /\ was' = [p \in DeskRequests |-> was'[p]] /\ \A p \in DeskRequests : Seeing(p)
         /\ \A p \in DeskRequests : desk[p].out = "asked" => Facts(desk[p].op, table') \in was'[p]
         /\ TableTyped'
BY DEF Seeing, Common, Present, TableTyped

(* A step of a request keeps the others as they are.                       *)
LEMMA StepsPresent ==
  ASSUME Common, NEW q \in DeskRequests, Stepped(q), was' = [p \in DeskRequests |-> was'[p]],
         \A p \in DeskRequests : desk[p].out = "asked" => Facts(desk[p].op, table') \in was'[p]
  PROVE  Present'
<1>1. \A p \in DeskRequests : RequestTyped(desk'[p])
  BY DEF Common, Present, Stepped, Others
<1>2. \A p \in DeskRequests : desk'[p].out = "asked" => desk[p].out = "asked" /\ desk'[p].op = desk[p].op
  BY DEF Stepped, Others
<1>3. \A p \in DeskRequests : RequestTyped(desk[p])'
  BY <1>1 DEF RequestTyped, DeskParts, Outs
<1>4. \A p \in DeskRequests : (desk[p].out = "asked")' => (Facts(desk[p].op, table) \in was[p])'
  BY <1>2 DEF Facts
<1> QED
  BY <1>3, <1>4 DEF Present, Stepped

(* A table of its type may take the place of one.                          *)
LEMMA TableKept ==
  ASSUME TableTyped, DOMAIN table' = TableParts, NEW field, \A other \in TableParts \ {field} : table'[other] = table[other],
         \/ field \in {"bill", "jobs"}
         \/ field = "target" /\ table'.target \in BOOLEAN
         \/ field = "events" /\ table'.events \in Nat
         \/ field = "receipts" /\ table'.receipts \in Seq([by : DeskRequests, succeeded : Nat])
         \/ field = "stamps" /\ table'.stamps \in Seq([by : DeskRequests, state : {"partial", "failed", "executed"}])
         \/ field = "certificates" /\ table'.certificates \in Seq({"issued", "revoked"})
         \/ field = "incidents" /\ table'.incidents \in Seq([status : {"open", "resolved"}, notes : Nat])
         \/ field = "intel" /\ table'.intel \in Seq(DeskRequests)
         \/ field = "changes" /\ table'.changes \in Seq([by : DeskRequests, intel : Nat])
         \/ field = "exports" /\ table'.exports \in Seq(Nat)
  PROVE  TableTyped'
BY DEF TableTyped, TableParts

(* A step of a family of routes, which writes tables of its own.           *)
Acts(q, ops, fields) ==
  /\ Common' /\ (\A p \in DeskRequests : Seeing(p))
  /\ Stepped(q) /\ desk[q].op \in ops
  /\ \A other \in TableParts \ fields : table'[other] = table[other]

PaperRoutes == {"receipt", "stamp", "listStamps", "stampDetail"}
CertificateRoutes == {"issue", "revoke", "entitlement"}
IncidentRoutes == {"open", "resolve", "metrics"}
MarketRoutes == {"refresh", "intel", "analyst"}
EventRoutes == {"export", "exported", "customer"}

(* A step that reads is one of its family.                                 *)
LEMMA ReadsAct ==
  ASSUME Common, NEW q \in DeskRequests, Stepped(q), UNCHANGED <<table, was>>, NEW ops, desk[q].op \in ops
  PROVE  Acts(q, ops, {})
BY ReadingOnly, StepsPresent DEF Acts, Common

(* So is one that writes a table.                                          *)
LEMMA StoresAct ==
  ASSUME Common, NEW q \in DeskRequests, Stepped(q), NEW next, Stores(next), TableTyped', NEW ops, desk[q].op \in ops,
         NEW fields, \A other \in TableParts \ fields : table'[other] = table[other]
  PROVE  Acts(q, ops, fields)
BY Storing, StepsPresent DEF Acts, Common

-----------------------------------------------------------------------------
Failed(jobs) == InStates(jobs, {"failed"})
Succeeded(jobs) == InStates(jobs, {"succeeded"})

(* How many jobs failed, and what none, some and all mean.                 *)
LEMMA CountsAre ==
  ASSUME NEW jobs
  PROVE  /\ Failed(jobs) \in 0 .. Cardinality(JobIds) /\ Succeeded(jobs) \in Nat /\ Cardinality(JobIds) \in Nat
         /\ Counts(jobs).failed = Failed(jobs) /\ Counts(jobs).succeeded = Succeeded(jobs)
         /\ Failed(jobs) = 0 => \A j \in JobIds : jobs[j] # "failed"
         /\ Failed(jobs) = Cardinality(JobIds) => \A j \in JobIds : jobs[j] = "failed"
         /\ Failed(jobs) > 0 => \E j \in JobIds : jobs[j] = "failed"
         /\ Cardinality(JobIds) = 0 => JobIds = {}
<1> DEFINE failed == {j \in JobIds : jobs[j] \in {"failed"}}
           succeeded == {j \in JobIds : jobs[j] \in {"succeeded"}}
<1>1. failed \subseteq JobIds /\ succeeded \subseteq JobIds /\ IsFiniteSet(JobIds)
  BY DeskAssumption
<1>2. IsFiniteSet(failed) /\ Cardinality(failed) <= Cardinality(JobIds)
      /\ (Cardinality(failed) = Cardinality(JobIds) => failed = JobIds)
  BY <1>1, FS_Subset
<1>3. IsFiniteSet(succeeded)
  BY <1>1, FS_Subset
<1>4. Cardinality(failed) \in Nat /\ Cardinality(succeeded) \in Nat /\ Cardinality(JobIds) \in Nat
  BY <1>1, <1>2, <1>3, FS_CardinalityType
<1>5. (Cardinality(failed) = 0 <=> failed = {}) /\ (Cardinality(JobIds) = 0 <=> JobIds = {})
  BY <1>1, <1>2, FS_EmptySet
<1>6. Failed(jobs) = Cardinality(failed) /\ Succeeded(jobs) = Cardinality(succeeded)
  BY DEF Failed, Succeeded, InStates
<1>7. Counts(jobs).failed = Failed(jobs) /\ Counts(jobs).succeeded = Succeeded(jobs)
  BY DEF Counts, Failed, Succeeded
<1> QED
  BY <1>2, <1>4, <1>5, <1>6, <1>7

(* What a state of a stamp says of the number of failed jobs.              *)
Attests(state, failed) ==
  /\ state = "executed" => failed = 0
  /\ state = "failed" => failed = Cardinality(JobIds)
  /\ state = "partial" => failed > 0 \/ Cardinality(JobIds) = 0

(* The state of a stamp attests the counts it is made from.                *)
LEMMA StampAttests ==
  ASSUME NEW succeeded, NEW failed \in 0 .. Cardinality(JobIds), Cardinality(JobIds) \in Nat
  PROVE  LET state == StampState([total |-> Cardinality(JobIds), succeeded |-> succeeded, failed |-> failed])
         IN Attests(state, failed) /\ state \in {"partial", "failed", "executed"}
BY DEF StampState, Attests

(* The rows of a route: one for each of its requests that was answered.    *)
WrittenFor(rows, op, requests) ==
  /\ \A n \in DOMAIN rows : requests[rows[n].by].op = op /\ requests[rows[n].by].out = "done"
  /\ \A n, m \in DOMAIN rows : rows[n].by = rows[m].by => n = m
  /\ \A q \in DeskRequests :
       requests[q].op = op /\ requests[q].out = "done" => \E n \in DOMAIN rows : rows[n].by = q

(* What a request for a paper has read, at which statement.                *)
PaperHeld(r, moments) ==
  /\ r.op = "receipt" /\ r.at >= 2 => \E f \in moments : f.bill = "paid"
  /\ r.op = "receipt" /\ r.at >= 3 => \E f \in moments : Succeeded(f.jobs) = r.seen
  /\ r.op = "stamp" /\ r.at >= 2 => \E f \in moments : Failed(f.jobs) = r.also
  /\ r.op = "receipt" /\ r.out = "refused" => \E f \in moments : f.bill # "paid"
  /\ r.op = "listStamps" /\ (r.at >= 2 \/ r.out = "seals") => \E f \in moments : f.stamps = 0
  /\ r.op = "stampDetail" /\ (r.at >= 2 \/ r.out = "missing") => \E f \in moments : f.stamps < r.row

PapersHeld ==
  /\ \A q \in DeskRequests : PaperHeld(desk[q], was[q])
  /\ WrittenFor(table.receipts, "receipt", desk) /\ WrittenFor(table.stamps, "stamp", desk)
  /\ \A n \in DOMAIN table.receipts :
       /\ \E f \in was[table.receipts[n].by] : f.bill = "paid"
       /\ \E f \in was[table.receipts[n].by] : Succeeded(f.jobs) = table.receipts[n].succeeded
  /\ \A n \in DOMAIN table.stamps : \E f \in was[table.stamps[n].by] : Attests(table.stamps[n].state, Failed(f.jobs))

(* The elements of a sequence.                                             *)
LEMMA ElementsOf ==
  ASSUME NEW S, NEW s \in Seq(S)
  PROVE  DOMAIN s = 1 .. Len(s) /\ Len(s) \in Nat /\ \A n \in DOMAIN s : s[n] \in S
OBVIOUS

(* Rows are written by requests, their records of their types.             *)
LEMMA RowsBy ==
  ASSUME Common
  PROVE  /\ \A n \in DOMAIN table.receipts : table.receipts[n].by \in DeskRequests
         /\ \A n \in DOMAIN table.stamps : table.stamps[n].by \in DeskRequests
         /\ \A n \in DOMAIN table.intel : table.intel[n] \in DeskRequests
         /\ \A n \in DOMAIN table.changes : table.changes[n].by \in DeskRequests /\ table.changes[n].intel \in Nat
<1>1. /\ table.receipts \in Seq([by : DeskRequests, succeeded : Nat])
      /\ table.stamps \in Seq([by : DeskRequests, state : {"partial", "failed", "executed"}])
      /\ table.intel \in Seq(DeskRequests) /\ table.changes \in Seq([by : DeskRequests, intel : Nat])
  BY DEF Common, TableTyped
<1>2. /\ \A n \in DOMAIN table.receipts : table.receipts[n] \in [by : DeskRequests, succeeded : Nat]
      /\ \A n \in DOMAIN table.stamps : table.stamps[n] \in [by : DeskRequests, state : {"partial", "failed", "executed"}]
  BY <1>1, ElementsOf
<1>3. /\ \A n \in DOMAIN table.intel : table.intel[n] \in DeskRequests
      /\ \A n \in DOMAIN table.changes : table.changes[n] \in [by : DeskRequests, intel : Nat]
  BY <1>1, ElementsOf
<1> QED
  BY <1>2, <1>3

(* Rows stay those of the answered while nobody else is answered.          *)
LEMMA WrittenStays ==
  ASSUME NEW rows, \A n \in DOMAIN rows : rows[n].by \in DeskRequests, NEW op, WrittenFor(rows, op, desk),
         \A p \in DeskRequests :
           \/ desk'[p] = desk[p]
           \/ desk[p].op # op /\ desk'[p].op = desk[p].op
           \/ desk[p].out # "done" /\ desk'[p].out # "done"
  PROVE  WrittenFor(rows, op, desk')
BY DEF WrittenFor

(* A step that leaves a family of routes and its tables alone: others act, *)
(* a request of it arrives or fails, or the facts change.                  *)
Arriving(p) ==
  /\ desk[p].op = "none" /\ desk[p].out = "new"
  /\ desk'[p].op # "none" /\ desk'[p].out = "asked" /\ desk'[p].at = 1 /\ desk'[p].seen = 0

Failing(p) ==
  /\ desk[p].out = "asked" /\ desk'[p].out = "failed"
  /\ desk'[p].op = desk[p].op /\ desk'[p].at = desk[p].at /\ desk'[p].row = desk[p].row
  /\ desk'[p].seen = desk[p].seen /\ desk'[p].also = desk[p].also

Aside(ops, fields) ==
  /\ \A p \in DeskRequests :
       \/ desk'[p] = desk[p]
       \/ desk[p].op \notin ops /\ desk'[p].op = desk[p].op
       \/ Arriving(p)
       \/ Failing(p)
  /\ \A p \in DeskRequests : desk[p].op # "none" => was[p] \subseteq was'[p]
  /\ \A field \in fields : table'[field] = table[field]

(* Steps of others leave the papers as they are.                           *)
LEMMA PapersAside ==
  ASSUME Common, PapersHeld, Aside(PaperRoutes, {"receipts", "stamps"})
  PROVE  PapersHeld'
<1>1. table'.receipts = table.receipts /\ table'.stamps = table.stamps
  BY DEF Aside
<1>2. \A p \in DeskRequests : desk[p].op # "none" => was[p] \subseteq was'[p]
  BY DEF Aside
<1>3. ASSUME NEW p \in DeskRequests PROVE PaperHeld(desk'[p], was'[p])
  BY <1>2 DEF PapersHeld, PaperHeld, Arriving, Failing, PaperRoutes, Aside
<1>4. WrittenFor(table.receipts, "receipt", desk') /\ WrittenFor(table.stamps, "stamp", desk')
  BY RowsBy, WrittenStays DEF Aside, Arriving, Failing, PaperRoutes, PapersHeld
<1>5. \A n \in DOMAIN table.receipts : was[table.receipts[n].by] \subseteq was'[table.receipts[n].by]
  BY <1>2, RowsBy DEF PapersHeld, WrittenFor
<1>6. \A n \in DOMAIN table.stamps : was[table.stamps[n].by] \subseteq was'[table.stamps[n].by]
  BY <1>2, RowsBy DEF PapersHeld, WrittenFor
<1>7. \A p \in DeskRequests : PaperHeld(desk[p], was[p])'
  BY <1>3 DEF PaperHeld
<1>8. \A n \in DOMAIN table.receipts :
       /\ \E f \in was'[table.receipts[n].by] : f.bill = "paid"
       /\ \E f \in was'[table.receipts[n].by] : Succeeded(f.jobs) = table.receipts[n].succeeded
  BY <1>5 DEF PapersHeld
<1>9. \A n \in DOMAIN table.stamps : \E f \in was'[table.stamps[n].by] : Attests(table.stamps[n].state, Failed(f.jobs))
  BY <1>6 DEF PapersHeld
<1> QED
  BY <1>1, <1>4, <1>7, <1>8, <1>9 DEF PapersHeld

(* A row is added for a request that is answered.                          *)
LEMMA WrittenGrows ==
  ASSUME NEW T, NEW rows \in Seq(T), \A n \in DOMAIN rows : rows[n].by \in DeskRequests, NEW op, WrittenFor(rows, op, desk),
         NEW q \in DeskRequests, Stepped(q), desk[q].op = op, desk'[q].out = "done",
         NEW row \in T, row.by = q
  PROVE  WrittenFor(Append(rows, row), op, desk')
<1> DEFINE more == Append(rows, row)
<1>1. Len(rows) \in Nat /\ DOMAIN rows = 1 .. Len(rows) /\ DOMAIN more = 1 .. Len(rows) + 1
      /\ more[Len(rows) + 1] = row /\ \A n \in 1 .. Len(rows) : more[n] = rows[n]
  OBVIOUS
<1>2. \A n \in 1 .. Len(rows) : rows[n].by # q
  BY <1>1 DEF WrittenFor, Stepped
<1> HIDE DEF more
<1>3. \A n \in DOMAIN more : n \in 1 .. Len(rows) \/ n = Len(rows) + 1
  BY <1>1
<1>4. \A n \in DOMAIN more : desk'[more[n].by].op = op /\ desk'[more[n].by].out = "done"
  BY <1>1, <1>2, <1>3 DEF WrittenFor, Stepped, Others
<1>5. \A n, m \in DOMAIN more : more[n].by = more[m].by => n = m
  BY <1>1, <1>2, <1>3 DEF WrittenFor
<1>6. \A p \in DeskRequests : desk'[p].op = op /\ desk'[p].out = "done" => \E n \in DOMAIN more : more[n].by = p
  BY <1>1 DEF WrittenFor, Stepped, Others
<1> QED
  BY <1>4, <1>5, <1>6 DEF WrittenFor, more

(* A request for a paper reads: what is recorded stays.                    *)
LEMMA PapersRead ==
  ASSUME Common, PapersHeld, NEW q \in DeskRequests, Acts(q, PaperRoutes, {}), PaperHeld(desk'[q], was'[q]),
         desk[q].op \in {"receipt", "stamp"} => desk'[q].out # "done"
  PROVE  PapersHeld'
<1>1. table'.receipts = table.receipts /\ table'.stamps = table.stamps
  BY DEF Acts, TableParts
<1>2. \A p \in DeskRequests : desk[p].op # "none" => was[p] \subseteq was'[p]
  BY DEF Acts, Seeing
<1>3. ASSUME NEW p \in DeskRequests PROVE PaperHeld(desk'[p], was'[p])
  BY <1>2 DEF PapersHeld, PaperHeld, Acts, Stepped, Others
<1>4. \A p \in DeskRequests : PaperHeld(desk[p], was[p])'
  BY <1>3 DEF PaperHeld
<1>5. WrittenFor(table.receipts, "receipt", desk') /\ WrittenFor(table.stamps, "stamp", desk')
  BY RowsBy DEF PapersHeld, Acts, Stepped, Others, WrittenFor
<1>6. \A n \in DOMAIN table.receipts : was[table.receipts[n].by] \subseteq was'[table.receipts[n].by]
  BY <1>2, RowsBy DEF PapersHeld, WrittenFor
<1>7. \A n \in DOMAIN table.stamps : was[table.stamps[n].by] \subseteq was'[table.stamps[n].by]
  BY <1>2, RowsBy DEF PapersHeld, WrittenFor
<1>8. \A n \in DOMAIN table.receipts :
       /\ \E f \in was'[table.receipts[n].by] : f.bill = "paid"
       /\ \E f \in was'[table.receipts[n].by] : Succeeded(f.jobs) = table.receipts[n].succeeded
  BY <1>6 DEF PapersHeld
<1>9. \A n \in DOMAIN table.stamps : \E f \in was'[table.stamps[n].by] : Attests(table.stamps[n].state, Failed(f.jobs))
  BY <1>7 DEF PapersHeld
<1> QED
  BY <1>1, <1>4, <1>5, <1>8, <1>9 DEF PapersHeld

(* The facts of each family.                                               *)
LEMMA FactsAre ==
  ASSUME NEW op, NEW t
  PROVE  /\ op \in {"receipt", "stamp"} => Facts(op, t).bill = t.bill /\ Facts(op, t).jobs = t.jobs
         /\ op \in {"listStamps", "stampDetail"} => Facts(op, t).stamps = Len(t.stamps)
         /\ op = "metrics" => Facts(op, t).incidents = t.incidents
         /\ op = "entitlement" => Facts(op, t).certificates = t.certificates
         /\ op \in MarketRoutes => Facts(op, t).target = t.target /\ Facts(op, t).intel = Len(t.intel)
BY DEF Facts, MarketRoutes

(* The invoice was paid when it was read, or the request is refused.       *)
LEMMA ReadInvoiceActs ==
  ASSUME Common, PapersHeld, NEW q \in DeskRequests, ReadInvoice(q)
  PROVE  Acts(q, PaperRoutes, {}) /\ PapersHeld'
<1>1. desk[q].out = "asked" /\ desk[q].op = "receipt" /\ desk[q].at = 1 /\ Facts(desk[q].op, table) \in was[q]
  BY AtPlace DEF ReadInvoice, Stands
<1>2. UNCHANGED <<table, was, tied, spent>>
  BY DEF ReadInvoice, OnlyReads
<1>3. CASE table.bill # "paid"
  BY <1>1, <1>3, Saying, <1>2, ReadsAct, FactsAre, PapersRead DEF ReadInvoice, PaperRoutes, PaperHeld, EndsAs
<1>4. CASE table.bill = "paid"
  BY <1>1, <1>4, Going, <1>2, ReadsAct, FactsAre, PapersRead DEF ReadInvoice, PaperRoutes, GoesOn, LastPlace,
     PaperHeld
<1> QED
  BY <1>3, <1>4

(* The counts are those of the moment.                                     *)
LEMMA CountJobsActs ==
  ASSUME Common, PapersHeld, NEW q \in DeskRequests, CountJobs(q)
  PROVE  Acts(q, PaperRoutes, {}) /\ PapersHeld'
<1>1. /\ desk[q].out = "asked" /\ Facts(desk[q].op, table) \in was[q]
      /\ (desk[q].op = "receipt" /\ desk[q].at = 2) \/ (desk[q].op = "stamp" /\ desk[q].at = 1)
  BY AtPlace DEF CountJobs, Stands
<1>2. UNCHANGED <<table, was, tied, spent>>
  BY DEF CountJobs, OnlyReads
<1>3. GoesOn(q, Succeeded(table.jobs), Failed(table.jobs)) /\ Stepped(q)
  <2>1. Succeeded(table.jobs) \in Nat /\ Failed(table.jobs) \in Nat
    BY CountsAre
  <2>2. OnWith(q, [desk[q] EXCEPT !.seen = Succeeded(table.jobs), !.also = Failed(table.jobs)])
    BY CountsAre DEF CountJobs
  <2> QED
    BY <1>1, <2>1, <2>2, GoingWith
<1>4. Acts(q, PaperRoutes, {})
  BY <1>1, <1>2, <1>3, ReadsAct DEF PaperRoutes
<1>5. desk'[q].op = desk[q].op /\ desk'[q].at = desk[q].at + 1 /\ desk'[q].out = "asked"
      /\ desk'[q].seen = Succeeded(table.jobs) /\ desk'[q].also = Failed(table.jobs)
  BY <1>1, <1>3 DEF GoesOn, LastPlace
<1>6. PaperHeld(desk'[q], was'[q])
  BY <1>1, <1>2, <1>5, FactsAre DEF PaperHeld, PapersHeld
<1> QED
  BY <1>4, <1>5, <1>6, PapersRead

(* There was no such stamp when the seals are asked.                       *)
LEMMA ReadStampsActs ==
  ASSUME Common, PapersHeld, NEW q \in DeskRequests, ReadStamps(q) \/ ReadStamp(q)
  PROVE  Acts(q, PaperRoutes, {}) /\ PapersHeld'
<1>1. desk[q].out = "asked" /\ desk[q].op \in {"listStamps", "stampDetail"} /\ desk[q].at = 1
      /\ Facts(desk[q].op, table) \in was[q] /\ desk[q].row \in Nat
  BY AtPlace DEF ReadStamps, ReadStamp, Stands
<1>2. UNCHANGED <<table, was, tied, spent>>
  BY DEF ReadStamps, ReadStamp, OnlyReads
<1>3. \/ Says(q, "done")
      \/ On(q) /\ desk[q].op = "listStamps" /\ table.stamps = <<>>
      \/ On(q) /\ desk[q].op = "stampDetail" /\ ~(desk[q].row <= Len(table.stamps))
  BY AtPlace DEF ReadStamps, ReadStamp, Stands
<1>4. CASE Says(q, "done")
  BY <1>1, <1>4, Saying, <1>2, ReadsAct, PapersRead DEF PaperRoutes, PaperHeld, EndsAs
<1>5. CASE On(q)
  <2>1. GoesOn(q, desk[q].seen, desk[q].also) /\ Stepped(q)
    BY <1>1, <1>5, Going
  <2>2. Acts(q, PaperRoutes, {})
    BY <1>1, <1>2, <2>1, ReadsAct DEF PaperRoutes
  <2>3. desk'[q].op = desk[q].op /\ desk'[q].out = "asked" /\ desk'[q].row = desk[q].row
    BY <1>1, <2>1 DEF GoesOn, LastPlace
  <2>4. CASE desk[q].op = "listStamps" /\ table.stamps = <<>>
    BY <2>4, FactsAre, <1>1, <1>2, <2>2, <2>3, PapersRead DEF PaperHeld
  <2>5. CASE desk[q].op = "stampDetail" /\ ~(desk[q].row <= Len(table.stamps))
    <3>1. Facts(desk[q].op, table).stamps < desk[q].row
      BY <1>1, <2>5, FactsAre DEF Common, TableTyped
    <3> QED
      BY <1>1, <1>2, <2>2, <2>3, <2>5, <3>1, PapersRead DEF PaperHeld
  <2>6. CASE Says(q, "done")
    BY <1>4, <2>6
  <2> QED
    BY <1>3, <2>4, <2>5, <2>6
<1> QED
  BY <1>3, <1>4, <1>5

(* The seals stand in.                                                     *)
LEMMA ReadSealsActs ==
  ASSUME Common, PapersHeld, NEW q \in DeskRequests, ReadSeals(q) \/ ReadSeal(q)
  PROVE  Acts(q, PaperRoutes, {}) /\ PapersHeld'
<1>1. desk[q].out = "asked" /\ desk[q].op \in {"listStamps", "stampDetail"} /\ desk[q].at = 2
  BY AtPlace DEF ReadSeals, ReadSeal, Stands
<1>2. UNCHANGED <<table, was, tied, spent>>
  BY DEF ReadSeals, ReadSeal, OnlyReads
<1>3. PICK out \in {"seals", "missing"} : Says(q, out)
  BY DEF ReadSeals, ReadSeal
<1>4. EndsAs(q, out) /\ Stepped(q)
  BY <1>1, <1>3, Saying
<1>5. Acts(q, PaperRoutes, {})
  BY <1>1, <1>2, <1>4, ReadsAct DEF PaperRoutes
<1>6. PaperHeld(desk[q], was[q])
  BY DEF PapersHeld
<1>7. PaperHeld(desk'[q], was'[q])
  BY <1>1, <1>2, <1>4, <1>6 DEF PaperHeld, EndsAs
<1> QED
  BY <1>1, <1>5, <1>7, PapersRead

(* A receipt holds what its request has read.                              *)
LEMMA InsertReceiptActs ==
  ASSUME Common, PapersHeld, NEW q \in DeskRequests, InsertReceipt(q)
  PROVE  Acts(q, PaperRoutes, {"receipts", "stamps"}) /\ PapersHeld'
<1>1. desk[q].out = "asked" /\ desk[q].op = "receipt" /\ desk[q].at = 3 /\ desk[q].seen \in Nat
  BY AtPlace DEF InsertReceipt, Stands
<1> DEFINE row == [by |-> q, succeeded |-> desk[q].seen]
           next == [table EXCEPT !.receipts = Append(@, row)]
<1>2. Stores(next) /\ On(q)
  BY DEF InsertReceipt
<1>3. row \in [by : DeskRequests, succeeded : Nat] /\ row.by = q /\ row.succeeded = desk[q].seen
  BY <1>1
<1>4. next.receipts = Append(table.receipts, row)
      /\ (\A other \in TableParts \ {"receipts"} : next[other] = table[other]) /\ DOMAIN next = TableParts
  BY DEF Common, TableTyped, TableParts
<1> HIDE DEF row, next
<1>5. table' = next /\ table'.receipts = Append(table.receipts, row) /\ table'.stamps = table.stamps
  BY <1>2, <1>4, Storing DEF TableParts
<1>6. table.receipts \in Seq([by : DeskRequests, succeeded : Nat])
  BY DEF Common, TableTyped
<1>7. TableTyped'
  <2>1. Append(table.receipts, row) \in Seq([by : DeskRequests, succeeded : Nat])
    BY <1>3, <1>6
  <2>2. \A other \in TableParts \ {"receipts"} : table'[other] = table[other]
    BY <1>4, <1>5
  <2> QED
    BY <1>4, <1>5, <2>1, <2>2, TableKept DEF Common
<1>8. GoesOn(q, desk[q].seen, desk[q].also) /\ Stepped(q)
  BY <1>1, <1>2, Going
<1>9. Acts(q, PaperRoutes, {"receipts", "stamps"})
  BY <1>1, <1>2, <1>4, <1>5, <1>7, <1>8, StoresAct DEF PaperRoutes
<1>10. desk'[q].op = "receipt" /\ desk'[q].at = 3 /\ desk'[q].out = "done" /\ desk'[q].seen = desk[q].seen
  BY <1>1, <1>8 DEF GoesOn, LastPlace
<1>11. \A p \in DeskRequests : desk[p].op # "none" => was[p] \subseteq was'[p]
  BY <1>9 DEF Acts, Seeing
<1>12. ASSUME NEW p \in DeskRequests PROVE PaperHeld(desk'[p], was'[p])
  BY <1>1, <1>10, <1>11, <1>8 DEF PapersHeld, PaperHeld, Stepped, Others
<1>13. \A p \in DeskRequests : PaperHeld(desk[p], was[p])'
  BY <1>12 DEF PaperHeld
<1>14. WrittenFor(table'.receipts, "receipt", desk')
  <2>1. \A n \in DOMAIN table.receipts : table.receipts[n].by \in DeskRequests
    BY RowsBy
  <2>2. WrittenFor(table.receipts, "receipt", desk)
    BY DEF PapersHeld
  <2>3. WrittenFor(Append(table.receipts, row), "receipt", desk')
    BY <1>1, <1>3, <1>6, <1>8, <1>10, <2>1, <2>2, WrittenGrows
  <2> QED
    BY <1>5, <2>3
<1>15. WrittenFor(table'.stamps, "stamp", desk')
  BY <1>1, <1>8, <1>5, RowsBy, WrittenStays DEF Stepped, Others, PapersHeld
<1>16. \A n \in DOMAIN table'.receipts :
       /\ \E f \in was'[table'.receipts[n].by] : f.bill = "paid"
       /\ \E f \in was'[table'.receipts[n].by] : Succeeded(f.jobs) = table'.receipts[n].succeeded
  <2> SUFFICES ASSUME NEW n \in DOMAIN table'.receipts
               PROVE  /\ \E f \in was'[table'.receipts[n].by] : f.bill = "paid"
                      /\ \E f \in was'[table'.receipts[n].by] : Succeeded(f.jobs) = table'.receipts[n].succeeded
    OBVIOUS
  <2>1. CASE n \in DOMAIN table.receipts
    <3>1. table'.receipts[n] = table.receipts[n] /\ was[table.receipts[n].by] \subseteq was'[table.receipts[n].by]
      BY <1>5, <1>6, <1>11, <2>1, RowsBy DEF PapersHeld, WrittenFor
    <3> QED
      BY <2>1, <3>1 DEF PapersHeld
  <2>2. CASE n \notin DOMAIN table.receipts
    <3>1. table'.receipts[n] = row
      BY <1>5, <1>6, <2>2
    <3>2. PaperHeld(desk[q], was[q]) /\ was[q] \subseteq was'[q]
      BY <1>1, <1>11 DEF PapersHeld
    <3> QED
      BY <1>1, <1>3, <3>1, <3>2 DEF PaperHeld
  <2> QED
    BY <2>1, <2>2
<1>17. \A n \in DOMAIN table.stamps : \E f \in was'[table.stamps[n].by] : Attests(table.stamps[n].state, Failed(f.jobs))
  BY <1>11, RowsBy DEF PapersHeld, WrittenFor
<1> QED
  BY <1>5, <1>9, <1>13, <1>14, <1>15, <1>16, <1>17 DEF PapersHeld

(* A stamp attests what its request has counted.                           *)
LEMMA InsertStampActs ==
  ASSUME Common, PapersHeld, NEW q \in DeskRequests, InsertStamp(q)
  PROVE  Acts(q, PaperRoutes, {"receipts", "stamps"}) /\ PapersHeld'
<1>1. desk[q].out = "asked" /\ desk[q].op = "stamp" /\ desk[q].at = 2 /\ desk[q].seen \in Nat
  BY AtPlace DEF InsertStamp, Stands
<1> DEFINE state == StampState([total |-> Cardinality(JobIds), succeeded |-> desk[q].seen, failed |-> desk[q].also])
           row == [by |-> q, state |-> state]
           next == [table EXCEPT !.stamps = Append(@, row)]
<1>2. Stores(next) /\ On(q)
  BY DEF InsertStamp
<1>0. PaperHeld(desk[q], was[q])
  BY DEF PapersHeld
<1>18. PICK f \in was[q] : Failed(f.jobs) = desk[q].also
  BY <1>0, <1>1 DEF PaperHeld
<1>19. Attests(state, Failed(f.jobs)) /\ state \in {"partial", "failed", "executed"}
  BY <1>18, CountsAre, StampAttests
<1> HIDE DEF state
<1>3. row \in [by : DeskRequests, state : {"partial", "failed", "executed"}] /\ row.by = q /\ row.state = state
  BY <1>19
<1>4. next.stamps = Append(table.stamps, row)
      /\ (\A other \in TableParts \ {"stamps"} : next[other] = table[other]) /\ DOMAIN next = TableParts
  BY DEF Common, TableTyped, TableParts
<1> HIDE DEF row, next
<1>5. table' = next /\ table'.stamps = Append(table.stamps, row) /\ table'.receipts = table.receipts
  BY <1>2, <1>4, Storing DEF TableParts
<1>6. table.stamps \in Seq([by : DeskRequests, state : {"partial", "failed", "executed"}])
  BY DEF Common, TableTyped
<1>7. TableTyped'
  <2>1. Append(table.stamps, row) \in Seq([by : DeskRequests, state : {"partial", "failed", "executed"}])
    BY <1>3, <1>6
  <2>2. \A other \in TableParts \ {"stamps"} : table'[other] = table[other]
    BY <1>4, <1>5
  <2> QED
    BY <1>4, <1>5, <2>1, <2>2, TableKept DEF Common
<1>8. GoesOn(q, desk[q].seen, desk[q].also) /\ Stepped(q)
  BY <1>1, <1>2, Going
<1>9. Acts(q, PaperRoutes, {"receipts", "stamps"})
  BY <1>1, <1>2, <1>4, <1>5, <1>7, <1>8, StoresAct DEF PaperRoutes
<1>10. desk'[q].op = "stamp" /\ desk'[q].at = 2 /\ desk'[q].out = "done" /\ desk'[q].also = desk[q].also
  BY <1>1, <1>8 DEF GoesOn, LastPlace
<1>11. \A p \in DeskRequests : desk[p].op # "none" => was[p] \subseteq was'[p]
  BY <1>9 DEF Acts, Seeing
<1>12. ASSUME NEW p \in DeskRequests PROVE PaperHeld(desk'[p], was'[p])
  BY <1>1, <1>10, <1>11, <1>8 DEF PapersHeld, PaperHeld, Stepped, Others
<1>13. \A p \in DeskRequests : PaperHeld(desk[p], was[p])'
  BY <1>12 DEF PaperHeld
<1>14. WrittenFor(table'.stamps, "stamp", desk')
  <2>1. \A n \in DOMAIN table.stamps : table.stamps[n].by \in DeskRequests
    BY RowsBy
  <2>2. WrittenFor(table.stamps, "stamp", desk)
    BY DEF PapersHeld
  <2>3. WrittenFor(Append(table.stamps, row), "stamp", desk')
    BY <1>1, <1>3, <1>6, <1>8, <1>10, <2>1, <2>2, WrittenGrows
  <2> QED
    BY <1>5, <2>3
<1>15. WrittenFor(table'.receipts, "receipt", desk')
  BY <1>1, <1>8, <1>5, RowsBy, WrittenStays DEF Stepped, Others, PapersHeld
<1>16. \A n \in DOMAIN table.receipts :
       /\ \E g \in was'[table.receipts[n].by] : g.bill = "paid"
       /\ \E g \in was'[table.receipts[n].by] : Succeeded(g.jobs) = table.receipts[n].succeeded
  BY <1>11, RowsBy DEF PapersHeld, WrittenFor
<1>17. \A n \in DOMAIN table'.stamps : \E g \in was'[table'.stamps[n].by] : Attests(table'.stamps[n].state, Failed(g.jobs))
  <2> SUFFICES ASSUME NEW n \in DOMAIN table'.stamps
               PROVE  \E g \in was'[table'.stamps[n].by] : Attests(table'.stamps[n].state, Failed(g.jobs))
    OBVIOUS
  <2>1. CASE n \in DOMAIN table.stamps
    BY <1>5, <1>6, <1>11, <2>1, RowsBy DEF PapersHeld, WrittenFor
  <2>2. CASE n \notin DOMAIN table.stamps
    BY <1>5, <1>6, <2>2, <1>1, <1>11, <1>3, <1>18, <1>19
  <2> QED
    BY <2>1, <2>2
<1> QED
  BY <1>5, <1>9, <1>13, <1>14, <1>15, <1>16, <1>17 DEF PapersHeld

-----------------------------------------------------------------------------
(***************************************************************************)
(* Licences, and the events of the evidence room.                          *)
(***************************************************************************)

(* What the licences' routes have done, and read.                          *)
CertificateHeld(r, moments, certificates) ==
  /\ r.op = "revoke" /\ r.out = "done" => r.row \in DOMAIN certificates /\ certificates[r.row] = "revoked"
  /\ r.op = "entitlement" /\ r.out = "done" =>
       \E f \in moments : /\ r.seen = Len(f.certificates)
                          /\ r.also = Cardinality({n \in DOMAIN f.certificates : f.certificates[n] = "revoked"})

CertificatesHeld == \A q \in DeskRequests : CertificateHeld(desk[q], was[q], table.certificates)

(* Steps of others leave the certificates as they are.                     *)
LEMMA CertificatesAside ==
  ASSUME Common, CertificatesHeld, Aside(CertificateRoutes, {"certificates"})
  PROVE  CertificatesHeld'
<1>1. table'.certificates = table.certificates
  BY DEF Aside
<1>2. ASSUME NEW p \in DeskRequests PROVE CertificateHeld(desk'[p], was'[p], table'.certificates)
  BY <1>1 DEF CertificatesHeld, Aside, CertificateHeld, Arriving, Failing, CertificateRoutes
<1> QED
  BY <1>2 DEF CertificatesHeld, CertificateHeld

(* A step of q, whose own facts hold then, that keeps what is revoked.     *)
LEMMA CertificatesMove ==
  ASSUME Common, CertificatesHeld, NEW q \in DeskRequests, NEW ops, NEW fields, Acts(q, ops, fields),
         CertificateHeld(desk'[q], was'[q], table'.certificates),
         \A n \in DOMAIN table.certificates :
           n \in DOMAIN table'.certificates /\ table'.certificates[n] \in {table.certificates[n], "revoked"}
  PROVE  CertificatesHeld'
<1>1. ASSUME NEW p \in DeskRequests, p # q PROVE CertificateHeld(desk'[p], was'[p], table'.certificates)
  <2>1. CertificateHeld(desk[p], was[p], table.certificates) /\ desk'[p] = desk[p]
    BY <1>1 DEF CertificatesHeld, Acts, Stepped, Others
  <2>2. desk[p].op # "none" => was[p] \subseteq was'[p]
    BY DEF Acts, Seeing
  <2> QED
    BY <2>1, <2>2 DEF CertificateHeld
<1>2. ASSUME NEW p \in DeskRequests PROVE CertificateHeld(desk[p], was[p], table.certificates)'
  BY <1>1 DEF CertificateHeld
<1> QED
  BY <1>2 DEF CertificatesHeld

(* A certificate is added.                                                 *)
LEMMA InsertCertificateActs ==
  ASSUME Common, CertificatesHeld, NEW q \in DeskRequests, InsertCertificate(q)
  PROVE  Acts(q, CertificateRoutes, {"certificates"}) /\ CertificatesHeld'
<1>1. desk[q].out = "asked" /\ desk[q].op = "issue" /\ desk[q].at = 1
  BY AtPlace DEF InsertCertificate, Stands
<1> DEFINE next == [table EXCEPT !.certificates = Append(@, "issued")]
<1>2. Stores(next) /\ OnWith(q, [desk[q] EXCEPT !.seen = Len(table.certificates) + 1])
  BY DEF InsertCertificate
<1>3. next.certificates = Append(table.certificates, "issued")
      /\ (\A other \in TableParts \ {"certificates"} : next[other] = table[other]) /\ DOMAIN next = TableParts
  BY DEF Common, TableTyped, TableParts
<1> HIDE DEF next
<1>4. table' = next
  BY <1>2, Storing
<1>5. table.certificates \in Seq({"issued", "revoked"}) /\ Len(table.certificates) \in Nat
  BY DEF Common, TableTyped
<1>6. table'.certificates \in Seq({"issued", "revoked"})
  BY <1>3, <1>4, <1>5, SMTT(30)
<1>7. TableTyped'
  BY <1>3, <1>4, <1>6, TableKept DEF Common
<1>8. GoesOn(q, Len(table.certificates) + 1, desk[q].also) /\ Stepped(q)
  <2> DEFINE seen == Len(table.certificates) + 1
  <2>1. seen \in Nat
    BY <1>5
  <2>2. OnWith(q, [desk[q] EXCEPT !.seen = seen])
    BY <1>2
  <2> HIDE DEF seen
  <2>3. GoesOn(q, seen, desk[q].also) /\ Stepped(q)
    BY <1>1, <2>1, <2>2, GoingSeen
  <2> QED
    BY <2>3 DEF seen
<1>9. Acts(q, CertificateRoutes, {"certificates"})
  BY <1>1, <1>2, <1>3, <1>4, <1>7, <1>8, StoresAct DEF CertificateRoutes
<1>10. CertificateHeld(desk'[q], was'[q], table'.certificates)
  BY <1>1, <1>8 DEF CertificateHeld, GoesOn
<1>11. \A n \in DOMAIN table.certificates :
         n \in DOMAIN table'.certificates /\ table'.certificates[n] \in {table.certificates[n], "revoked"}
  BY <1>3, <1>4, <1>5
<1> QED
  BY <1>9, <1>10, <1>11, CertificatesMove

(* A certificate that is there is revoked.                                 *)
LEMMA UpdateCertificateActs ==
  ASSUME Common, CertificatesHeld, NEW q \in DeskRequests, UpdateCertificate(q)
  PROVE  Acts(q, CertificateRoutes, {"certificates"}) /\ CertificatesHeld'
<1>1. desk[q].out = "asked" /\ desk[q].op = "revoke" /\ desk[q].at = 1 /\ desk[q].row \in Nat /\ desk[q].row > 0
  BY AtPlace DEF UpdateCertificate, Stands, Common, Present, RequestTyped
<1>2. table.certificates \in Seq({"issued", "revoked"}) /\ Len(table.certificates) \in Nat
  BY DEF Common, TableTyped
<1>3. CASE desk[q].row > Len(table.certificates)
  BY <1>3, <1>1, Saying, ReadsAct, CertificatesMove DEF UpdateCertificate, OnlyReads, CertificateRoutes,
     CertificateHeld, EndsAs, Acts
<1>4. CASE ~(desk[q].row > Len(table.certificates))
  <2> DEFINE more == [table.certificates EXCEPT ![desk[q].row] = "revoked"]
             next == [table EXCEPT !.certificates = more]
  <2>1. Stores(next) /\ On(q)
    BY <1>4 DEF UpdateCertificate
  <2>2. next.certificates = more
        /\ (\A other \in TableParts \ {"certificates"} : next[other] = table[other]) /\ DOMAIN next = TableParts
    BY DEF Common, TableTyped, TableParts
  <2>3. more \in Seq({"issued", "revoked"}) /\ desk[q].row \in DOMAIN more /\ more[desk[q].row] = "revoked"
        /\ \A n \in DOMAIN table.certificates : n \in DOMAIN more /\ more[n] \in {table.certificates[n], "revoked"}
    BY <1>1, <1>2, <1>4
  <2> HIDE DEF next, more
  <2>4. table' = next
    BY <2>1, Storing
  <2>5. TableTyped'
    BY <2>2, <2>4, <2>3, TableKept DEF Common
  <2>6. GoesOn(q, desk[q].seen, desk[q].also) /\ Stepped(q)
    BY <1>1, <2>1, Going
  <2>7. Acts(q, CertificateRoutes, {"certificates"})
    BY <1>1, <2>1, <2>2, <2>4, <2>5, <2>6, StoresAct DEF CertificateRoutes
  <2>8. CertificateHeld(desk'[q], was'[q], table'.certificates)
    BY <1>1, <2>2, <2>3, <2>4, <2>6 DEF CertificateHeld, GoesOn
  <2> QED
    BY <2>2, <2>3, <2>4, <2>7, <2>8, CertificatesMove
<1> QED
  BY <1>3, <1>4

(* A list is that of the moment.                                           *)
LEMMA ReadCertificatesActs ==
  ASSUME Common, CertificatesHeld, NEW q \in DeskRequests, ReadCertificates(q)
  PROVE  Acts(q, CertificateRoutes, {}) /\ CertificatesHeld'
<1> DEFINE revoked == {n \in DOMAIN table.certificates : table.certificates[n] = "revoked"}
<1>1. desk[q].out = "asked" /\ desk[q].op = "entitlement" /\ desk[q].at = 1 /\ Facts(desk[q].op, table) \in was[q]
  BY AtPlace DEF ReadCertificates, Stands
<1>2. table.certificates \in Seq({"issued", "revoked"}) /\ Len(table.certificates) \in Nat
  BY DEF Common, TableTyped
<1>3. Cardinality(revoked) \in Nat
  <2>1. IsFiniteSet(1 .. Len(table.certificates))
    BY <1>2, FS_Interval
  <2>2. DOMAIN table.certificates = 1 .. Len(table.certificates)
    BY <1>2
  <2>3. revoked \subseteq 1 .. Len(table.certificates)
    BY <2>2
  <2> HIDE DEF revoked
  <2> QED
    BY <2>1, <2>3, FS_Subset, FS_CardinalityType
<1>4. UNCHANGED <<table, was>>
      /\ OnWith(q, [desk[q] EXCEPT !.seen = Len(table.certificates), !.also = Cardinality(revoked)])
  BY DEF ReadCertificates, OnlyReads
<1>5. GoesOn(q, Len(table.certificates), Cardinality(revoked)) /\ Stepped(q)
  BY <1>1, <1>2, <1>3, <1>4, GoingWith
<1>6. Acts(q, CertificateRoutes, {})
  BY <1>1, <1>4, <1>5, ReadsAct DEF CertificateRoutes
<1>7. Facts(desk[q].op, table).certificates = table.certificates
  BY <1>1, FactsAre
<1>8. CertificateHeld(desk'[q], was'[q], table'.certificates)
  BY <1>1, <1>5, <1>7, <1>4 DEF GoesOn, CertificateHeld
<1> QED
  BY <1>4, <1>6, <1>8, CertificatesMove

-----------------------------------------------------------------------------
(* What the evidence routes have read of the events.                       *)
EventHeld(r, there) ==
  /\ r.op \in {"customer", "export"} /\ r.at >= 2 => r.seen <= there
  /\ r.op = "customer" /\ r.out = "done" => r.seen <= r.also
  /\ r.op = "exported" /\ r.at >= 2 => r.also <= there
  /\ r.op = "exported" /\ r.out = "done" => r.also <= r.seen

EventsHeld ==
  /\ \A q \in DeskRequests : EventHeld(desk[q], table.events)
  /\ \A n \in DOMAIN table.exports : table.exports[n] <= table.events

(* Steps of others leave what was read of the events true, as they only    *)
(* grow.                                                                   *)
LEMMA EventsAside ==
  ASSUME Common, EventsHeld, Aside(EventRoutes, {"exports"}), table'.events \in Nat, table'.events >= table.events
  PROVE  EventsHeld'
<1>1. table'.exports = table.exports /\ table.events \in Nat
  BY DEF Aside, Common, TableTyped
<1>2. ASSUME NEW p \in DeskRequests PROVE EventHeld(desk'[p], table'.events)
  BY <1>1 DEF EventsHeld, Common, Present, RequestTyped, EventHeld, Arriving, Failing, EventRoutes, Aside
<1>3. \A n \in DOMAIN table.exports : table.exports[n] \in Nat
  BY ElementsOf DEF Common, TableTyped
<1>4. \A n \in DOMAIN table'.exports : table'.exports[n] <= table'.events
  BY <1>1, <1>3 DEF EventsHeld
<1> QED
  BY <1>2, <1>4 DEF EventsHeld, EventHeld

(* A step that reads leaves the exports.                                   *)
LEMMA EventsRead ==
  ASSUME Common, EventsHeld, NEW q \in DeskRequests, Stepped(q), UNCHANGED table, EventHeld(desk'[q], table.events)
  PROVE  EventsHeld'
BY DEF EventsHeld, EventHeld, Stepped, Others

(* The events of the moment are read.                                      *)
LEMMA ReadEventsActs ==
  ASSUME Common, EventsHeld, NEW q \in DeskRequests, ReadEvents(q)
  PROVE  Acts(q, EventRoutes, {}) /\ EventsHeld'
<1>1. /\ desk[q].out = "asked" /\ desk[q].also \in Nat
      /\ (desk[q].op \in {"export", "customer"} /\ desk[q].at = 1) \/ (desk[q].op = "exported" /\ desk[q].at = 2)
  BY AtPlace DEF ReadEvents, Stands
<1>2. table.events \in Nat
  BY DEF Common, TableTyped
<1>3. UNCHANGED <<table, was>> /\ OnWith(q, [desk[q] EXCEPT !.seen = table.events])
  BY DEF ReadEvents, OnlyReads
<1>4. GoesOn(q, table.events, desk[q].also) /\ Stepped(q)
  BY <1>1, <1>2, <1>3, GoingSeen
<1>5. Acts(q, EventRoutes, {})
  BY <1>1, <1>3, <1>4, ReadsAct DEF EventRoutes
<1>6. EventHeld(desk[q], table.events)
  BY DEF EventsHeld
<1>7. EventHeld(desk'[q], table.events)
  BY <1>1, <1>2, <1>4, <1>6 DEF EventHeld, GoesOn, LastPlace
<1> QED
  BY <1>3, <1>4, <1>5, <1>7, EventsRead

(* What is counted covers what was read.                                   *)
LEMMA CountEventsActs ==
  ASSUME Common, EventsHeld, NEW q \in DeskRequests, CountEvents(q)
  PROVE  Acts(q, EventRoutes, {}) /\ EventsHeld'
<1>1. desk[q].out = "asked" /\ desk[q].seen \in Nat /\ desk[q].op = "customer" /\ desk[q].at = 2
  BY AtPlace DEF CountEvents, Stands
<1>2. table.events \in Nat
  BY DEF Common, TableTyped
<1>3. UNCHANGED <<table, was>> /\ OnWith(q, [desk[q] EXCEPT !.also = table.events])
  BY DEF CountEvents, OnlyReads
<1>4. GoesOn(q, desk[q].seen, table.events) /\ Stepped(q)
  BY <1>1, <1>2, <1>3, GoingAlso
<1>5. Acts(q, EventRoutes, {})
  BY <1>1, <1>3, <1>4, ReadsAct DEF EventRoutes
<1>6. EventHeld(desk[q], table.events)
  BY DEF EventsHeld
<1>7. EventHeld(desk'[q], table.events)
  BY <1>1, <1>2, <1>4, <1>6 DEF EventHeld, GoesOn, LastPlace
<1> QED
  BY <1>3, <1>4, <1>5, <1>7, EventsRead

(* An export holds events there are.                                       *)
LEMMA ReadExportActs ==
  ASSUME Common, EventsHeld, NEW q \in DeskRequests, ReadExport(q)
  PROVE  Acts(q, EventRoutes, {}) /\ EventsHeld'
<1>1. desk[q].out = "asked" /\ desk[q].op = "exported" /\ desk[q].at = 1 /\ desk[q].row \in Nat /\ desk[q].row > 0
      /\ desk[q].seen \in Nat
  BY AtPlace DEF ReadExport, Stands, Common, Present, RequestTyped
<1>2. UNCHANGED <<table, was>>
  BY DEF ReadExport, OnlyReads
<1>3. CASE desk[q].row > Len(table.exports)
  BY <1>1, <1>3, Saying, <1>2, ReadsAct, EventsRead DEF ReadExport, EventRoutes, EventHeld, EndsAs
<1>4. CASE ~(desk[q].row > Len(table.exports))
  <2> DEFINE also == table.exports[desk[q].row]
  <2>1. desk[q].row \in DOMAIN table.exports /\ also \in Nat
    BY <1>1, <1>4, ElementsOf, SMTT(30) DEF Common, TableTyped
  <2>2. also <= table.events
    BY <2>1 DEF EventsHeld
  <2>3. OnWith(q, [desk[q] EXCEPT !.also = also])
    BY <1>4 DEF ReadExport
  <2> HIDE DEF also
  <2>4. GoesOn(q, desk[q].seen, also) /\ Stepped(q)
    BY <1>1, <2>1, <2>3, GoingAlso
  <2>5. Acts(q, EventRoutes, {})
    BY <1>1, <1>2, <2>4, ReadsAct DEF EventRoutes
  <2>6. EventHeld(desk'[q], table.events)
    BY <1>1, <2>2, <2>4 DEF EventHeld, GoesOn, LastPlace
  <2> QED
    BY <1>2, <2>4, <2>5, <2>6, EventsRead
<1> QED
  BY <1>3, <1>4

(* An export is recorded with what was read.                               *)
LEMMA InsertExportActs ==
  ASSUME Common, EventsHeld, NEW q \in DeskRequests, InsertExport(q)
  PROVE  Acts(q, EventRoutes, {"exports"}) /\ EventsHeld'
<1>1. desk[q].out = "asked" /\ desk[q].op = "export" /\ desk[q].at = 2 /\ desk[q].seen \in Nat
  BY AtPlace DEF InsertExport, Stands
<1> DEFINE next == [table EXCEPT !.exports = Append(@, desk[q].seen)]
<1>2. Stores(next) /\ On(q)
  BY DEF InsertExport
<1>3. next.exports = Append(table.exports, desk[q].seen) /\ next.events = table.events
      /\ (\A other \in TableParts \ {"exports"} : next[other] = table[other]) /\ DOMAIN next = TableParts
  BY DEF Common, TableTyped, TableParts
<1> HIDE DEF next
<1>4. table' = next
  BY <1>2, Storing
<1>5. table.exports \in Seq(Nat)
  BY DEF Common, TableTyped
<1>6. Append(table.exports, desk[q].seen) \in Seq(Nat)
  BY <1>1, <1>5
<1>7. TableTyped'
  BY <1>3, <1>4, <1>6, TableKept DEF Common
<1>8. GoesOn(q, desk[q].seen, desk[q].also) /\ Stepped(q)
  BY <1>1, <1>2, Going
<1>9. Acts(q, EventRoutes, {"exports"})
  BY <1>1, <1>2, <1>3, <1>4, <1>7, <1>8, StoresAct DEF EventRoutes
<1>10. EventHeld(desk[q], table.events)
  BY DEF EventsHeld
<1>11. ASSUME NEW p \in DeskRequests PROVE EventHeld(desk'[p], table.events)
  BY <1>1, <1>8, <1>10 DEF EventHeld, GoesOn, EventsHeld, Stepped, Others
<1>12. \A n \in DOMAIN table'.exports : table'.exports[n] <= table.events
  <2>1. desk[q].seen <= table.events
    BY <1>1, <1>10 DEF EventHeld
  <2>2. \A n \in DOMAIN table'.exports : (n \in DOMAIN table.exports /\ table'.exports[n] = table.exports[n])
                                         \/ table'.exports[n] = desk[q].seen
    BY <1>3, <1>4, <1>5, SMTT(30)
  <2> QED
    BY <2>1, <2>2 DEF EventsHeld
<1> QED
  BY <1>3, <1>4, <1>9, <1>11, <1>12 DEF EventsHeld, EventHeld

-----------------------------------------------------------------------------
(***************************************************************************)
(* Incidents and their resolvers.                                          *)
(***************************************************************************)

(* A resolver that has read its incident open.                             *)
Resolving(r) == r.op = "resolve" /\ r.at = 2 /\ r.out = "asked"

IncidentHeld(r, moments, incidents) ==
  /\ Resolving(r) => r.row \in DOMAIN incidents
  /\ r.op = "resolve" /\ r.out \in {"done", "refused"} =>
       r.row \in DOMAIN incidents /\ incidents[r.row].status = "resolved"
  /\ r.op = "metrics" /\ r.out = "done" => \E f \in moments : r.seen + r.also = Len(f.incidents)

(* An incident has a second note only when its resolvers were tied.        *)
NotesHeld(incidents, ties) ==
  \A n \in DOMAIN incidents :
    /\ incidents[n].status = "resolved" <=> incidents[n].notes > 0
    /\ n \notin ties => incidents[n].notes <= 1

TiesHeld(requests, incidents, ties) ==
  /\ \A q \in DeskRequests : Resolving(requests[q]) /\ incidents[requests[q].row].status = "resolved" => requests[q].row \in ties
  /\ \A p, q \in DeskRequests :
       Resolving(requests[p]) /\ Resolving(requests[q]) /\ requests[p].row = requests[q].row /\ p # q => requests[q].row \in ties

IncidentsHeld ==
  /\ \A q \in DeskRequests : IncidentHeld(desk[q], was[q], table.incidents)
  /\ NotesHeld(table.incidents, tied) /\ TiesHeld(desk, table.incidents, tied)

(* Steps of others leave the incidents as they are.                        *)
LEMMA IncidentsAside ==
  ASSUME Common, IncidentsHeld, Aside(IncidentRoutes, {"incidents"}), tied' = tied
  PROVE  IncidentsHeld'
<1>1. table'.incidents = table.incidents
  BY DEF Aside
<1>2. ASSUME NEW p \in DeskRequests
      PROVE  /\ IncidentHeld(desk'[p], was'[p], table.incidents)
             /\ Resolving(desk'[p]) => desk'[p] = desk[p]
  BY <1>1 DEF IncidentsHeld, Aside, IncidentHeld, Arriving, Resolving, Failing, IncidentRoutes
<1>3. TiesHeld(desk', table.incidents, tied)
  BY <1>2 DEF IncidentsHeld, TiesHeld
<1>4. ASSUME NEW p \in DeskRequests PROVE IncidentHeld(desk[p], was[p], table.incidents)'
  BY <1>1, <1>2 DEF IncidentHeld, Resolving
<1>5. TiesHeld(desk, table.incidents, tied)'
  BY <1>1, <1>3 DEF TiesHeld, Resolving
<1>6. NotesHeld(table.incidents, tied)'
  BY <1>1 DEF IncidentsHeld, NotesHeld
<1> QED
  BY <1>4, <1>5, <1>6 DEF IncidentsHeld

(* A step of q that keeps what is resolved; the rest is said of the tables *)
(* themselves.                                                             *)
LEMMA IncidentsMove ==
  ASSUME Common, IncidentsHeld, NEW q \in DeskRequests, NEW ops, NEW fields, Acts(q, ops, fields),
         IncidentHeld(desk'[q], was'[q], table'.incidents),
         \A n \in DOMAIN table.incidents :
           n \in DOMAIN table'.incidents
             /\ (table.incidents[n].status = "resolved" => table'.incidents[n].status = "resolved"),
         NotesHeld(table'.incidents, tied'), TiesHeld(desk', table'.incidents, tied')
  PROVE  IncidentsHeld'
<1>1. ASSUME NEW p \in DeskRequests, p # q PROVE IncidentHeld(desk'[p], was'[p], table'.incidents)
  BY <1>1 DEF IncidentsHeld, Acts, Stepped, Others, Seeing, IncidentHeld, Resolving
<1>2. ASSUME NEW p \in DeskRequests PROVE IncidentHeld(desk[p], was[p], table.incidents)'
  BY <1>1 DEF IncidentHeld, Resolving
<1>3. NotesHeld(table.incidents, tied)'
  BY DEF NotesHeld
<1>4. TiesHeld(desk, table.incidents, tied)'
  BY DEF TiesHeld, Resolving
<1> QED
  BY <1>2, <1>3, <1>4 DEF IncidentsHeld

(* The incidents of the table.                                             *)
LEMMA IncidentsAre ==
  ASSUME Common
  PROVE  /\ table.incidents \in Seq([status : {"open", "resolved"}, notes : Nat])
         /\ Len(table.incidents) \in Nat /\ DOMAIN table.incidents = 1 .. Len(table.incidents)
         /\ \A n \in DOMAIN table.incidents :
              /\ table.incidents[n] \in [status : {"open", "resolved"}, notes : Nat]
              /\ table.incidents[n].status \in {"open", "resolved"} /\ table.incidents[n].notes \in Nat
<1>1. table.incidents \in Seq([status : {"open", "resolved"}, notes : Nat])
  BY DEF Common, TableTyped
<1>2. \A n \in DOMAIN table.incidents : table.incidents[n] \in [status : {"open", "resolved"}, notes : Nat]
  BY <1>1, ElementsOf
<1> QED
  BY <1>1, <1>2

(* An incident is opened without notes.                                    *)
LEMMA InsertIncidentActs ==
  ASSUME Common, IncidentsHeld, NEW q \in DeskRequests, InsertIncident(q)
  PROVE  Acts(q, IncidentRoutes, {"incidents"}) /\ IncidentsHeld'
<1>1. desk[q].out = "asked" /\ desk[q].op = "open" /\ desk[q].at = 1
  BY AtPlace DEF InsertIncident, Stands
<1> DEFINE row == [status |-> "open", notes |-> 0]
           next == [table EXCEPT !.incidents = Append(@, row)]
<1>2. Stores(next) /\ On(q) /\ tied' = tied
  BY DEF InsertIncident
<1>3. row \in [status : {"open", "resolved"}, notes : Nat] /\ row.status = "open" /\ row.notes = 0
  OBVIOUS
<1>4. next.incidents = Append(table.incidents, row)
      /\ (\A other \in TableParts \ {"incidents"} : next[other] = table[other]) /\ DOMAIN next = TableParts
  BY DEF Common, TableTyped, TableParts
<1> HIDE DEF next, row
<1>5. table' = next
  BY <1>2, Storing
<1>6. Append(table.incidents, row) \in Seq([status : {"open", "resolved"}, notes : Nat])
  BY <1>3, IncidentsAre
<1>7. TableTyped'
  BY <1>4, <1>5, <1>6, TableKept DEF Common
<1>8. GoesOn(q, desk[q].seen, desk[q].also) /\ Stepped(q)
  BY <1>1, <1>2, Going
<1>9. Acts(q, IncidentRoutes, {"incidents"})
  BY <1>1, <1>2, <1>4, <1>5, <1>7, <1>8, StoresAct DEF IncidentRoutes
<1>10. IncidentHeld(desk'[q], was'[q], table'.incidents)
  BY <1>1, <1>8 DEF IncidentHeld, GoesOn, Resolving
<1>11. /\ \A n \in DOMAIN table.incidents : n \in DOMAIN table'.incidents /\ table'.incidents[n] = table.incidents[n]
       /\ \A n \in DOMAIN table'.incidents : n \in DOMAIN table.incidents \/ table'.incidents[n] = row
  BY <1>4, <1>5, IncidentsAre
<1>12. NotesHeld(table'.incidents, tied')
  BY <1>2, <1>3, <1>11 DEF IncidentsHeld, NotesHeld
<1>13. \A p \in DeskRequests : Resolving(desk'[p]) => desk'[p] = desk[p] /\ desk[p].row \in DOMAIN table.incidents
  BY <1>1, <1>8 DEF Resolving, Stepped, Others, IncidentsHeld, IncidentHeld
<1>14. TiesHeld(desk', table'.incidents, tied')
  BY <1>2, <1>11, <1>13 DEF IncidentsHeld, TiesHeld
<1> QED
  BY <1>9, <1>10, <1>11, <1>12, <1>14, IncidentsMove

(* The resolvers are the requests at the update.                           *)
LEMMA AtUpdate ==
  ASSUME Common, NEW p \in DeskRequests
  PROVE  AtStatement(p, "updateIncident") <=> Resolving(desk[p])
BY AtPlace DEF Stands, Resolving, AtStatement, Script

(* Who reads an incident open while another resolver has is tied with it.  *)
LEMMA ReadIncidentActs ==
  ASSUME Common, IncidentsHeld, NEW q \in DeskRequests, ReadIncident(q)
  PROVE  Acts(q, IncidentRoutes, {}) /\ IncidentsHeld'
<1>1. desk[q].out = "asked" /\ desk[q].op = "resolve" /\ desk[q].at = 1 /\ desk[q].row \in Nat /\ desk[q].row > 0
  BY AtPlace DEF ReadIncident, Stands, Common, Present, RequestTyped
<1>2. UNCHANGED <<table, was>>
  BY DEF ReadIncident
<1> DEFINE n == desk[q].row
<1>3. \/ n > Len(table.incidents) /\ Says(q, "missing") /\ tied' = tied
      \/ n <= Len(table.incidents) /\ table.incidents[n].status = "resolved" /\ Says(q, "refused") /\ tied' = tied
      \/ /\ ~(n > Len(table.incidents)) /\ ~(n <= Len(table.incidents) /\ table.incidents[n].status = "resolved")
         /\ On(q)
         /\ tied' = tied \cup {m \in {n} : \E p \in DeskRequests : AtStatement(p, "updateIncident") /\ desk[p].row = m}
  BY DEF ReadIncident
<1>4. NotesHeld(table'.incidents, tied')
  BY <1>2, <1>3 DEF IncidentsHeld, NotesHeld
<1>5. tied \subseteq tied'
  BY <1>3
<1>6. ASSUME NEW out \in {"missing", "refused"}, Says(q, out),
             out = "refused" => n <= Len(table.incidents) /\ table.incidents[n].status = "resolved"
      PROVE  Acts(q, IncidentRoutes, {}) /\ IncidentsHeld'
  <2>1. EndsAs(q, out) /\ Stepped(q)
    BY <1>1, <1>6, Saying
  <2>2. Acts(q, IncidentRoutes, {})
    BY <1>1, <1>2, <2>1, ReadsAct DEF IncidentRoutes
  <2>3. out = "refused" => n \in DOMAIN table.incidents /\ table.incidents[n].status = "resolved"
    BY <1>1, <1>6, IncidentsAre
  <2>4. IncidentHeld(desk'[q], was'[q], table'.incidents)
    BY <1>1, <1>2, <2>1, <2>3 DEF IncidentHeld, EndsAs, Resolving
  <2>5. \A p \in DeskRequests : Resolving(desk'[p]) => desk'[p] = desk[p]
    BY <1>1, <2>1 DEF Resolving, EndsAs, Others
  <2>6. TiesHeld(desk', table'.incidents, tied')
    BY <1>2, <1>5, <2>5 DEF IncidentsHeld, TiesHeld
  <2> QED
    BY <1>2, <1>4, <2>2, <2>4, <2>6, IncidentsMove
<1>7. ASSUME ~(n > Len(table.incidents)), ~(n <= Len(table.incidents) /\ table.incidents[n].status = "resolved"), On(q),
             tied' = tied \cup {m \in {n} : \E p \in DeskRequests : AtStatement(p, "updateIncident") /\ desk[p].row = m}
      PROVE  Acts(q, IncidentRoutes, {}) /\ IncidentsHeld'
  <2>1. GoesOn(q, desk[q].seen, desk[q].also) /\ Stepped(q)
    BY <1>1, <1>7, Going
  <2>2. Acts(q, IncidentRoutes, {})
    BY <1>1, <1>2, <2>1, ReadsAct DEF IncidentRoutes
  <2>3. n \in DOMAIN table.incidents /\ table.incidents[n].status # "resolved"
    BY <1>1, <1>7, IncidentsAre
  <2>4. desk'[q].op = "resolve" /\ desk'[q].at = 2 /\ desk'[q].out = "asked" /\ desk'[q].row = n
    BY <1>1, <2>1 DEF GoesOn, LastPlace
  <2>5. IncidentHeld(desk'[q], was'[q], table'.incidents)
    BY <1>2, <2>3, <2>4 DEF IncidentHeld, Resolving
  <2>6. \A p \in DeskRequests : p # q => desk'[p] = desk[p]
    BY <2>1 DEF GoesOn, Others
  <2>7. \A p \in DeskRequests : Resolving(desk[p]) /\ desk[p].row = n => n \in tied'
    BY <1>7, AtUpdate
  <2>8. ~Resolving(desk[q])
    BY <1>1 DEF Resolving
  <2>9. \A p \in DeskRequests : Resolving(desk'[p]) /\ table.incidents[desk'[p].row].status = "resolved" => desk'[p].row \in tied'
    BY <1>5, <2>3, <2>4, <2>6 DEF IncidentsHeld, TiesHeld
  <2>10. ASSUME NEW p \in DeskRequests, NEW r \in DeskRequests, Resolving(desk'[p]), Resolving(desk'[r]),
                desk'[p].row = desk'[r].row, p # r
         PROVE  desk'[r].row \in tied'
    BY <2>4, <2>6, <2>7, <2>10, <1>5 DEF IncidentsHeld, TiesHeld
  <2>11. TiesHeld(desk', table'.incidents, tied')
    BY <1>2, <2>9, <2>10 DEF TiesHeld
  <2> QED
    BY <1>2, <1>4, <2>2, <2>5, <2>11, IncidentsMove
<1> HIDE DEF n
<1> QED
  BY <1>3, <1>6, <1>7

(* A second note is one of tied resolvers.                                 *)
LEMMA UpdateIncidentActs ==
  ASSUME Common, IncidentsHeld, NEW q \in DeskRequests, UpdateIncident(q)
  PROVE  Acts(q, IncidentRoutes, {"incidents"}) /\ IncidentsHeld'
<1> DEFINE n == desk[q].row
           row == [status |-> "resolved", notes |-> table.incidents[n].notes + 1]
           more == [table.incidents EXCEPT ![n] = row]
           next == [table EXCEPT !.incidents = more]
<1>1. desk[q].out = "asked" /\ desk[q].op = "resolve" /\ desk[q].at = 2 /\ Resolving(desk[q])
  BY AtPlace DEF UpdateIncident, Stands, Resolving
<1>2. Stores(next) /\ On(q) /\ tied' = tied
  BY DEF UpdateIncident
<1>3. n \in DOMAIN table.incidents
  BY <1>1 DEF IncidentsHeld, IncidentHeld
<1>4. row \in [status : {"open", "resolved"}, notes : Nat] /\ row.status = "resolved"
      /\ row.notes = table.incidents[n].notes + 1 /\ table.incidents[n].notes \in Nat
  BY <1>3, IncidentsAre
<1>5. next.incidents = more
      /\ (\A other \in TableParts \ {"incidents"} : next[other] = table[other]) /\ DOMAIN next = TableParts
  BY DEF Common, TableTyped, TableParts
<1> HIDE DEF row
<1>6. more \in Seq([status : {"open", "resolved"}, notes : Nat]) /\ DOMAIN more = DOMAIN table.incidents /\ more[n] = row
      /\ \A m \in DOMAIN table.incidents : m # n => more[m] = table.incidents[m]
  BY <1>3, <1>4, IncidentsAre
<1> HIDE DEF next, more
<1>7. table' = next
  BY <1>2, Storing
<1>8. TableTyped'
  BY <1>5, <1>7, <1>6, TableKept DEF Common
<1>9. GoesOn(q, desk[q].seen, desk[q].also) /\ Stepped(q)
  BY <1>1, <1>2, Going
<1>10. Acts(q, IncidentRoutes, {"incidents"})
  BY <1>1, <1>2, <1>5, <1>7, <1>8, <1>9, StoresAct DEF IncidentRoutes
<1>11. desk'[q].op = "resolve" /\ desk'[q].out = "done" /\ desk'[q].row = n
  BY <1>1, <1>9 DEF GoesOn, LastPlace
<1> HIDE DEF n
<1>12. IncidentHeld(desk'[q], was'[q], table'.incidents)
  BY <1>3, <1>4, <1>5, <1>6, <1>7, <1>11 DEF IncidentHeld, Resolving
<1>13. table.incidents[n].notes > 0 => n \in tied
  BY <1>3, <1>1 DEF IncidentsHeld, NotesHeld, TiesHeld, n
<1>14. NotesHeld(more, tied)
  BY <1>3, <1>4, <1>6, <1>13 DEF IncidentsHeld, NotesHeld
<1>15. \A p \in DeskRequests : Resolving(desk'[p]) => desk'[p] = desk[p] /\ p # q
  BY <1>9, <1>11 DEF Resolving, Stepped, Others
<1>16. \A p \in DeskRequests : Resolving(desk'[p]) /\ desk'[p].row = n => n \in tied
  BY <1>1, <1>15 DEF IncidentsHeld, TiesHeld, n
<1>17. TiesHeld(desk', more, tied)
  <2>1. ASSUME NEW p \in DeskRequests, Resolving(desk'[p]), more[desk'[p].row].status = "resolved"
        PROVE  desk'[p].row \in tied
    BY <1>16, <2>1, <1>6, <1>15 DEF IncidentsHeld, TiesHeld, IncidentHeld
  <2>2. \A p, r \in DeskRequests :
          Resolving(desk'[p]) /\ Resolving(desk'[r]) /\ desk'[p].row = desk'[r].row /\ p # r => desk'[r].row \in tied
    BY <1>15 DEF IncidentsHeld, TiesHeld
  <2> QED
    BY <2>1, <2>2 DEF TiesHeld
<1>18. \A m \in DOMAIN table.incidents :
         m \in DOMAIN table'.incidents
           /\ (table.incidents[m].status = "resolved" => table'.incidents[m].status = "resolved")
  BY <1>4, <1>5, <1>6, <1>7
<1> QED
  BY <1>2, <1>5, <1>7, <1>10, <1>12, <1>14, <1>17, <1>18, IncidentsMove

(* Open and resolved incidents are all incidents.                          *)
LEMMA CountBothActs ==
  ASSUME Common, IncidentsHeld, NEW q \in DeskRequests, CountBoth(q)
  PROVE  Acts(q, IncidentRoutes, {}) /\ IncidentsHeld'
<1> DEFINE opened == {n \in DOMAIN table.incidents : table.incidents[n].status = "open"}
           resolved == {n \in DOMAIN table.incidents : table.incidents[n].status = "resolved"}
<1>1. desk[q].out = "asked" /\ desk[q].op = "metrics" /\ desk[q].at = 1 /\ Facts(desk[q].op, table) \in was[q]
  BY AtPlace DEF CountBoth, Stands
<1>2. UNCHANGED <<table, was, tied>>
      /\ OnWith(q, [desk[q] EXCEPT !.seen = Cardinality(opened), !.also = Cardinality(resolved)])
  BY DEF CountBoth, OnlyReads
<1>3. opened \cup resolved = 1 .. Len(table.incidents) /\ opened \cap resolved = {}
  BY IncidentsAre
<1> HIDE DEF opened, resolved
<1>4. IsFiniteSet(1 .. Len(table.incidents)) /\ Cardinality(1 .. Len(table.incidents)) = Len(table.incidents)
  BY IncidentsAre, FS_Interval
<1>5. IsFiniteSet(opened) /\ IsFiniteSet(resolved)
  BY <1>3, <1>4, FS_Subset
<1>6. Cardinality(opened) \in Nat /\ Cardinality(resolved) \in Nat
  BY <1>5, FS_CardinalityType
<1>7. Cardinality(opened) + Cardinality(resolved) = Len(table.incidents)
  <2>1. Cardinality(opened \cup resolved) = Cardinality(opened) + Cardinality(resolved) - Cardinality(opened \cap resolved)
    BY <1>5, FS_Union
  <2>2. Cardinality(opened \cap resolved) = 0
    BY <1>3, FS_EmptySet
  <2>3. Cardinality(opened \cup resolved) = Len(table.incidents)
    BY <1>3, <1>4
  <2> QED
    BY <1>6, <2>1, <2>2, <2>3
<1>8. GoesOn(q, Cardinality(opened), Cardinality(resolved)) /\ Stepped(q)
  BY <1>1, <1>2, <1>6, GoingWith
<1>9. Acts(q, IncidentRoutes, {})
  BY <1>1, <1>2, <1>8, ReadsAct DEF IncidentRoutes
<1>10. Facts(desk[q].op, table).incidents = table.incidents
  BY <1>1, FactsAre
<1>11. IncidentHeld(desk'[q], was'[q], table'.incidents)
  BY <1>1, <1>2, <1>7, <1>8, <1>10 DEF IncidentHeld, GoesOn, Resolving
<1>12. \A p \in DeskRequests : Resolving(desk'[p]) => desk'[p] = desk[p]
  BY <1>1, <1>8 DEF Resolving, GoesOn, Others
<1>13. TiesHeld(desk', table'.incidents, tied')
  BY <1>2, <1>12 DEF IncidentsHeld, TiesHeld
<1>14. NotesHeld(table'.incidents, tied')
  BY <1>2 DEF IncidentsHeld
<1> QED
  BY <1>2, <1>9, <1>11, <1>13, <1>14, IncidentsMove

-----------------------------------------------------------------------------
(***************************************************************************)
(* Intelligence of the market and its change events.                       *)
(***************************************************************************)

(* What the market's routes have read and written.                         *)
MarketHeld(q, r, moments, intel) ==
  /\ r.op \in {"refresh", "intel"} /\ r.out = "missing" => \E f \in moments : ~f.target
  /\ r.op = "intel" /\ r.out = "asked" /\ r.at = 3 => r.seen \in DOMAIN intel /\ intel[r.seen] = q
  /\ r.op = "refresh" => r.seen = 0
  /\ r.op = "analyst" /\ r.out = "done" => \E f \in moments : f.intel = r.seen

(* A row of intelligence is of a request that waits for its change, has    *)
(* it, or failed; a change is of a request that was answered, and names    *)
(* its row.                                                                *)
IntelHeld(requests, intel) ==
  \A n \in DOMAIN intel :
    LET r == requests[intel[n]] IN r.op = "intel" /\ ((r.out = "asked" /\ r.at = 3) \/ r.out \in {"done", "failed"})

ChangesHeld(requests, intel, changes) ==
  /\ \A c \in DOMAIN changes :
       /\ requests[changes[c].by].op \in {"refresh", "intel"} /\ requests[changes[c].by].out = "done"
       /\ LET n == changes[c].intel IN n # 0 => n \in DOMAIN intel /\ intel[n] = changes[c].by
  /\ \A q \in DeskRequests :
       requests[q].op \in {"refresh", "intel"} /\ requests[q].out = "done" => \E c \in DOMAIN changes : changes[c].by = q

MarketsHeld ==
  /\ \A q \in DeskRequests : MarketHeld(q, desk[q], was[q], table.intel)
  /\ IntelHeld(desk, table.intel) /\ ChangesHeld(desk, table.intel, table.changes)

(* Steps of others leave rows and changes as they are.                     *)
LEMMA MarketsAside ==
  ASSUME Common, MarketsHeld, Aside(MarketRoutes, {"intel", "changes"})
  PROVE  MarketsHeld'
<1>1. table'.intel = table.intel /\ table'.changes = table.changes
  BY DEF Aside
<1>2. ASSUME NEW p \in DeskRequests PROVE MarketHeld(p, desk'[p], was'[p], table.intel)
  BY DEF MarketsHeld, Aside, MarketHeld, Arriving, Failing, MarketRoutes
<1>3. \A p \in DeskRequests :
        \/ desk'[p] = desk[p]
        \/ desk[p].op \notin MarketRoutes /\ desk'[p].op = desk[p].op
        \/ desk[p].op = "none" /\ desk'[p].out = "asked"
        \/ desk[p].out = "asked" /\ desk'[p].out = "failed" /\ desk'[p].op = desk[p].op
  BY DEF Aside, Arriving, Failing
<1>4. IntelHeld(desk', table.intel)
  BY <1>3, RowsBy DEF MarketsHeld, IntelHeld, MarketRoutes
<1>5. ChangesHeld(desk', table.intel, table.changes)
  BY <1>3, RowsBy DEF MarketsHeld, ChangesHeld, MarketRoutes
<1>6. ASSUME NEW p \in DeskRequests PROVE MarketHeld(p, desk[p], was[p], table.intel)'
  BY <1>1, <1>2 DEF MarketHeld
<1>7. IntelHeld(desk, table.intel)' /\ ChangesHeld(desk, table.intel, table.changes)'
  BY <1>1, <1>4, <1>5 DEF IntelHeld, ChangesHeld
<1> QED
  BY <1>6, <1>7 DEF MarketsHeld

(* A step of q that keeps the rows there are.                              *)
LEMMA MarketsMove ==
  ASSUME Common, MarketsHeld, NEW q \in DeskRequests, NEW ops, NEW fields, Acts(q, ops, fields),
         MarketHeld(q, desk'[q], was'[q], table'.intel),
         \A n \in DOMAIN table.intel : n \in DOMAIN table'.intel /\ table'.intel[n] = table.intel[n],
         IntelHeld(desk', table'.intel), ChangesHeld(desk', table'.intel, table'.changes)
  PROVE  MarketsHeld'
<1>1. ASSUME NEW p \in DeskRequests, p # q PROVE MarketHeld(p, desk'[p], was'[p], table'.intel)
  BY <1>1 DEF MarketsHeld, Acts, Stepped, Others, Seeing, MarketHeld
<1>2. ASSUME NEW p \in DeskRequests PROVE MarketHeld(p, desk[p], was[p], table.intel)'
  BY <1>1 DEF MarketHeld
<1>3. IntelHeld(desk, table.intel)' /\ ChangesHeld(desk, table.intel, table.changes)'
  BY DEF IntelHeld, ChangesHeld
<1> QED
  BY <1>2, <1>3 DEF MarketsHeld

(* A step of q that only reads, before it has written.                     *)
LEMMA MarketsRead ==
  ASSUME Common, MarketsHeld, NEW q \in DeskRequests, Acts(q, MarketRoutes, {}),
         MarketHeld(q, desk'[q], was'[q], table'.intel), desk[q].at < 3,
         desk[q].op = "analyst" \/ desk'[q].out # "done"
  PROVE  MarketsHeld'
<1>1. table'.intel = table.intel /\ table'.changes = table.changes
  BY DEF Acts, TableParts
<1>2. desk'[q].op = desk[q].op /\ desk[q].out = "asked" /\ \A p \in DeskRequests : p # q => desk'[p] = desk[p]
  BY DEF Acts, Stepped, Others
<1>3. \A n \in DOMAIN table.intel : table.intel[n] # q
  BY <1>2 DEF MarketsHeld, IntelHeld
<1>4. \A c \in DOMAIN table.changes : table.changes[c].by # q
  BY <1>2 DEF MarketsHeld, ChangesHeld
<1>5. IntelHeld(desk', table.intel)
  BY <1>2, <1>3, RowsBy DEF MarketsHeld, IntelHeld
<1>6. ChangesHeld(desk', table.intel, table.changes)
  BY <1>2, <1>4, RowsBy DEF MarketsHeld, ChangesHeld
<1> QED
  BY <1>1, <1>5, <1>6, MarketsMove

(* A target is missing that was not there.                                 *)
LEMMA ReadTargetActs ==
  ASSUME Common, MarketsHeld, NEW q \in DeskRequests, ReadTarget(q)
  PROVE  Acts(q, MarketRoutes, {}) /\ MarketsHeld'
<1>1. desk[q].out = "asked" /\ desk[q].op \in {"refresh", "intel", "analyst"} /\ desk[q].at = 1
      /\ Facts(desk[q].op, table) \in was[q]
  BY AtPlace DEF ReadTarget, Stands
<1>2. UNCHANGED <<table, was>>
  BY DEF ReadTarget, OnlyReads
<1>3. MarketHeld(q, desk[q], was[q], table.intel)
  BY DEF MarketsHeld
<1>4. Facts(desk[q].op, table).target = table.target
  BY <1>1, FactsAre DEF MarketRoutes
<1>5. CASE table.target
  BY <1>1, <1>5, Going, <1>2, ReadsAct, <1>3, MarketsRead DEF ReadTarget, MarketRoutes, GoesOn, LastPlace,
     MarketHeld
<1>6. CASE ~table.target
  BY <1>1, <1>6, Saying, <1>2, ReadsAct, <1>4, <1>3, MarketsRead DEF ReadTarget, MarketRoutes, EndsAs,
     MarketHeld
<1> QED
  BY <1>5, <1>6

(* The summary counts the rows of the moment.                              *)
LEMMA CountIntelActs ==
  ASSUME Common, MarketsHeld, NEW q \in DeskRequests, CountIntel(q)
  PROVE  Acts(q, MarketRoutes, {}) /\ MarketsHeld'
<1>1. desk[q].out = "asked" /\ desk[q].op = "analyst" /\ desk[q].at = 2 /\ Facts(desk[q].op, table) \in was[q]
  BY AtPlace DEF CountIntel, Stands
<1> DEFINE seen == Len(table.intel)
<1>2. UNCHANGED <<table, was>> /\ OnWith(q, [desk[q] EXCEPT !.seen = seen])
  BY DEF CountIntel, OnlyReads
<1>3. seen \in Nat
  BY ElementsOf DEF Common, TableTyped
<1>4. Facts(desk[q].op, table).intel = seen
  BY <1>1, FactsAre DEF MarketRoutes
<1> HIDE DEF seen
<1>5. GoesOn(q, seen, desk[q].also) /\ Stepped(q)
  BY <1>1, <1>2, <1>3, GoingSeen
<1>6. Acts(q, MarketRoutes, {})
  BY <1>1, <1>2, <1>5, ReadsAct DEF MarketRoutes
<1>7. desk'[q].op = "analyst" /\ desk'[q].seen = seen
  BY <1>1, <1>5 DEF GoesOn
<1>8. MarketHeld(q, desk'[q], was'[q], table'.intel)
  BY <1>1, <1>2, <1>4, <1>7 DEF MarketHeld
<1> QED
  BY <1>1, <1>6, <1>8, MarketsRead

(* The request knows the row it has inserted.                              *)
LEMMA InsertDeskIntelActs ==
  ASSUME Common, MarketsHeld, NEW q \in DeskRequests, InsertDeskIntel(q)
  PROVE  Acts(q, MarketRoutes, {"intel"}) /\ MarketsHeld'
<1>1. desk[q].out = "asked" /\ desk[q].op = "intel" /\ desk[q].at = 2
  BY AtPlace DEF InsertDeskIntel, Stands
<1> DEFINE seen == Len(table.intel) + 1
           next == [table EXCEPT !.intel = Append(@, q)]
<1>2. Stores(next) /\ OnWith(q, [desk[q] EXCEPT !.seen = seen])
  BY DEF InsertDeskIntel
<1>3. table.intel \in Seq(DeskRequests) /\ Len(table.intel) \in Nat
  BY DEF Common, TableTyped
<1>4. seen \in Nat
  BY <1>3
<1>5. next.intel = Append(table.intel, q) /\ next.changes = table.changes
      /\ (\A other \in TableParts \ {"intel"} : next[other] = table[other]) /\ DOMAIN next = TableParts
  BY DEF Common, TableTyped, TableParts
<1> HIDE DEF next
<1>6. table' = next
  BY <1>2, Storing
<1>7. TableTyped'
  <2>1. \A other \in TableParts \ {"intel"} : table'[other] = table[other]
    BY <1>5, <1>6
  <2>2. Append(table.intel, q) \in Seq(DeskRequests)
    BY <1>3
  <2> QED
    BY <1>5, <1>6, <2>1, <2>2, TableKept DEF Common
<1>8. /\ \A n \in DOMAIN table.intel : n \in DOMAIN table'.intel /\ table'.intel[n] = table.intel[n]
      /\ seen \in DOMAIN table'.intel /\ table'.intel[seen] = q
      /\ \A n \in DOMAIN table'.intel : n \in DOMAIN table.intel \/ table'.intel[n] = q
  BY <1>3, <1>5, <1>6
<1> HIDE DEF seen
<1>9. GoesOn(q, seen, desk[q].also) /\ Stepped(q)
  BY <1>1, <1>2, <1>4, GoingSeen
<1>10. Acts(q, MarketRoutes, {"intel"})
  BY <1>1, <1>2, <1>5, <1>6, <1>7, <1>9, StoresAct DEF MarketRoutes
<1>11. desk'[q].op = "intel" /\ desk'[q].at = 3 /\ desk'[q].out = "asked" /\ desk'[q].seen = seen
  BY <1>1, <1>9 DEF GoesOn, LastPlace
<1>12. \A p \in DeskRequests : p # q => desk'[p] = desk[p]
  BY <1>9 DEF GoesOn, Others
<1>13. MarketHeld(q, desk'[q], was'[q], table'.intel)
  BY <1>8, <1>11 DEF MarketHeld
<1>14. IntelHeld(desk', table'.intel)
  BY <1>8, <1>11, <1>12, RowsBy DEF MarketsHeld, IntelHeld
<1>15. \A c \in DOMAIN table.changes : table.changes[c].by # q
  BY <1>1 DEF MarketsHeld, ChangesHeld
<1>16. ChangesHeld(desk', table'.intel, table'.changes)
  BY <1>5, <1>6, <1>8, <1>11, <1>12, <1>15, RowsBy DEF MarketsHeld, ChangesHeld
<1> QED
  BY <1>8, <1>10, <1>13, <1>14, <1>16, MarketsMove

(* The change names that row.                                              *)
LEMMA InsertChangeActs ==
  ASSUME Common, MarketsHeld, NEW q \in DeskRequests, InsertChange(q)
  PROVE  Acts(q, MarketRoutes, {"changes"}) /\ MarketsHeld'
<1>1. /\ desk[q].out = "asked" /\ desk[q].seen \in Nat
      /\ (desk[q].op = "refresh" /\ desk[q].at = 2) \/ (desk[q].op = "intel" /\ desk[q].at = 3)
  BY AtPlace DEF InsertChange, Stands
<1> DEFINE row == [by |-> q, intel |-> desk[q].seen]
           next == [table EXCEPT !.changes = Append(@, row)]
<1>2. Stores(next) /\ On(q)
  BY DEF InsertChange
<1>3. row \in [by : DeskRequests, intel : Nat] /\ row.by = q /\ row.intel = desk[q].seen
  BY <1>1
<1>4. table.changes \in Seq([by : DeskRequests, intel : Nat]) /\ Len(table.changes) \in Nat
  BY DEF Common, TableTyped
<1>5. next.changes = Append(table.changes, row) /\ next.intel = table.intel
      /\ (\A other \in TableParts \ {"changes"} : next[other] = table[other]) /\ DOMAIN next = TableParts
  BY DEF Common, TableTyped, TableParts
<1> HIDE DEF next, row
<1>6. table' = next
  BY <1>2, Storing
<1>7. TableTyped'
  <2>1. \A other \in TableParts \ {"changes"} : table'[other] = table[other]
    BY <1>5, <1>6
  <2>2. Append(table.changes, row) \in Seq([by : DeskRequests, intel : Nat])
    BY <1>3, <1>4
  <2> QED
    BY <1>5, <1>6, <2>1, <2>2, TableKept DEF Common
<1>8. /\ \A c \in DOMAIN table.changes : c \in DOMAIN table'.changes /\ table'.changes[c] = table.changes[c]
      /\ \E c \in DOMAIN table'.changes : table'.changes[c] = row
      /\ \A c \in DOMAIN table'.changes : (c \in DOMAIN table.changes /\ table'.changes[c] = table.changes[c])
                                          \/ table'.changes[c] = row
  <2>1. DOMAIN table'.changes = 1 .. Len(table.changes) + 1 /\ table'.changes[Len(table.changes) + 1] = row
        /\ \A c \in 1 .. Len(table.changes) : table'.changes[c] = table.changes[c]
    BY <1>4, <1>5, <1>6
  <2> QED
    BY <1>4, <2>1, SMTT(30)
<1>9. GoesOn(q, desk[q].seen, desk[q].also) /\ Stepped(q)
  BY <1>1, <1>2, Going
<1>10. Acts(q, MarketRoutes, {"changes"})
  BY <1>1, <1>2, <1>5, <1>6, <1>7, <1>9, StoresAct DEF MarketRoutes
<1>11. desk'[q].op = desk[q].op /\ desk'[q].out = "done" /\ desk'[q].seen = desk[q].seen
  BY <1>1, <1>9 DEF GoesOn, LastPlace
<1>12. \A p \in DeskRequests : p # q => desk'[p] = desk[p]
  BY <1>9 DEF GoesOn, Others
<1>13. MarketHeld(q, desk[q], was[q], table.intel)
  BY DEF MarketsHeld
<1>14. MarketHeld(q, desk'[q], was'[q], table'.intel)
  BY <1>1, <1>11, <1>13 DEF MarketHeld
<1>15. IntelHeld(desk', table.intel)
  BY <1>11, <1>12, RowsBy DEF MarketsHeld, IntelHeld
<1>16. row.intel # 0 => row.intel \in DOMAIN table.intel /\ table.intel[row.intel] = q
  BY <1>1, <1>3, <1>13 DEF MarketHeld
<1>17. ChangesHeld(desk', table.intel, table'.changes)
  <2>1. ASSUME NEW c \in DOMAIN table'.changes
        PROVE  /\ desk'[table'.changes[c].by].op \in {"refresh", "intel"} /\ desk'[table'.changes[c].by].out = "done"
               /\ LET n == table'.changes[c].intel IN n # 0 => n \in DOMAIN table.intel /\ table.intel[n] = table'.changes[c].by
    BY <1>1, <1>3, <1>11, <1>16, <1>12, RowsBy, <1>8 DEF MarketsHeld, ChangesHeld
  <2>2. ASSUME NEW p \in DeskRequests, desk'[p].op \in {"refresh", "intel"}, desk'[p].out = "done"
        PROVE  \E c \in DOMAIN table'.changes : table'.changes[c].by = p
    BY <1>3, <1>8, <1>12, <2>2 DEF MarketsHeld, ChangesHeld
  <2> QED
    BY <2>1, <2>2 DEF ChangesHeld
<1> QED
  BY <1>5, <1>6, <1>10, <1>14, <1>15, <1>17, MarketsMove

-----------------------------------------------------------------------------
(***************************************************************************)
(* All routes together.                                                    *)
(***************************************************************************)

(* What the tables and the requests of the operators' routes hold.         *)
DeskInv == Common /\ PapersHeld /\ CertificatesHeld /\ IncidentsHeld /\ MarketsHeld /\ EventsHeld

(* Boots leave an open incident, a certificate and an export.              *)
LEMMA DeskStarts == DeskInit => DeskInv
<1> SUFFICES ASSUME DeskInit PROVE DeskInv
  OBVIOUS
<1>1. PICK bill, jobs :
       table = [bill |-> bill, jobs |-> jobs, target |-> TRUE, events |-> 1,
                receipts |-> <<>>, stamps |-> <<>>, certificates |-> <<"issued">>,
                incidents |-> <<[status |-> "open", notes |-> 0]>>,
                intel |-> <<>>, changes |-> <<>>, exports |-> <<1>>]
  BY DEF DeskInit
<1>2. \A q \in DeskRequests : desk[q].op = "none" /\ desk[q].out = "new" /\ desk[q].at = 0 /\ desk[q].seen = 0
  BY DEF DeskInit, Blank
<1>3. /\ table.receipts = <<>> /\ table.stamps = <<>> /\ table.intel = <<>> /\ table.changes = <<>>
      /\ table.exports = <<1>> /\ table.events = 1 /\ table.incidents = <<[status |-> "open", notes |-> 0]>>
  BY <1>1
<1>4. PapersHeld
  BY <1>2, <1>3 DEF PapersHeld, PaperHeld, WrittenFor
<1>5. CertificatesHeld
  BY <1>2 DEF CertificatesHeld, CertificateHeld
<1>6. IncidentsHeld
  BY <1>3, <1>2 DEF IncidentsHeld, IncidentHeld, NotesHeld, TiesHeld, Resolving
<1>7. MarketsHeld
  BY <1>2, <1>3 DEF MarketsHeld, MarketHeld, IntelHeld, ChangesHeld
<1>8. EventsHeld
  BY <1>3, <1>2 DEF EventsHeld, EventHeld
<1> QED
  BY <1>4, <1>5, <1>6, <1>7, <1>8, CommonStarts DEF DeskInv

(* A step that is none of the routes' own: a request arrives or fails, or  *)
(* the jobs, the invoice, the target or the events change.                 *)
Elsewhere ==
  /\ \A p \in DeskRequests : desk'[p] = desk[p] \/ Arriving(p) \/ Failing(p)
  /\ \A p \in DeskRequests : desk[p].op # "none" => was[p] \subseteq was'[p]
  /\ \A field \in TableParts \ {"bill", "jobs", "target", "events"} : table'[field] = table[field]
  /\ tied' = tied /\ table'.events \in Nat /\ table'.events >= table.events

(* Such steps leave all families aside.                                    *)
LEMMA ElsewhereHolds ==
  ASSUME DeskInv, Common', Elsewhere
  PROVE  DeskInv'
BY PapersAside, CertificatesAside, IncidentsAside, MarketsAside, EventsAside DEF Elsewhere, Aside,
   TableParts, DeskInv

(* A step of one family of routes leaves the others aside.                 *)
LEMMA ActsAside ==
  ASSUME NEW q \in DeskRequests, NEW ops, NEW fields, Acts(q, ops, fields),
         NEW others, ops \cap others = {}, NEW left \in SUBSET TableParts, fields \cap left = {}
  PROVE  Aside(others, left)
BY DEF Acts, Aside, Stepped, Others, Seeing

(* Of the routes none writes events.                                       *)
LEMMA EventsSame ==
  ASSUME Common, NEW q \in DeskRequests, NEW ops, NEW fields, Acts(q, ops, fields), "events" \notin fields
  PROVE  Common' /\ table'.events \in Nat /\ table'.events >= table.events
BY DEF Acts, TableParts, Common, TableTyped

(* A step of the commercial papers leaves the rest ...                     *)
LEMMA PapersAlone ==
  ASSUME DeskInv, NEW q \in DeskRequests, NEW fields \in SUBSET {"receipts", "stamps"}, Acts(q, PaperRoutes, fields),
         PapersHeld', tied' = tied
  PROVE  DeskInv'
<1>1. Aside(CertificateRoutes, {"certificates"}) /\ Aside(IncidentRoutes, {"incidents"})
      /\ Aside(MarketRoutes, {"intel", "changes"}) /\ Aside(EventRoutes, {"exports"})
  BY ActsAside DEF PaperRoutes, CertificateRoutes, IncidentRoutes, MarketRoutes, EventRoutes, TableParts
<1>2. Common' /\ table'.events \in Nat /\ table'.events >= table.events
  BY EventsSame DEF DeskInv
<1> QED
  BY <1>1, <1>2, CertificatesAside, IncidentsAside, MarketsAside, EventsAside DEF DeskInv

(* ... as does one of the licences ...                                     *)
LEMMA CertificatesAlone ==
  ASSUME DeskInv, NEW q \in DeskRequests, NEW fields \in SUBSET {"certificates"}, Acts(q, CertificateRoutes, fields),
         CertificatesHeld', tied' = tied
  PROVE  DeskInv'
<1>1. Aside(PaperRoutes, {"receipts", "stamps"}) /\ Aside(IncidentRoutes, {"incidents"})
      /\ Aside(MarketRoutes, {"intel", "changes"}) /\ Aside(EventRoutes, {"exports"})
  BY ActsAside DEF PaperRoutes, CertificateRoutes, IncidentRoutes, MarketRoutes, EventRoutes, TableParts
<1>2. Common' /\ table'.events \in Nat /\ table'.events >= table.events
  BY EventsSame DEF DeskInv
<1> QED
  BY <1>1, <1>2, PapersAside, IncidentsAside, MarketsAside, EventsAside DEF DeskInv

(* ... of the incidents ...                                                *)
LEMMA IncidentsAlone ==
  ASSUME DeskInv, NEW q \in DeskRequests, NEW fields \in SUBSET {"incidents"}, Acts(q, IncidentRoutes, fields),
         IncidentsHeld'
  PROVE  DeskInv'
<1>1. Aside(PaperRoutes, {"receipts", "stamps"}) /\ Aside(CertificateRoutes, {"certificates"})
      /\ Aside(MarketRoutes, {"intel", "changes"}) /\ Aside(EventRoutes, {"exports"})
  BY ActsAside DEF PaperRoutes, CertificateRoutes, IncidentRoutes, MarketRoutes, EventRoutes, TableParts
<1>2. Common' /\ table'.events \in Nat /\ table'.events >= table.events
  BY EventsSame DEF DeskInv
<1> QED
  BY <1>1, <1>2, PapersAside, CertificatesAside, MarketsAside, EventsAside DEF DeskInv

(* ... of the market ...                                                   *)
LEMMA MarketsAlone ==
  ASSUME DeskInv, NEW q \in DeskRequests, NEW fields \in SUBSET {"intel", "changes"}, Acts(q, MarketRoutes, fields),
         MarketsHeld', tied' = tied
  PROVE  DeskInv'
<1>1. Aside(PaperRoutes, {"receipts", "stamps"}) /\ Aside(CertificateRoutes, {"certificates"})
      /\ Aside(IncidentRoutes, {"incidents"}) /\ Aside(EventRoutes, {"exports"})
  BY ActsAside DEF PaperRoutes, CertificateRoutes, IncidentRoutes, MarketRoutes, EventRoutes, TableParts
<1>2. Common' /\ table'.events \in Nat /\ table'.events >= table.events
  BY EventsSame DEF DeskInv
<1> QED
  BY <1>1, <1>2, PapersAside, CertificatesAside, IncidentsAside, EventsAside DEF DeskInv

(* ... and of the evidence room.                                           *)
LEMMA EventsAlone ==
  ASSUME DeskInv, NEW q \in DeskRequests, NEW fields \in SUBSET {"exports"}, Acts(q, EventRoutes, fields),
         EventsHeld', tied' = tied
  PROVE  DeskInv'
<1>1. Aside(PaperRoutes, {"receipts", "stamps"}) /\ Aside(CertificateRoutes, {"certificates"})
      /\ Aside(IncidentRoutes, {"incidents"}) /\ Aside(MarketRoutes, {"intel", "changes"})
  BY ActsAside DEF PaperRoutes, CertificateRoutes, IncidentRoutes, MarketRoutes, EventRoutes, TableParts
<1>2. Common'
  BY EventsSame DEF DeskInv
<1> QED
  BY <1>1, <1>2, PapersAside, CertificatesAside, IncidentsAside, MarketsAside DEF DeskInv

(* A request arrives and sees the present.                                 *)
LEMMA AskDeskHolds ==
  ASSUME DeskInv, NEW q \in DeskRequests, NEW op \in Routes, NEW row \in RowsOf(op), AskDesk(q, op, row)
  PROVE  DeskInv'
<1> DEFINE r == [Blank EXCEPT !.op = op, !.row = row, !.at = 1, !.out = "asked"]
<1>1. Common
  BY DEF DeskInv
<1>2. row \in Nat /\ row > 0
  BY DEF RowsOf
<1>3. op # "none" /\ LastPlace(op) \in Nat /\ LastPlace(op) >= 1
  BY RoutesAre DEF LastPlace
<1>4. r.op = op /\ r.row = row /\ r.at = 1 /\ r.out = "asked" /\ r.seen = 0 /\ r.also = 0 /\ DOMAIN r = DeskParts
  BY DEF Blank, DeskParts
<1>5. desk' = [desk EXCEPT ![q] = r] /\ was' = [was EXCEPT ![q] = {Facts(op, table)}] /\ UNCHANGED <<table, tied>>
      /\ desk[q].out = "new"
  BY DEF AskDesk
<1> HIDE DEF r
<1>6. RequestTyped(r)
  BY <1>2, <1>3, <1>4 DEF RequestTyped, Outs
<1>7. desk = [p \in DeskRequests |-> desk[p]] /\ was = [p \in DeskRequests |-> was[p]]
      /\ \A p \in DeskRequests : RequestTyped(desk[p])
  BY <1>1 DEF Common, Present
<1>8. desk'[q] = r /\ was'[q] = {Facts(op, table)}
      /\ (\A p \in DeskRequests : p # q => desk'[p] = desk[p] /\ was'[p] = was[p])
      /\ desk' = [p \in DeskRequests |-> desk'[p]] /\ was' = [p \in DeskRequests |-> was'[p]]
  BY <1>5, <1>7
<1>9. Common'
  BY <1>1, <1>5, <1>6, <1>7, <1>8, <1>4 DEF Common, TableTyped, RequestTyped, DeskParts, Outs, Present, Facts
<1>10. desk[q].op = "none"
  BY <1>5, <1>7 DEF RequestTyped
<1>11. Arriving(q)
  BY <1>3, <1>4, <1>5, <1>8, <1>10 DEF Arriving
<1>12. Elsewhere
  BY <1>1, <1>5, <1>8, <1>10, <1>11 DEF Common, TableTyped, Elsewhere
<1> QED
  BY <1>9, <1>12, ElsewhereHolds

(* A statement fails; what was written stays.                              *)
LEMMA DeskFailsHolds ==
  ASSUME DeskInv, NEW q \in DeskRequests, DeskFails(q)
  PROVE  DeskInv'
<1>1. Common /\ desk[q].out = "asked" /\ Says(q, "failed") /\ UNCHANGED <<table, was, tied>>
  BY DEF DeskInv, DeskFails
<1>2. EndsAs(q, "failed") /\ Stepped(q)
  BY <1>1, Saying
<1>3. Acts(q, {desk[q].op}, {})
  BY <1>1, <1>2, ReadsAct
<1>4. Failing(q)
  BY <1>1, <1>2 DEF EndsAs, Failing
<1>5. table'.events \in Nat /\ table'.events >= table.events
  BY <1>1 DEF Common, TableTyped
<1>6. Elsewhere
  BY <1>1, <1>2, <1>4, <1>5 DEF Elsewhere, EndsAs, Others
<1> QED
  BY <1>3, <1>6, ElsewhereHolds DEF Acts

(* Jobs, invoice, target and events change under the requests.             *)
LEMMA DeskMovesHolds ==
  ASSUME DeskInv, DeskMoves
  PROVE  DeskInv'
<1>1. Common /\ UNCHANGED <<desk, tied>> /\ DOMAIN table = TableParts /\ table.events \in Nat
  BY DEF DeskInv, DeskMoves, Common, TableTyped
<1>2. PICK next : /\ Stores(next) /\ DOMAIN next = TableParts
                  /\ \A field \in TableParts \ {"bill", "jobs", "target", "events"} : next[field] = table[field]
                  /\ next.target \in BOOLEAN /\ next.events \in Nat /\ next.events >= table.events
  <2>1. ASSUME NEW j \in JobIds, NEW s \in JobStates, Stores([table EXCEPT !.jobs[j] = s])
        PROVE  \E next : /\ Stores(next) /\ DOMAIN next = TableParts
                         /\ \A field \in TableParts \ {"bill", "jobs", "target", "events"} : next[field] = table[field]
                         /\ next.target \in BOOLEAN /\ next.events \in Nat /\ next.events >= table.events
    <3> DEFINE next == [table EXCEPT !.jobs[j] = s]
    <3>1. DOMAIN next = TableParts /\ next.target = table.target /\ next.events = table.events
          /\ \A field \in TableParts \ {"jobs"} : next[field] = table[field]
      BY <1>1 DEF TableParts
    <3>2. Stores(next)
      BY <2>1
    <3> HIDE DEF next
    <3>3. table.target \in BOOLEAN /\ table.events >= table.events
      BY <1>1 DEF Common, TableTyped
    <3>4. \A field \in TableParts \ {"bill", "jobs", "target", "events"} : next[field] = table[field]
      BY <3>1
    <3> QED
      BY <1>1, <3>1, <3>2, <3>3, <3>4
  <2>2. ASSUME NEW s \in BillStates, Stores([table EXCEPT !.bill = s])
        PROVE  \E next : /\ Stores(next) /\ DOMAIN next = TableParts
                         /\ \A field \in TableParts \ {"bill", "jobs", "target", "events"} : next[field] = table[field]
                         /\ next.target \in BOOLEAN /\ next.events \in Nat /\ next.events >= table.events
    <3> DEFINE next == [table EXCEPT !.bill = s]
    <3>1. DOMAIN next = TableParts /\ next.target = table.target /\ next.events = table.events
          /\ \A field \in TableParts \ {"bill"} : next[field] = table[field]
      BY <1>1 DEF TableParts
    <3>2. Stores(next)
      BY <2>2
    <3> HIDE DEF next
    <3>3. table.target \in BOOLEAN /\ table.events >= table.events
      BY <1>1 DEF Common, TableTyped
    <3>4. \A field \in TableParts \ {"bill", "jobs", "target", "events"} : next[field] = table[field]
      BY <3>1
    <3> QED
      BY <1>1, <3>1, <3>2, <3>3, <3>4
  <2>3. ASSUME Stores([table EXCEPT !.target = ~@])
        PROVE  \E next : /\ Stores(next) /\ DOMAIN next = TableParts
                         /\ \A field \in TableParts \ {"bill", "jobs", "target", "events"} : next[field] = table[field]
                         /\ next.target \in BOOLEAN /\ next.events \in Nat /\ next.events >= table.events
    <3> DEFINE other == ~table.target
               next == [table EXCEPT !.target = other]
    <3>1. other \in BOOLEAN /\ Stores(next)
      BY <2>3
    <3> HIDE DEF other
    <3>2. DOMAIN next = TableParts /\ next.target = other /\ next.events = table.events
          /\ \A field \in TableParts \ {"target"} : next[field] = table[field]
      BY <1>1 DEF TableParts
    <3> HIDE DEF next
    <3>3. table.events >= table.events
      BY <1>1
    <3>4. \A field \in TableParts \ {"bill", "jobs", "target", "events"} : next[field] = table[field]
      BY <3>2
    <3> QED
      BY <1>1, <3>1, <3>2, <3>3, <3>4
  <2>4. ASSUME Stores([table EXCEPT !.events = @ + 1])
        PROVE  \E next : /\ Stores(next) /\ DOMAIN next = TableParts
                         /\ \A field \in TableParts \ {"bill", "jobs", "target", "events"} : next[field] = table[field]
                         /\ next.target \in BOOLEAN /\ next.events \in Nat /\ next.events >= table.events
    <3> DEFINE next == [table EXCEPT !.events = @ + 1]
    <3>1. DOMAIN next = TableParts /\ next.target = table.target /\ next.events = table.events + 1
          /\ \A field \in TableParts \ {"events"} : next[field] = table[field]
      BY <1>1 DEF TableParts
    <3>2. Stores(next)
      BY <2>4
    <3> HIDE DEF next
    <3> QED
      BY <1>1, <3>1, <3>2 DEF Common, TableTyped
  <2> QED
    BY <2>1, <2>2, <2>3, <2>4 DEF DeskMoves
<1>3. table' = next /\ was' = [p \in DeskRequests |-> was'[p]] /\ (\A p \in DeskRequests : Seeing(p))
      /\ \A p \in DeskRequests : desk[p].out = "asked" => Facts(desk[p].op, table') \in was'[p]
  BY <1>1, <1>2, Storing
<1>4. TableTyped'
  BY <1>2, <1>3, <1>1 DEF TableParts, Common, TableTyped
<1>5. Common'
  BY <1>1, <1>3, <1>4 DEF Common, Present, RequestTyped, DeskParts, Outs, Facts
<1>6. Elsewhere
  BY <1>1, <1>2, <1>3 DEF Elsewhere, Seeing
<1> QED
  BY <1>5, <1>6, ElsewhereHolds

(* A retry writes the status of a job only.                                *)
LEMMA RetriesHold ==
  ASSUME DeskInv, NEW q \in DeskRequests, ReadJob(q) \/ UpdateJob(q)
  PROVE  DeskInv'
<1>1. Common
  BY DEF DeskInv
<1>2. desk[q].out = "asked" /\ desk[q].op = "retry"
  BY <1>1, AtPlace DEF ReadJob, UpdateJob, Stands
<1>3. On(q) /\ tied' = tied
  BY DEF ReadJob, UpdateJob, OnlyReads
<1>4. GoesOn(q, desk[q].seen, desk[q].also) /\ Stepped(q)
  BY <1>1, <1>2, <1>3, Going
<1>5. Acts(q, {"retry"}, {"jobs"})
  <2>1. CASE ReadJob(q)
    BY <2>1, <1>1, <1>2, <1>4, ReadsAct DEF ReadJob, OnlyReads, Acts
  <2>2. CASE UpdateJob(q)
    <3>1. PICK j \in JobIds : Stores([table EXCEPT !.jobs[j] = "retrying"])
      BY <2>2 DEF UpdateJob
    <3> DEFINE next == [table EXCEPT !.jobs[j] = "retrying"]
    <3>2. DOMAIN next = TableParts /\ \A other \in TableParts \ {"jobs"} : next[other] = table[other]
      BY <1>1 DEF Common, TableTyped, TableParts
    <3>3. Stores(next)
      BY <3>1
    <3> HIDE DEF next
    <3>4. table' = next
      BY <1>1, <3>3, Storing
    <3>5. \A other \in TableParts \ {"jobs"} : table'[other] = table[other]
      BY <3>2, <3>4
    <3>6. TableTyped'
      BY <1>1, <3>2, <3>4, <3>5, TableKept DEF Common
    <3> QED
      BY <1>1, <1>2, <1>4, <3>3, <3>5, <3>6, StoresAct
  <2> QED
    BY <2>1, <2>2
<1>6. {"retry"} \cap (PaperRoutes \cup CertificateRoutes \cup IncidentRoutes \cup MarketRoutes \cup EventRoutes) = {}
  BY DEF PaperRoutes, CertificateRoutes, IncidentRoutes, MarketRoutes, EventRoutes
<1>7. Aside(PaperRoutes, {"receipts", "stamps"}) /\ Aside(CertificateRoutes, {"certificates"})
      /\ Aside(IncidentRoutes, {"incidents"}) /\ Aside(MarketRoutes, {"intel", "changes"})
      /\ Aside(EventRoutes, {"exports"})
  BY <1>5, <1>6, ActsAside DEF TableParts
<1>8. Common' /\ table'.events \in Nat /\ table'.events >= table.events
  BY <1>1, <1>5, EventsSame
<1> QED
  BY <1>3, <1>7, <1>8, PapersAside, CertificatesAside, IncidentsAside, MarketsAside, EventsAside DEF DeskInv

(* Each statement of each route, in any order of the requests.             *)
LEMMA DeskSteps == DeskInv /\ [DeskNext]_deskVars => DeskInv'
<1> SUFFICES ASSUME DeskInv, [DeskNext]_deskVars PROVE DeskInv'
  OBVIOUS
<1>1. Common /\ PapersHeld /\ CertificatesHeld /\ IncidentsHeld /\ MarketsHeld /\ EventsHeld
  BY DEF DeskInv
<1>2. ASSUME NEW q \in DeskRequests,
             ReadInvoice(q) \/ CountJobs(q) \/ ReadStamps(q) \/ ReadStamp(q) \/ ReadSeals(q) \/ ReadSeal(q)
      PROVE  DeskInv'
  BY <1>1, <1>2, ReadInvoiceActs, CountJobsActs, ReadStampsActs, ReadSealsActs, PapersAlone DEF ReadInvoice,
     CountJobs, ReadStamps, ReadStamp, ReadSeals, ReadSeal, OnlyReads
<1>3. ASSUME NEW q \in DeskRequests, InsertReceipt(q) \/ InsertStamp(q) PROVE DeskInv'
  BY <1>1, <1>3, InsertReceiptActs, InsertStampActs, PapersAlone DEF InsertReceipt, InsertStamp
<1>4. ASSUME NEW q \in DeskRequests, InsertCertificate(q) \/ UpdateCertificate(q) PROVE DeskInv'
  BY <1>1, <1>4, InsertCertificateActs, UpdateCertificateActs, CertificatesAlone DEF InsertCertificate,
     UpdateCertificate, OnlyReads
<1>5. ASSUME NEW q \in DeskRequests, ReadCertificates(q) PROVE DeskInv'
  BY <1>1, <1>5, ReadCertificatesActs, CertificatesAlone DEF ReadCertificates, OnlyReads
<1>6. ASSUME NEW q \in DeskRequests, InsertIncident(q) \/ UpdateIncident(q) PROVE DeskInv'
  BY <1>1, <1>6, InsertIncidentActs, UpdateIncidentActs, IncidentsAlone
<1>7. ASSUME NEW q \in DeskRequests, ReadIncident(q) \/ CountBoth(q) PROVE DeskInv'
  BY <1>1, <1>7, ReadIncidentActs, CountBothActs, IncidentsAlone
<1>8. ASSUME NEW q \in DeskRequests, ReadTarget(q) \/ CountIntel(q) PROVE DeskInv'
  BY <1>1, <1>8, ReadTargetActs, CountIntelActs, MarketsAlone DEF ReadTarget, CountIntel, OnlyReads
<1>9. ASSUME NEW q \in DeskRequests, InsertDeskIntel(q) \/ InsertChange(q) PROVE DeskInv'
  <2>1. PICK field \in {"intel", "changes"} : Acts(q, MarketRoutes, {field}) /\ MarketsHeld'
    BY <1>1, <1>9, InsertDeskIntelActs, InsertChangeActs
  <2>2. tied' = tied
    BY <1>9 DEF InsertDeskIntel, InsertChange
  <2> QED
    BY <2>1, <2>2, MarketsAlone
<1>10. ASSUME NEW q \in DeskRequests, ReadEvents(q) \/ ReadExport(q) \/ CountEvents(q) PROVE DeskInv'
  BY <1>1, <1>10, ReadEventsActs, ReadExportActs, CountEventsActs, EventsAlone DEF ReadEvents, ReadExport,
     CountEvents, OnlyReads
<1>11. ASSUME NEW q \in DeskRequests, InsertExport(q) PROVE DeskInv'
  BY <1>1, <1>11, InsertExportActs, EventsAlone DEF InsertExport
<1>12. CASE UNCHANGED deskVars
  <2>1. Common'
    BY <1>1, <1>12 DEF deskVars, Common, Present, RequestTyped, DeskParts, Outs, Facts, TableTyped
  <2>2. Elsewhere
    BY <1>1, <1>12 DEF deskVars, Elsewhere, Common, TableTyped
  <2> QED
    BY <2>1, <2>2, ElsewhereHolds
<1>13. ASSUME DeskNext PROVE DeskInv'
  BY <1>2, <1>3, <1>4, <1>5, <1>6, <1>7, <1>8, <1>9, <1>10, <1>11, <1>13, AskDeskHolds, DeskFailsHolds, DeskMovesHolds,
     RetriesHold
  DEF DeskNext
<1> QED
  BY <1>12, <1>13

-----------------------------------------------------------------------------
(* One row in a table of rows.                                             *)
LEMMA OneRow ==
  ASSUME NEW T, NEW rows \in Seq(T), NEW op, WrittenFor(rows, op, desk), NEW q \in DeskRequests,
         desk[q].op = op, desk[q].out = "done"
  PROVE  Cardinality({n \in DOMAIN rows : rows[n].by = q}) = 1
<1>1. PICK n \in DOMAIN rows : rows[n].by = q
  BY DEF WrittenFor
<1>2. {m \in DOMAIN rows : rows[m].by = q} = {n}
  BY <1>1 DEF WrittenFor
<1> QED
  BY <1>2, FS_Singleton

(* What the papers hold is what is promised of them.                       *)
LEMMA PapersTold == Common /\ PapersHeld => PapersTrue
<1> SUFFICES ASSUME Common, PapersHeld PROVE PapersTrue
  OBVIOUS
<1>1. \A n \in DOMAIN table.receipts :
       /\ \E f \in was[table.receipts[n].by] : f.bill = "paid"
       /\ \E f \in was[table.receipts[n].by] : Counts(f.jobs).succeeded = table.receipts[n].succeeded
  BY CountsAre DEF PapersHeld
<1>2. ASSUME NEW n \in DOMAIN table.stamps
      PROVE  LET q == table.stamps[n].by
                 state == table.stamps[n].state
             IN CASE state = "executed" -> \E f \in was[q] : \A j \in JobIds : f.jobs[j] # "failed"
                  [] state = "failed" -> \E f \in was[q] : \A j \in JobIds : f.jobs[j] = "failed"
                  [] state = "partial" -> JobIds = {} \/ \E f \in was[q] : \E j \in JobIds : f.jobs[j] = "failed"
  <2>1. PICK f \in was[table.stamps[n].by] : Attests(table.stamps[n].state, Failed(f.jobs))
    BY <1>2 DEF PapersHeld
  <2>2. table.stamps[n].state \in {"partial", "failed", "executed"}
    <3>1. table.stamps[n] \in [by : DeskRequests, state : {"partial", "failed", "executed"}]
      BY ElementsOf DEF Common, TableTyped
    <3> QED
      BY <3>1
  <2>3. CASE table.stamps[n].state = "executed"
    BY <2>1, <2>3, CountsAre DEF Attests
  <2>4. CASE table.stamps[n].state = "failed"
    BY <2>1, <2>4, CountsAre DEF Attests
  <2>5. CASE table.stamps[n].state = "partial"
    BY <2>1, <2>5, CountsAre DEF Attests
  <2> QED
    BY <2>2, <2>3, <2>4, <2>5
<1>3. \A q \in Told("receipt", "done") : Cardinality({n \in DOMAIN table.receipts : table.receipts[n].by = q}) = 1
  BY OneRow DEF Told, PapersHeld, Common, TableTyped
<1>4. \A q \in Told("stamp", "done") : Cardinality({n \in DOMAIN table.stamps : table.stamps[n].by = q}) = 1
  BY OneRow DEF Told, PapersHeld, Common, TableTyped
<1>5. /\ \A q \in Told("receipt", "refused") : \E f \in was[q] : f.bill # "paid"
      /\ \A q \in Told("listStamps", "seals") : \E f \in was[q] : f.stamps = 0
      /\ \A q \in Told("stampDetail", "missing") : \E f \in was[q] : f.stamps < desk[q].row
  BY DEF Told, PapersHeld, PaperHeld
<1> QED
  BY <1>1, <1>2, <1>3, <1>4, <1>5 DEF PapersTrue

(* What tables and requests hold is what is promised of the routes.        *)
LEMMA DeskHolds == DeskInv => DeskSound
<1> SUFFICES ASSUME DeskInv PROVE DeskSound
  OBVIOUS
<1>1. Common /\ PapersHeld /\ CertificatesHeld /\ IncidentsHeld /\ MarketsHeld /\ EventsHeld
  BY DEF DeskInv
<1>2. IncidentsKept
  BY <1>1 DEF IncidentsHeld, NotesHeld, IncidentHeld, Told, IncidentsKept
<1>3. ListsTrue
  BY <1>1 DEF CertificatesHeld, CertificateHeld, Told, IncidentsHeld, IncidentHeld, MarketsHeld, MarketHeld,
     ListsTrue
<1>4. IntelLinked
  <2>1. ASSUME NEW n \in DOMAIN table.intel
        PROVE  desk[table.intel[n]].out = "done" <=> \E c \in DOMAIN table.changes : table.changes[c].by = table.intel[n]
    BY <1>1, RowsBy DEF MarketsHeld, IntelHeld, ChangesHeld
  <2>2. \A c \in DOMAIN table.changes :
          LET n == table.changes[c].intel IN n # 0 => n <= Len(table.intel) /\ table.intel[n] = table.changes[c].by
    BY <1>1, ElementsOf DEF Common, TableTyped, MarketsHeld, ChangesHeld
  <2>3. \A q \in Told("refresh", "missing") \cup Told("intel", "missing") : \E f \in was[q] : ~f.target
    BY <1>1 DEF MarketsHeld, MarketHeld, Told
  <2> QED
    BY <2>1, <2>2, <2>3 DEF IntelLinked
<1>5. EventsCovered
  BY <1>1 DEF EventsHeld, EventHeld, EventsCovered, Told
<1> QED
  BY <1>1, <1>2, <1>3, <1>4, <1>5, PapersTold DEF DeskSound

-----------------------------------------------------------------------------
(***************************************************************************)
(* The station's engines, which look while it changes                      *)
(* (ENGINES/ceo/index.ts).                                                 *)
(***************************************************************************)

RequestParts == {"at", "op", "hash", "saw", "sees", "there", "verdict"}

MayFind(i) == Values(i) \cup {"unreadable"}
SomeValues == UNION {MayFind(i) : i \in Items}
Found == UNION {[items -> SomeValues] : items \in SUBSET Items}

(* What a look at an item may find, and at some moment of the request it   *)
(* was so, or the look failed.                                             *)
SeenThere(i, v, there) == i \in DOMAIN there /\ v \in there[i] /\ v \in MayFind(i)

SawTrue(r, stages) ==
  /\ r.saw \in Seq(Found) /\ Len(r.saw) <= Len(stages)
  /\ \A n \in 1 .. Len(r.saw) : \A i \in stages[n] : SeenThere(i, r.saw[n][i], r.there)
  /\ \A i \in DOMAIN r.sees : SeenThere(i, r.sees[i], r.there)

(* What a request has seen was so at some moment of it, and its verdict is *)
(* of what it saw.                                                         *)
RequestTrue(r) ==
  /\ DOMAIN r = RequestParts /\ r.at \in {"new", "looking", "answered"}
  /\ r.at # "new" =>
       /\ r.op \in Operations /\ r.hash \in ActionHashes /\ DOMAIN r.there = ItemsOf(r.op, r.hash)
       /\ SawTrue(r, Stages(r.op, r.hash))
  /\ r.at = "looking" /\ Len(r.saw) < Len(Stages(r.op, r.hash)) =>
       DOMAIN r.sees \subseteq Stages(r.op, r.hash)[Len(r.saw) + 1]
  /\ r.at = "answered" =>
       /\ r.verdict = Verdict(r.op, r.hash, r.saw)
       /\ Len(r.saw) = Len(Stages(r.op, r.hash)) \/ Over(r.op, r.saw)

(* The station is as the request that looks at it may see it.              *)
InSight(r, current) ==
  r.at = "looking" => /\ DOMAIN current = ItemsOf(r.op, r.hash)
                      /\ \A i \in DOMAIN current : SeenThere(i, current[i], r.there)

StationInv ==
  /\ looked = [q \in EngineRequests |-> looked[q]]
  /\ \A q \in EngineRequests : RequestTrue(looked[q]) /\ InSight(looked[q], station)

(* The looks of each operation, one after the other ...                    *)
LEMMA StagesAre ==
  ASSUME NEW h
  PROVE  /\ Stages("check", h) = <<Gates, {"seal"}>> /\ Stages("seal", h) = <<>>
         /\ Stages("verify", h) = <<{h}>> /\ Stages("evidence", h) = <<{h}>>
         /\ Stages("gate", h) = <<Gates, {"seal"}, {h}>> /\ Stages("trust", h) = <<{"seal"}>>
         /\ Stages("system", h) = <<StationServices, {"load"}>>
         /\ Stages("audit", h) = <<{"journal"}, {"head"}, {"journal"}>>
         /\ Stages("market", h) = <<{"tenderly"}, {"hookdeck"}, {"volume"}>>
         /\ Stages("commercial", h) = <<{"pipeline"}, {"receipts"}>>
         /\ Stages("campaign", h) = <<{"journal"}, {"feedback"}>>
BY DEF Stages

(* ... are sets of items.                                                  *)
LEMMA StagesTyped ==
  ASSUME NEW op \in Operations, NEW h \in ActionHashes
  PROVE  Len(Stages(op, h)) \in Nat /\ \A n \in 1 .. Len(Stages(op, h)) : Stages(op, h)[n] \subseteq Items
<1>1. Gates \subseteq Items /\ StationServices \subseteq Items /\ {h} \subseteq Items
  BY DEF Items
<1>2. \A i \in Readings : {i} \subseteq Items
  BY DEF Items
<1>3. CASE op \in {"check", "seal", "gate"}
  BY <1>1, <1>2, <1>3, StagesAre DEF Readings
<1>4. CASE op \in {"verify", "evidence", "trust"}
  BY <1>1, <1>2, <1>4, StagesAre DEF Readings
<1>5. CASE op \in {"system", "commercial", "campaign"}
  <2>1. Stages(op, h) \in {<<StationServices, {"load"}>>, <<{"pipeline"}, {"receipts"}>>, <<{"journal"}, {"feedback"}>>}
    BY <1>5, StagesAre
  <2>2. {"load", "pipeline", "receipts", "journal", "feedback"} \subseteq Readings
    BY DEF Readings
  <2> QED
    BY <1>1, <1>2, <2>1, <2>2
<1>6. CASE op \in {"audit", "market"}
  <2>1. Stages(op, h) \in {<<{"journal"}, {"head"}, {"journal"}>>, <<{"tenderly"}, {"hookdeck"}, {"volume"}>>}
    BY <1>6, StagesAre
  <2>2. {"journal", "head", "tenderly", "hookdeck", "volume"} \subseteq Readings
    BY DEF Readings
  <2> QED
    BY <1>1, <1>2, <2>1, <2>2
<1> QED
  BY <1>3, <1>4, <1>5, <1>6 DEF Operations

(* What looks at the items find, written out.                              *)
LEMMA ValuesAre ==
  /\ \A g \in Gates : MayFind(g) = {"present", "absent", "unreadable"}
  /\ \A h \in ActionHashes : MayFind(h) = {"unreadable", "unlisted", "off", "on"}
  /\ \A s \in StationServices : MayFind(s) = {"online", "offline", "unreadable"}
  /\ MayFind("seal") = {"unreadable", "off", "on"} /\ MayFind("load") = {"fine", "high", "unreadable"}
  /\ MayFind("tenderly") = {"present", "absent", "unreadable"}
  /\ MayFind("hookdeck") = {"one", "three", "five", "unreadable"}
  /\ MayFind("volume") = {"none", "few", "many", "unreadable"}
  /\ MayFind("receipts") = {"none", "some", "unreadable"}
<1>1. \A g \in Gates : MayFind(g) = {"present", "absent", "unreadable"}
  BY StationAssumption DEF Gates, Readings, Values, MayFind
<1>2. \A h \in ActionHashes : MayFind(h) = {"unreadable", "unlisted", "off", "on"}
  BY StationAssumption DEF Values, Readings, MayFind
<1>3. \A s \in StationServices : MayFind(s) = {"online", "offline", "unreadable"}
  BY StationAssumption DEF Values, Readings, MayFind
<1>4. \A i \in Readings : i \notin Gates \cup ActionHashes \cup StationServices
  BY StationAssumption DEF Gates, Readings
<1>5. Values("seal") = {"off", "on"} /\ Values("load") = {"fine", "high"} /\ Values("tenderly") = {"present", "absent"}
  BY <1>4 DEF Values, Readings
<1>6. Values("hookdeck") = {"one", "three", "five"} /\ Values("volume") = {"none", "few", "many"}
      /\ Values("receipts") = {"none", "some"}
  BY <1>4 DEF Values, Readings
<1> QED
  BY <1>1, <1>2, <1>3, <1>5, <1>6 DEF MayFind

(* Nothing was asked.                                                      *)
LEMMA StationStarts == StationInit => StationInv
BY DEF StationInit, StationInv, Unasked, RequestTrue, RequestParts, InSight

(* Another state of one request while the station stays.                   *)
LEMMA LookedMoves ==
  ASSUME StationInv, NEW q \in EngineRequests, NEW r, looked' = [looked EXCEPT ![q] = r],
         RequestTrue(r), InSight(r, station'),
         station' = station \/ \A p \in EngineRequests : looked[p].at # "looking"
  PROVE  StationInv'
<1>1. \A p \in EngineRequests : looked'[p] = r \/ looked'[p] = looked[p]
  BY DEF StationInv
<1>2. ASSUME NEW p \in EngineRequests PROVE RequestTrue(looked'[p]) /\ InSight(looked'[p], station')
  BY <1>1 DEF StationInv, InSight
<1>3. looked' = [p \in EngineRequests |-> looked'[p]]
  BY DEF StationInv
<1>4. ASSUME NEW p \in EngineRequests, RequestTrue(looked'[p]), InSight(looked'[p], station')
      PROVE  RequestTrue(looked[p])' /\ InSight(looked[p], station)'
  BY <1>4 DEF RequestTrue, InSight, SawTrue, SeenThere, ItemsOf
<1> QED
  BY <1>2, <1>3, <1>4 DEF StationInv

(* A request finds each item with the one value it has.                    *)
LEMMA AskKeeps ==
  ASSUME StationInv, NEW q \in EngineRequests, NEW op \in Operations, NEW h \in ActionHashes, Ask(q, op, h)
  PROVE  StationInv'
<1>1. PICK values \in [ItemsOf(op, h) -> UNION {Values(i) : i \in ItemsOf(op, h)}] :
        /\ \A i \in ItemsOf(op, h) : values[i] \in Values(i)
        /\ station' = values
        /\ looked' = [looked EXCEPT ![q] = [Unasked EXCEPT !.at = "looking", !.op = op, !.hash = h,
                                              !.there = [i \in ItemsOf(op, h) |-> {values[i]}]]]
  BY DEF Ask
<1> DEFINE r == [Unasked EXCEPT !.at = "looking", !.op = op, !.hash = h, !.there = [i \in ItemsOf(op, h) |-> {values[i]}]]
<1>2. /\ DOMAIN r = RequestParts /\ r.at = "looking" /\ r.op = op /\ r.hash = h /\ r.saw = <<>> /\ r.sees = NoLooks
      /\ r.there = [i \in ItemsOf(op, h) |-> {values[i]}]
  BY DEF Unasked, RequestParts
<1>3. looked' = [looked EXCEPT ![q] = r]
  BY <1>1
<1> HIDE DEF r
<1>4. InSight(r, station')
  BY <1>1, <1>2 DEF InSight, SeenThere, MayFind
<1>5. RequestTrue(r)
  <2>1. SawTrue(r, Stages(op, h))
    BY StagesTyped, <1>2 DEF SawTrue, NoLooks
  <2> QED
    BY <1>2, <2>1 DEF RequestTrue, NoLooks
<1> QED
  BY <1>3, <1>4, <1>5, LookedMoves DEF Ask

(* A look sees what is there at that moment, or fails.                     *)
LEMMA LookKeeps ==
  ASSUME StationInv, NEW q \in EngineRequests, NEW i \in DOMAIN station, Look(q, i)
  PROVE  StationInv'
<1> DEFINE r == looked[q]
           stages == Stages(r.op, r.hash)
<1>a. PICK found \in {station[i], "unreadable"} :
        LET sees == [j \in DOMAIN r.sees \cup {i} |-> IF j = i THEN found ELSE r.sees[j]]
            seen == [r EXCEPT !.there[i] = @ \cup {found}]
        IN looked' = [looked EXCEPT ![q] = IF DOMAIN sees = Stage(q)
                                           THEN [seen EXCEPT !.saw = Append(@, sees), !.sees = NoLooks]
                                           ELSE [seen EXCEPT !.sees = sees]]
  BY DEF Look
<1> DEFINE sees == [j \in DOMAIN r.sees \cup {i} |-> IF j = i THEN found ELSE r.sees[j]]
           there == [r.there EXCEPT ![i] = @ \cup {found}]
           seen == [r EXCEPT !.there = there]
           next == [seen EXCEPT !.saw = Append(@, sees), !.sees = NoLooks]
           more == [seen EXCEPT !.sees = sees]
<1>1. /\ r.at = "looking" /\ Len(r.saw) < Len(stages) /\ i \in stages[Len(r.saw) + 1] /\ UNCHANGED station
      /\ looked' = [looked EXCEPT ![q] = IF DOMAIN sees = stages[Len(r.saw) + 1] THEN next ELSE more]
  BY <1>a DEF Look, Stage
<1>2. /\ DOMAIN r = RequestParts /\ r.op \in Operations /\ r.hash \in ActionHashes /\ DOMAIN r.there = ItemsOf(r.op, r.hash)
      /\ SawTrue(r, stages) /\ DOMAIN r.sees \subseteq stages[Len(r.saw) + 1]
      /\ DOMAIN station = ItemsOf(r.op, r.hash) /\ \A j \in DOMAIN station : SeenThere(j, station[j], r.there)
  BY <1>1 DEF StationInv, RequestTrue, InSight
<1>3. Len(stages) \in Nat /\ \A n \in 1 .. Len(stages) : stages[n] \subseteq Items
  BY <1>2, StagesTyped
<1>b. /\ DOMAIN seen = RequestParts /\ seen.at = r.at /\ seen.op = r.op /\ seen.hash = r.hash /\ seen.there = there
      /\ seen.saw = r.saw /\ seen.sees = r.sees
  BY <1>2 DEF RequestParts
<1>c. /\ DOMAIN there = DOMAIN r.there /\ i \in DOMAIN there /\ found \in there[i]
      /\ \A j \in DOMAIN r.there : r.there[j] \subseteq there[j]
  BY <1>2 DEF SeenThere
<1> HIDE DEF seen, there
<1>4. /\ DOMAIN next = RequestParts /\ next.at = r.at /\ next.op = r.op /\ next.hash = r.hash /\ next.there = there
      /\ next.saw = Append(r.saw, sees) /\ next.sees = NoLooks
  BY <1>b DEF RequestParts
<1>5. /\ DOMAIN more = RequestParts /\ more.at = r.at /\ more.op = r.op /\ more.hash = r.hash /\ more.there = there
      /\ more.saw = r.saw /\ more.sees = sees
  BY <1>b DEF RequestParts
<1>d. \A j, w : SeenThere(j, w, r.there) => SeenThere(j, w, there)
  BY <1>c DEF SeenThere
<1>e. SeenThere(i, found, there)
  BY <1>2, <1>c DEF SeenThere, MayFind
<1>6. \A j \in DOMAIN sees : SeenThere(j, sees[j], there)
  BY <1>2, <1>d, <1>e DEF SawTrue
<1>7. DOMAIN sees \subseteq stages[Len(r.saw) + 1]
  BY <1>1, <1>2
<1>8. r.saw \in Seq(Found) /\ Len(r.saw) \in Nat /\ Len(stages) \in Nat
  BY <1>2, <1>3 DEF SawTrue
<1>f. /\ \A n \in 1 .. Len(r.saw) : \A j \in stages[n] : SeenThere(j, r.saw[n][j], there)
      /\ \A j \in DOMAIN station : SeenThere(j, station[j], there)
  BY <1>2, <1>d DEF SawTrue
<1>9. sees \in Found
  <2>1. DOMAIN sees \subseteq Items
    BY <1>3, <1>7, <1>8, <1>1
  <2>2. \A j \in DOMAIN sees : sees[j] \in SomeValues
    BY <1>6, <2>1 DEF SeenThere, SomeValues
  <2>3. sees \in [DOMAIN sees -> SomeValues]
    BY <2>2
  <2> QED
    BY <2>1, <2>3 DEF Found
<1> HIDE DEF sees, next, more, stages
<1>10. CASE DOMAIN sees = stages[Len(r.saw) + 1]
  <2>1. /\ next.saw \in Seq(Found) /\ Len(next.saw) = Len(r.saw) + 1 /\ next.saw[Len(r.saw) + 1] = sees
        /\ \A n \in 1 .. Len(r.saw) : next.saw[n] = r.saw[n]
    BY <1>4, <1>8, <1>9
  <2>2. \A n \in 1 .. Len(next.saw) : n \in 1 .. Len(r.saw) \/ n = Len(r.saw) + 1
    BY <2>1, <1>8
  <2>3. Len(next.saw) <= Len(stages)
    BY <2>1, <1>8, <1>1
  <2>4. ASSUME NEW n \in 1 .. Len(next.saw), NEW j \in stages[n] PROVE SeenThere(j, next.saw[n][j], next.there)
    BY <2>1, <1>f, <1>4, <1>6, <1>10, <2>2
  <2>5. SawTrue(next, stages)
    BY <2>1, <2>3, <2>4, <1>4 DEF SawTrue, NoLooks
  <2>6. RequestTrue(next)
    BY <2>5, <1>1, <1>2, <1>4, <1>c DEF RequestTrue, NoLooks, stages
  <2>7. InSight(next, station')
    BY <1>1, <1>2, <1>4, <1>f DEF InSight
  <2> QED
    BY <2>6, <2>7, <1>1, <1>10, LookedMoves
<1>11. CASE DOMAIN sees # stages[Len(r.saw) + 1]
  <2>1. SawTrue(more, stages)
    BY <1>2, <1>5, <1>6, <1>f DEF SawTrue
  <2>2. RequestTrue(more)
    BY <2>1, <1>1, <1>2, <1>5, <1>7, <1>c DEF RequestTrue, stages
  <2>3. InSight(more, station')
    BY <1>1, <1>2, <1>5, <1>f DEF InSight
  <2> QED
    BY <2>2, <2>3, <1>1, <1>11, LookedMoves
<1> QED
  BY <1>10, <1>11

(* An answer is the verdict of what was seen.                              *)
LEMMA AnswerKeeps ==
  ASSUME StationInv, NEW q \in EngineRequests, AnswerRequest(q)
  PROVE  StationInv'
<1> DEFINE r == looked[q]
           next == [r EXCEPT !.at = "answered", !.verdict = Verdict(r.op, r.hash, r.saw)]
<1>1. /\ r.at = "looking" /\ (Len(r.saw) = Len(Stages(r.op, r.hash)) \/ Over(r.op, r.saw)) /\ UNCHANGED station
      /\ looked' = [looked EXCEPT ![q] = next]
  BY DEF AnswerRequest, StationInv
<1>2. RequestTrue(r)
  BY DEF StationInv
<1>3. /\ DOMAIN next = RequestParts /\ next.at = "answered" /\ next.op = r.op /\ next.hash = r.hash /\ next.there = r.there
      /\ next.saw = r.saw /\ next.sees = r.sees /\ next.verdict = Verdict(r.op, r.hash, r.saw)
  BY <1>2 DEF RequestParts, RequestTrue
<1> HIDE DEF next
<1>4. RequestTrue(next)
  BY <1>1, <1>2, <1>3 DEF RequestTrue, SawTrue
<1>5. InSight(next, station')
  BY <1>3 DEF InSight
<1> QED
  BY <1>1, <1>4, <1>5, LookedMoves

(* A change of the station adds a value to what was there for those that   *)
(* look.                                                                   *)
LEMMA MovesKeep ==
  ASSUME StationInv, NEW i \in DOMAIN station, Moves(i)
  PROVE  StationInv'
<1>1. PICK v \in Values(i) :
        /\ station' = [station EXCEPT ![i] = v]
        /\ looked' = [q \in EngineRequests |-> IF looked[q].at = "looking"
                                               THEN [looked[q] EXCEPT !.there[i] = @ \cup {v}] ELSE looked[q]]
  BY DEF Moves
<1>2. ASSUME NEW q \in EngineRequests PROVE RequestTrue(looked'[q]) /\ InSight(looked'[q], station')
  <2> DEFINE r == looked[q]
             there == [r.there EXCEPT ![i] = @ \cup {v}]
             next == [r EXCEPT !.there = there]
  <2>1. RequestTrue(r) /\ InSight(r, station)
    BY DEF StationInv
  <2>2. CASE r.at # "looking"
    BY <1>1, <2>1, <2>2 DEF InSight
  <2>3. CASE r.at = "looking"
    <3>1. looked'[q] = next
      BY <1>1, <2>3
    <3>2. /\ DOMAIN next = RequestParts /\ next.at = r.at /\ next.op = r.op /\ next.hash = r.hash /\ next.there = there
          /\ next.saw = r.saw /\ next.sees = r.sees
      BY <2>1 DEF RequestParts, RequestTrue
    <3>3. DOMAIN there = DOMAIN r.there /\ DOMAIN station' = DOMAIN station /\ DOMAIN station = ItemsOf(r.op, r.hash)
      BY <1>1, <2>1, <2>3 DEF InSight
    <3>4. \A j, w : SeenThere(j, w, r.there) => SeenThere(j, w, there)
      BY <3>3 DEF SeenThere
    <3>5. i \in DOMAIN there /\ v \in there[i]
      BY <2>1, <2>3 DEF InSight, SeenThere
    <3> HIDE DEF there, next
    <3>6. InSight(next, station')
      <4>1. ASSUME NEW j \in DOMAIN station' PROVE SeenThere(j, station'[j], there)
        BY <1>1, <3>5, <2>1, <2>3, <3>3, <3>4 DEF SeenThere, InSight, MayFind
      <4> QED
        BY <4>1, <3>2, <3>3 DEF InSight
    <3>7. SawTrue(next, Stages(r.op, r.hash))
      BY <2>1, <2>3, <3>2, <3>4 DEF RequestTrue, SawTrue
    <3>8. RequestTrue(next)
      BY <2>1, <2>3, <3>2, <3>3, <3>7 DEF RequestTrue
    <3> QED
      BY <3>1, <3>6, <3>8
  <2> QED
    BY <2>2, <2>3
<1>3. looked' = [q \in EngineRequests |-> looked'[q]]
  BY <1>1
<1>4. ASSUME NEW p \in EngineRequests, RequestTrue(looked'[p]), InSight(looked'[p], station')
      PROVE  RequestTrue(looked[p])' /\ InSight(looked[p], station)'
  BY <1>4 DEF RequestTrue, InSight, SawTrue, SeenThere, ItemsOf
<1> QED
  BY <1>2, <1>3, <1>4 DEF StationInv

(* Every step keeps what was seen true.                                    *)
LEMMA StationSteps == StationInv /\ [StationNext]_stationVars => StationInv'
<1> SUFFICES ASSUME StationInv, [StationNext]_stationVars PROVE StationInv'
  OBVIOUS
<1>1. CASE UNCHANGED stationVars
  <2>1. looked' = looked /\ station' = station
    BY <1>1 DEF stationVars
  <2>2. ASSUME NEW q \in EngineRequests PROVE RequestTrue(looked[q])' /\ InSight(looked[q], station)'
    <3>1. RequestTrue(looked[q]) /\ InSight(looked[q], station)
      BY DEF StationInv
    <3> QED
      BY <2>1, <3>1 DEF RequestTrue, InSight, SawTrue, SeenThere, ItemsOf
  <2> QED
    BY <2>1, <2>2 DEF StationInv
<1> QED
  BY <1>1, AskKeeps, LookKeeps, AnswerKeeps, MovesKeep DEF StationNext

-----------------------------------------------------------------------------
(* What an answer was made from.                                           *)
LEMMA AnswerWas ==
  ASSUME StationInv, NEW op \in Operations, NEW q \in Answers(op)
  PROVE  LET r == looked[q]
         IN /\ r.op = op /\ r.hash \in ActionHashes /\ DOMAIN r.there = ItemsOf(op, r.hash)
            /\ r.verdict = Verdict(op, r.hash, r.saw) /\ Len(r.saw) \in Nat
            /\ Len(r.saw) = Len(Stages(op, r.hash)) \/ Over(op, r.saw)
            /\ \A n \in 1 .. Len(r.saw) : \A i \in Stages(op, r.hash)[n] :
                 r.saw[n][i] \in MayFind(i) /\ Was(q, i, r.saw[n][i])
BY DEF Answers, StationInv, RequestTrue, SawTrue, SeenThere, Was

(* The gate passes and blocks for what was so.                             *)
LEMMA GateTrue == StationInv => GateExplained
<1> SUFFICES ASSUME StationInv, NEW q \in Answers("gate")
             PROVE  LET h == looked[q].hash
                        verdict == looked[q].verdict
                    IN CASE verdict = "passed" -> /\ \A g \in Gates : Was(q, g, "present")
                                                  /\ Was(q, "seal", "on") /\ Was(q, h, "on")
                         [] verdict = "SYSTEM_NOT_READY" -> \E g \in Gates : Was(q, g, "absent") \/ Unread(q, g)
                         [] verdict = "EXECUTION_SEAL_NOT_ENGAGED" -> Was(q, "seal", "off") \/ Unread(q, "seal")
                         [] OTHER -> ~OnlyWas(q, h, "on")
  BY DEF GateExplained
<1> DEFINE saw == looked[q].saw
           h == looked[q].hash
<1>1. "gate" \in Operations
  BY DEF Operations
<1>2. /\ h \in ActionHashes /\ looked[q].verdict = GateVerdict(h, saw) /\ Len(saw) \in Nat
      /\ Len(saw) = 3 \/ (Len(saw) = 2 /\ (~Ready(saw) \/ saw[2]["seal"] # "on"))
      /\ \A n \in 1 .. Len(saw) : \A i \in Stages("gate", h)[n] : saw[n][i] \in MayFind(i) /\ Was(q, i, saw[n][i])
  BY <1>1, AnswerWas, StagesAre DEF Verdict, Over
<1>3. \A g \in Gates : saw[1][g] \in {"present", "absent", "unreadable"} /\ Was(q, g, saw[1][g])
  BY <1>2, StagesAre, ValuesAre
<1>4. saw[2]["seal"] \in {"unreadable", "off", "on"} /\ Was(q, "seal", saw[2]["seal"])
  BY <1>2, StagesAre, ValuesAre
<1>5. Len(saw) = 3 => saw[3][h] \in {"unreadable", "unlisted", "off", "on"} /\ Was(q, h, saw[3][h])
  BY <1>2, StagesAre, ValuesAre
<1> HIDE DEF saw, h
<1>6. CASE ~Ready(saw)
  BY <1>2, <1>6, <1>3 DEF GateVerdict, Ready, Unread
<1>7. CASE Ready(saw) /\ saw[2]["seal"] # "on"
  BY <1>2, <1>7, <1>4 DEF GateVerdict, Unread
<1>8. CASE Ready(saw) /\ saw[2]["seal"] = "on" /\ saw[3][h] = "on"
  BY <1>2, <1>8, <1>3, <1>4, <1>5 DEF GateVerdict, Ready, h
<1>9. CASE Ready(saw) /\ saw[2]["seal"] = "on" /\ saw[3][h] # "on"
  BY <1>2, <1>9, <1>5 DEF GateVerdict, Was, OnlyWas, h
<1> QED
  BY <1>6, <1>7, <1>8, <1>9

(* The colour of the system counts services that were on and off.          *)
LEMMA SystemTrue ==
  ASSUME StationInv, NEW q \in Answers("system")
  PROVE  LET down == {s \in StationServices : Was(q, s, "offline") \/ Unread(q, s)}
             up == {s \in StationServices : Was(q, s, "online")}
         IN CASE looked[q].verdict = "green" -> up = StationServices /\ (Was(q, "load", "fine") \/ Unread(q, "load"))
              [] looked[q].verdict = "yellow" ->
                   (down # {} \/ Was(q, "load", "high")) /\ Cardinality(StationServices \ up) <= 2
              [] looked[q].verdict = "red" -> Cardinality(down) >= 3
<1> DEFINE saw == looked[q].saw
           h == looked[q].hash
           down == {s \in StationServices : Was(q, s, "offline") \/ Unread(q, s)}
           up == {s \in StationServices : Was(q, s, "online")}
           offline == {s \in StationServices : saw[1][s] # "online"}
<1>1. "system" \in Operations
  BY DEF Operations
<1>2. /\ looked[q].verdict = SystemVerdict(saw) /\ Len(saw) = 2
      /\ \A n \in 1 .. Len(saw) : \A i \in Stages("system", h)[n] : saw[n][i] \in MayFind(i) /\ Was(q, i, saw[n][i])
  BY <1>1, AnswerWas, StagesAre DEF Verdict, Over
<1>3. \A s \in StationServices : saw[1][s] \in {"online", "offline", "unreadable"} /\ Was(q, s, saw[1][s])
  BY <1>2, StagesAre, ValuesAre
<1>4. saw[2]["load"] \in {"fine", "high", "unreadable"} /\ Was(q, "load", saw[2]["load"])
  BY <1>2, StagesAre, ValuesAre
<1>5. offline \subseteq down /\ StationServices \ up \subseteq offline
  BY <1>3 DEF Unread
<1>6. IsFiniteSet(offline) /\ IsFiniteSet(down) /\ IsFiniteSet(StationServices \ up)
  BY FS_Subset, StationAssumption
<1>7. /\ Cardinality(offline) \in Nat /\ Cardinality(offline) <= Cardinality(down) /\ Cardinality(down) \in Nat
      /\ Cardinality(StationServices \ up) <= Cardinality(offline) /\ Cardinality(StationServices \ up) \in Nat
  BY <1>5, <1>6, FS_Subset, FS_CardinalityType
<1>8. Cardinality(offline) = 0 => offline = {}
  BY <1>6, FS_EmptySet
<1>9. offline = {} => Cardinality(offline) = 0
  BY FS_EmptySet
<1>10. SystemVerdict(saw) = CASE Cardinality(offline) > 2 -> "red"
                              [] Cardinality(offline) \in 1 .. 2 -> "yellow"
                              [] OTHER -> IF saw[2]["load"] = "high" THEN "yellow" ELSE "green"
  BY DEF SystemVerdict
<1> HIDE DEF saw, offline
<1>11. CASE Cardinality(offline) > 2
  <2>1. looked[q].verdict = "red" /\ Cardinality(down) >= 3
    BY <1>2, <1>7, <1>10, <1>11
  <2> QED
    BY <2>1
<1>12. CASE Cardinality(offline) \in 1 .. 2
  <2>1. looked[q].verdict = "yellow" /\ Cardinality(StationServices \ up) <= 2
    BY <1>2, <1>7, <1>10, <1>12
  <2>2. down # {}
    BY <1>5, <1>9, <1>12
  <2> QED
    BY <2>1, <2>2
<1>13. CASE Cardinality(offline) = 0
  <2>1. looked[q].verdict = IF saw[2]["load"] = "high" THEN "yellow" ELSE "green"
    BY <1>2, <1>10, <1>13
  <2>2. up = StationServices
    BY <1>5, <1>8, <1>13
  <2>3. Cardinality(StationServices \ up) <= 2
    BY <1>7, <1>13
  <2> QED
    BY <1>4, <2>1, <2>2, <2>3 DEF Unread
<1>14. Cardinality(offline) > 2 \/ Cardinality(offline) \in 1 .. 2 \/ Cardinality(offline) = 0
  BY <1>7
<1> QED
  BY <1>11, <1>12, <1>13, <1>14, Zenon

(* So do trust and the commercial report.                                  *)
LEMMA ReportsTrue == StationInv => ReportsExplained
<1> SUFFICES ASSUME StationInv PROVE ReportsExplained
  OBVIOUS
<1>1. ASSUME NEW q \in Answers("trust"), looked[q].verdict = "trusted" PROVE Was(q, "seal", "on")
  <2> DEFINE saw == looked[q].saw
  <2>1. "trust" \in Operations
    BY DEF Operations
  <2>2. Verdict("trust", looked[q].hash, saw) = IF saw[1]["seal"] = "on" THEN "trusted" ELSE "SEAL_NOT_ENGAGED"
    BY DEF Verdict
  <2>3. Len(saw) = 1
    BY <2>1, AnswerWas, StagesAre DEF Over
  <2>4. Was(q, "seal", saw[1]["seal"])
    BY <2>1, <2>3, AnswerWas, StagesAre
  <2> QED
    BY <1>1, <2>1, <2>2, <2>4, AnswerWas
<1>2. ASSUME NEW q \in Answers("commercial")
      PROVE  IF looked[q].verdict = "green" THEN Was(q, "receipts", "some") /\ ~OnlyWas(q, "pipeline", "down")
             ELSE Was(q, "receipts", "none") \/ Unread(q, "receipts") \/ Was(q, "pipeline", "down")
  <2> DEFINE saw == looked[q].saw
  <2>1. "commercial" \in Operations
    BY DEF Operations
  <2>2. Verdict("commercial", looked[q].hash, saw) = CommercialVerdict(saw)
    BY DEF Verdict
  <2>3. Len(saw) = 2
    BY <2>1, AnswerWas, StagesAre DEF Over
  <2>4. /\ Was(q, "pipeline", saw[1]["pipeline"]) /\ saw[2]["receipts"] \in {"none", "some", "unreadable"}
        /\ Was(q, "receipts", saw[2]["receipts"])
    <3>1. \A n \in 1 .. 2 : \A i \in Stages("commercial", looked[q].hash)[n] : saw[n][i] \in MayFind(i) /\ Was(q, i, saw[n][i])
      BY <2>1, <2>3, AnswerWas
    <3>2. Stages("commercial", looked[q].hash) = <<{"pipeline"}, {"receipts"}>>
      BY StagesAre
    <3> QED
      BY <3>1, <3>2, ValuesAre
  <2>5. looked[q].verdict = CommercialVerdict(saw)
    BY <2>1, <2>2, AnswerWas
  <2> QED
    BY <2>4, <2>5 DEF CommercialVerdict, Was, OnlyWas, Unread
<1> QED
  BY <1>1, <1>2, SystemTrue DEF ReportsExplained

(* The signals add up to three times their number at least.                *)
LEMMA NeverSaidTrue == StationInv => NeverSaid
<1> SUFFICES ASSUME StationInv PROVE NeverSaid
  OBVIOUS
<1>1. ASSUME NEW q \in Answers("market")
      PROVE  looked[q].verdict \in {"ACCELERATE_GTM", "CONTINUE_EXECUTION"}
  <2> DEFINE saw == looked[q].saw
             s == Strengths(saw)
  <2>1. "market" \in Operations
    BY DEF Operations
  <2>2. Verdict("market", looked[q].hash, saw) = MarketVerdict(saw)
    BY DEF Verdict
  <2>3. Len(saw) = 3
    BY <2>1, AnswerWas, StagesAre DEF Over
  <2>4. saw[2]["hookdeck"] \in {"one", "three", "five", "unreadable"} /\ saw[3]["volume"] \in {"none", "few", "many", "unreadable"}
    <3>1. \A n \in 1 .. 3 : \A i \in Stages("market", looked[q].hash)[n] : saw[n][i] \in MayFind(i)
      BY <2>1, <2>3, AnswerWas
    <3>2. Stages("market", looked[q].hash) = <<{"tenderly"}, {"hookdeck"}, {"volume"}>>
      BY StagesAre
    <3> QED
      BY <3>1, <3>2, ValuesAre
  <2>5. s.total \in Nat /\ s.count \in Nat /\ s.total >= 3 * s.count
    BY <2>4 DEF Strengths, Strength
  <2>6. looked[q].verdict = MarketVerdict(saw)
    BY <2>1, <2>2, AnswerWas
  <2> HIDE DEF saw
  <2> QED
    BY <2>5, <2>6 DEF MarketVerdict
<1>2. ASSUME NEW q \in Answers("audit"), looked[q].verdict = "valid" PROVE Was(q, "journal", "empty")
  <2> DEFINE saw == looked[q].saw
  <2>1. "audit" \in Operations
    BY DEF Operations
  <2>2. Verdict("audit", looked[q].hash, saw) = AuditVerdict(saw)
    BY DEF Verdict
  <2>3. Len(saw) = 3
    BY <2>1, AnswerWas, StagesAre DEF Over
  <2>4. Was(q, "journal", saw[3]["journal"])
    BY <2>1, <2>3, AnswerWas, StagesAre
  <2>5. looked[q].verdict = AuditVerdict(saw)
    BY <2>1, <2>2, AnswerWas
  <2> QED
    BY <1>2, <2>4, <2>5 DEF AuditVerdict
<1> QED
  BY <1>1, <1>2 DEF NeverSaid

(* All reports are explained.                                              *)
LEMMA StationHolds == StationInv => StationSound
BY GateTrue, ReportsTrue, NeverSaidTrue DEF StationSound

-----------------------------------------------------------------------------
(***************************************************************************)
(* The local seal store: the journal and its copy in memory (seal-api.ts). *)
(***************************************************************************)

Pieces == Seq(Sealings) \cup {Part}
Previous(hashes) == SubSeq(hashes, 1, Len(hashes) - 1)

(* Piece n of line i.                                                      *)
PieceAt(pages, i, n) == i \in 1 .. Len(pages) /\ n \in 1 .. Len(pages[i])
Recorded(pages, hashes) == \E i, n : PieceAt(pages, i, n) /\ pages[i][n] = hashes
RecordedBy(pages, k, hashes) == \E i, n : PieceAt(pages, i, n) /\ i <= k /\ pages[i][n] = hashes

JournalTyped(pages) == pages \in Seq(Seq(Pieces)) /\ \A i \in 1 .. Len(pages) : Len(pages[i]) > 0

SealingTyped(seals) ==
  /\ seals = [q \in Sealings |-> seals[q]]
  /\ \A q \in Sealings :
       /\ DOMAIN seals[q] = {"at", "chain", "tier"}
       /\ seals[q].at \in {"new", "appending", "appended", "answered", "failed"}
       /\ seals[q].at # "new" => /\ seals[q].tier \in {"free", "growth"} /\ seals[q].chain \in Seq(Sealings)
                                 /\ Len(seals[q].chain) > 0 /\ seals[q].chain[Len(seals[q].chain)] = q

(* Every piece is the chain of a request, once, behind the one it follows. *)
JournalTrue(pages, seals) ==
  /\ \A i, n : PieceAt(pages, i, n) /\ pages[i][n] # Part =>
       \E q \in Sealings :
         /\ seals[q].at \in {"appended", "answered", "failed"} /\ pages[i][n] = seals[q].chain
         /\ Previous(seals[q].chain) = Genesis \/ RecordedBy(pages, i, Previous(seals[q].chain))
  /\ \A i, n, k, m : PieceAt(pages, i, n) /\ PieceAt(pages, k, m) /\ pages[i][n] = pages[k][m] /\ pages[i][n] # Part =>
       i = k /\ n = m

(* A request follows what is in the journal, and is in it once it went on. *)
SealsTrue(pages, seals) ==
  \A q \in Sealings :
    /\ seals[q].at \in {"appended", "answered"} => Recorded(pages, seals[q].chain)
    /\ seals[q].at # "new" => Previous(seals[q].chain) = Genesis \/ Recorded(pages, Previous(seals[q].chain))

(* The copy of a server that is up.                                        *)
CopyTrue(c, pages, seals) ==
  /\ DOMAIN c = {"store", "usage", "last"} /\ c.store \in Seq(Sealings)
  /\ \A i, k \in 1 .. Len(c.store) : c.store[i] = c.store[k] => i = k
  /\ \A i \in 1 .. Len(c.store) :
       seals[c.store[i]].at \in {"answered", "failed"} /\ Recorded(pages, seals[c.store[i]].chain)
  /\ \A q \in Sealings : seals[q].at = "answered" => \E i \in 1 .. Len(c.store) : c.store[i] = q
  /\ c.usage = Counted(c.store)
  /\ c.last \in Seq(Sealings) /\ (c.last = Genesis \/ Recorded(pages, c.last))

(* What the server holds, or will when it is up again.                     *)
StoredBy(up, c, pages, seals) ==
  IF up THEN {c.store[i] : i \in 1 .. Len(c.store)}
  ELSE {q \in Sealings : seals[q].at # "new" /\ Recorded(pages, seals[q].chain)}

(* Where a seal was told that it costs, the free ones are held.            *)
FreeFirst(ownSeals, seals) ==
  \A w \in Spaces : (\E q \in Sealings : SpaceOf[q] = w /\ seals[q].at # "new" /\ seals[q].tier = "growth") =>
    \E free \in SUBSET ownSeals :
      /\ IsFiniteSet(free) /\ FreeSeals <= Cardinality(free)
      /\ \A q \in free : SpaceOf[q] = w /\ seals[q].at # "new" /\ seals[q].tier = "free"

LocalHolds(pages, ended, c, seals, mode) ==
  /\ JournalTyped(pages) /\ (ended \/ Len(pages) > 0)
  /\ SealingTyped(seals) /\ JournalTrue(pages, seals) /\ SealsTrue(pages, seals)
  /\ mode = "up" => CopyTrue(c, pages, seals)
  /\ mode # "up" => \A q \in Sealings : seals[q].at \notin {"appending", "appended"}
  /\ FreeFirst(StoredBy(mode = "up", c, pages, seals), seals)

LocalInv == LocalHolds(journal, lineEnded, copy, sealing, sealServer)

-----------------------------------------------------------------------------
(* A chain ends with its seal behind the chain before it.                  *)
LEMMA ChainsAre ==
  ASSUME NEW hashes \in Seq(Sealings), Len(hashes) > 0
  PROVE  /\ hashes # Part /\ Len(hashes) \in Nat /\ Previous(hashes) \in Seq(Sealings) /\ Len(Previous(hashes)) = Len(hashes) - 1
         /\ Previous(hashes) # hashes /\ Previous(hashes) # Part
<1>1. Len(hashes) \in Nat /\ \A i \in 1 .. Len(hashes) : hashes[i] \in Sealings
  OBVIOUS
<1>2. Previous(hashes) \in Seq(Sealings) /\ Len(Previous(hashes)) = Len(hashes) - 1
  <2>1. Len(hashes) - 1 \in Int /\ 1 \in Int /\ \A i \in 1 .. Len(hashes) - 1 : hashes[i] \in Sealings
    BY <1>1
  <2>2. /\ SubSeq(hashes, 1, Len(hashes) - 1) \in Seq(Sealings)
        /\ Len(SubSeq(hashes, 1, Len(hashes) - 1)) = IF 1 <= Len(hashes) - 1 THEN Len(hashes) - 1 - 1 + 1 ELSE 0
    BY <2>1, SubSeqProperties
  <2> QED
    <3>1. Previous(hashes) = SubSeq(hashes, 1, Len(hashes) - 1)
      BY DEF Previous
    <3>2. Len(SubSeq(hashes, 1, Len(hashes) - 1)) = Len(hashes) - 1
      <4>1. \A n \in Nat : n > 0 => (IF 1 <= n - 1 THEN n - 1 - 1 + 1 ELSE 0) = n - 1
        OBVIOUS
      <4> QED
        BY <1>1, <2>2, <4>1, Zenon
    <3> QED
      BY <2>2, <3>1, <3>2
<1>3. ASSUME NEW other \in Seq(Sealings) PROVE other # Part
  <2>1. \A i \in 1 .. Len(other) : other[i] \in Sealings
    BY ElementOfSeq
  <2>2. Len(Part) = 1 /\ Part[1] = "part"
    BY DEF Part
  <2>3. "part" \notin Sealings
    BY LocalSealsAssumption
  <2>4. 1 \in 1 .. Len(Part)
    BY <2>2
  <2> QED
    BY <2>1, <2>2, <2>3, <2>4, Zenon
<1> QED
  BY <1>1, <1>2, <1>3

(* A seal is put at the end of a chain.                                    *)
LEMMA LongerChain ==
  ASSUME NEW hashes \in Seq(Sealings), NEW q \in Sealings
  PROVE  /\ Append(hashes, q) \in Seq(Sealings) /\ Len(Append(hashes, q)) > 0 /\ Append(hashes, q)[Len(Append(hashes, q))] = q
         /\ Previous(Append(hashes, q)) = hashes
<1>1. Len(hashes) \in Nat /\ Append(hashes, q) \in Seq(Sealings) /\ Len(Append(hashes, q)) = Len(hashes) + 1
  OBVIOUS
<1>2. Append(hashes, q)[Len(hashes) + 1] = q /\ \A i \in 1 .. Len(hashes) : Append(hashes, q)[i] = hashes[i]
  OBVIOUS
<1>3. Previous(Append(hashes, q)) = hashes
  BY <1>1, <1>2 DEF Previous
<1> QED
  BY <1>1, <1>2, <1>3

(* appendFile adds one piece, in the last line.                            *)
LEMMA AppendedAt ==
  ASSUME JournalTyped(journal), lineEnded \/ Len(journal) > 0, NEW piece \in Pieces
  PROVE  LET next == Appended(piece)
         IN /\ JournalTyped(next) /\ Len(next) > 0
            /\ \E i, n :
                 /\ PieceAt(next, i, n) /\ ~PieceAt(journal, i, n) /\ next[i][n] = piece /\ \A k, m : PieceAt(next, k, m) => k <= i
                 /\ \A k, m : PieceAt(journal, k, m) => PieceAt(next, k, m) /\ next[k][m] = journal[k][m]
                 /\ \A k, m : PieceAt(next, k, m) => PieceAt(journal, k, m) \/ (k = i /\ m = n)
<1> DEFINE next == Appended(piece)
           last == Len(journal)
<1>1. last \in Nat /\ journal \in Seq(Seq(Pieces)) /\ \A i \in 1 .. last : journal[i] \in Seq(Pieces) /\ Len(journal[i]) \in Nat
  BY DEF JournalTyped
<1>2. CASE lineEnded
  <2>1. <<piece>> \in Seq(Pieces) /\ Len(<<piece>>) = 1 /\ <<piece>>[1] = piece
    OBVIOUS
  <2>2. next = Append(journal, <<piece>>)
    BY <1>2 DEF Appended
  <2>3. /\ next \in Seq(Seq(Pieces)) /\ Len(next) = last + 1 /\ next[last + 1] = <<piece>>
        /\ \A k \in 1 .. last : next[k] = journal[k]
    BY <1>1, <2>1, <2>2
  <2> HIDE DEF next, last
  <2>4. JournalTyped(next) /\ Len(next) > 0
    <3>1. ASSUME NEW i \in 1 .. Len(next) PROVE Len(next[i]) > 0
      <4>1. CASE i = last + 1
        BY <4>1, <2>1, <2>3
      <4>2. CASE i # last + 1
        <5>1. i \in 1 .. last
          BY <4>2, <1>1, <2>3
        <5> QED
          BY <5>1, <2>3 DEF JournalTyped, last
      <4> QED
        BY <4>1, <4>2
    <3> QED
      BY <1>1, <2>3, <3>1 DEF JournalTyped
  <2>5. PieceAt(next, last + 1, 1) /\ ~PieceAt(journal, last + 1, 1) /\ next[last + 1][1] = piece
    BY <1>1, <2>1, <2>3 DEF PieceAt, last
  <2>6. \A k, m : PieceAt(next, k, m) => k <= last + 1
    BY <1>1, <2>3 DEF PieceAt
  <2>7. \A k, m : PieceAt(journal, k, m) => PieceAt(next, k, m) /\ next[k][m] = journal[k][m]
    BY <1>1, <2>3 DEF PieceAt, last
  <2>8. ASSUME NEW k, NEW m, PieceAt(next, k, m) PROVE PieceAt(journal, k, m) \/ (k = last + 1 /\ m = 1)
    <3>1. k \in 1 .. last \/ k = last + 1
      BY <1>1, <2>3, <2>8 DEF PieceAt
    <3>2. CASE k \in 1 .. last
      BY <3>2, <2>3, <2>8 DEF PieceAt, last
    <3>3. CASE k = last + 1
      BY <3>3, <2>1, <2>3, <2>8 DEF PieceAt
    <3> QED
      BY <3>1, <3>2, <3>3
  <2> QED
    BY <2>4, <2>5, <2>6, <2>7, <2>8 DEF next
<1>3. CASE ~lineEnded
  <2> DEFINE line == Append(journal[last], piece)
             width == Len(journal[last])
  <2>1. last > 0 /\ last \in 1 .. last /\ journal[last] \in Seq(Pieces) /\ width \in Nat
    BY <1>1, <1>3
  <2>2. line \in Seq(Pieces) /\ Len(line) = width + 1 /\ line[width + 1] = piece /\ \A m \in 1 .. width : line[m] = journal[last][m]
    BY <2>1
  <2>3. next = [journal EXCEPT ![last] = line]
    BY <1>3 DEF Appended
  <2> HIDE DEF line
  <2>4. /\ next \in Seq(Seq(Pieces)) /\ Len(next) = last /\ next[last] = line
        /\ \A k \in 1 .. last : k # last => next[k] = journal[k]
    BY <1>1, <2>1, <2>2, <2>3
  <2> HIDE DEF next, last, width
  <2>5. JournalTyped(next) /\ Len(next) > 0
    <3>1. ASSUME NEW i \in 1 .. Len(next) PROVE Len(next[i]) > 0
      <4>1. CASE i = last
        BY <4>1, <2>1, <2>2, <2>4
      <4>2. CASE i # last
        BY <4>2, <2>4 DEF JournalTyped, last
      <4> QED
        BY <4>1, <4>2
    <3> QED
      BY <2>1, <2>4, <3>1 DEF JournalTyped
  <2>6. PieceAt(next, last, width + 1) /\ ~PieceAt(journal, last, width + 1) /\ next[last][width + 1] = piece
    BY <1>1, <2>1, <2>2, <2>4 DEF PieceAt, last, width
  <2>7. \A k, m : PieceAt(next, k, m) => k <= last
    BY <1>1, <2>4 DEF PieceAt
  <2>8. \A k, m : PieceAt(journal, k, m) => PieceAt(next, k, m) /\ next[k][m] = journal[k][m]
    BY <1>1, <2>1, <2>2, <2>4 DEF PieceAt, last, width
  <2>9. \A k, m : PieceAt(next, k, m) => PieceAt(journal, k, m) \/ (k = last /\ m = width + 1)
    BY <1>1, <2>1, <2>2, <2>4 DEF PieceAt, last, width
  <2> QED
    BY <2>5, <2>6, <2>7, <2>8, <2>9 DEF next
<1> QED
  BY <1>2, <1>3

(* The journal is empty.                                                   *)
LEMMA LocalStarts == LocalInit => LocalInv
<1> SUFFICES ASSUME LocalInit PROVE LocalInv
  OBVIOUS
<1>1. /\ journal = <<>> /\ lineEnded = TRUE /\ copy = [store |-> <<>>, usage |-> [w \in Spaces |-> 0], last |-> Genesis]
      /\ sealing = [q \in Sealings |-> NewSeal] /\ sealServer = "up"
  BY DEF LocalInit, EmptyCopy
<1>2. \A i, n : ~PieceAt(journal, i, n)
  BY <1>1 DEF PieceAt
<1>3. \A q \in Sealings : sealing[q].at = "new" /\ DOMAIN sealing[q] = {"at", "chain", "tier"}
  BY <1>1 DEF NewSeal
<1>4. CopyTrue(copy, journal, sealing)
  <2>1. Counted(<<>>) = [w \in Spaces |-> 0]
    BY FS_EmptySet DEF Counted
  <2> QED
    BY <1>1, <1>3, <2>1 DEF CopyTrue, Genesis
<1>5. FreeFirst(StoredBy(sealServer = "up", copy, journal, sealing), sealing)
  BY <1>3 DEF FreeFirst
<1> QED
  BY <1>1, <1>2, <1>3, <1>4, <1>5 DEF LocalInv, LocalHolds, JournalTyped, SealingTyped, JournalTrue, SealsTrue

(* The recorded are those that went on.                                    *)
LEMMA RecordedBegan ==
  ASSUME NEW pages, NEW seals, SealingTyped(seals), JournalTrue(pages, seals), NEW q \in Sealings,
         seals[q].at # "new", Recorded(pages, seals[q].chain)
  PROVE  seals[q].at \in {"appended", "answered", "failed"}
<1>1. seals[q].chain # Part /\ seals[q].chain[Len(seals[q].chain)] = q
  BY ChainsAre DEF SealingTyped
<1>2. PICK p \in Sealings : seals[p].at \in {"appended", "answered", "failed"} /\ seals[q].chain = seals[p].chain
  BY <1>1 DEF Recorded, JournalTrue
<1>3. p = q
  BY <1>1, <1>2 DEF SealingTyped
<1> QED
  BY <1>2, <1>3

-----------------------------------------------------------------------------
Went == {"appended", "answered", "failed"}

(* The requests go on as they began.                                       *)
GoesOnAs(seals, next) ==
  /\ SealingTyped(next)
  /\ \A q \in Sealings :
       /\ next[q].chain = seals[q].chain /\ next[q].tier = seals[q].tier
       /\ (next[q].at = "new") <=> (seals[q].at = "new")
       /\ seals[q].at \in Went => next[q].at \in Went

(* Requests that go on leave the journal true ...                          *)
LEMMA JournalStays ==
  ASSUME NEW pages, NEW seals, NEW next, JournalTrue(pages, seals), GoesOnAs(seals, next)
  PROVE  JournalTrue(pages, next)
<1>1. ASSUME NEW i, NEW n, PieceAt(pages, i, n), pages[i][n] # Part
      PROVE  \E q \in Sealings :
               /\ next[q].at \in {"appended", "answered", "failed"} /\ pages[i][n] = next[q].chain
               /\ Previous(next[q].chain) = Genesis \/ RecordedBy(pages, i, Previous(next[q].chain))
  <2>1. PICK q \in Sealings :
          /\ seals[q].at \in {"appended", "answered", "failed"} /\ pages[i][n] = seals[q].chain
          /\ Previous(seals[q].chain) = Genesis \/ RecordedBy(pages, i, Previous(seals[q].chain))
    BY <1>1 DEF JournalTrue
  <2>2. next[q].at \in {"appended", "answered", "failed"} /\ next[q].chain = seals[q].chain
    BY <2>1 DEF GoesOnAs, Went
  <2> QED
    BY <2>1, <2>2
<1> QED
  BY <1>1 DEF JournalTrue

(* ... and the free seals held.                                            *)
LEMMA FreeStays ==
  ASSUME NEW ownSeals, NEW seals, FreeFirst(ownSeals, seals), NEW more, ownSeals \subseteq more, NEW next, GoesOnAs(seals, next),
         more \subseteq Sealings
  PROVE  FreeFirst(more, next)
<1> SUFFICES ASSUME NEW w \in Spaces, NEW q \in Sealings, SpaceOf[q] = w, next[q].at # "new", next[q].tier = "growth"
             PROVE  \E free \in SUBSET more :
                      /\ IsFiniteSet(free) /\ FreeSeals <= Cardinality(free)
                      /\ \A p \in free : SpaceOf[p] = w /\ next[p].at # "new" /\ next[p].tier = "free"
  BY DEF FreeFirst
<1>1. PICK free \in SUBSET ownSeals :
        /\ IsFiniteSet(free) /\ FreeSeals <= Cardinality(free)
        /\ \A p \in free : SpaceOf[p] = w /\ seals[p].at # "new" /\ seals[p].tier = "free"
  BY DEF FreeFirst, GoesOnAs
<1> QED
  BY <1>1 DEF GoesOnAs

(* An append, whole or torn, of a request that was waiting for it.         *)
LEMMA JournalGains ==
  ASSUME LocalInv, NEW q \in Sealings, sealing[q].at = "appending", NEW piece \in {Part, sealing[q].chain},
         NEW next, GoesOnAs(sealing, next), next[q].at \in Went
  PROVE  LET pages == Appended(piece)
         IN /\ JournalTyped(pages) /\ Len(pages) > 0 /\ JournalTrue(pages, next)
            /\ \A hashes : Recorded(journal, hashes) => Recorded(pages, hashes)
            /\ piece # Part => Recorded(pages, sealing[q].chain)
<1> DEFINE pages == Appended(piece)
<1>1. /\ SealingTyped(sealing)
      /\ JournalTrue(journal, sealing) /\ SealsTrue(journal, sealing)
  BY DEF LocalInv, LocalHolds
<1>2. sealing[q].chain \in Seq(Sealings) /\ Len(sealing[q].chain) > 0
  BY <1>1 DEF SealingTyped
<1>3. piece \in Pieces
  BY <1>2 DEF Pieces
<1>4. JournalTyped(journal) /\ (lineEnded \/ Len(journal) > 0)
  BY DEF LocalInv, LocalHolds
<1>5. /\ JournalTyped(pages) /\ Len(pages) > 0
      /\ \E i, n :
           /\ PieceAt(pages, i, n) /\ ~PieceAt(journal, i, n) /\ pages[i][n] = piece /\ \A k, m : PieceAt(pages, k, m) => k <= i
           /\ \A k, m : PieceAt(journal, k, m) => PieceAt(pages, k, m) /\ pages[k][m] = journal[k][m]
           /\ \A k, m : PieceAt(pages, k, m) => PieceAt(journal, k, m) \/ (k = i /\ m = n)
  BY <1>3, <1>4, AppendedAt
<1> HIDE DEF pages
<1>6. PICK i, n :
           /\ PieceAt(pages, i, n) /\ ~PieceAt(journal, i, n) /\ pages[i][n] = piece /\ \A k, m : PieceAt(pages, k, m) => k <= i
           /\ \A k, m : PieceAt(journal, k, m) => PieceAt(pages, k, m) /\ pages[k][m] = journal[k][m]
           /\ \A k, m : PieceAt(pages, k, m) => PieceAt(journal, k, m) \/ (k = i /\ m = n)
  BY <1>5
<1>7. \A hashes : Recorded(journal, hashes) => Recorded(pages, hashes)
  BY <1>6 DEF Recorded
<1>8. \A k, hashes : RecordedBy(journal, k, hashes) => RecordedBy(pages, k, hashes)
  BY <1>6 DEF RecordedBy
<1>9. \A hashes : Recorded(journal, hashes) => RecordedBy(pages, i, hashes)
  BY <1>6 DEF Recorded, RecordedBy
<1>10. JournalTrue(journal, next)
  BY <1>1, JournalStays
<1>11. next[q].chain = sealing[q].chain
  BY DEF GoesOnAs
<1>12. ASSUME NEW k, NEW m, PieceAt(pages, k, m), pages[k][m] # Part
       PROVE  \E p \in Sealings :
                /\ next[p].at \in {"appended", "answered", "failed"} /\ pages[k][m] = next[p].chain
                /\ Previous(next[p].chain) = Genesis \/ RecordedBy(pages, k, Previous(next[p].chain))
  <2>1. CASE PieceAt(journal, k, m)
    <3>1. pages[k][m] = journal[k][m]
      BY <1>6, <2>1
    <3>2. PICK p \in Sealings :
            /\ next[p].at \in {"appended", "answered", "failed"} /\ journal[k][m] = next[p].chain
            /\ Previous(next[p].chain) = Genesis \/ RecordedBy(journal, k, Previous(next[p].chain))
      BY <1>10, <1>12, <2>1, <3>1 DEF JournalTrue
    <3> QED
      BY <1>8, <3>1, <3>2
  <2>2. CASE k = i /\ m = n
    BY <1>6, <1>11, <1>12, <2>2, <1>1, <1>9 DEF SealsTrue, Went
  <2> QED
    BY <1>6, <1>12, <2>1, <2>2
<1>13. ASSUME NEW j, NEW l, PieceAt(journal, j, l), journal[j][l] = sealing[q].chain PROVE FALSE
  BY <1>1, <1>2, <1>13, ChainsAre, RecordedBegan DEF Recorded
<1>14. ASSUME NEW j, NEW l, NEW k, NEW m, PieceAt(pages, j, l), PieceAt(pages, k, m), pages[j][l] = pages[k][m], pages[j][l] # Part
       PROVE  j = k /\ l = m
  BY <1>1, <1>6, <1>14, <1>13 DEF JournalTrue
<1>15. JournalTrue(pages, next)
  BY <1>12, <1>14 DEF JournalTrue
<1>16. piece # Part => Recorded(pages, sealing[q].chain)
  BY <1>6 DEF Recorded
<1> QED
  BY <1>5, <1>7, <1>15, <1>16 DEF pages

(* A request begins behind the last seal of the copy.                      *)
LEMMA BeginHolds ==
  ASSUME LocalInv, NEW q \in Sealings, BeginSeal(q)
  PROVE  LocalInv'
<1> DEFINE hashes == Append(copy.last, q)
           tier == TierAt(copy.usage[SpaceOf[q]])
           fresh == [at |-> "appending", chain |-> hashes, tier |-> tier]
           next == [sealing EXCEPT ![q] = fresh]
<1>1. /\ sealServer = "up" /\ sealing[q].at = "new" /\ sealing' = next
      /\ UNCHANGED <<journal, lineEnded, copy, sealServer>>
  BY DEF BeginSeal
<1>2. /\ JournalTyped(journal) /\ (lineEnded \/ Len(journal) > 0) /\ SealingTyped(sealing)
      /\ JournalTrue(journal, sealing) /\ SealsTrue(journal, sealing) /\ CopyTrue(copy, journal, sealing)
      /\ FreeFirst(StoredBy(TRUE, copy, journal, sealing), sealing)
  BY <1>1 DEF LocalInv, LocalHolds
<1>3. /\ hashes \in Seq(Sealings) /\ Len(hashes) > 0 /\ hashes[Len(hashes)] = q /\ Previous(hashes) = copy.last
      /\ (copy.last = Genesis \/ Recorded(journal, copy.last))
  BY <1>2, LongerChain DEF CopyTrue
<1>4. tier \in {"free", "growth"}
  BY DEF TierAt
<1>5. /\ next[q] = fresh /\ fresh.at = "appending" /\ fresh.chain = hashes /\ fresh.tier = tier
      /\ DOMAIN fresh = {"at", "chain", "tier"} /\ \A p \in Sealings : p # q => next[p] = sealing[p]
      /\ next = [p \in Sealings |-> next[p]]
  BY <1>2 DEF SealingTyped
<1> HIDE DEF next, fresh, tier, hashes
<1>6. SealingTyped(next)
  <2>1. ASSUME NEW p \in Sealings
        PROVE  /\ DOMAIN next[p] = {"at", "chain", "tier"}
               /\ next[p].at \in {"new", "appending", "appended", "answered", "failed"}
               /\ next[p].at # "new" => /\ next[p].tier \in {"free", "growth"} /\ next[p].chain \in Seq(Sealings)
                                        /\ Len(next[p].chain) > 0 /\ next[p].chain[Len(next[p].chain)] = p
    BY <1>3, <1>4, <1>5, <1>2 DEF SealingTyped
  <2> QED
    BY <1>5, <2>1 DEF SealingTyped
<1>7. JournalTrue(journal, next)
  <2>1. ASSUME NEW i, NEW n, PieceAt(journal, i, n), journal[i][n] # Part
        PROVE  \E p \in Sealings :
                 /\ next[p].at \in {"appended", "answered", "failed"} /\ journal[i][n] = next[p].chain
                 /\ Previous(next[p].chain) = Genesis \/ RecordedBy(journal, i, Previous(next[p].chain))
    <3>1. PICK p \in Sealings :
            /\ sealing[p].at \in {"appended", "answered", "failed"} /\ journal[i][n] = sealing[p].chain
            /\ Previous(sealing[p].chain) = Genesis \/ RecordedBy(journal, i, Previous(sealing[p].chain))
      BY <1>2, <2>1 DEF JournalTrue
    <3>2. p # q
      BY <1>1, <3>1
    <3> QED
      BY <1>5, <3>1, <3>2
  <2> QED
    BY <1>2, <2>1 DEF JournalTrue
<1>8. SealsTrue(journal, next)
  <2>1. ASSUME NEW p \in Sealings
        PROVE  /\ next[p].at \in {"appended", "answered"} => Recorded(journal, next[p].chain)
               /\ next[p].at # "new" => Previous(next[p].chain) = Genesis \/ Recorded(journal, Previous(next[p].chain))
    BY <1>3, <1>5, <1>2 DEF SealsTrue
  <2> QED
    BY <2>1 DEF SealsTrue
<1>9. \A i \in 1 .. Len(copy.store) : copy.store[i] \in Sealings /\ copy.store[i] # q
  BY <1>1, <1>2, ElementOfSeq DEF CopyTrue
<1>10. CopyTrue(copy, journal, next)
  BY <1>2, <1>5, <1>9 DEF CopyTrue
<1>11. FreeFirst(StoredBy(TRUE, copy, journal, next), next)
  <2> DEFINE ownSeals == {copy.store[i] : i \in 1 .. Len(copy.store)}
  <2>1. StoredBy(TRUE, copy, journal, next) = ownSeals /\ StoredBy(TRUE, copy, journal, sealing) = ownSeals
    BY DEF StoredBy
  <2>2. \A p \in ownSeals : p \in Sealings /\ p # q /\ sealing[p].at # "new" /\ next[p] = sealing[p]
    BY <1>2, <1>5, <1>9 DEF CopyTrue
  <2> SUFFICES ASSUME NEW w \in Spaces, NEW p \in Sealings, SpaceOf[p] = w, next[p].at # "new", next[p].tier = "growth"
               PROVE  \E free \in SUBSET ownSeals :
                        /\ IsFiniteSet(free) /\ FreeSeals <= Cardinality(free)
                        /\ \A f \in free : SpaceOf[f] = w /\ next[f].at # "new" /\ next[f].tier = "free"
    BY <2>1 DEF FreeFirst
  <2>3. CASE \E g \in Sealings : SpaceOf[g] = w /\ sealing[g].at # "new" /\ sealing[g].tier = "growth"
    <3>1. PICK free \in SUBSET ownSeals :
            /\ IsFiniteSet(free) /\ FreeSeals <= Cardinality(free)
            /\ \A f \in free : SpaceOf[f] = w /\ sealing[f].at # "new" /\ sealing[f].tier = "free"
      BY <1>2, <2>1, <2>3 DEF FreeFirst
    <3> QED
      BY <2>2, <3>1
  <2>4. CASE \A g \in Sealings : SpaceOf[g] = w /\ sealing[g].at # "new" => sealing[g].tier # "growth"
    <3> DEFINE own == {i \in 1 .. Len(copy.store) : SpaceOf[copy.store[i]] = w}
               free == {copy.store[i] : i \in own}
               f == [i \in own |-> copy.store[i]]
    <3>1. p = q
      BY <1>5, <2>4
    <3>2. copy.usage[w] = Cardinality(own)
      BY <1>2 DEF CopyTrue, Counted
    <3>3. FreeSeals <= Cardinality(own)
      <4>1. IsFiniteSet(own)
        BY <1>2, FS_Interval, FS_Subset DEF CopyTrue
      <4>2. Cardinality(own) \in Nat
        BY <4>1, FS_CardinalityType
      <4> QED
        BY <1>5, <3>1, <3>2, <4>2, LocalSealsAssumption DEF TierAt, tier
    <3>4. IsFiniteSet(own)
      BY <1>2, FS_Interval, FS_Subset DEF CopyTrue
    <3>5. f \in Bijection(own, free)
      BY <1>2 DEF CopyTrue, Bijection, Injection, Surjection, IsInjective
    <3>6. IsFiniteSet(free) /\ Cardinality(free) = Cardinality(own)
      BY <3>4, <3>5, FS_Bijection DEF ExistsBijection
    <3>7. \A g \in free : SpaceOf[g] = w /\ g \in ownSeals
      OBVIOUS
    <3>8. \A g \in free : sealing[g].tier = "free"
      <4>1. \A g \in free : g \in Sealings /\ sealing[g].at # "new" /\ sealing[g].tier # "growth"
        BY <2>2, <2>4, <3>7
      <4> QED
        BY <1>2, <4>1 DEF SealingTyped
    <3> HIDE DEF free, own
    <3> QED
      BY <2>2, <3>3, <3>6, <3>7, <3>8
  <2> QED
    BY <2>3, <2>4
<1>12. LocalHolds(journal, lineEnded, copy, next, sealServer)
  BY <1>1, <1>2, <1>6, <1>7, <1>8, <1>10, <1>11 DEF LocalHolds
<1>13. LocalHolds(journal', lineEnded', copy', sealing', sealServer')
  BY <1>1, <1>12
<1> QED
  BY <1>13 DEF LocalInv

-----------------------------------------------------------------------------
(* A request that is not in the copy may go on.                            *)
LEMMA CopyMoves ==
  ASSUME NEW c, NEW pages, NEW seals, CopyTrue(c, pages, seals), NEW more, NEW next, GoesOnAs(seals, next),
         \A hashes : Recorded(pages, hashes) => Recorded(more, hashes),
         \A p \in Sealings : seals[p].at \in {"answered", "failed"} => next[p].at \in {"answered", "failed"},
         \A p \in Sealings : next[p].at = "answered" => seals[p].at = "answered"
  PROVE  CopyTrue(c, more, next)
BY ElementOfSeq DEF CopyTrue, GoesOnAs

(* So it may for the journal.                                              *)
LEMMA SealsMove ==
  ASSUME NEW pages, NEW seals, SealsTrue(pages, seals), NEW more, NEW next, GoesOnAs(seals, next),
         \A hashes : Recorded(pages, hashes) => Recorded(more, hashes),
         \A p \in Sealings : next[p].at \in {"appended", "answered"} =>
           seals[p].at \in {"appended", "answered"} \/ Recorded(more, next[p].chain)
  PROVE  SealsTrue(more, next)
BY DEF SealsTrue, GoesOnAs

(* One request moves.                                                      *)
LEMMA OneMoves ==
  ASSUME SealingTyped(sealing), NEW q \in Sealings, sealing[q].at # "new",
         NEW x \in {"appending", "appended", "answered", "failed"}, sealing[q].at \in Went => x \in Went
  PROVE  LET next == [sealing EXCEPT ![q].at = x]
         IN GoesOnAs(sealing, next) /\ next[q].at = x /\ \A p \in Sealings : p # q => next[p] = sealing[p]
<1> DEFINE next == [sealing EXCEPT ![q].at = x]
<1>1. /\ next = [p \in Sealings |-> next[p]] /\ \A p \in Sealings : p # q => next[p] = sealing[p]
      /\ DOMAIN next[q] = DOMAIN sealing[q] /\ next[q].at = x /\ next[q].chain = sealing[q].chain
      /\ next[q].tier = sealing[q].tier
  BY DEF SealingTyped
<1> HIDE DEF next
<1>2. \A p \in Sealings : p # q \/ p = q
  OBVIOUS
<1>3. SealingTyped(next)
  BY <1>1, <1>2 DEF SealingTyped
<1>4. GoesOnAs(sealing, next)
  BY <1>1, <1>2, <1>3 DEF GoesOnAs
<1> QED
  BY <1>1, <1>4 DEF next

(* A part of a line is no record.                                          *)
LEMMA TornHolds ==
  ASSUME LocalInv, NEW q \in Sealings, sealing[q].at = "appending", TornAppend(q),
         NEW next, GoesOnAs(sealing, next), next[q].at \in Went
  PROVE  /\ JournalTyped(journal') /\ (lineEnded' \/ Len(journal') > 0) /\ JournalTrue(journal', next)
         /\ \A hashes : Recorded(journal, hashes) => Recorded(journal', hashes)
<1>1. CASE UNCHANGED <<journal, lineEnded>>
  BY <1>1, JournalStays DEF LocalInv, LocalHolds
<1>2. CASE journal' \in {Appended(Part), Appended(sealing[q].chain)}
  <2>1. PICK piece \in {Part, sealing[q].chain} : journal' = Appended(piece)
    BY <1>2
  <2> QED
    BY <2>1, JournalGains
<1> QED
  BY <1>1, <1>2 DEF TornAppend

(* Who waits for an append, waits for a server that is up.                 *)
LEMMA UpWhileAppending ==
  ASSUME LocalInv, NEW q \in Sealings, sealing[q].at \in {"appending", "appended"}
  PROVE  /\ sealServer = "up" /\ CopyTrue(copy, journal, sealing) /\ SealingTyped(sealing)
         /\ SealsTrue(journal, sealing) /\ JournalTrue(journal, sealing)
         /\ FreeFirst(StoredBy(TRUE, copy, journal, sealing), sealing)
BY DEF LocalInv, LocalHolds

(* The copy holds requests.                                                *)
LEMMA StoreOfSealings ==
  ASSUME NEW c, NEW pages, NEW seals, CopyTrue(c, pages, seals)
  PROVE  StoredBy(TRUE, c, pages, seals) = {c.store[i] : i \in 1 .. Len(c.store)}
         /\ {c.store[i] : i \in 1 .. Len(c.store)} \subseteq Sealings
BY ElementOfSeq DEF StoredBy, CopyTrue

(* The copy stays, while requests and journal go on.                       *)
LEMMA HeldStays ==
  ASSUME NEW c, NEW pages, NEW seals, CopyTrue(c, pages, seals), FreeFirst(StoredBy(TRUE, c, pages, seals), seals),
         NEW more, NEW next, GoesOnAs(seals, next)
  PROVE  FreeFirst(StoredBy(TRUE, c, more, next), next)
BY StoreOfSealings, FreeStays DEF StoredBy

(* The append reaches the journal.                                         *)
LEMMA ReachesHolds ==
  ASSUME LocalInv, NEW q \in Sealings, Reaches(q)
  PROVE  LocalInv'
<1> DEFINE next == [sealing EXCEPT ![q].at = "appended"]
           pages == Appended(sealing[q].chain)
<1>1. /\ sealing[q].at = "appending" /\ sealing' = next /\ journal' = pages /\ lineEnded' = TRUE
      /\ UNCHANGED <<copy, sealServer>>
  BY DEF Reaches
<1>2. /\ sealServer = "up" /\ CopyTrue(copy, journal, sealing) /\ SealingTyped(sealing)
      /\ SealsTrue(journal, sealing) /\ FreeFirst(StoredBy(TRUE, copy, journal, sealing), sealing)
  BY <1>1, UpWhileAppending
<1>3. GoesOnAs(sealing, next) /\ next[q].at = "appended" /\ \A p \in Sealings : p # q => next[p] = sealing[p]
  BY <1>1, <1>2, OneMoves DEF Went
<1>4. sealing[q].chain # Part
  BY <1>1, <1>2, ChainsAre DEF SealingTyped
<1> HIDE DEF next
<1>5. /\ JournalTyped(pages) /\ Len(pages) > 0 /\ JournalTrue(pages, next) /\ Recorded(pages, sealing[q].chain)
      /\ \A hashes : Recorded(journal, hashes) => Recorded(pages, hashes)
  BY <1>1, <1>3, <1>4, JournalGains DEF Went
<1> HIDE DEF pages
<1>6. SealsTrue(pages, next)
  BY <1>3, <1>5, <1>2, SealsMove DEF GoesOnAs
<1>7. CopyTrue(copy, pages, next)
  BY <1>1, <1>3, <1>2, <1>5, CopyMoves
<1>8. FreeFirst(StoredBy(TRUE, copy, pages, next), next)
  BY <1>2, <1>3, HeldStays
<1>9. LocalHolds(pages, TRUE, copy, next, "up")
  BY <1>3, <1>5, <1>6, <1>7, <1>8 DEF LocalHolds, GoesOnAs
<1>10. LocalHolds(journal', lineEnded', copy', sealing', sealServer')
  BY <1>1, <1>2, <1>9
<1> QED
  BY <1>10 DEF LocalInv

(* The usage counts the seal that is stored.                               *)
LEMMA CountedGrows ==
  ASSUME NEW store \in Seq(Sealings), NEW q \in Sealings
  PROVE  Counted(Append(store, q)) = [Counted(store) EXCEPT ![SpaceOf[q]] = @ + 1]
<1> DEFINE more == Append(store, q)
           Own(w) == {i \in 1 .. Len(store) : SpaceOf[store[i]] = w}
           All(w) == {i \in 1 .. Len(more) : SpaceOf[more[i]] = w}
<1>1. Len(store) \in Nat /\ Len(more) = Len(store) + 1 /\ more[Len(store) + 1] = q /\ \A i \in 1 .. Len(store) : more[i] = store[i]
  OBVIOUS
<1> HIDE DEF more
<1>2. ASSUME NEW w PROVE IsFiniteSet(Own(w)) /\ Cardinality(Own(w)) \in Nat
  <2>1. IsFiniteSet(1 .. Len(store)) /\ Own(w) \in SUBSET (1 .. Len(store))
    BY <1>1, FS_Interval
  <2> QED
    BY <2>1, FS_Subset, FS_CardinalityType
<1>3. All(SpaceOf[q]) = Own(SpaceOf[q]) \cup {Len(store) + 1} /\ Len(store) + 1 \notin Own(SpaceOf[q])
  BY <1>1
<1>4. \A w : w # SpaceOf[q] => All(w) = Own(w)
  BY <1>1
<1>5. Cardinality(All(SpaceOf[q])) = Cardinality(Own(SpaceOf[q])) + 1
  <2> DEFINE own == Own(SpaceOf[q])
  <2>1. IsFiniteSet(own) /\ Len(store) + 1 \notin own /\ All(SpaceOf[q]) = own \cup {Len(store) + 1}
    BY <1>2, <1>3
  <2> HIDE DEF own, All
  <2>2. Cardinality(own \cup {Len(store) + 1}) = Cardinality(own) + 1
    BY <2>1, FS_AddElement
  <2> QED
    BY <2>1, <2>2 DEF own
<1>6. Counted(more) = [w \in Spaces |-> Cardinality(All(w))] /\ Counted(store) = [w \in Spaces |-> Cardinality(Own(w))]
  BY DEF Counted
<1>7. SpaceOf[q] \in Spaces
  BY DEF Spaces
<1> HIDE DEF All, Own
<1> QED
  BY <1>4, <1>5, <1>6, <1>7 DEF more

(* The seal enters the copy.                                               *)
LEMMA EndHolds ==
  ASSUME LocalInv, NEW q \in Sealings, EndSeal(q)
  PROVE  LocalInv'
<1> DEFINE next == [sealing EXCEPT ![q].at = "answered"]
           kept == Kept(copy, q, sealing[q].chain)
<1>1. /\ sealing[q].at = "appended" /\ sealing' = next /\ copy' = kept
      /\ UNCHANGED <<journal, lineEnded, sealServer>>
  BY DEF EndSeal
<1>2. /\ sealServer = "up" /\ CopyTrue(copy, journal, sealing) /\ SealingTyped(sealing)
      /\ SealsTrue(journal, sealing) /\ JournalTrue(journal, sealing)
      /\ FreeFirst(StoredBy(TRUE, copy, journal, sealing), sealing)
  BY <1>1, UpWhileAppending
<1>3. GoesOnAs(sealing, next) /\ next[q].at = "answered" /\ \A p \in Sealings : p # q => next[p] = sealing[p]
  BY <1>1, <1>2, OneMoves DEF Went
<1>4. /\ DOMAIN kept = {"store", "usage", "last"} /\ kept.store = Append(copy.store, q)
      /\ kept.usage = [copy.usage EXCEPT ![SpaceOf[q]] = @ + 1] /\ kept.last = sealing[q].chain
  BY DEF Kept
<1>5. copy.store \in Seq(Sealings) /\ Len(copy.store) \in Nat /\ copy.usage = Counted(copy.store)
  BY <1>2 DEF CopyTrue
<1>6. /\ kept.store \in Seq(Sealings) /\ Len(kept.store) = Len(copy.store) + 1 /\ kept.store[Len(copy.store) + 1] = q
      /\ \A i \in 1 .. Len(copy.store) : kept.store[i] = copy.store[i]
  BY <1>4, <1>5
<1>7. kept.usage = Counted(kept.store)
  BY <1>4, <1>5, CountedGrows
<1>8. \A i \in 1 .. Len(copy.store) : copy.store[i] \in Sealings /\ copy.store[i] # q
  BY <1>1, <1>2, ElementOfSeq DEF CopyTrue
<1>9. \A i \in 1 .. Len(kept.store) : i \in 1 .. Len(copy.store) \/ i = Len(copy.store) + 1
  BY <1>5, <1>6
<1>10. Recorded(journal, sealing[q].chain) /\ next[q].chain = sealing[q].chain /\ sealing[q].chain \in Seq(Sealings)
  BY <1>1, <1>2, <1>3 DEF SealsTrue, GoesOnAs, SealingTyped
<1> HIDE DEF next, kept
<1>11. CopyTrue(kept, journal, next)
  <2>1. \A i, k \in 1 .. Len(kept.store) : kept.store[i] = kept.store[k] => i = k
    BY <1>2, <1>6, <1>8, <1>9 DEF CopyTrue
  <2>2. ASSUME NEW i \in 1 .. Len(kept.store)
        PROVE  next[kept.store[i]].at \in {"answered", "failed"} /\ Recorded(journal, next[kept.store[i]].chain)
    <3>1. CASE i \in 1 .. Len(copy.store)
      BY <3>1, <1>2, <1>3, <1>6, <1>8 DEF CopyTrue
    <3>2. CASE i = Len(copy.store) + 1
      BY <3>2, <1>3, <1>6, <1>10
    <3> QED
      BY <3>1, <3>2, <1>9
  <2>3. ASSUME NEW p \in Sealings, next[p].at = "answered" PROVE \E i \in 1 .. Len(kept.store) : kept.store[i] = p
    <3>1. CASE p = q
      BY <3>1, <1>5, <1>6
    <3>2. CASE p # q
      <4>1. PICK i \in 1 .. Len(copy.store) : copy.store[i] = p
        BY <3>2, <2>3, <1>2, <1>3 DEF CopyTrue
      <4> QED
        BY <4>1, <1>5, <1>6
    <3> QED
      BY <3>1, <3>2
  <2> QED
    BY <1>4, <1>6, <1>7, <1>10, <2>1, <2>2, <2>3 DEF CopyTrue
<1>12. FreeFirst(StoredBy(TRUE, kept, journal, next), next)
  BY <1>5, <1>6, <1>11, StoreOfSealings, <1>2, <1>3, FreeStays DEF StoredBy
<1>13. JournalTrue(journal, next)
  BY <1>2, <1>3, JournalStays
<1>14. SealsTrue(journal, next)
  BY <1>1, <1>2, <1>3, SealsMove
<1>15. LocalHolds(journal, lineEnded, kept, next, "up")
  BY <1>3, <1>11, <1>12, <1>13, <1>14 DEF LocalHolds, LocalInv, GoesOnAs
<1>16. LocalHolds(journal', lineEnded', copy', sealing', sealServer')
  BY <1>1, <1>2, <1>15
<1> QED
  BY <1>16 DEF LocalInv

(* A failing append may leave a part of the line, or all of it.            *)
LEMMA FailHolds ==
  ASSUME LocalInv, NEW q \in Sealings, AppendFails(q)
  PROVE  LocalInv'
<1> DEFINE next == [sealing EXCEPT ![q].at = "failed"]
<1>1. sealing[q].at = "appending" /\ sealing' = next /\ TornAppend(q) /\ UNCHANGED <<copy, sealServer>>
  BY DEF AppendFails
<1>2. /\ sealServer = "up" /\ CopyTrue(copy, journal, sealing) /\ SealingTyped(sealing)
      /\ SealsTrue(journal, sealing) /\ FreeFirst(StoredBy(TRUE, copy, journal, sealing), sealing)
  BY <1>1, UpWhileAppending
<1>3. GoesOnAs(sealing, next) /\ next[q].at = "failed" /\ \A p \in Sealings : p # q => next[p] = sealing[p]
  BY <1>1, <1>2, OneMoves DEF Went
<1> HIDE DEF next
<1>4. /\ JournalTyped(journal') /\ (lineEnded' \/ Len(journal') > 0) /\ JournalTrue(journal', next)
      /\ \A hashes : Recorded(journal, hashes) => Recorded(journal', hashes)
  BY <1>1, <1>3, TornHolds DEF Went
<1>5. SealsTrue(journal', next)
  BY <1>3, <1>2, <1>4, SealsMove
<1>6. CopyTrue(copy, journal', next)
  BY <1>1, <1>3, <1>2, <1>4, CopyMoves
<1>7. FreeFirst(StoredBy(TRUE, copy, journal', next), next)
  BY <1>2, <1>3, HeldStays
<1>8. LocalHolds(journal', lineEnded', copy, next, "up")
  BY <1>3, <1>4, <1>5, <1>6, <1>7 DEF LocalHolds, GoesOnAs
<1>9. LocalHolds(journal', lineEnded', copy', sealing', sealServer')
  BY <1>1, <1>2, <1>8
<1> QED
  BY <1>9 DEF LocalInv

(* A crash leaves what the journal has.                                    *)
LEMMA CrashHolds == ASSUME LocalInv, Crash PROVE LocalInv'
<1> DEFINE next == [q \in Sealings |-> IF sealing[q].at \in {"appending", "appended"}
                                       THEN [sealing[q] EXCEPT !.at = "failed"] ELSE sealing[q]]
<1>1. /\ sealServer = "up" /\ sealing' = next /\ sealServer' = "down"
      /\ UNCHANGED <<journal, lineEnded>> \/ \E q \in Sealings : sealing[q].at = "appending" /\ TornAppend(q)
  BY DEF Crash
<1>2. /\ CopyTrue(copy, journal, sealing) /\ SealingTyped(sealing) /\ JournalTrue(journal, sealing)
      /\ SealsTrue(journal, sealing) /\ FreeFirst(StoredBy(TRUE, copy, journal, sealing), sealing)
  BY <1>1 DEF LocalInv, LocalHolds
<1>3. next = [q \in Sealings |-> next[q]]
  OBVIOUS
<1>4. ASSUME NEW q \in Sealings
      PROVE  /\ DOMAIN next[q] = DOMAIN sealing[q] /\ next[q].chain = sealing[q].chain /\ next[q].tier = sealing[q].tier
             /\ sealing[q].at \in {"appending", "appended"} => next[q].at = "failed"
             /\ sealing[q].at \notin {"appending", "appended"} => next[q].at = sealing[q].at
  BY <1>2 DEF SealingTyped
<1> HIDE DEF next
<1>5. GoesOnAs(sealing, next)
  BY <1>2, <1>3, <1>4 DEF SealingTyped, GoesOnAs, Went
<1>6. /\ JournalTyped(journal') /\ (lineEnded' \/ Len(journal') > 0) /\ JournalTrue(journal', next)
      /\ \A hashes : Recorded(journal, hashes) => Recorded(journal', hashes)
  <2>1. CASE UNCHANGED <<journal, lineEnded>>
    BY <1>2, <1>5, <2>1, JournalStays DEF LocalInv, LocalHolds
  <2>2. ASSUME NEW q \in Sealings, sealing[q].at = "appending", TornAppend(q)
        PROVE  /\ JournalTyped(journal') /\ (lineEnded' \/ Len(journal') > 0) /\ JournalTrue(journal', next)
               /\ \A hashes : Recorded(journal, hashes) => Recorded(journal', hashes)
    BY <2>2, <1>4, <1>5, TornHolds DEF Went
  <2> QED
    BY <1>1, <2>1, <2>2
<1>7. SealsTrue(journal', next)
  BY <1>4, <1>2, <1>5, <1>6, SealsMove
<1>8. \A q \in Sealings : next[q].at \notin {"appending", "appended"}
  BY <1>4
<1>9. FreeFirst(StoredBy(FALSE, copy', journal', next), next)
  <2> DEFINE ownSeals == {copy.store[i] : i \in 1 .. Len(copy.store)}
  <2>1. StoredBy(TRUE, copy, journal, sealing) = ownSeals /\ ownSeals \subseteq Sealings
    BY <1>2, StoreOfSealings
  <2>2. ASSUME NEW q \in ownSeals PROVE q \in StoredBy(FALSE, copy', journal', next)
    BY <2>1, <1>2, <1>4, <1>6 DEF CopyTrue, StoredBy
  <2>3. StoredBy(FALSE, copy', journal', next) \subseteq Sealings
    BY DEF StoredBy
  <2> QED
    BY <1>2, <1>5, <2>1, <2>2, <2>3, FreeStays
<1>10. LocalHolds(journal', lineEnded', copy', next, "down")
  BY <1>5, <1>6, <1>7, <1>8, <1>9 DEF LocalHolds, GoesOnAs
<1>11. LocalHolds(journal', lineEnded', copy', sealing', sealServer')
  BY <1>1, <1>10
<1> QED
  BY <1>11 DEF LocalInv

(* A start reads the copy back, or stays stuck.                            *)
LEMMA RestartHolds == ASSUME LocalInv, Restart PROVE LocalInv'
<1> DEFINE ids == [i \in 1 .. Len(journal) |-> journal[i][1][Len(journal[i][1])]]
           read == [store |-> ids, usage |-> Counted(ids),
                    last |-> IF journal = <<>> THEN Genesis ELSE journal[Len(journal)][1]]
<1>1. sealServer = "down" /\ UNCHANGED <<journal, lineEnded, sealing>>
  BY DEF Restart
<1>2. /\ JournalTyped(journal) /\ SealingTyped(sealing) /\ JournalTrue(journal, sealing) /\ SealsTrue(journal, sealing)
      /\ (lineEnded \/ Len(journal) > 0) /\ \A q \in Sealings : sealing[q].at \notin {"appending", "appended"}
      /\ FreeFirst(StoredBy(FALSE, copy, journal, sealing), sealing)
  BY <1>1 DEF LocalInv, LocalHolds
<1>3. CASE sealServer' = "stuck"
  BY <1>2, <1>1, <1>3 DEF StoredBy, LocalHolds, LocalInv
<1>4. CASE sealServer' = "up" /\ copy' = read /\ \A i \in 1 .. Len(journal) : Readable(journal[i])
  <2>1. Len(journal) \in Nat /\ DOMAIN ids = 1 .. Len(journal)
    BY <1>2 DEF JournalTyped
  <2>2. ASSUME NEW i \in 1 .. Len(journal)
        PROVE  /\ PieceAt(journal, i, 1) /\ journal[i][1] # Part /\ ids[i] \in Sealings
               /\ journal[i][1] = sealing[ids[i]].chain /\ sealing[ids[i]].at \in {"answered", "failed"}
               /\ \A n : PieceAt(journal, i, n) => n = 1
    <3>1. Len(journal[i]) = 1 /\ journal[i][1] # Part
      BY <1>4 DEF Readable
    <3>2. PieceAt(journal, i, 1) /\ \A n : PieceAt(journal, i, n) => n = 1
      BY <3>1 DEF PieceAt
    <3>3. PICK q \in Sealings : sealing[q].at \in {"appended", "answered", "failed"} /\ journal[i][1] = sealing[q].chain
      BY <1>2, <3>1, <3>2 DEF JournalTrue
    <3>4. sealing[q].chain[Len(sealing[q].chain)] = q
      BY <1>2, <3>3 DEF SealingTyped
    <3>5. ids[i] = q
      BY <3>3, <3>4
    <3> QED
      BY <1>2, <3>1, <3>2, <3>3, <3>5
  <2> HIDE DEF ids
  <2>3. ids \in Seq(Sealings) /\ Len(ids) = Len(journal)
    BY <2>1, <2>2 DEF ids
  <2>4. \A i, k \in 1 .. Len(ids) : ids[i] = ids[k] => i = k
    BY <1>2, <2>2, <2>3 DEF JournalTrue
  <2>5. \A i \in 1 .. Len(ids) :
          sealing[ids[i]].at \in {"answered", "failed"} /\ Recorded(journal, sealing[ids[i]].chain)
    BY <2>2, <2>3 DEF Recorded
  <2>6. ASSUME NEW q \in Sealings, sealing[q].at # "new", Recorded(journal, sealing[q].chain)
        PROVE  \E i \in 1 .. Len(ids) : ids[i] = q
    <3>1. PICK i, n : PieceAt(journal, i, n) /\ journal[i][n] = sealing[q].chain
      BY <2>6 DEF Recorded
    <3>2. i \in 1 .. Len(journal)
      BY <3>1 DEF PieceAt
    <3>3. journal[i][1] = sealing[q].chain /\ journal[i][1] = sealing[ids[i]].chain /\ ids[i] \in Sealings
          /\ sealing[ids[i]].at # "new"
      BY <2>2, <3>1, <3>2
    <3>4. ids[i] = q
      BY <1>2, <2>6, <3>3 DEF SealingTyped
    <3> QED
      BY <2>3, <3>2, <3>4
  <2>7. read.last \in Seq(Sealings) /\ (read.last = Genesis \/ Recorded(journal, read.last))
    <3>1. CASE journal = <<>>
      BY <3>1 DEF Genesis
    <3>2. CASE journal # <<>>
      <4>1. Len(journal) \in 1 .. Len(journal)
        BY <2>1, <3>2, <1>2, EmptySeq DEF JournalTyped
      <4>2. read.last = journal[Len(journal)][1]
        BY <3>2
      <4>3. read.last = sealing[ids[Len(journal)]].chain /\ PieceAt(journal, Len(journal), 1) /\ ids[Len(journal)] \in Sealings
            /\ sealing[ids[Len(journal)]].at # "new"
        BY <2>2, <4>1, <4>2
      <4> QED
        BY <1>2, <4>2, <4>3 DEF Recorded, SealingTyped
    <3> QED
      BY <3>1, <3>2
  <2>8. DOMAIN read = {"store", "usage", "last"} /\ read.store = ids /\ read.usage = Counted(ids)
    OBVIOUS
  <2> HIDE DEF read
  <2>9. CopyTrue(read, journal, sealing)
    BY <1>2, <2>6, <2>3, <2>4, <2>5, <2>7, <2>8 DEF SealsTrue, CopyTrue
  <2>10. FreeFirst(StoredBy(TRUE, read, journal, sealing), sealing)
    BY <2>8, <2>6, <2>9, StoreOfSealings, <1>2, FreeStays DEF StoredBy, GoesOnAs
  <2>11. LocalHolds(journal, lineEnded, read, sealing, "up")
    BY <1>2, <2>9, <2>10 DEF LocalHolds
  <2>12. LocalHolds(journal', lineEnded', copy', sealing', sealServer')
    BY <1>1, <1>4, <2>11
  <2> QED
    BY <2>12 DEF LocalInv
<1> QED
  BY <1>3, <1>4 DEF Restart

(* Every step keeps journal and copy true.                                 *)
LEMMA LocalSteps == LocalInv /\ [LocalNext]_localVars => LocalInv'
<1> SUFFICES ASSUME LocalInv, [LocalNext]_localVars PROVE LocalInv'
  OBVIOUS
<1>1. CASE UNCHANGED localVars
  BY <1>1 DEF localVars, LocalInv
<1> QED
  BY <1>1, BeginHolds, ReachesHolds, EndHolds, FailHolds, CrashHolds, RestartHolds DEF LocalNext, BeginSealPlural

-----------------------------------------------------------------------------
(* A record continues an earlier one.                                      *)
LEMMA ContinuesHolds == LocalInv => ContinuesAnEarlierOne
<1> SUFFICES ASSUME LocalInv, NEW i \in Lines, Readable(journal[i])
             PROVE  LET hashes == journal[i][1]
                        previous == SubSeq(hashes, 1, Len(hashes) - 1)
                    IN previous = Genesis \/ \E j \in 1 .. i - 1 : previous \in {journal[j][n] : n \in 1 .. Len(journal[j])}
  BY DEF ContinuesAnEarlierOne
<1>1. SealingTyped(sealing) /\ JournalTrue(journal, sealing) /\ JournalTyped(journal)
  BY DEF LocalInv, LocalHolds
<1>2. PieceAt(journal, i, 1) /\ journal[i][1] # Part /\ Len(journal[i]) = 1 /\ i \in Nat
  BY <1>1 DEF PieceAt, Lines, Readable, JournalTyped
<1>3. PICK q \in Sealings :
        /\ sealing[q].at # "new" /\ journal[i][1] = sealing[q].chain
        /\ Previous(sealing[q].chain) = Genesis \/ RecordedBy(journal, i, Previous(sealing[q].chain))
  BY <1>1, <1>2 DEF JournalTrue
<1>4. Previous(sealing[q].chain) # sealing[q].chain
  BY <1>1, <1>3, ChainsAre DEF SealingTyped
<1>5. ASSUME Previous(sealing[q].chain) # Genesis
      PROVE  \E j \in 1 .. i - 1 : Previous(sealing[q].chain) \in {journal[j][n] : n \in 1 .. Len(journal[j])}
  <2>1. PICK j, n : PieceAt(journal, j, n) /\ j <= i /\ journal[j][n] = Previous(sealing[q].chain)
    BY <1>3, <1>5 DEF RecordedBy
  <2>2. j # i
    BY <1>2, <1>3, <1>4, <2>1 DEF PieceAt
  <2>3. j \in 1 .. i - 1
    BY <1>2, <2>1, <2>2 DEF PieceAt
  <2> QED
    BY <2>1, <2>3 DEF PieceAt
<1> QED
  BY <1>3, <1>5 DEF Previous

(* An answered seal is in the journal and found by its hash.               *)
LEMMA AnsweredHolds == LocalInv => AnsweredSealsAreKept
<1> SUFFICES ASSUME LocalInv, NEW q \in Sealings, sealing[q].at = "answered"
             PROVE  /\ \E i \in Lines : \E n \in 1 .. Len(journal[i]) : journal[i][n] = sealing[q].chain
                    /\ sealServer = "up" => ProofOf(q) = "PASS" /\ FoundBy(sealing[q].chain) = {q}
  BY DEF AnsweredSealsAreKept
<1>1. \E i \in Lines : \E n \in 1 .. Len(journal[i]) : journal[i][n] = sealing[q].chain
  BY DEF LocalInv, LocalHolds, SealsTrue, Recorded, PieceAt, Lines
<1>2. ASSUME sealServer = "up" PROVE ProofOf(q) = "PASS" /\ FoundBy(sealing[q].chain) = {q}
  <2>1. CopyTrue(copy, journal, sealing) /\ SealingTyped(sealing)
    BY <1>2 DEF LocalInv, LocalHolds
  <2>2. DOMAIN copy.store = 1 .. Len(copy.store)
    BY <2>1 DEF CopyTrue
  <2>3. q \in Stored
    BY <2>1, <2>2 DEF CopyTrue, Stored
  <2>4. \A p \in Stored : p \in Sealings /\ sealing[p].at # "new"
    BY <2>1, <2>2, ElementOfSeq DEF CopyTrue, Stored
  <2>5. \A p \in Stored : sealing[p].chain = sealing[q].chain => p = q
    BY <2>1, <2>4, SMTT(30) DEF SealingTyped
  <2> QED
    BY <2>3, <2>5 DEF ProofOf, ProofPageOf, FoundBy
<1> QED
  BY <1>1, <1>2

(* Seals of the copy are as many as their places.                          *)
LEMMA StoredOnce ==
  ASSUME NEW pages, NEW seals, CopyTrue(copy, pages, seals), NEW own \in SUBSET (1 .. Len(copy.store))
  PROVE  /\ IsFiniteSet(own) /\ Cardinality(own) \in Nat
         /\ IsFiniteSet({copy.store[i] : i \in own}) /\ Cardinality({copy.store[i] : i \in own}) = Cardinality(own)
<1> DEFINE f == [i \in own |-> copy.store[i]]
<1>1. Len(copy.store) \in Nat
  BY DEF CopyTrue
<1>2. IsFiniteSet(own) /\ Cardinality(own) \in Nat
  <2>1. IsFiniteSet(1 .. Len(copy.store))
    BY <1>1, FS_Interval
  <2>2. IsFiniteSet(own)
    BY <2>1, FS_Subset
  <2> QED
    BY <2>2, FS_CardinalityType
<1>3. f \in Bijection(own, {copy.store[i] : i \in own})
  <2>1. \A i, k \in own : f[i] = f[k] => i = k
    BY DEF CopyTrue
  <2> QED
    BY <2>1 DEF Bijection, Injection, Surjection, IsInjective
<1> QED
  BY <1>2, <1>3, FS_Bijection DEF ExistsBijection

(* The usage is what the store has.                                        *)
LEMMA UsageHolds == LocalInv => UsageCountsStore
<1> SUFFICES ASSUME LocalInv, sealServer = "up"
             PROVE  copy.usage = Counted(copy.store) /\ Cardinality(Stored) = Len(copy.store)
  BY DEF UsageCountsStore
<1>1. CopyTrue(copy, journal, sealing)
  BY DEF LocalInv, LocalHolds
<1>2. Len(copy.store) \in Nat /\ DOMAIN copy.store = 1 .. Len(copy.store)
  BY <1>1 DEF CopyTrue
<1>3. Cardinality({copy.store[i] : i \in 1 .. Len(copy.store)}) = Cardinality(1 .. Len(copy.store))
  BY <1>1, StoredOnce
<1>4. Cardinality(1 .. Len(copy.store)) = Len(copy.store)
  <2>1. \A n \in Nat : Cardinality(1 .. n) = n
    BY FS_Interval
  <2> QED
    BY <1>2, <2>1
<1> QED
  BY <1>1, <1>2, <1>3, <1>4 DEF Stored, CopyTrue

(* A list is the end of the seals of its workspace.                        *)
LEMMA ListsHold ==
  ASSUME LocalInv, sealServer = "up", NEW w \in Spaces, NEW raw \in -1 .. MostList + 1
  PROVE  LET list == SealList(w, raw)
         IN /\ Len(list) = ListLimit(raw) \/ Len(list) = UsageAnswer(w).total
            /\ UsageAnswer(w).total > 0 => list[Len(list)] = OfSpace(w)[Len(OfSpace(w))]
<1> DEFINE own == {i \in 1 .. Len(copy.store) : SpaceOf[copy.store[i]] = w}
           seals == OfSpace(w)
           limit == ListLimit(raw)
           begin == IF Len(seals) < limit THEN 1 ELSE Len(seals) - limit + 1
           list == SealList(w, raw)
<1>1. CopyTrue(copy, journal, sealing)
  BY DEF LocalInv, LocalHolds
<1>2. Cardinality(own) \in Nat /\ copy.usage[w] = Cardinality(own) /\ DOMAIN copy.store = 1 .. Len(copy.store)
  <2>1. own \in SUBSET (1 .. Len(copy.store))
    OBVIOUS
  <2>2. copy.usage[w] = Cardinality(own) /\ DOMAIN copy.store = 1 .. Len(copy.store)
    BY <1>1 DEF CopyTrue, Counted
  <2> HIDE DEF own
  <2>3. Cardinality(own) \in Nat
    BY <1>1, <2>1, StoredOnce
  <2> QED
    BY <2>2, <2>3
<1>3. DOMAIN seals = 1 .. Cardinality(own)
  BY <1>2 DEF OfSpace
<1>4. UsageAnswer(w).total = Cardinality(own)
  BY <1>2 DEF UsageAnswer
<1>5. limit \in Nat /\ limit > 0
  BY LocalSealsAssumption DEF ListLimit
<1>6. list = SubSeq(seals, begin, Len(seals))
  BY DEF SealList
<1>7. seals \in Seq({seals[n] : n \in 1 .. Cardinality(own)}) /\ Len(seals) = Cardinality(own)
  <2> DEFINE all == {seals[n] : n \in 1 .. Cardinality(own)}
  <2>1. seals = [n \in 1 .. Cardinality(own) |-> seals[n]]
    BY <1>2, <1>3 DEF OfSpace
  <2>2. seals \in [1 .. Cardinality(own) -> all]
    BY <2>1
  <2> HIDE DEF seals, all
  <2>3. \A n \in Nat : \A s \in [1 .. n -> all] : s \in Seq(all) /\ Len(s) = n
    OBVIOUS
  <2>4. Cardinality(own) \in Nat
    BY <1>2
  <2> HIDE DEF own
  <2>5. seals \in Seq(all) /\ Len(seals) = Cardinality(own)
    BY <2>2, <2>3, <2>4
  <2> QED
    BY <2>5 DEF all
<1> HIDE DEF seals, limit, own, list
<1>8. /\ begin \in Nat /\ begin >= 1 /\ begin <= Len(seals) + 1
      /\ Len(seals) \in Nat
  BY <1>2, <1>5, <1>7
<1>9. \A i \in begin .. Len(seals) : seals[i] \in {seals[n] : n \in 1 .. Cardinality(own)}
  BY <1>2, <1>7, <1>8
<1> HIDE DEF begin
<1>10. /\ Len(list) = IF begin <= Len(seals) THEN Len(seals) - begin + 1 ELSE 0
       /\ \A i \in 1 .. Len(seals) - begin + 1 : list[i] = seals[begin + i - 1]
  BY <1>6, <1>8, <1>9, SubSeqProperties
<1>11. Len(list) = limit \/ Len(list) = Len(seals)
  BY <1>5, <1>8, <1>10 DEF begin
<1>12. ASSUME Len(seals) > 0 PROVE list[Len(list)] = seals[Len(seals)]
  <2>1. begin <= Len(seals)
    BY <1>5, <1>8, <1>12 DEF begin
  <2>2. Len(list) = Len(seals) - begin + 1 /\ Len(list) \in 1 .. Len(seals) - begin + 1 /\ begin + Len(list) - 1 = Len(seals)
    BY <1>8, <1>10, <2>1
  <2> QED
    BY <1>10, <2>2
<1> QED
  BY <1>4, <1>7, <1>11, <1>12 DEF list, limit, seals

(* Who was told to pay is billed: the free seals are others.               *)
LEMMA BillsHold ==
  ASSUME LocalInv, sealServer = "up", NEW w \in Spaces
  PROVE  UsageAnswer(w).billable >=
           Cardinality({q \in Sealings : SpaceOf[q] = w /\ sealing[q].at = "answered" /\ sealing[q].tier = "growth"})
<1> DEFINE own == {i \in 1 .. Len(copy.store) : SpaceOf[copy.store[i]] = w}
           seals == {copy.store[i] : i \in own}
           paid == {q \in Sealings : SpaceOf[q] = w /\ sealing[q].at = "answered" /\ sealing[q].tier = "growth"}
           count == copy.usage[w]
<1>1. CopyTrue(copy, journal, sealing) /\ FreeFirst(StoredBy(TRUE, copy, journal, sealing), sealing)
  BY DEF LocalInv, LocalHolds
<1>2. count \in Nat /\ count = Cardinality(own) /\ IsFiniteSet(seals) /\ Cardinality(seals) = count
  <2>1. own \in SUBSET (1 .. Len(copy.store))
    OBVIOUS
  <2>2. count = Cardinality(own)
    BY <1>1 DEF CopyTrue, Counted
  <2> HIDE DEF own
  <2>3. Cardinality(own) \in Nat /\ IsFiniteSet(seals) /\ Cardinality(seals) = Cardinality(own)
    BY <1>1, <2>1, StoredOnce
  <2> QED
    BY <2>2, <2>3
<1>3. paid \subseteq seals
  BY <1>1 DEF CopyTrue
<1>4. UsageAnswer(w).billable = IF count > FreeSeals THEN count - FreeSeals ELSE 0
  BY DEF UsageAnswer
<1>5. IsFiniteSet(paid) /\ Cardinality(paid) \in Nat
  BY <1>2, <1>3, FS_Subset, FS_CardinalityType
<1>6. FreeSeals \in Nat
  BY LocalSealsAssumption
<1>7. CASE paid = {}
  <2>1. Cardinality(paid) = 0
    BY <1>7, FS_EmptySet
  <2> HIDE DEF count, paid
  <2>2. UsageAnswer(w).billable >= 0
    BY <1>2, <1>4, <1>6
  <2> QED
    BY <2>1, <2>2 DEF paid
<1>8. CASE paid # {}
  <2>1. PICK free \in SUBSET {copy.store[i] : i \in 1 .. Len(copy.store)} :
          /\ IsFiniteSet(free) /\ FreeSeals <= Cardinality(free)
          /\ \A q \in free : SpaceOf[q] = w /\ sealing[q].at # "new" /\ sealing[q].tier = "free"
    <3>1. PICK q \in paid : TRUE
      BY <1>8
    <3>2. StoredBy(TRUE, copy, journal, sealing) = {copy.store[i] : i \in 1 .. Len(copy.store)}
      BY DEF StoredBy
    <3>3. q \in Sealings /\ SpaceOf[q] = w /\ sealing[q].at # "new" /\ sealing[q].tier = "growth"
      BY <3>1
    <3> HIDE DEF paid
    <3> QED
      BY <1>1, <3>2, <3>3 DEF FreeFirst
  <2>2. free \subseteq seals /\ free \cap paid = {}
    BY <2>1
  <2> HIDE DEF own, seals, paid, count
  <2>3. IsFiniteSet(free \cup paid) /\ Cardinality(free \cup paid) = Cardinality(free) + Cardinality(paid)
    <3>1. Cardinality(free \cap paid) = 0
      BY <2>2, FS_EmptySet
    <3>3. IsFiniteSet(free)
      BY <2>1
    <3>4. /\ IsFiniteSet(free \cup paid)
          /\ Cardinality(free \cup paid) = Cardinality(free) + Cardinality(paid) - Cardinality(free \cap paid)
      BY <1>5, <3>3, FS_Union
    <3>2. Cardinality(free) \in Nat
      BY <2>1, FS_CardinalityType
    <3> QED
      BY <1>5, <3>1, <3>2, <3>4
  <2>4. Cardinality(free \cup paid) <= count
    BY <1>2, <1>3, <2>2, FS_Subset
  <2>5. Cardinality(free) \in Nat
    BY <2>1, FS_CardinalityType
  <2>6. FreeSeals + Cardinality(paid) <= count
    BY <1>2, <1>5, <1>6, <2>1, <2>3, <2>4, <2>5
  <2> QED
    BY <1>2, <1>4, <1>5, <1>6, <2>6 DEF paid
<1> QED
  BY <1>7, <1>8

(* All together.                                                           *)
LEMMA LocalHold == LocalInv => LocalSealsSound
BY ContinuesHolds, AnsweredHolds, UsageHolds, ListsHold, BillsHold DEF LocalSealsSound, ListsAndBillsAgree

-----------------------------------------------------------------------------
(***************************************************************************)
(* The authority's keys and tokens (authority.ts).                         *)
(***************************************************************************)

KeysOf == Authorities \cup {NoKey, EmptyKey}
KeyPlaces == {"off", "generated", "writing", "written", "finishing", "private", "public", "ready", "up", "ended"}
Process == [at : KeyPlaces, private : KeysOf, public : KeysOf]
Signature == [at : {"new", "signed", "logged", "answered", "lost", "error"}, by : Authorities \cup {NoKey},
              key : KeysOf, expires : Int]
Signed == {"signed", "logged", "answered"}

AuthorityTyped ==
  /\ keyFile \in [private : KeysOf, public : KeysOf]
  /\ authority \in [Authorities -> Process]
  /\ signing \in [SignRequests -> Signature]
  /\ hands \in Nat

(* What a process that writes its keys has put into the files.             *)
KeysSoFar(p) ==
  CASE authority[p].at = "generated" -> [private |-> NoKey, public |-> NoKey]
    [] authority[p].at = "writing" -> [private |-> EmptyKey, public |-> NoKey]
    [] authority[p].at = "written" -> [private |-> p, public |-> NoKey]
    [] authority[p].at = "finishing" -> [private |-> p, public |-> EmptyKey]

(* Who writes the keys is alone, and nothing was signed ...                *)
WriterAlone ==
  \A p \in WritingKeys :
    /\ keyFile = KeysSoFar(p)
    /\ \A q \in Authorities \ {p} : authority[q].at \in {"off", "ended"}
    /\ \A r \in SignRequests : signing[r].at \notin Signed

(* ... else everybody who has a key has that of the files.                 *)
OneKey ==
  WritingKeys = {} =>
    /\ keyFile.private = keyFile.public /\ keyFile.private # EmptyKey
    /\ \A q \in Authorities :
         /\ authority[q].at \in {"private", "public", "ready", "up"} => keyFile.private # NoKey
         /\ authority[q].at \in {"public", "ready", "up"} => authority[q].private = keyFile.private
         /\ authority[q].at \in {"ready", "up"} => authority[q].public = keyFile.private
    /\ \A r \in SignRequests :
         signing[r].at \in Signed => keyFile.private # NoKey /\ signing[r].key = keyFile.private

OneServes == \A p, q \in Authorities : authority[p].at = "up" /\ authority[q].at = "up" => p = q
LinesWritten == \A r \in SignRequests : signing[r].at \in {"logged", "answered"} => r \in signLog

AuthorityInv == AuthorityTyped /\ OneServes /\ LinesWritten /\ (~broken => WriterAlone /\ OneKey)

(* There is no key and no process.                                         *)
LEMMA AuthorityStarts == AuthorityInit => AuthorityInv
<1> SUFFICES ASSUME AuthorityInit PROVE AuthorityInv
  OBVIOUS
<1>1. AuthorityTyped
  BY DEF AuthorityInit, AuthorityTyped, KeysOf, KeyPlaces, Process, Signature
<1>2. WritingKeys = {} /\ keyFile.private = NoKey /\ keyFile.public = NoKey
  BY DEF AuthorityInit, WritingKeys
<1> QED
  BY <1>1, <1>2 DEF AuthorityInit, AuthorityInv, OneServes, LinesWritten, WriterAlone, OneKey, Signed, EmptyKey, NoKey

(* A process goes on, alone of all; who signed what stays.                 *)
LEMMA ProcessMoves ==
  ASSUME AuthorityTyped, NEW p \in Authorities, NEW next \in Process, Passes(p, next)
  PROVE  /\ authority' \in [Authorities -> Process]
         /\ authority'[p] = IF next.at = "ended" THEN Gone ELSE next
         /\ \A q \in Authorities \ {p} : authority'[q] = authority[q]
BY DEF Gone, Process, KeyPlaces, KeysOf, Passes, AuthorityTyped

(* A process starts, reads the keys or takes the port.                     *)
LEMMA StartingKeeps ==
  ASSUME AuthorityInv, NEW p \in Authorities, LooksForKey(p) \/ ReadsPrivate(p) \/ ReadsPublic(p) \/ TakesPort(p)
  PROVE  AuthorityInv'
<1>t. AuthorityTyped /\ OneServes /\ LinesWritten /\ authority[p] \in Process
  BY DEF AuthorityInv, AuthorityTyped
<1>k. keyFile.private \in KeysOf /\ keyFile.public \in KeysOf
  BY <1>t DEF AuthorityTyped
<1>1. CASE LooksForKey(p)
  <2> DEFINE next == [authority[p] EXCEPT !.at = IF keyFile.private = NoKey THEN "generated" ELSE "private"]
  <2>1. next \in Process /\ next.at \in {"generated", "private"} /\ (next.at = "generated" <=> keyFile.private = NoKey)
    BY <1>t DEF Process, KeyPlaces
  <2>2. Passes(p, next) /\ UNCHANGED <<keyFile, signing, signLog, hands>> /\ authority[p].at = "off"
        /\ broken' = (broken \/ WritingKeys # {})
    BY <1>1 DEF LooksForKey
  <2> HIDE DEF next
  <2>3. /\ authority' \in [Authorities -> Process] /\ authority'[p] = next
        /\ \A q \in Authorities \ {p} : authority'[q] = authority[q]
    BY <2>1, <2>2, <1>t, ProcessMoves
  <2>4. AuthorityTyped' /\ OneServes' /\ LinesWritten'
    BY <1>t, <2>1, <2>2, <2>3 DEF AuthorityTyped, OneServes, LinesWritten
  <2>5. ASSUME ~broken' PROVE WriterAlone' /\ OneKey'
    <3>1. ~broken /\ WritingKeys = {} /\ WriterAlone /\ OneKey
      BY <2>2, <2>5 DEF AuthorityInv
    <3>2. CASE keyFile.private = NoKey
      <4>1. \A q \in Authorities \ {p} : authority[q].at \in {"off", "ended"}
        BY <1>t, <3>1, <3>2 DEF AuthorityTyped, Process, OneKey, WritingKeys, KeyPlaces
      <4>2. WritingKeys' = {p}
        BY <2>1, <2>3, <3>1, <3>2 DEF WritingKeys
      <4>3. keyFile = [private |-> NoKey, public |-> NoKey]
        BY <3>1, <3>2, <1>t DEF OneKey, AuthorityTyped
      <4>4. KeysSoFar(p)' = [private |-> NoKey, public |-> NoKey]
        BY <2>1, <2>3, <3>2 DEF KeysSoFar
      <4>5. \A r \in SignRequests : signing[r].at \notin Signed
        BY <3>1, <3>2 DEF OneKey
      <4> QED
        BY <2>2, <2>3, <4>1, <4>2, <4>3, <4>4, <4>5 DEF WriterAlone, OneKey
    <3>3. CASE keyFile.private # NoKey
      BY <2>1, <2>3, <3>3, <3>1, <2>2 DEF WritingKeys, WriterAlone, OneKey
    <3> QED
      BY <3>2, <3>3
  <2> QED
    BY <2>4, <2>5 DEF AuthorityInv
<1>2. CASE ReadsPrivate(p) \/ ReadsPublic(p) \/ TakesPort(p)
  <2>1. PICK next \in Process :
          /\ Passes(p, next) /\ next.at \in {"public", "ready", "up", "ended"}
          /\ authority[p].at \in {"private", "public", "ready"}
          /\ next.at \in {"public", "ready", "up"} => next.private = IF authority[p].at = "private" THEN keyFile.private
                                                                   ELSE authority[p].private
          /\ next.at \in {"ready", "up"} => authority[p].at # "private" /\
                next.public = IF authority[p].at = "public" THEN keyFile.public ELSE authority[p].public
          /\ next.at = "up" => \A q \in Authorities : authority[q].at # "up"
    <3>1. CASE ReadsPrivate(p)
      <4> DEFINE next == [authority[p] EXCEPT !.at = "public", !.private = keyFile.private]
      <4>1. next \in Process /\ next.at = "public" /\ next.private = keyFile.private
        BY <1>t, <1>k DEF Process, KeyPlaces
      <4> QED
        BY <3>1, <4>1 DEF ReadsPrivate
    <3>2. CASE ReadsPublic(p) /\ keyFile.public = NoKey
      <4> DEFINE next == [authority[p] EXCEPT !.at = "ended"]
      <4>1. next \in Process /\ next.at = "ended"
        BY <1>t DEF Process, KeyPlaces
      <4> QED
        BY <3>2, <4>1 DEF ReadsPublic
    <3>3. CASE ReadsPublic(p) /\ keyFile.public # NoKey
      <4> DEFINE next == [authority[p] EXCEPT !.at = "ready", !.public = keyFile.public]
      <4>1. next \in Process /\ next.at = "ready" /\ next.private = authority[p].private /\ next.public = keyFile.public
        BY <1>t, <1>k DEF Process, KeyPlaces
      <4> QED
        BY <3>3, <4>1 DEF ReadsPublic
    <3>4. CASE TakesPort(p)
      <4> DEFINE next == [authority[p] EXCEPT !.at = IF \E q \in Authorities : authority[q].at = "up" THEN "ended" ELSE "up"]
      <4>1. /\ next \in Process /\ next.private = authority[p].private /\ next.public = authority[p].public
            /\ next.at \in {"ended", "up"} /\ (next.at = "up" => \A q \in Authorities : authority[q].at # "up")
        BY <1>t DEF Process, KeyPlaces
      <4> QED
        BY <3>4, <4>1 DEF TakesPort
    <3> QED
      BY <1>2, <3>1, <3>2, <3>3, <3>4
  <2>2. UNCHANGED <<keyFile, signing, signLog, hands, broken>>
    BY <1>2 DEF ReadsPrivate, ReadsPublic, TakesPort
  <2>3. /\ authority' \in [Authorities -> Process]
        /\ authority'[p] = IF next.at = "ended" THEN Gone ELSE next
        /\ \A q \in Authorities \ {p} : authority'[q] = authority[q]
    BY <2>1, <1>t, ProcessMoves
  <2>4. authority'[p].at = next.at /\ (next.at # "ended" => authority'[p] = next)
    BY <2>3 DEF Gone
  <2>5. AuthorityTyped' /\ OneServes' /\ LinesWritten'
    BY <1>t, <2>1, <2>2, <2>3, <2>4 DEF AuthorityTyped, OneServes, LinesWritten
  <2>6. WritingKeys' = WritingKeys /\ p \notin WritingKeys
    BY <2>1, <2>3, <2>4 DEF WritingKeys
  <2>7. ASSUME ~broken PROVE WriterAlone' /\ OneKey'
    BY <2>7, <2>1, <2>6, <2>2, <2>3, <2>4 DEF AuthorityInv, WriterAlone, OneKey
  <2> QED
    BY <2>2, <2>5, <2>7 DEF AuthorityInv
<1> QED
  BY <1>1, <1>2

(* The pair is written, file by file.                                      *)
LEMMA WritingKeeps ==
  ASSUME AuthorityInv, NEW p \in Authorities, WritesKeys(p)
  PROVE  AuthorityInv'
<1>t. AuthorityTyped /\ OneServes /\ LinesWritten /\ authority[p] \in Process
  BY DEF AuthorityInv, AuthorityTyped
<1>a. p # NoKey /\ p # EmptyKey /\ NoKey # EmptyKey
  BY AuthorityAssumption DEF NoKey, EmptyKey
<1>u. UNCHANGED <<signing, signLog, hands, broken>>
  BY DEF WritesKeys
<1>1. PICK to \in {"writing", "written", "finishing", "ready"}, part \in {"private", "public"}, content \in KeysOf,
          next \in Process :
        /\ keyFile' = [keyFile EXCEPT ![part] = content] /\ Passes(p, next) /\ next.at = to
        /\ \/ authority[p].at = "generated" /\ to = "writing" /\ part = "private" /\ content = EmptyKey
           \/ authority[p].at = "writing" /\ to = "written" /\ part = "private" /\ content = p
           \/ authority[p].at = "written" /\ to = "finishing" /\ part = "public" /\ content = EmptyKey
           \/ authority[p].at = "finishing" /\ to = "ready" /\ part = "public" /\ content = p
        /\ to = "ready" => next.private = p /\ next.public = p
  BY <1>t DEF Process, KeyPlaces, KeysOf, WritesKeys
<1>2. /\ authority' \in [Authorities -> Process] /\ authority'[p] = next
      /\ \A q \in Authorities \ {p} : authority'[q] = authority[q]
  BY <1>1, <1>t, ProcessMoves
<1>3. /\ keyFile' \in [private : KeysOf, public : KeysOf]
      /\ part = "private" => keyFile'.private = content /\ keyFile'.public = keyFile.public
      /\ part = "public" => keyFile'.private = keyFile.private /\ keyFile'.public = content
  BY <1>1, <1>t DEF AuthorityTyped
<1>4. AuthorityTyped' /\ OneServes' /\ LinesWritten'
  BY <1>t, <1>u, <1>1, <1>2, <1>3 DEF AuthorityTyped, OneServes, LinesWritten
<1>5. ASSUME ~broken PROVE WriterAlone' /\ OneKey'
  <2>1. p \in WritingKeys
    BY <1>1 DEF WritingKeys
  <2>2. /\ keyFile = KeysSoFar(p) /\ \A q \in Authorities \ {p} : authority[q].at \in {"off", "ended"}
        /\ \A r \in SignRequests : signing[r].at \notin Signed
    BY <1>5, <2>1 DEF AuthorityInv, WriterAlone
  <2>3. CASE to = "ready"
    BY <1>1, <1>2, <2>2, <2>3, <1>3, <1>a, <1>u DEF WritingKeys, KeysSoFar, WriterAlone, OneKey
  <2>4. CASE to # "ready"
    BY <1>1, <1>2, <2>2, <2>4, <1>3, <1>t, <1>u DEF WritingKeys, KeysSoFar, AuthorityTyped, WriterAlone,
       OneKey
  <2> QED
    BY <2>3, <2>4
<1> QED
  BY <1>u, <1>4, <1>5 DEF AuthorityInv

(* A process ends, and with it what it had signed.                         *)
LEMMA StoppingKeeps ==
  ASSUME AuthorityInv, NEW p \in Authorities, Stops(p)
  PROVE  AuthorityInv'
<1>t. AuthorityTyped /\ OneServes /\ LinesWritten /\ authority[p] \in Process
  BY DEF AuthorityInv, AuthorityTyped
<1> DEFINE next == [authority[p] EXCEPT !.at = "ended"]
<1>1. next \in Process /\ next.at = "ended"
  BY <1>t DEF Process, KeyPlaces
<1>2. /\ Passes(p, next) /\ UNCHANGED <<keyFile, signLog, hands>>
      /\ broken' = (broken \/ authority[p].at \in {"writing", "written", "finishing"})
  BY DEF Stops
<1> HIDE DEF next
<1>3. /\ authority' \in [Authorities -> Process] /\ authority'[p].at = "ended"
      /\ \A q \in Authorities \ {p} : authority'[q] = authority[q]
  BY <1>1, <1>2, <1>t, ProcessMoves DEF Gone
<1>4. \A r \in SignRequests : signing[r] \in Signature /\ [signing[r] EXCEPT !.at = "lost"] \in Signature
  BY <1>t DEF AuthorityTyped, Signature
<1>5. /\ signing' \in [SignRequests -> Signature]
      /\ \A r \in SignRequests : signing'[r].at \in Signed => signing'[r] = signing[r]
  BY <1>4 DEF Stops, Signature, Signed
<1>6. AuthorityTyped' /\ OneServes' /\ LinesWritten'
  BY <1>t, <1>2, <1>3, <1>5 DEF AuthorityTyped, OneServes, LinesWritten, Signed
<1>7. ASSUME ~broken' PROVE WriterAlone' /\ OneKey'
  <2>1. ~broken /\ authority[p].at \notin {"writing", "written", "finishing"} /\ WriterAlone /\ OneKey
    BY <1>2, <1>7 DEF AuthorityInv
  <2>2. CASE p \in WritingKeys
    BY <2>1, <2>2, <1>3, <1>5, <1>2 DEF WritingKeys, WriterAlone, KeysSoFar, OneKey, NoKey, EmptyKey
  <2>3. CASE p \notin WritingKeys
    BY <1>3, <2>3, <1>2, <1>5, <2>1 DEF WritingKeys, KeysSoFar, WriterAlone, Signed, OneKey
  <2> QED
    BY <2>2, <2>3
<1> QED
  BY <1>6, <1>7 DEF AuthorityInv

(* A request is signed, written down and answered.                         *)
LEMMA SigningKeeps ==
  ASSUME AuthorityInv, NEW r \in SignRequests, NEW next \in Signature,
         signing' = [signing EXCEPT ![r] = next], UNCHANGED <<keyFile, authority, hands, broken>>,
         signLog \subseteq signLog', next.at \in {"logged", "answered"} => r \in signLog',
         ~broken /\ next.at \in Signed => next.key = keyFile.private /\ keyFile.private # NoKey /\ WritingKeys = {}
  PROVE  AuthorityInv'
<1>t. AuthorityTyped /\ OneServes /\ LinesWritten
  BY DEF AuthorityInv, AuthorityTyped
<1>1. signing'[r] = next /\ \A s \in SignRequests \ {r} : signing'[s] = signing[s]
  BY <1>t DEF AuthorityTyped
<1>2. AuthorityTyped' /\ OneServes' /\ LinesWritten'
  BY <1>t, <1>1 DEF AuthorityTyped, OneServes, LinesWritten
<1>3. ASSUME ~broken PROVE WriterAlone' /\ OneKey'
  BY <1>3, <1>1 DEF WritingKeys, KeysSoFar, AuthorityInv, WriterAlone, OneKey
<1> QED
  BY <1>2, <1>3 DEF AuthorityInv

(* Every step of processes and requests.                                   *)
LEMMA AuthoritySteps == AuthorityInv /\ [AuthorityNext]_authorityVars => AuthorityInv'
<1> SUFFICES ASSUME AuthorityInv, [AuthorityNext]_authorityVars PROVE AuthorityInv'
  OBVIOUS
<1>t. AuthorityTyped /\ \A r \in SignRequests : signing[r] \in Signature
  BY DEF AuthorityInv, AuthorityTyped
<1>1. ASSUME NEW p \in Authorities, NEW r \in SignRequests, Signs(p, r) PROVE AuthorityInv'
  <2>1. CASE authority[p].private = EmptyKey
    <3> DEFINE next == [signing[r] EXCEPT !.at = "error", !.by = p]
    <3>1. next \in Signature /\ next.at = "error"
      BY <1>t DEF Signature
    <3>2. signing' = [signing EXCEPT ![r] = next]
      BY <1>1, <2>1 DEF Signs
    <3> HIDE DEF next
    <3> QED
      BY <1>1, <3>1, <3>2, SigningKeeps DEF Signs, Signed
  <2>2. CASE authority[p].private # EmptyKey
    <3> DEFINE next == [at |-> "signed", by |-> p, key |-> authority[p].private, expires |-> hands + Lifetime]
    <3>1. authority[p].private \in KeysOf /\ hands + Lifetime \in Int
      BY <1>t, AuthorityAssumption DEF AuthorityTyped, Process
    <3>2. next \in Signature /\ next.at = "signed" /\ next.key = authority[p].private
      BY <3>1 DEF Signature
    <3>3. signing' = [signing EXCEPT ![r] = next] /\ authority[p].at = "up"
      BY <1>1, <2>2 DEF Signs
    <3> HIDE DEF next
    <3>4. ~broken => authority[p].private = keyFile.private /\ keyFile.private # NoKey /\ WritingKeys = {}
      BY <3>3 DEF AuthorityInv, WriterAlone, WritingKeys, OneKey
    <3> QED
      BY <1>1, <3>2, <3>3, <3>4, SigningKeeps DEF Signs, Signed
  <2> QED
    BY <2>1, <2>2
<1>2. ASSUME NEW r \in SignRequests, LogsEvidence(r) \/ AnswersSigned(r) PROVE AuthorityInv'
  <2> DEFINE To(at) == [signing[r] EXCEPT !.at = at]
  <2>1. \A at \in {"logged", "error", "answered"} : To(at) \in Signature /\ To(at).at = at /\ To(at).key = signing[r].key
    BY <1>t DEF Signature
  <2>2. ~broken /\ signing[r].at \in Signed => signing[r].key = keyFile.private /\ keyFile.private # NoKey /\ WritingKeys = {}
    BY DEF AuthorityInv, WriterAlone, OneKey
  <2>3. CASE AnswersSigned(r)
    <3>1. signing' = [signing EXCEPT ![r] = To("answered")] /\ signing[r].at = "logged" /\ r \in signLog
      BY <2>3 DEF AnswersSigned, AuthorityInv, LinesWritten
    <3>2. UNCHANGED <<keyFile, authority, hands, broken>> /\ signLog' = signLog
      BY <2>3 DEF AnswersSigned
    <3> HIDE DEF To
    <3> QED
      BY <2>1, <2>2, <3>1, <3>2, SigningKeeps DEF Signed
  <2>4. CASE LogsEvidence(r) /\ signing' = [signing EXCEPT ![r].at = "logged"]
    <3>1. signing' = [signing EXCEPT ![r] = To("logged")] /\ signing[r].at = "signed"
      BY <2>4 DEF LogsEvidence
    <3>2. UNCHANGED <<keyFile, authority, hands, broken>>
      BY <2>4 DEF LogsEvidence
    <3>3. signLog' = signLog \cup {r}
      BY <3>1, <1>t, <2>1, <2>4 DEF AuthorityTyped, Signature, LogsEvidence
    <3> HIDE DEF To
    <3> QED
      BY <2>1, <2>2, <3>1, <3>2, <3>3, SigningKeeps DEF Signed
  <2>5. CASE LogsEvidence(r) /\ signing' = [signing EXCEPT ![r].at = "error"]
    <3>1. signing' = [signing EXCEPT ![r] = To("error")] /\ signing[r].at = "signed" /\ signLog \subseteq signLog'
      BY <2>5 DEF LogsEvidence
    <3>2. UNCHANGED <<keyFile, authority, hands, broken>>
      BY <2>5 DEF LogsEvidence
    <3> HIDE DEF To
    <3> QED
      BY <2>1, <2>2, <3>1, <3>2, SigningKeeps DEF Signed
  <2> QED
    BY <1>2, <2>3, <2>4, <2>5 DEF LogsEvidence
<1>3. CASE HandsMove \/ UNCHANGED authorityVars
  BY <1>3, <1>t DEF HandsMove, authorityVars, AuthorityTyped, WritingKeys, KeysSoFar, AuthorityInv,
     OneServes, LinesWritten, WriterAlone, OneKey
<1> QED
  BY <1>1, <1>2, <1>3, StartingKeeps, WritingKeeps, StoppingKeeps DEF AuthorityNext

(* Every key that verifies is the one that signed.                         *)
LEMMA TokensVerify == AuthorityInv => TokensHold
<1> SUFFICES ASSUME AuthorityInv PROVE TokensHold
  OBVIOUS
<1>1. ASSUME ~broken, WritingKeys = {} PROVE keyFile.private = keyFile.public
  BY <1>1 DEF AuthorityInv, OneKey
<1>2. ASSUME NEW r \in SignRequests, signing[r].at = "answered" PROVE r \in signLog
  BY <1>2 DEF AuthorityInv, LinesWritten
<1>3. ASSUME NEW r \in SignRequests, signing[r].at = "answered", ~broken,
             NEW p \in Authorities, authority[p].at = "up"
      PROVE  Verifies(p, r) <=> signing[r].expires >= hands
  BY <1>3 DEF AuthorityInv, WriterAlone, WritingKeys, OneKey, Signed, AuthorityTyped, Signature, Verifies
<1> QED
  BY <1>1, <1>2, <1>3 DEF AuthorityInv, OneServes, TokensHold

-----------------------------------------------------------------------------
(***************************************************************************)
(* Positions of the members of a finite order.                             *)
(***************************************************************************)

(* In a finite ordered set the numbers of those up to each member are the  *)
(* ranks 1, 2 and so on, each had by one member.                           *)
LEMMA Ranks ==
  ASSUME NEW P, IsFiniteSet(P), NEW B \in [P -> SUBSET P],
         \A n \in P : n \in B[n],
         \A m, n \in P : m \in B[n] => B[m] \subseteq B[n],
         \A m, n \in P : m \in B[n] \/ n \in B[m],
         \A m, n \in P : m \in B[n] /\ n \in B[m] => m = n
  PROVE  /\ Cardinality(P) \in Nat
         /\ \A n \in P : Cardinality(B[n]) \in 1 .. Cardinality(P)
         /\ \A m, n \in P : Cardinality(B[m]) = Cardinality(B[n]) => m = n
         /\ \A m, n \in P : Cardinality(B[m]) <= Cardinality(B[n]) <=> m \in B[n]
         /\ \A r \in 1 .. Cardinality(P) : \E n \in P : Cardinality(B[n]) = r
<1>1. Cardinality(P) \in Nat
  BY FS_CardinalityType
<1>2. ASSUME NEW n \in P PROVE /\ IsFiniteSet(B[n]) /\ Cardinality(B[n]) \in Nat /\ Cardinality(B[n]) \in 1 .. Cardinality(P)
  BY FS_Subset, FS_CardinalityType, FS_EmptySet, <1>1
<1>3. ASSUME NEW m \in P, NEW n \in P, m \in B[n]
      PROVE  Cardinality(B[m]) <= Cardinality(B[n]) /\ (Cardinality(B[m]) = Cardinality(B[n]) => m = n)
  BY <1>3, <1>2, FS_Subset
<1>4. \A m, n \in P : Cardinality(B[m]) = Cardinality(B[n]) => m = n
  BY <1>3
<1>5. \A m, n \in P : Cardinality(B[m]) <= Cardinality(B[n]) <=> m \in B[n]
  <2> SUFFICES ASSUME NEW m \in P, NEW n \in P PROVE Cardinality(B[m]) <= Cardinality(B[n]) <=> m \in B[n]
    OBVIOUS
  <2>1. CASE m \in B[n]
    BY <2>1, <1>3
  <2>2. CASE m \notin B[n]
    BY <2>2, <1>3, <1>2
  <2> QED
    BY <2>1, <2>2
<1>6. \A r \in 1 .. Cardinality(P) : \E n \in P : Cardinality(B[n]) = r
  <2> DEFINE rank == [n \in P |-> Cardinality(B[n])]
             Numbers == 1 .. Cardinality(P)
  <2>1. rank \in Injection(P, Numbers)
    <3>1. rank \in [P -> Numbers]
      BY <1>2
    <3>2. \A m, n \in P : rank[m] = rank[n] => m = n
      BY <1>4
    <3> HIDE DEF rank
    <3> QED
      BY <3>1, <3>2, Fun_IsInj
  <2>2. IsFiniteSet(Numbers) /\ Cardinality(Numbers) = Cardinality(P)
    BY <1>1, FS_Interval
  <2>3. rank \in Surjection(P, Numbers)
    <3> HIDE DEF rank, Numbers
    <3> QED
      BY <2>1, <2>2, FS_Injection
  <2>4. \A r \in Numbers : \E n \in P : rank[n] = r
    BY <2>3, Zenon DEF Surjection
  <2> QED
    BY <2>4
<1> QED
  BY <1>1, <1>2, <1>4, <1>5, <1>6

(* A set has as many members as places that list each of them once.        *)
LEMMA PlacesAreMembers ==
  ASSUME NEW L \in Nat, NEW T, NEW f \in [1 .. L -> T],
         \A m, n \in 1 .. L : f[m] = f[n] => m = n,
         \A t \in T : \E n \in 1 .. L : f[n] = t
  PROVE  Cardinality(T) = L
<1>1. f \in Bijection(1 .. L, T)
  BY Fun_IsBij, Zenon
<1>2. IsFiniteSet(1 .. L) /\ Cardinality(1 .. L) = L
  BY FS_Interval
<1>3. ExistsBijection(1 .. L, T)
  BY <1>1 DEF ExistsBijection
<1>4. Cardinality(T) = Cardinality(1 .. L)
  BY <1>2, <1>3, FS_Bijection, Zenon
<1> QED
  BY <1>2, <1>4

-----------------------------------------------------------------------------
(***************************************************************************)
(* The station's servers: their awaits, and the order of a search          *)
(* (ceo/index.ts, embeddings/store.ts).                                    *)
(***************************************************************************)

ServeFields == {"op", "text", "space", "k", "least", "at", "out", "id", "found", "context", "before", "seen"}
ServeOps == {"session", "look", "embed", "index", "search", "retrieve", "ask", "chat", "translate", "guess", "forward"}
Rankers == {"search", "retrieve", "ask"}
Grounded == {"retrieve", "ask"}

(* Which requests an await is of, and which of their awaits it is.         *)
LEMMA AwaitOf ==
  ASSUME NEW op \in ServeOps, NEW at \in 1 .. Len(Awaits[op])
  PROVE  /\ Len(Awaits[op]) \in Nat /\ Len(Awaits[op]) >= 1
         /\ Awaits[op][at] = "open" => op = "session" /\ at = 1 /\ Len(Awaits[op]) = 1
         /\ Awaits[op][at] = "get" => op = "look" /\ at = 1 /\ Len(Awaits[op]) = 1
         /\ Awaits[op][at] = "embed" => op \in {"embed", "index"} \cup Rankers /\ at = 1 /\ (op # "embed" => Len(Awaits[op]) >= 2)
         /\ Awaits[op][at] = "add" => op = "index" /\ at = 2 /\ Len(Awaits[op]) = 2
         /\ Awaits[op][at] = "find" => op \in Rankers /\ at = 2 /\ (op \in Grounded => Len(Awaits[op]) >= 3)
         /\ Awaits[op][at] = "journal" => op \in Grounded /\ at = 3
         /\ Awaits[op][at] = "infer" => (op = "ask" /\ at = 4) \/ op \in {"chat", "translate", "guess"}
         /\ Awaits[op][at] \in {"detect", "forward"} => op \in {"guess", "forward"}
<1>1. CASE op = "session"
  BY <1>1 DEF Awaits
<1>2. CASE op = "look"
  BY <1>2 DEF Awaits
<1>3. CASE op = "embed"
  BY <1>3 DEF Awaits
<1>4. CASE op = "index"
  BY <1>4 DEF Awaits, Grounded
<1>5. CASE op = "search"
  BY <1>5 DEF Awaits, Rankers, Grounded
<1>6. CASE op = "retrieve"
  BY <1>6 DEF Awaits, Rankers, Grounded
<1>7. CASE op = "ask"
  BY <1>7 DEF Awaits, Rankers, Grounded
<1>8. CASE op \in {"chat", "translate"}
  BY <1>8 DEF Awaits
<1>9. CASE op = "guess"
  BY <1>9 DEF Awaits
<1>10. CASE op = "forward"
  BY <1>10 DEF Awaits
<1> QED
  BY <1>1, <1>2, <1>3, <1>4, <1>5, <1>6, <1>7, <1>8, <1>9, <1>10 DEF ServeOps

(* Every operation has an await.                                           *)
LEMMA AwaitsLong == ASSUME NEW op \in ServeOps PROVE Len(Awaits[op]) \in Nat /\ Len(Awaits[op]) >= 1
BY DEF Awaits, ServeOps

(* The lesser of two numbers.                                              *)
LEMMA MinOfTwo == ASSUME NEW a \in Nat, NEW b \in Nat PROVE Min({a, b}) = IF a <= b THEN a ELSE b
BY DEF Min

(* The documents that are alike enough, best first, and of these the first *)
(* k.                                                                      *)
RankedAs(stored, k, least, size, pos) ==
  /\ size <= k /\ pos \in [1 .. size -> DOMAIN stored]
  /\ Ranked(stored, k, least) = [r \in 1 .. size |-> stored[pos[r]].by]
  /\ \A r \in 1 .. size : Likeness[stored[pos[r]].text] >= least
  /\ \A m, n \in 1 .. size : pos[m] = pos[n] => m = n
  /\ \A m, n \in 1 .. size : m < n => Likeness[stored[pos[m]].text] >= Likeness[stored[pos[n]].text]
  /\ \A n \in DOMAIN stored : Likeness[stored[n].text] >= least /\ (\A r \in 1 .. size : pos[r] # n) =>
       size = k /\ \A r \in 1 .. size : Likeness[stored[pos[r]].text] >= Likeness[stored[n].text]

(* The search lists positions of documents in that order, whatever is      *)
(* stored.                                                                 *)
LEMMA RankedIs ==
  ASSUME NEW stored, Len(stored) \in Nat, DOMAIN stored = 1 .. Len(stored),
         \A n \in DOMAIN stored : Likeness[stored[n].text] \in Nat, NEW k \in Nat, NEW least \in Nat
  PROVE  \E size \in Nat : \E pos : RankedAs(stored, k, least, size, pos)
<1> DEFINE Score(n) == Likeness[stored[n].text]
           fit == {n \in DOMAIN stored : Score(n) >= least}
           Ahead(n) == {m \in fit : Score(m) > Score(n) \/ (Score(m) = Score(n) /\ m <= n)}
<1>1. PICK score : score = [n \in DOMAIN stored |-> Score(n)]
  OBVIOUS
<1>2. \A n \in fit : n \in DOMAIN stored /\ n \in Nat /\ score[n] = Score(n) /\ score[n] \in Nat
  BY <1>1
<1>3. IsFiniteSet(fit)
  <2>1. IsFiniteSet(1 .. Len(stored)) /\ fit \in SUBSET (1 .. Len(stored))
    BY FS_Interval
  <2> HIDE DEF fit
  <2> QED
    BY <2>1, FS_Subset
<1> PICK B : B = [n \in fit |-> Ahead(n)]
  OBVIOUS
<1>4. \A n \in fit : B[n] = {m \in fit : score[m] > score[n] \/ (score[m] = score[n] /\ m <= n)}
  BY <1>2
<1>5. B \in [fit -> SUBSET fit]
  OBVIOUS
<1>6. \A n \in fit : B[n] = Ahead(n)
  OBVIOUS
<1>7. Ranked(stored, k, least) =
        [r \in 1 .. Min({k, Cardinality(fit)}) |-> stored[CHOOSE n \in fit : Cardinality(Ahead(n)) = r].by]
  BY DEF Ranked
<1> HIDE DEF fit, Ahead, Score
<1>8. \A m, n \in fit : m \in B[n] <=> score[m] > score[n] \/ (score[m] = score[n] /\ m <= n)
  BY <1>4
<1>9. /\ Cardinality(fit) \in Nat
      /\ \A n \in fit : Cardinality(B[n]) \in 1 .. Cardinality(fit)
      /\ \A m, n \in fit : Cardinality(B[m]) <= Cardinality(B[n]) <=> m \in B[n]
      /\ \A r \in 1 .. Cardinality(fit) : \E n \in fit : Cardinality(B[n]) = r
  <2>1. \A n \in fit : n \in B[n]
    BY <1>2, <1>8
  <2>2. \A m, n \in fit : m \in B[n] => B[m] \subseteq B[n]
    BY <1>2, <1>4, <1>8
  <2>3. \A m, n \in fit : m \in B[n] \/ n \in B[m]
    BY <1>2, <1>8
  <2>4. \A m, n \in fit : m \in B[n] /\ n \in B[m] => m = n
    BY <1>2, <1>8
  <2> QED
    BY <1>3, <1>5, <2>1, <2>2, <2>3, <2>4, Ranks
<1> DEFINE size == Min({k, Cardinality(fit)})
           At(r) == CHOOSE n \in fit : Cardinality(Ahead(n)) = r
<1>10. size \in Nat /\ size <= k /\ size <= Cardinality(fit) /\ (size = k \/ size = Cardinality(fit))
  BY <1>9, MinOfTwo
<1> PICK pos : pos = [r \in 1 .. size |-> At(r)]
  OBVIOUS
<1>11. \A r \in 1 .. size : pos[r] \in fit /\ Cardinality(B[pos[r]]) = r
  <2>1. ASSUME NEW r \in 1 .. size PROVE At(r) \in fit /\ Cardinality(Ahead(At(r))) = r
    <3>1. r \in 1 .. Cardinality(fit)
      <4> HIDE DEF size
      <4> QED
        BY <1>9, <1>10
    <3>2. \E n \in fit : Cardinality(Ahead(n)) = r
      BY <1>6, <1>9, <3>1
    <3> QED
      BY <3>2
  <2> HIDE DEF size, At
  <2> QED
    BY <1>6, <2>1
<1>12. Ranked(stored, k, least) = [r \in 1 .. size |-> stored[pos[r]].by]
  BY <1>7
<1> HIDE DEF size, At
<1>13. pos \in [1 .. size -> DOMAIN stored]
  BY <1>2, <1>11
<1>14. \A r \in 1 .. size : Score(pos[r]) >= least
  BY <1>11 DEF fit
<1>15. \A m, n \in 1 .. size : pos[m] = pos[n] => m = n
  BY <1>11
<1>16. \A m, n \in 1 .. size : m < n => Score(pos[m]) >= Score(pos[n])
  <2>1. ASSUME NEW m \in 1 .. size, NEW n \in 1 .. size, m < n PROVE Score(pos[m]) >= Score(pos[n])
    <3>0. m \in Nat /\ n \in Nat
      BY <1>10
    <3>a. pos[m] \in fit /\ Cardinality(B[pos[m]]) = m
      BY <1>11
    <3>b. pos[n] \in fit /\ Cardinality(B[pos[n]]) = n
      BY <1>11
    <3>c. m <= n
      BY <2>1, <3>0
    <3>1. pos[m] \in fit /\ pos[n] \in fit /\ Cardinality(B[pos[m]]) <= Cardinality(B[pos[n]])
      BY <3>a, <3>b, <3>c
    <3>2. pos[m] \in B[pos[n]]
      BY <1>9, <3>1
    <3>3. score[pos[m]] >= score[pos[n]]
      BY <1>2, <1>8, <3>1, <3>2
    <3> QED
      BY <1>2, <3>1, <3>3
  <2> QED
    BY <2>1
<1>17. ASSUME NEW n \in DOMAIN stored, Score(n) >= least, \A r \in 1 .. size : pos[r] # n
       PROVE  size = k /\ \A r \in 1 .. size : Score(pos[r]) >= Score(n)
  <2>1. n \in fit
    BY <1>17 DEF fit
  <2> PICK c : c = Cardinality(B[n])
    OBVIOUS
  <2>2. c \in 1 .. Cardinality(fit)
    BY <1>9, <2>1
  <2>3. c \notin 1 .. size
    <3>1. SUFFICES ASSUME c \in 1 .. size PROVE FALSE
      OBVIOUS
    <3>2. pos[c] \in fit /\ Cardinality(B[pos[c]]) = Cardinality(B[n])
      BY <1>11, <3>1
    <3>3. pos[c] \in B[n] /\ n \in B[pos[c]]
      BY <1>9, <2>1, <2>2, <3>2
    <3>4. pos[c] = n
      BY <1>2, <1>8, <2>1, <3>2, <3>3
    <3> QED
      BY <1>17, <3>1, <3>4
  <2>4. size < c /\ size = k
    BY <1>9, <1>10, <2>2, <2>3
  <2>5. ASSUME NEW r \in 1 .. size PROVE Score(pos[r]) >= Score(n)
    <3>0. r \in Nat /\ r <= size /\ c \in Nat /\ size \in Nat
      BY <1>9, <1>10, <2>2, <2>5
    <3>1. pos[r] \in fit /\ Cardinality(B[pos[r]]) = r /\ r <= c
      BY <1>11, <2>4, <2>5, <3>0
    <3>2. pos[r] \in B[n]
      BY <1>9, <2>1, <3>1
    <3>3. score[pos[r]] >= score[n]
      BY <1>2, <1>8, <2>1, <3>1, <3>2
    <3> QED
      BY <1>2, <2>1, <3>1, <3>3
  <2> QED
    BY <2>4, <2>5
<1> PICK z : z = size
  OBVIOUS
<1>18. /\ z \in Nat /\ z <= k /\ pos \in [1 .. z -> DOMAIN stored]
       /\ Ranked(stored, k, least) = [r \in 1 .. z |-> stored[pos[r]].by]
       /\ \A r \in 1 .. z : Score(pos[r]) >= least
       /\ \A m, n \in 1 .. z : pos[m] = pos[n] => m = n
       /\ \A m, n \in 1 .. z : m < n => Score(pos[m]) >= Score(pos[n])
       /\ \A n \in DOMAIN stored : Score(n) >= least /\ (\A r \in 1 .. z : pos[r] # n) =>
            z = k /\ \A r \in 1 .. z : Score(pos[r]) >= Score(n)
  BY <1>10, <1>12, <1>13, <1>14, <1>15, <1>16, <1>17
<1>19. RankedAs(stored, k, least, z, pos)
  BY <1>18 DEF Score, RankedAs
<1> QED
  BY <1>18, <1>19

-----------------------------------------------------------------------------
(***************************************************************************)
(* What is known of every request, and of collections and sessions.        *)
(***************************************************************************)

(* What a request is known to be, all being the requests.                  *)
Answered(r, n) == r.out = "ok" \/ (r.out = "asked" /\ r.at > n)
IsIndex(all, p, s) == p \in ServerRequests /\ all[p].out = "ok" /\ all[p].op = "index" /\ all[p].space = s
IsOpened(all, p) == p \in ServerRequests /\ all[p].out = "ok" /\ all[p].op = "session"

KnownAsk(r) ==
  /\ DOMAIN r = ServeFields
  /\ r.out \in {"new", "bad", "asked", "ok", "failed", "lost", "missing"}
  /\ r.out # "new" => r.op \in ServeOps
  /\ r.out = "new" => r.op = "none" /\ r.before = {}
  /\ r.out = "asked" => r.at \in 1 .. Len(Awaits[r.op])
  /\ r.space \in Collections /\ r.least \in Nat
  /\ r.op \in Rankers => r.k \in Nat
  /\ r.op = "index" /\ r.out # "bad" => r.text \in Contents
  /\ r.op \in Grounded => r.seen \in Nat
  /\ r.found \in Seq(ServerRequests)

(* What a search found, of the requests there are.                         *)
FoundFits(all, r) ==
  LET found == {r.found[n] : n \in DOMAIN r.found}
      Score(p) == Likeness[all[p].text]
  IN /\ Len(r.found) <= r.k /\ Cardinality(found) = Len(r.found)
     /\ \A p \in found : IsIndex(all, p, r.space) /\ Score(p) >= r.least
     /\ \A m, n \in DOMAIN r.found : m < n => Score(r.found[m]) >= Score(r.found[n])
     /\ \A p \in {b \in r.before : Score(b) >= r.least} \ found : Len(r.found) = r.k /\ \A f \in found : Score(f) >= Score(p)

ContextFits(found, k, context, lastLine) ==
  /\ Len(context) <= k
  /\ \A p \in DOMAIN found : context[p] = <<"doc", found[p]>>
  /\ \A n \in DOMAIN context \ DOMAIN found :
       context[n][1] = "line" /\ context[n][2] \in Nat /\ context[n][2] <= lastLine

LooksFit(all, r, reboots) ==
  /\ r.op = "look" /\ r.out \notin {"new", "bad"} => IsOpened(all, r.k)
  /\ r.op = "look" /\ r.out = "missing" => reboots > 0
  /\ r.op = "look" /\ r.out = "ok" => IsOpened(all, r.seen) /\ all[r.seen].id = all[r.k].id

AskFits(all, r, reboots) ==
  /\ KnownAsk(r)
  /\ \A p \in r.before : IsIndex(all, p, r.space)
  /\ r.op \in Rankers /\ Answered(r, 2) => FoundFits(all, r)
  /\ r.op \in Grounded /\ Answered(r, 3) => ContextFits(r.found, r.k, r.context, r.seen)
  /\ LooksFit(all, r, reboots)

(* A request that was answered stays as it is; what is known of the others *)
(* stays known.                                                            *)
LEMMA AskStays ==
  ASSUME NEW all, NEW next, NEW r, NEW n, NEW m, AskFits(all, r, n), n > 0 => m > 0,
         \A p \in ServerRequests : all[p].out = "ok" => next[p] = all[p]
  PROVE  AskFits(next, r, m)
<1>1. \A p, s : IsIndex(all, p, s) => IsIndex(next, p, s) /\ next[p] = all[p]
  BY DEF IsIndex
<1>2. \A p : IsOpened(all, p) => IsOpened(next, p) /\ next[p] = all[p]
  BY DEF IsOpened
<1>3. \A p \in r.before : IsIndex(next, p, r.space) /\ next[p] = all[p]
  BY <1>1 DEF AskFits
<1>4. LooksFit(next, r, m)
  BY <1>2 DEF AskFits, LooksFit
<1>5. ASSUME FoundFits(all, r) PROVE FoundFits(next, r)
  <2> DEFINE found == {r.found[x] : x \in DOMAIN r.found}
  <2>1. \A p \in found : IsIndex(next, p, r.space) /\ next[p] = all[p]
    BY <1>1, <1>5 DEF FoundFits
  <2>2. \A x \in DOMAIN r.found : next[r.found[x]] = all[r.found[x]]
    BY <2>1
  <2> QED
    BY <1>3, <1>5, <2>1, <2>2 DEF FoundFits
<1> QED
  BY <1>3, <1>4, <1>5 DEF AskFits

-----------------------------------------------------------------------------
Documents == [by : ServerRequests, text : Contents]

DocsFit ==
  /\ DOMAIN docs = Collections /\ \A s \in Collections : docs[s] \in Seq(Documents)
  /\ \A s \in Collections : \A n \in DOMAIN docs[s] :
       IsIndex(serving, docs[s][n].by, s) /\ serving[docs[s][n].by].text = docs[s][n].text
  /\ \A s \in Collections : \A m, n \in DOMAIN docs[s] : docs[s][m].by = docs[s][n].by => m = n

SessionsFit == \A t \in DOMAIN sessions : IsOpened(serving, sessions[t]) /\ serving[sessions[t]].id = t

(* What is there as long as the process does not restart.                  *)
RestartsFit ==
  mischief.restarts = 0 =>
    /\ \A q \in ServerRequests : serving[q].op = "index" /\ serving[q].out = "ok" => q \in By(serving[q].space)
    /\ \A q \in ServerRequests : IsOpened(serving, q) => serving[q].id \in DOMAIN sessions

CountsTyped ==
  /\ DOMAIN serving = ServerRequests /\ lines \in Nat
  /\ DOMAIN mischief = {"fetches", "restarts"} /\ mischief.fetches \in Nat /\ mischief.restarts \in Nat

ServersInv ==
  /\ CountsTyped /\ DocsFit /\ SessionsFit /\ RestartsFit
  /\ \A q \in ServerRequests : AskFits(serving, serving[q], mischief.restarts)
  /\ \A q \in ServerRequests : serving[q].out = "asked" => serving[q].before \subseteq By(serving[q].space)

(* What the invariant says of the requests' answers.                       *)
LEMMA ServersHold == ServersInv => ServersKept
<1> SUFFICES ASSUME ServersInv PROVE ServersKept
  OBVIOUS
<1>1. \A q \in ServerRequests : AskFits(serving, serving[q], mischief.restarts)
  BY DEF ServersInv
<1>2. FoundBest
  BY <1>1 DEF Served, AskFits, Rankers, Answered, IsIndex, FoundBest, FoundFits, ScoreOf
<1>3. IndexedStays
  BY DEF ServersInv, RestartsFit, IndexedStays, Served
<1>4. ContextGrounded
  BY <1>1 DEF Served, AskFits, Grounded, Answered, ContextGrounded, ContextFits
<1>5. SessionsKept
  BY <1>1 DEF AskFits, Served, LooksFit, SessionsKept
<1> QED
  BY <1>2, <1>3, <1>4, <1>5 DEF ServersKept

(* The invariant holds of servers that start.                              *)
LEMMA ServersStart == ServersInit => ServersInv
<1> SUFFICES ASSUME ServersInit PROVE ServersInv
  OBVIOUS
<1>1. /\ serving = [q \in ServerRequests |-> Idle] /\ docs = [s \in Collections |-> <<>>] /\ sessions = [t \in {} |-> 0]
      /\ lines \in {0, 2} /\ mischief = [fetches |-> 0, restarts |-> 0]
  BY DEF ServersInit
<1>2. CountsTyped
  BY <1>1 DEF CountsTyped
<1>3. DocsFit
  <2>1. DOMAIN docs = Collections /\ \A s \in Collections : docs[s] = <<>>
    BY <1>1
  <2>2. <<>> \in Seq(Documents) /\ DOMAIN <<>> = {}
    <3> HIDE DEF Documents
    <3> QED
      OBVIOUS
  <2> QED
    BY <2>1, <2>2 DEF DocsFit
<1>4. DOMAIN sessions = {}
  BY <1>1
<1>5. /\ DOMAIN Idle = ServeFields /\ Idle.out = "new" /\ Idle.op = "none" /\ Idle.before = {} /\ Idle.found = <<>>
      /\ Idle.space \in Collections /\ Idle.least = 0
  BY DEF Idle, ServeFields, Collections
<1>6. \A q \in ServerRequests : serving[q] = Idle
  BY <1>1
<1>7. <<>> \in Seq(ServerRequests)
  OBVIOUS
<1> HIDE DEF Idle
<1>8. AskFits(serving, Idle, mischief.restarts)
  BY <1>5, <1>7 DEF AskFits, KnownAsk, LooksFit, Answered, Rankers, Grounded
<1> QED
  BY <1>2, <1>3, <1>4, <1>5, <1>6, <1>8 DEF ServersInv, SessionsFit, RestartsFit, IsOpened

-----------------------------------------------------------------------------
(* The citations of an answer are the documents found, then lines that the *)
(* journal has, k at most.                                                 *)
LEMMA AssembledIs ==
  ASSUME NEW r, r.found \in Seq(ServerRequests), r.k \in Nat, Len(r.found) <= r.k, NEW n \in Nat
  PROVE  ContextFits(r.found, r.k, Assembled(r, n), n)
<1> DEFINE limit == IF r.op = "ask" THEN 3 ELSE r.k
           begin == IF n > 2 * limit THEN n - 2 * limit + 1 ELSE 1
           Cites == {<<"doc", p>> : p \in ServerRequests} \cup {<<"line", i>> : i \in Nat}
           cited == [i \in DOMAIN r.found |-> <<"doc", r.found[i]>>]
           evidence == FromJournal(n, limit)
           all == cited \o evidence
           size == Min({r.k, Len(all)})
<1>1. limit \in Nat
  OBVIOUS
<1> HIDE DEF limit
<1>2. n - begin + 1 \in Nat /\ begin \in Nat /\ begin >= 1
  BY <1>1
<1>3. Min({limit, n - begin + 1}) \in Nat /\ Min({limit, n - begin + 1}) <= n - begin + 1
  <2> DEFINE rest == n - begin + 1
  <2>1. rest \in Nat
    BY <1>2
  <2> HIDE DEF rest
  <2>2. Min({limit, rest}) \in Nat /\ Min({limit, rest}) <= rest
    BY <1>1, <2>1, MinOfTwo
  <2> QED
    BY <2>2 DEF rest
<1> DEFINE got == Min({limit, n - begin + 1})
<1>4. evidence = [i \in 1 .. got |-> <<"line", begin + i - 1>>]
  BY DEF FromJournal
<1> HIDE DEF evidence, begin, got
<1>5. \A i \in 1 .. got : begin + i - 1 \in Nat /\ begin + i - 1 <= n
  BY <1>2, <1>3 DEF got
<1>6. evidence \in Seq(Cites) /\ Len(evidence) = got /\ got \in Nat
  <2>1. \A i \in 1 .. got : <<"line", begin + i - 1>> \in Cites
    BY <1>5
  <2>2. got \in Nat
    BY <1>3 DEF got
  <2> HIDE DEF Cites
  <2>3. evidence \in [1 .. got -> Cites]
    BY <1>4, <2>1
  <2>4. evidence \in Seq(Cites)
    BY <2>2, <2>3, SeqDef
  <2>5. Len(evidence) = got
    BY <2>2, <2>3, <2>4, LenProperties
  <2> QED
    BY <2>2, <2>4, <2>5
<1>7. Len(r.found) \in Nat /\ DOMAIN r.found = 1 .. Len(r.found) /\ \A i \in 1 .. Len(r.found) : r.found[i] \in ServerRequests
  OBVIOUS
<1>8. cited \in Seq(Cites) /\ Len(cited) = Len(r.found)
  <2>1. \A i \in 1 .. Len(r.found) : <<"doc", r.found[i]>> \in Cites
    BY <1>7
  <2> HIDE DEF Cites
  <2> QED
    BY <1>7, <2>1
<1>9. \A i \in 1 .. Len(r.found) : cited[i] = <<"doc", r.found[i]>>
  BY <1>7
<1> HIDE DEF cited, Cites
<1>10. /\ all \in Seq(Cites) /\ Len(all) = Len(r.found) + got
       /\ \A i \in 1 .. Len(r.found) : all[i] = <<"doc", r.found[i]>>
       /\ \A i \in 1 .. Len(all) : i > Len(r.found) => i - Len(r.found) \in 1 .. got /\ all[i] = evidence[i - Len(r.found)]
  <2> PICK c : c = cited
    OBVIOUS
  <2> PICK e : e = evidence
    OBVIOUS
  <2>1. c \in Seq(Cites) /\ e \in Seq(Cites) /\ all = c \o e /\ Len(c) = Len(r.found) /\ Len(e) = got /\ got \in Nat
    BY <1>6, <1>8
  <2>2. all \in Seq(Cites) /\ Len(all) = Len(c) + Len(e) /\ \A i \in 1 .. Len(c) + Len(e) :
          all[i] = IF i <= Len(c) THEN c[i] ELSE e[i - Len(c)]
    <3>1. c \o e \in Seq(Cites) /\ Len(c \o e) = Len(c) + Len(e)
          /\ \A i \in 1 .. Len(c) + Len(e) : (c \o e)[i] = IF i <= Len(c) THEN c[i] ELSE e[i - Len(c)]
      <4>1. c \in Seq(Cites) /\ e \in Seq(Cites)
        BY <2>1
      <4> QED
        BY <4>1, ConcatProperties, Zenon
    <3> HIDE DEF all
    <3> QED
      BY <2>1, <3>1
  <2> HIDE DEF all
  <2>3. \A i \in 1 .. Len(r.found) : all[i] = c[i]
    BY <1>7, <2>1, <2>2
  <2>4. ASSUME NEW i \in 1 .. Len(all), i > Len(r.found) PROVE i - Len(r.found) \in 1 .. got /\ all[i] = e[i - Len(r.found)]
    <3> PICK docsIn : docsIn = Len(r.found)
      OBVIOUS
    <3>1. docsIn \in Nat /\ Len(c) = docsIn /\ Len(e) = got /\ Len(all) = docsIn + got /\ got \in Nat
      BY <1>7, <2>1, <2>2
    <3>2. i \in 1 .. docsIn + got /\ i > docsIn
      BY <2>4, <3>1
    <3>3. i - docsIn \in 1 .. got /\ ~(i <= docsIn) /\ i \in 1 .. Len(c) + Len(e)
      BY <3>1, <3>2
    <3>4. all[i] = e[i - docsIn]
      BY <2>2, <3>1, <3>3
    <3> QED
      BY <3>3, <3>4
  <2> QED
    BY <1>9, <2>1, <2>2, <2>3, <2>4
<1> HIDE DEF all
<1>11. size \in Nat /\ size <= r.k /\ size <= Len(all) /\ Len(r.found) <= size
  <2>1. Len(all) \in Nat
    BY <1>10
  <2> PICK long : long = Len(all)
    OBVIOUS
  <2>2. long \in Nat /\ Len(r.found) <= long
    BY <1>6, <1>7, <1>10, <2>1
  <2>3. size = IF r.k <= long THEN r.k ELSE long
    BY <2>2, MinOfTwo
  <2> QED
    BY <1>7, <2>2, <2>3
<1>12. Assembled(r, n) = SubSeq(all, 1, size)
  BY DEF Assembled, all, cited, evidence, limit
<1> HIDE DEF size
<1> DEFINE context == SubSeq(all, 1, size)
<1>13. Len(context) = size /\ DOMAIN context = 1 .. size /\ \A i \in 1 .. size : context[i] = all[i]
  BY <1>10, <1>11, SubSeqProperties
<1> HIDE DEF context
<1>14. \A p \in DOMAIN r.found : context[p] = <<"doc", r.found[p]>>
  BY <1>7, <1>10, <1>11, <1>13
<1>15. ASSUME NEW i \in DOMAIN context \ DOMAIN r.found PROVE context[i][1] = "line" /\ context[i][2] \in Nat /\ context[i][2] <= n
  <2>1. i \in 1 .. size /\ i > Len(r.found) /\ i \in 1 .. Len(all)
    BY <1>7, <1>10, <1>11, <1>13, <1>15
  <2> PICK j : j = i - Len(r.found)
    OBVIOUS
  <2>2. j \in 1 .. got /\ context[i] = evidence[j]
    BY <1>10, <1>13, <2>1
  <2>3. evidence[j] = <<"line", begin + j - 1>>
    BY <1>4, <2>2
  <2> QED
    BY <1>5, <2>2, <2>3
<1> QED
  BY <1>11, <1>12, <1>13, <1>14, <1>15 DEF ContextFits, context

-----------------------------------------------------------------------------
(***************************************************************************)
(* A turn of one request.                                                  *)
(***************************************************************************)

(* A turn of one request leaves the others, and it was not answered yet.   *)
TurnOf(q, n) ==
  /\ DOMAIN serving' = ServerRequests /\ \A p \in ServerRequests : p # q => serving'[p] = serving[p]
  /\ serving'[q] = n /\ serving[q].out # "ok"

(* Answers are not taken back.                                             *)
LEMMA TurnKeepsAnswers ==
  ASSUME NEW q \in ServerRequests, NEW n, TurnOf(q, n)
  PROVE  \A p \in ServerRequests : serving[p].out = "ok" => serving'[p] = serving[p]
BY DEF TurnOf

(* If the request fits after its turn, all fit.                            *)
LEMMA TurnFits ==
  ASSUME ServersInv, NEW q \in ServerRequests, NEW n, TurnOf(q, n), AskFits(serving', n, mischief.restarts),
         mischief'.restarts = mischief.restarts
  PROVE  \A p \in ServerRequests : AskFits(serving', serving'[p], mischief'.restarts)
<1>1. ASSUME NEW p \in ServerRequests, p # q PROVE AskFits(serving', serving'[p], mischief'.restarts)
  BY <1>1, TurnKeepsAnswers, AskStays DEF ServersInv, TurnOf
<1> QED
  BY <1>1 DEF TurnOf

(* What stays of documents and sessions, as answers are not taken back.    *)
LEMMA DocsStay ==
  ASSUME DocsFit, \A p \in ServerRequests : serving[p].out = "ok" => serving'[p] = serving[p], docs' = docs
  PROVE  DocsFit'
BY DEF IsIndex, DocsFit

(* ... and of sessions.                                                    *)
LEMMA SessionsStay ==
  ASSUME SessionsFit, \A p \in ServerRequests : serving[p].out = "ok" => serving'[p] = serving[p], sessions' = sessions
  PROVE  SessionsFit'
BY DEF IsOpened, SessionsFit

(* A turn that writes nothing keeps the invariant if its request fits.     *)
LEMMA TurnKeeps ==
  ASSUME ServersInv, CountsTyped', NEW q \in ServerRequests, NEW n, TurnOf(q, n), AskFits(serving', n, mischief.restarts),
         mischief'.restarts = mischief.restarts, docs' = docs, sessions' = sessions,
         n.out = "ok" => n.op \notin {"index", "session"},
         n.out = "asked" => n.before \subseteq By(n.space)
  PROVE  ServersInv'
<1>1. \A p \in ServerRequests : serving[p].out = "ok" => serving'[p] = serving[p]
  BY TurnKeepsAnswers
<1>2. DocsFit' /\ SessionsFit'
  BY <1>1, DocsStay, SessionsStay DEF ServersInv
<1>3. \A s : By(s)' = By(s)
  BY DEF By
<1>4. \A p \in ServerRequests : AskFits(serving', serving'[p], mischief'.restarts)
  BY TurnFits
<1>5. RestartsFit'
  <2>1. ASSUME mischief.restarts = 0, NEW p \in ServerRequests, serving'[p].op = "index", serving'[p].out = "ok"
        PROVE  p \in By(serving'[p].space)
    BY <2>1 DEF TurnOf, ServersInv, RestartsFit
  <2>2. ASSUME mischief.restarts = 0, NEW p \in ServerRequests, IsOpened(serving', p)
        PROVE  serving'[p].id \in DOMAIN sessions
    BY <2>2 DEF TurnOf, IsOpened, ServersInv, RestartsFit
  <2> QED
    BY <1>3, <2>1, <2>2 DEF RestartsFit
<1>6. ASSUME NEW p \in ServerRequests, serving'[p].out = "asked" PROVE serving'[p].before \subseteq By(serving'[p].space)
  BY <1>6 DEF ServersInv, TurnOf
<1>7. (\A p \in ServerRequests : serving[p].out = "asked" => serving[p].before \subseteq By(serving[p].space))'
  BY <1>3, <1>6
<1> QED
  BY <1>2, <1>4, <1>5, <1>7 DEF ServersInv

(* What an await that was answered does to its request.                    *)
Onward(n, r) ==
  /\ DOMAIN n = ServeFields /\ n.op = r.op /\ n.text = r.text /\ n.space = r.space /\ n.k = r.k /\ n.least = r.least
  /\ n.id = r.id /\ n.found = r.found /\ n.context = r.context /\ n.before = r.before /\ n.seen = r.seen
  /\ IF r.at < Len(Awaits[r.op]) THEN n.at = r.at + 1 /\ n.out = r.out ELSE n.at = r.at /\ n.out = "ok"

(* An answered await takes its request to the next one or to its end ...   *)
LEMMA ServedDoes ==
  ASSUME CountsTyped, NEW q \in ServerRequests, NEW r, DOMAIN r = ServeFields, ServedOn(q, r), serving[q].out # "ok"
  PROVE  \E n : TurnOf(q, n) /\ Onward(n, r)
<1> DEFINE more == r.at < Len(Awaits[r.op])
           n == IF more THEN [r EXCEPT !.at = r.at + 1] ELSE [r EXCEPT !.out = "ok"]
<1>1. serving' = [serving EXCEPT ![q] = n]
  BY DEF ServedOn
<1>2. Onward(n, r)
  <2> HIDE DEF more
  <2>1. CASE more
    <3> DEFINE next == [r EXCEPT !.at = r.at + 1]
    <3>1. n = next
      BY <2>1
    <3>2. /\ DOMAIN next = ServeFields /\ next.op = r.op /\ next.text = r.text /\ next.space = r.space /\ next.k = r.k
          /\ next.least = r.least /\ next.id = r.id /\ next.found = r.found /\ next.context = r.context /\ next.before = r.before
          /\ next.seen = r.seen /\ next.at = r.at + 1 /\ next.out = r.out
      BY DEF ServeFields
    <3> HIDE DEF next, n
    <3> QED
      BY <2>1, <3>1, <3>2 DEF Onward, more
  <2>2. CASE ~more
    <3> DEFINE next == [r EXCEPT !.out = "ok"]
    <3>1. n = next
      BY <2>2
    <3>2. /\ DOMAIN next = ServeFields /\ next.op = r.op /\ next.text = r.text /\ next.space = r.space /\ next.k = r.k
          /\ next.least = r.least /\ next.id = r.id /\ next.found = r.found /\ next.context = r.context /\ next.before = r.before
          /\ next.seen = r.seen /\ next.at = r.at /\ next.out = "ok"
      BY DEF ServeFields
    <3> HIDE DEF next, n
    <3> QED
      BY <2>2, <3>1, <3>2 DEF Onward, more
  <2> QED
    BY <2>1, <2>2
<1> HIDE DEF n
<1>3. TurnOf(q, n)
  BY <1>1 DEF CountsTyped, TurnOf
<1> QED
  BY <1>2, <1>3

(* ... and one without an answer ends it.                                  *)
LEMMA EndsDoes ==
  ASSUME CountsTyped, NEW q \in ServerRequests, NEW out, DOMAIN serving[q] = ServeFields, Ends(q, out), serving[q].out # "ok"
  PROVE  \E n : /\ TurnOf(q, n)
                /\ DOMAIN n = ServeFields /\ n.op = serving[q].op /\ n.text = serving[q].text /\ n.space = serving[q].space
                /\ n.k = serving[q].k /\ n.least = serving[q].least
                /\ n.id = serving[q].id /\ n.found = serving[q].found /\ n.context = serving[q].context
                /\ n.before = serving[q].before /\ n.seen = serving[q].seen /\ n.out = out
<1> DEFINE r == serving[q]
           n == [r EXCEPT !.out = out]
<1>1. serving' = [serving EXCEPT ![q] = n]
  BY DEF Ends
<1>2. /\ DOMAIN n = ServeFields /\ n.op = r.op /\ n.text = r.text /\ n.space = r.space /\ n.k = r.k
      /\ n.least = r.least /\ n.id = r.id /\ n.found = r.found /\ n.context = r.context /\ n.before = r.before
      /\ n.seen = r.seen /\ n.out = out
  BY DEF ServeFields
<1> HIDE DEF n
<1>3. TurnOf(q, n)
  BY <1>1 DEF CountsTyped, TurnOf
<1> QED
  BY <1>2, <1>3

(* What is known of a request that waits.                                  *)
LEMMA WaitsFor ==
  ASSUME ServersInv, NEW q \in ServerRequests, NEW await, AtAwait(q, await)
  PROVE  LET r == serving[q]
         IN  /\ KnownAsk(r) /\ AskFits(serving, r, mischief.restarts) /\ r.out = "asked" /\ r.op \in ServeOps
             /\ r.at \in 1 .. Len(Awaits[r.op]) /\ Awaits[r.op][r.at] = await
             /\ r.before \subseteq By(r.space) /\ DOMAIN r = ServeFields /\ CountsTyped /\ mischief.restarts \in Nat
BY DEF ServersInv, AtAwait, AskFits, KnownAsk, CountsTyped

(* What an answered await leaves to show.                                  *)
LEMMA OnwardFits ==
  ASSUME NEW r, NEW s, NEW n, NEW all, NEW m, KnownAsk(r), r.out = "asked",
         DOMAIN s = ServeFields, s.op = r.op, s.text = r.text, s.space = r.space, s.k = r.k, s.least = r.least, s.before = r.before,
         s.out = r.out, s.at = r.at, s.found \in Seq(ServerRequests), s.op \in Grounded => s.seen \in Nat,
         Onward(n, s), \A p \in r.before : IsIndex(all, p, r.space),
         r.op \in Rankers /\ Answered(n, 2) => FoundFits(all, n),
         r.op \in Grounded /\ Answered(n, 3) => ContextFits(n.found, n.k, n.context, n.seen),
         LooksFit(all, n, m)
  PROVE  AskFits(all, n, m)
BY AwaitsLong DEF KnownAsk, Onward, AskFits

-----------------------------------------------------------------------------
(***************************************************************************)
(* The search, and the requests that arrive.                               *)
(***************************************************************************)

(* A list of different members lists as many as it is long.                *)
LEMMA DistinctCount ==
  ASSUME NEW f, NEW T, NEW size \in Nat, f \in [1 .. size -> T], \A t \in T : \E s \in 1 .. size : f[s] = t,
         \A m, n \in 1 .. size : f[m] = f[n] => m = n
  PROVE  Cardinality(T) = size
<1>1. IsFiniteSet(1 .. size) /\ Cardinality(1 .. size) = size
  BY FS_Interval
<1> PICK S : S = 1 .. size
  OBVIOUS
<1>2. f \in Surjection(S, T) /\ f \in Injection(S, T)
  BY Fun_IsInj, Fun_IsSurj
<1>3. Cardinality(S) = Cardinality(T)
  BY <1>1, <1>2, FS_Surjection
<1> QED
  BY <1>1, <1>3

(* The search at the moment it is made.                                    *)
LEMMA FindFits ==
  ASSUME DocsFit, NEW r, r.space \in Collections, r.k \in Nat, r.least \in Nat, r.before \subseteq By(r.space),
         r.found = Ranked(docs[r.space], r.k, r.least)
  PROVE  FoundFits(serving, r) /\ r.found \in Seq(ServerRequests)
<1> PICK stored : stored = docs[r.space]
  OBVIOUS
<1>1. stored \in Seq(Documents)
  BY DEF DocsFit
<1>2. /\ Len(stored) \in Nat /\ DOMAIN stored = 1 .. Len(stored)
      /\ \A n \in DOMAIN stored : stored[n] \in Documents
  <2> HIDE DEF Documents
  <2> QED
    BY <1>1
<1>3. \A n \in DOMAIN stored : stored[n].by \in ServerRequests /\ Likeness[stored[n].text] \in Nat
  BY <1>2, ServersAssumption DEF Documents
<1>4. \A n \in DOMAIN stored : IsIndex(serving, stored[n].by, r.space) /\ serving[stored[n].by].text = stored[n].text
  BY DEF DocsFit
<1>5. \A m, n \in DOMAIN stored : stored[m].by = stored[n].by => m = n
  BY DEF DocsFit
<1>6. PICK size, pos : size \in Nat /\ RankedAs(stored, r.k, r.least, size, pos)
  BY <1>2, <1>3, RankedIs
<1>7. /\ size <= r.k /\ pos \in [1 .. size -> DOMAIN stored]
      /\ Ranked(stored, r.k, r.least) = [x \in 1 .. size |-> stored[pos[x]].by]
      /\ \A x \in 1 .. size : Likeness[stored[pos[x]].text] >= r.least
      /\ \A m, n \in 1 .. size : pos[m] = pos[n] => m = n
      /\ \A m, n \in 1 .. size : m < n => Likeness[stored[pos[m]].text] >= Likeness[stored[pos[n]].text]
      /\ \A n \in DOMAIN stored : Likeness[stored[n].text] >= r.least /\ (\A x \in 1 .. size : pos[x] # n) =>
           size = r.k /\ \A x \in 1 .. size : Likeness[stored[pos[x]].text] >= Likeness[stored[n].text]
  BY <1>6 DEF RankedAs
<1> PICK f : f = r.found
  OBVIOUS
<1>8. f = [x \in 1 .. size |-> stored[pos[x]].by]
  BY <1>7
<1>9. DOMAIN f = 1 .. size /\ \A x \in 1 .. size : f[x] = stored[pos[x]].by /\ pos[x] \in DOMAIN stored
  BY <1>7, <1>8
<1>10. f \in [1 .. size -> ServerRequests] /\ f \in [1 .. size -> {f[n] : n \in DOMAIN f}]
  BY <1>3, <1>8, <1>9
<1>11. f \in Seq(ServerRequests) /\ Len(f) = size
  <2>1. f \in Seq(ServerRequests)
    BY <1>6, <1>10, SeqDef
  <2>2. DOMAIN f = 1 .. Len(f) /\ Len(f) \in Nat
    BY <2>1, LenProperties
  <2>3. \A a, b \in Nat : 1 .. a = 1 .. b => a = b
    OBVIOUS
  <2> QED
    BY <1>6, <1>9, <2>1, <2>2, <2>3
<1>12. \A m, n \in DOMAIN f : f[m] = f[n] => m = n
  BY <1>5, <1>7, <1>9
<1> DEFINE found == {f[n] : n \in DOMAIN f}
           Score(p) == Likeness[serving[p].text]
<1>13. Cardinality(found) = Len(f)
  <2> PICK T : T = found
    OBVIOUS
  <2>1. f \in [1 .. size -> T] /\ \A t \in T : \E x \in 1 .. size : f[x] = t
    BY <1>9, <1>10
  <2>2. \A m, n \in 1 .. size : f[m] = f[n] => m = n
    BY <1>9, <1>12
  <2>3. Cardinality(T) = size
    BY <1>6, <2>1, <2>2, DistinctCount
  <2> QED
    BY <1>11, <2>3
<1>14. \A x \in DOMAIN f : Score(f[x]) = Likeness[stored[pos[x]].text]
  BY <1>4, <1>9
<1>15. ASSUME NEW p \in found PROVE IsIndex(serving, p, r.space) /\ Score(p) >= r.least
  BY <1>4, <1>7, <1>9, <1>14, SMTT(60)
<1>16. \A m, n \in DOMAIN f : m < n => Score(f[m]) >= Score(f[n])
  BY <1>7, <1>9, <1>14
<1>17. ASSUME NEW p \in r.before, Score(p) >= r.least, p \notin found
       PROVE  Len(f) = r.k /\ \A g \in found : Score(g) >= Score(p)
  <2>1. PICK n \in DOMAIN stored : stored[n].by = p
    BY DEF By
  <2>2. Score(p) = Likeness[stored[n].text]
    BY <1>4, <2>1
  <2>3. \A x \in 1 .. size : pos[x] # n
    BY <1>9, <1>17, <2>1
  <2>4. size = r.k /\ \A x \in 1 .. size : Likeness[stored[pos[x]].text] >= Likeness[stored[n].text]
    BY <1>7, <1>17, <2>2, <2>3
  <2>5. ASSUME NEW x \in DOMAIN f PROVE Score(f[x]) >= Score(p)
    BY <1>9, <1>14, <2>2, <2>4
  <2> QED
    BY <1>11, <2>4, <2>5
<1>18. Len(f) <= r.k
  BY <1>7, <1>11
<1>19. FoundFits(serving, r)
  BY <1>13, <1>15, <1>16, <1>17, <1>18 DEF FoundFits
<1> QED
  BY <1>11, <1>19

-----------------------------------------------------------------------------
(* What a body asks for.                                                   *)
FreshAsk(r) ==
  /\ DOMAIN r = ServeFields /\ r.op \in ServeOps /\ r.space \in Collections /\ r.least \in Nat /\ r.found = <<>> /\ r.seen = 0
  /\ r.op \in Rankers => r.k \in Nat
  /\ r.op = "index" => r.text \in Contents \cup {"none"}
  /\ r.op = "look" => IsOpened(serving, r.k)

(* What callers ask for is such a body ...                                 *)
LEMMA AsksFresh == \A a \in Asks : FreshAsk(a)
<1> DEFINE Of(op) == [Idle EXCEPT !.op = op]
<1> DEFINE Write(op, t) == [Of(op) EXCEPT !.text = t]
           Looking(p) == [Of("look") EXCEPT !.k = p]
           Index(t, s) == [Of("index") EXCEPT !.text = t, !.space = s]
           Retrieve(op, k) == [Of(op) EXCEPT !.text = "query", !.k = k]
           Search(k, m) == [Of("search") EXCEPT !.k = k, !.least = m]
           Writes == {Write(op, t) : op \in {"embed", "chat", "translate", "guess"}, t \in Contents \cup {"none"}}
           Looks == {Looking(p) : p \in {q \in ServerRequests : serving[q].op = "session" /\ serving[q].out = "ok"}}
           Indexes == {Index(t, s) : t \in Contents, s \in Collections}
           Retrieves == {Retrieve(op, k) : op \in {"retrieve", "ask"}, k \in 1 .. 2}
           Searches == {Search(k, m) : k \in 1 .. 2, m \in {0, 2}}
<1>0. Asks = {Of("session")} \cup Writes \cup Looks \cup Indexes \cup {Of("index"), Of("ask")} \cup Retrieves \cup Searches
  <2> DEFINE some == Contents \cup {"none"}
             writes == {[Of(op) EXCEPT !.text = t] : op \in {"embed", "chat", "translate", "guess"}, t \in some}
             looks == {[Of("look") EXCEPT !.k = p] : p \in {r \in ServerRequests : serving[r].op = "session" /\ serving[r].out = "ok"}}
             indexes == {[Of("index") EXCEPT !.text = t, !.space = s] : t \in Contents, s \in Collections}
             retrieves == {[Of(op) EXCEPT !.text = "query", !.k = k] : op \in {"retrieve", "ask"}, k \in 1 .. 2}
             searches == {[Of("search") EXCEPT !.k = k, !.least = m] : k \in 1 .. 2, m \in {0, 2}}
  <2>1. Asks = {Of("session")} \cup writes \cup looks \cup indexes \cup {Of("index"), Of("ask")} \cup retrieves \cup searches
    BY DEF Asks
  <2>2. writes = Writes
    OBVIOUS
  <2>3. looks = Looks
    OBVIOUS
  <2>4. indexes = Indexes
    OBVIOUS
  <2>5. retrieves = Retrieves
    OBVIOUS
  <2>6. searches = Searches
    OBVIOUS
  <2> HIDE DEF writes, looks, indexes, retrieves, searches, Writes, Looks, Indexes, Retrieves, Searches, Of
  <2> QED
    BY <2>1, <2>2, <2>3, <2>4, <2>5, <2>6
<1>1. /\ DOMAIN Idle = ServeFields /\ Idle.space = "default" /\ Idle.least = 0 /\ Idle.found = <<>> /\ Idle.seen = 0
      /\ Idle.k = 0 /\ Idle.text = "none"
  BY DEF Idle, ServeFields
<1> HIDE DEF Idle, Writes, Looks, Indexes, Retrieves, Searches
<1>2. \A op : /\ DOMAIN Of(op) = ServeFields /\ Of(op).op = op /\ Of(op).space = "default" /\ Of(op).least = 0
              /\ Of(op).found = <<>> /\ Of(op).seen = 0 /\ Of(op).k = 0 /\ Of(op).text = "none"
  BY <1>1 DEF ServeFields
<1> SUFFICES ASSUME NEW a \in Asks PROVE FreshAsk(a)
  OBVIOUS
<1>3. \/ a = Of("session")
      \/ \E op \in {"embed", "chat", "translate", "guess"} : \E t : a = [Of(op) EXCEPT !.text = t]
      \/ \E p \in {q \in ServerRequests : serving[q].op = "session" /\ serving[q].out = "ok"} : a = [Of("look") EXCEPT !.k = p]
      \/ \E t \in Contents, s \in Collections : a = [Of("index") EXCEPT !.text = t, !.space = s]
      \/ a = Of("index") \/ a = Of("ask")
      \/ \E op \in {"retrieve", "ask"}, k \in 1 .. 2 : a = [Of(op) EXCEPT !.text = "query", !.k = k]
      \/ \E k \in 1 .. 2, m \in {0, 2} : a = [Of("search") EXCEPT !.k = k, !.least = m]
  <2> USE DEF Writes, Looks, Indexes, Retrieves, Searches
  <2> HIDE DEF Write, Looking, Index, Retrieve, Search, Of
  <2>2. a \in Writes => \E op \in {"embed", "chat", "translate", "guess"} : \E t : a = Write(op, t)
    OBVIOUS
  <2>3. a \in Looks => \E p \in {q \in ServerRequests : serving[q].op = "session" /\ serving[q].out = "ok"} : a = Looking(p)
    BY Zenon
  <2>4. a \in Indexes => \E t \in Contents, s \in Collections : a = Index(t, s)
    OBVIOUS
  <2>5. a \in Retrieves => \E op \in {"retrieve", "ask"}, k \in 1 .. 2 : a = Retrieve(op, k)
    OBVIOUS
  <2>6. a \in Searches => \E k \in 1 .. 2, m \in {0, 2} : a = Search(k, m)
    OBVIOUS
  <2> HIDE DEF Writes, Looks, Indexes, Retrieves, Searches
  <2>7. a = Of("session") \/ a \in Writes \/ a \in Looks \/ a \in Indexes \/ a = Of("index") \/ a = Of("ask") \/ a \in Retrieves \/ a \in Searches
    BY <1>0
  <2>8. (a = Of("session") \/ a = Of("index") \/ a = Of("ask")
         \/ (\E op \in {"embed", "chat", "translate", "guess"} : \E t : a = Write(op, t))
         \/ (\E p \in {q \in ServerRequests : serving[q].op = "session" /\ serving[q].out = "ok"} : a = Looking(p))
         \/ (\E t \in Contents, s \in Collections : a = Index(t, s))
         \/ (\E op \in {"retrieve", "ask"}, k \in 1 .. 2 : a = Retrieve(op, k))
         \/ (\E k \in 1 .. 2, m \in {0, 2} : a = Search(k, m)))
    BY <2>2, <2>3, <2>4, <2>5, <2>6, <2>7, Zenon
  <2> QED
    BY <2>8, Zenon DEF Write, Looking, Index, Retrieve, Search
<1> HIDE DEF Of
<1>4. "default" \in Collections /\ "none" \in Contents \cup {"none"}
  BY DEF Collections
<1>5. CASE a = Of("session") \/ a = Of("index") \/ a = Of("ask")
  BY <1>2, <1>4, <1>5 DEF FreshAsk, ServeOps, Rankers
<1>6. ASSUME NEW op \in {"embed", "chat", "translate", "guess"}, NEW t, a = [Of(op) EXCEPT !.text = t] PROVE FreshAsk(a)
  BY <1>2, <1>6, <1>4 DEF ServeFields, FreshAsk, ServeOps, Rankers
<1>7. ASSUME NEW p \in ServerRequests, serving[p].op = "session", serving[p].out = "ok", a = [Of("look") EXCEPT !.k = p] PROVE FreshAsk(a)
  BY <1>2, <1>7, <1>4 DEF ServeFields, FreshAsk, ServeOps, Rankers, IsOpened
<1>8. ASSUME NEW t \in Contents, NEW s \in Collections, a = [Of("index") EXCEPT !.text = t, !.space = s] PROVE FreshAsk(a)
  BY <1>2, <1>8 DEF ServeFields, FreshAsk, ServeOps, Rankers
<1>9. ASSUME NEW op \in {"retrieve", "ask"}, NEW k \in 1 .. 2, a = [Of(op) EXCEPT !.text = "query", !.k = k] PROVE FreshAsk(a)
  BY <1>2, <1>9, <1>4 DEF ServeFields, FreshAsk, ServeOps, Rankers
<1>10. ASSUME NEW k \in 1 .. 2, NEW m \in {0, 2}, a = [Of("search") EXCEPT !.k = k, !.least = m] PROVE FreshAsk(a)
  BY <1>2, <1>10, <1>4 DEF ServeFields, FreshAsk, ServeOps, Rankers
<1> QED
  BY <1>3, <1>5, <1>6, <1>7, <1>8, <1>9, <1>10

(* ... and so is what is forwarded.                                        *)
LEMMA ForwardFresh == ASSUME NEW server PROVE FreshAsk([Idle EXCEPT !.op = "forward", !.text = server])
<1> DEFINE r == [Idle EXCEPT !.op = "forward", !.text = server]
<1>1. /\ DOMAIN Idle = ServeFields /\ Idle.space = "default" /\ Idle.least = 0 /\ Idle.found = <<>> /\ Idle.seen = 0
  BY DEF Idle, ServeFields
<1> HIDE DEF Idle
<1>2. /\ DOMAIN r = ServeFields /\ r.op = "forward" /\ r.space = "default" /\ r.least = 0 /\ r.found = <<>> /\ r.seen = 0
  BY <1>1 DEF ServeFields
<1>3. "default" \in Collections
  BY DEF Collections
<1> HIDE DEF r
<1>4. FreshAsk(r)
  BY <1>2, <1>3 DEF FreshAsk, ServeOps, Rankers
<1> QED
  BY <1>4 DEF r

-----------------------------------------------------------------------------
(***************************************************************************)
(* Requests arrive, go on and give up.                                     *)
(***************************************************************************)

(* What was found stays so, and is found of any record that reads the same.*)
LEMMA FoundStays ==
  ASSUME NEW q \in ServerRequests, NEW n, NEW r, TurnOf(q, r), FoundFits(serving, n),
         \A p \in n.before : IsIndex(serving, p, n.space)
  PROVE  FoundFits(serving', n)
<1>1. \A p, s : IsIndex(serving, p, s) => IsIndex(serving', p, s) /\ serving'[p] = serving[p]
  BY TurnKeepsAnswers DEF IsIndex
<1> DEFINE found == {n.found[x] : x \in DOMAIN n.found}
<1>2. \A p \in found : IsIndex(serving', p, n.space) /\ serving'[p] = serving[p]
  BY <1>1 DEF FoundFits
<1>3. \A x \in DOMAIN n.found : serving'[n.found[x]] = serving[n.found[x]]
  BY <1>2
<1>4. \A p \in n.before : serving'[p] = serving[p]
  BY <1>1
<1> QED
  BY <1>2, <1>3, <1>4 DEF FoundFits

(* (The list is judged by what was asked for.)                             *)
LEMMA FoundSame ==
  ASSUME NEW all, NEW n, NEW r, FoundFits(all, r), n.found = r.found, n.k = r.k, n.space = r.space, n.least = r.least, n.before = r.before
  PROVE  FoundFits(all, n)
BY DEF FoundFits

(* What a session was found for stays ...                                  *)
LEMMA LooksStay ==
  ASSUME NEW q \in ServerRequests, NEW n, NEW r, NEW m, TurnOf(q, r), LooksFit(serving, n, m)
  PROVE  LooksFit(serving', n, m)
BY TurnKeepsAnswers DEF IsOpened, LooksFit

(* ... and so do the documents there were.                                 *)
LEMMA BeforeStays ==
  ASSUME ServersInv, NEW q \in ServerRequests, NEW n, TurnOf(q, n)
  PROVE  \A p \in serving[q].before : IsIndex(serving', p, serving[q].space)
BY TurnKeepsAnswers DEF IsIndex, ServersInv, AskFits

(* What the counters and the requests' domain are after a turn.            *)
LEMMA TypedAfter ==
  ASSUME CountsTyped, NEW q \in ServerRequests, NEW n, TurnOf(q, n), UNCHANGED <<lines, mischief>>
  PROVE  CountsTyped'
BY DEF CountsTyped, TurnOf

(* A request asks, and waits for its first answer.                         *)
LEMMA AskArrives ==
  ASSUME ServersInv, NEW q \in ServerRequests, NEW r, FreshAsk(r), Arrive(q, r)
  PROVE  ServersInv'
<1> DEFINE out == IF r.text = "none" /\ r.op \in Needing THEN "bad" ELSE "asked"
           n == [r EXCEPT !.at = 1, !.before = By(r.space), !.out = out]
<1>1. serving' = [serving EXCEPT ![q] = n] /\ serving[q].out = "new" /\ UNCHANGED <<docs, sessions, lines, tick, mischief>>
  BY DEF Arrive
<1>2. DOMAIN r = ServeFields
  BY DEF FreshAsk
<1>3. out \in {"bad", "asked"} /\ (out = "asked" /\ r.op = "index" => r.text # "none")
  BY DEF Needing
<1>4. /\ DOMAIN n = ServeFields /\ n.op = r.op /\ n.text = r.text /\ n.space = r.space /\ n.k = r.k /\ n.least = r.least
      /\ n.found = r.found /\ n.seen = r.seen /\ n.at = 1 /\ n.before = By(r.space) /\ n.out = out
  BY <1>2 DEF ServeFields
<1> HIDE DEF out
<1> PICK m : m = n
  OBVIOUS
<1> HIDE DEF n
<1>5. CountsTyped
  BY DEF ServersInv
<1>6. TurnOf(q, m)
  BY <1>1, <1>5 DEF TurnOf, CountsTyped
<1>7. CountsTyped'
  BY <1>1, <1>5, <1>6, TypedAfter
<1>8. \A p, s : IsIndex(serving, p, s) => IsIndex(serving', p, s)
  BY <1>6, TurnKeepsAnswers DEF IsIndex
<1>9. \A p : IsOpened(serving, p) => IsOpened(serving', p)
  BY <1>6, TurnKeepsAnswers DEF IsOpened
<1>10. r.op \in ServeOps /\ Len(Awaits[r.op]) \in Nat /\ Len(Awaits[r.op]) >= 1
  BY AwaitsLong DEF FreshAsk
<1>11. <<>> \in Seq(ServerRequests)
  OBVIOUS
<1>12. KnownAsk(m)
  BY <1>3, <1>4, <1>10, <1>11 DEF KnownAsk, FreshAsk, Grounded
<1>13. \A p \in m.before : IsIndex(serving', p, m.space)
  BY <1>4, <1>8 DEF By, ServersInv, DocsFit, FreshAsk
<1>14. ~Answered(m, 2) /\ ~Answered(m, 3)
  BY <1>3, <1>4 DEF Answered
<1>15. LooksFit(serving', m, mischief.restarts)
  BY <1>3, <1>4, <1>9 DEF LooksFit, FreshAsk
<1>16. AskFits(serving', m, mischief.restarts)
  BY <1>12, <1>13, <1>14, <1>15 DEF AskFits
<1> QED
  BY <1>1, <1>3, <1>4, <1>6, <1>7, <1>16, TurnKeeps

(* A request goes on: what the answer left must fit.                       *)
LEMMA Continues ==
  ASSUME ServersInv, NEW q \in ServerRequests, NEW await, AtAwait(q, await), await \notin {"open", "add"},
         NEW r, DOMAIN r = ServeFields, r.op = serving[q].op, r.text = serving[q].text, r.space = serving[q].space,
         r.k = serving[q].k, r.least = serving[q].least, r.before = serving[q].before, r.out = serving[q].out, r.at = serving[q].at,
         r.found \in Seq(ServerRequests), r.op \in Grounded => r.seen \in Nat,
         ServedOn(q, r), UNCHANGED <<docs, sessions>>, mischief'.restarts = mischief.restarts,
         lines' \in Nat, DOMAIN mischief' = {"fetches", "restarts"}, mischief'.fetches \in Nat,
         \A n : Onward(n, r) => /\ r.op \in Rankers /\ Answered(n, 2) => FoundFits(serving, n)
                                /\ r.op \in Grounded /\ Answered(n, 3) => ContextFits(n.found, n.k, n.context, n.seen)
                                /\ LooksFit(serving, n, mischief.restarts)
  PROVE  ServersInv'
<1>1. /\ KnownAsk(serving[q]) /\ AskFits(serving, serving[q], mischief.restarts) /\ serving[q].out = "asked" /\ r.op \in ServeOps
      /\ r.at \in 1 .. Len(Awaits[r.op]) /\ Awaits[r.op][r.at] = await
      /\ r.before \subseteq By(r.space) /\ CountsTyped
  BY WaitsFor
<1>2. PICK n : TurnOf(q, n) /\ Onward(n, r)
  BY <1>1, ServedDoes
<1>3. CountsTyped'
  BY <1>1, <1>2 DEF CountsTyped, TurnOf
<1>4. \A p \in r.before : IsIndex(serving, p, r.space)
  BY <1>1 DEF AskFits
<1>5. \A p \in serving[q].before : IsIndex(serving', p, serving[q].space)
  BY <1>2, BeforeStays
<1>6. n.before = r.before /\ n.space = r.space /\ n.op = r.op /\ (n.out = "asked" \/ n.out = "ok")
  BY <1>1, <1>2 DEF Onward
<1>7. r.op \in Rankers /\ Answered(n, 2) => FoundFits(serving', n)
  BY <1>2, <1>4, <1>6, FoundStays
<1>8. LooksFit(serving', n, mischief.restarts)
  BY <1>2, LooksStay
<1>9. r.op \in Grounded /\ Answered(n, 3) => ContextFits(n.found, n.k, n.context, n.seen)
  BY <1>2
<1>10. AskFits(serving', n, mischief.restarts)
  <2> PICK old, all, m : old = serving[q] /\ all = serving' /\ m = mischief.restarts
    OBVIOUS
  <2>1. KnownAsk(old) /\ old.out = "asked" /\ Onward(n, r) /\ LooksFit(all, n, m)
        /\ (old.op \in Rankers /\ Answered(n, 2) => FoundFits(all, n)) /\ \A p \in old.before : IsIndex(all, p, old.space)
    BY <1>1, <1>2, <1>5, <1>7, <1>8
  <2>2. old.op \in Grounded /\ Answered(n, 3) => ContextFits(n.found, n.k, n.context, n.seen)
    BY <1>9
  <2>3. AskFits(all, n, m)
    BY <2>1, <2>2, OnwardFits
  <2> QED
    BY <2>3
<1>11. n.out = "ok" => n.op \notin {"index", "session"}
  <2>1. ASSUME n.out = "ok", r.op = "session" PROVE FALSE
    BY <2>1, <1>1 DEF Awaits
  <2>2. ASSUME n.out = "ok", r.op = "index" PROVE FALSE
    BY <2>2, <1>1, <1>2 DEF Awaits, Onward
  <2> QED
    BY <1>6, <2>1, <2>2
<1>12. n.out = "asked" => n.before \subseteq By(n.space)
  BY <1>1, <1>6
<1> QED
  BY <1>2, <1>3, <1>10, <1>11, <1>12, TurnKeeps

(* A request ends without an answer.                                       *)
LEMMA GivesUp ==
  ASSUME ServersInv, NEW q \in ServerRequests, NEW await, AtAwait(q, await), NEW out \in {"failed", "missing"},
         Ends(q, out), out = "missing" => mischief.restarts > 0, UNCHANGED <<docs, sessions>>,
         mischief'.restarts = mischief.restarts,
         lines' \in Nat, DOMAIN mischief' = {"fetches", "restarts"}, mischief'.fetches \in Nat
  PROVE  ServersInv'
<1> PICK r : r = serving[q]
  OBVIOUS
<1>1. /\ KnownAsk(r) /\ AskFits(serving, r, mischief.restarts) /\ r.out = "asked" /\ r.op \in ServeOps
      /\ r.before \subseteq By(r.space) /\ DOMAIN r = ServeFields /\ CountsTyped
  BY WaitsFor
<1>2. PICK n : /\ TurnOf(q, n)
               /\ DOMAIN n = ServeFields /\ n.op = r.op /\ n.text = r.text /\ n.space = r.space /\ n.k = r.k /\ n.least = r.least
               /\ n.id = r.id /\ n.found = r.found /\ n.context = r.context /\ n.before = r.before /\ n.seen = r.seen /\ n.out = out
  BY <1>1, EndsDoes
<1>3. CountsTyped'
  BY <1>1, <1>2 DEF CountsTyped, TurnOf
<1>4. \A p \in n.before : IsIndex(serving', p, n.space)
  BY <1>2, BeforeStays
<1>5. KnownAsk(n)
  BY <1>1, <1>2 DEF KnownAsk
<1>6. ~Answered(n, 2) /\ ~Answered(n, 3) /\ n.out # "ok" /\ n.out # "asked"
  BY <1>2 DEF Answered
<1>7. LooksFit(serving, n, mischief.restarts)
  BY <1>1, <1>2 DEF AskFits, LooksFit
<1>8. AskFits(serving', n, mischief.restarts)
  BY <1>2, <1>4, <1>5, <1>6, <1>7, LooksStay DEF AskFits
<1> QED
  BY <1>2, <1>3, <1>6, <1>8, TurnKeeps

-----------------------------------------------------------------------------
(***************************************************************************)
(* The awaits that read ...                                                *)
(***************************************************************************)

(* The awaits whose answer changes no field that is read later.            *)
LEMMA PassesOn ==
  ASSUME ServersInv, NEW q \in ServerRequests, NEW await \in {"embed", "infer", "detect"}, AtAwait(q, await),
         ServedOn(q, serving[q]), UNCHANGED <<docs, sessions, lines, tick, mischief>>
  PROVE  ServersInv'
<1> PICK r : r = serving[q]
  OBVIOUS
<1>1. /\ KnownAsk(r) /\ AskFits(serving, r, mischief.restarts) /\ r.out = "asked" /\ r.op \in ServeOps
      /\ r.at \in 1 .. Len(Awaits[r.op]) /\ Awaits[r.op][r.at] = await /\ DOMAIN r = ServeFields /\ CountsTyped
  BY WaitsFor
<1>2. Len(Awaits[r.op]) \in Nat
  BY <1>1, AwaitsLong
<1>3. await = "embed" => r.op \in {"embed", "index"} \cup Rankers /\ r.at = 1 /\ (r.op # "embed" => Len(Awaits[r.op]) >= 2)
  BY <1>1, AwaitOf
<1>4. await = "infer" => (r.op = "ask" /\ r.at = 4) \/ r.op \in {"chat", "translate", "guess"}
  BY <1>1, AwaitOf
<1>5. await = "detect" => r.op \in {"guess", "forward"}
  BY <1>1, AwaitOf
<1>6. r.op # "look"
  BY <1>3, <1>4, <1>5 DEF Rankers
<1>7. ASSUME NEW n, Onward(n, r)
      PROVE  /\ r.op \in Rankers /\ Answered(n, 2) => FoundFits(serving, n)
             /\ r.op \in Grounded /\ Answered(n, 3) => ContextFits(n.found, n.k, n.context, n.seen)
             /\ LooksFit(serving, n, mischief.restarts)
  <2>1. LooksFit(serving, n, mischief.restarts)
    BY <1>6, <1>7 DEF LooksFit, Onward
  <2>2. ASSUME r.op \in Rankers, Answered(n, 2) PROVE r.at = 4 /\ r.op = "ask"
    <3>1. CASE await = "embed"
      BY <1>2, <1>3, <2>2, <3>1, <1>1, <1>7 DEF Rankers, Onward, Answered
    <3>2. CASE await # "embed"
      BY <1>4, <1>5, <2>2, <3>2 DEF Rankers
    <3> QED
      BY <3>1, <3>2
  <2>3. ASSUME r.at = 4, r.op = "ask" PROVE FoundFits(serving, n) /\ ContextFits(n.found, n.k, n.context, n.seen)
    BY <1>1, <2>3, <1>7, FoundSame DEF Answered, Rankers, Grounded, AskFits, Onward
  <2>4. r.op \in Grounded /\ Answered(n, 3) => r.op \in Rankers /\ Answered(n, 2)
    BY <1>1, <1>2, <1>7 DEF Onward, Grounded, Rankers, Answered
  <2> QED
    BY <2>1, <2>2, <2>3, <2>4
<1>8. r.found \in Seq(ServerRequests) /\ (r.op \in Grounded => r.seen \in Nat)
  BY <1>1 DEF KnownAsk
<1>9. lines' \in Nat /\ DOMAIN mischief' = {"fetches", "restarts"} /\ mischief'.fetches \in Nat /\ mischief'.restarts = mischief.restarts
  BY <1>1 DEF CountsTyped
<1>10. AtAwait(q, await) /\ await \notin {"open", "add"} /\ ServedOn(q, r)
  OBVIOUS
<1> QED
  BY <1>1, <1>7, <1>8, <1>9, <1>10, Continues

(* A session that was answered is looked for by its id.                    *)
LEMMA GetsSession == ASSUME ServersInv, NEW q \in ServerRequests, GetSession(q) PROVE ServersInv'
<1> PICK r : r = serving[q]
  OBVIOUS
<1>0. AtAwait(q, "get")
  BY DEF GetSession
<1>1. /\ KnownAsk(r) /\ AskFits(serving, r, mischief.restarts) /\ r.out = "asked" /\ r.op \in ServeOps
      /\ r.at \in 1 .. Len(Awaits[r.op]) /\ Awaits[r.op][r.at] = "get" /\ DOMAIN r = ServeFields /\ CountsTyped
      /\ mischief.restarts \in Nat
  BY <1>0, WaitsFor
<1>2. r.op = "look"
  BY <1>1, AwaitOf
<1> PICK id : id = serving[r.k].id
  OBVIOUS
<1>3. IsOpened(serving, r.k)
  BY <1>1, <1>2 DEF AskFits, LooksFit
<1>4. lines' \in Nat /\ DOMAIN mischief' = {"fetches", "restarts"} /\ mischief'.fetches \in Nat /\ mischief'.restarts = mischief.restarts
      /\ UNCHANGED <<docs, sessions>>
  BY <1>1 DEF CountsTyped, GetSession
<1>5. CASE id \in DOMAIN sessions
  <2> DEFINE s == [r EXCEPT !.seen = sessions[id]]
  <2>1. ServedOn(q, s)
    BY <1>5 DEF GetSession
  <2>2. /\ DOMAIN s = ServeFields /\ s.op = r.op /\ s.text = r.text /\ s.space = r.space /\ s.k = r.k /\ s.least = r.least
        /\ s.before = r.before /\ s.out = r.out /\ s.at = r.at /\ s.found = r.found /\ s.seen = sessions[id]
    BY <1>1 DEF ServeFields
  <2> HIDE DEF s
  <2>3. IsOpened(serving, sessions[id]) /\ serving[sessions[id]].id = id
    BY <1>5 DEF ServersInv, SessionsFit
  <2>4. ASSUME NEW n, Onward(n, s)
        PROVE  /\ s.op \in Rankers /\ Answered(n, 2) => FoundFits(serving, n)
               /\ s.op \in Grounded /\ Answered(n, 3) => ContextFits(n.found, n.k, n.context, n.seen)
               /\ LooksFit(serving, n, mischief.restarts)
    BY <1>1, <2>2, <2>4, <1>3, <2>3, <1>2 DEF Onward, LooksFit, Rankers, Grounded
  <2>5. s.found \in Seq(ServerRequests) /\ s.op \notin Grounded
    BY <1>1, <1>2, <2>2 DEF KnownAsk, Grounded
  <2>6. AtAwait(q, "get") /\ "get" \notin {"open", "add"}
    BY <1>0
  <2> QED
    BY <1>1, <1>4, <2>1, <2>2, <2>4, <2>5, <2>6, Continues
<1>6. CASE id \notin DOMAIN sessions
  BY <1>6, <1>3, <1>1, <1>0, <1>4, GivesUp DEF GetSession, ServersInv, RestartsFit, IsOpened
<1> QED
  BY <1>5, <1>6

(* A search of the documents there are.                                    *)
LEMMA Finds == ASSUME ServersInv, NEW q \in ServerRequests, Find(q) PROVE ServersInv'
<1> PICK r : r = serving[q]
  OBVIOUS
<1>0. AtAwait(q, "find")
  BY DEF Find
<1>1. /\ KnownAsk(r) /\ AskFits(serving, r, mischief.restarts) /\ r.out = "asked" /\ r.op \in ServeOps
      /\ r.at \in 1 .. Len(Awaits[r.op]) /\ Awaits[r.op][r.at] = "find" /\ DOMAIN r = ServeFields /\ CountsTyped
      /\ r.before \subseteq By(r.space)
  BY <1>0, WaitsFor
<1>2. r.op \in Rankers /\ r.at = 2 /\ (r.op \in Grounded => Len(Awaits[r.op]) >= 3)
  BY <1>1, AwaitOf
<1> DEFINE s == [r EXCEPT !.found = Ranked(docs[r.space], r.k, r.least)]
<1>3. ServedOn(q, s) /\ UNCHANGED <<docs, sessions, lines, tick, mischief>>
  BY DEF Find
<1>4. /\ DOMAIN s = ServeFields /\ s.op = r.op /\ s.text = r.text /\ s.space = r.space /\ s.k = r.k /\ s.least = r.least
      /\ s.before = r.before /\ s.out = r.out /\ s.at = r.at /\ s.seen = r.seen
      /\ s.found = Ranked(docs[r.space], r.k, r.least)
  BY <1>1 DEF ServeFields
<1> HIDE DEF s
<1>5. FoundFits(serving, s) /\ s.found \in Seq(ServerRequests)
  BY <1>1, <1>2, <1>4, FindFits DEF ServersInv, KnownAsk
<1>6. ASSUME NEW n, Onward(n, s)
      PROVE  /\ s.op \in Rankers /\ Answered(n, 2) => FoundFits(serving, n)
             /\ s.op \in Grounded /\ Answered(n, 3) => ContextFits(n.found, n.k, n.context, n.seen)
             /\ LooksFit(serving, n, mischief.restarts)
  <2>1. n.found = s.found /\ n.k = s.k /\ n.space = s.space /\ n.least = s.least /\ n.before = s.before /\ n.op = s.op
    BY <1>6 DEF Onward
  <2>2. FoundFits(serving, n)
    BY <1>5, <2>1, FoundSame
  <2>3. LooksFit(serving, n, mischief.restarts)
    BY <1>2, <1>4, <2>1 DEF LooksFit, Rankers
  <2>4. s.op \in Grounded => ~Answered(n, 3)
    BY <1>1, AwaitsLong, <1>2, <1>4, <1>6 DEF Onward, Answered
  <2> QED
    BY <2>2, <2>3, <2>4
<1>7. s.op \in Grounded => s.seen \in Nat
  BY <1>1, <1>4 DEF KnownAsk
<1>8. lines' \in Nat /\ DOMAIN mischief' = {"fetches", "restarts"} /\ mischief'.fetches \in Nat /\ mischief'.restarts = mischief.restarts
  BY <1>1, <1>3 DEF CountsTyped
<1>9. AtAwait(q, "find") /\ "find" \notin {"open", "add"}
  BY <1>0
<1> QED
  BY <1>3, <1>4, <1>5, <1>6, <1>7, <1>8, <1>9, Continues

(* The context is put together of what was found and lines of the journal, *)
(* or of none when it cannot be read.                                      *)
LEMMA Grounds ==
  ASSUME ServersInv, NEW q \in ServerRequests, AtAwait(q, "journal"), NEW r, r = serving[q], NEW s,
         DOMAIN s = ServeFields, s.op = r.op, s.text = r.text, s.space = r.space, s.k = r.k, s.least = r.least,
         s.before = r.before, s.out = r.out, s.at = r.at, s.found = r.found, s.seen \in Nat,
         NEW n \in Nat, n <= s.seen, s.context = Assembled(r, n),
         ServedOn(q, s), UNCHANGED <<docs, sessions>>, mischief'.restarts = mischief.restarts,
         lines' \in Nat, DOMAIN mischief' = {"fetches", "restarts"}, mischief'.fetches \in Nat
  PROVE  ServersInv'
<1>1. /\ KnownAsk(r) /\ AskFits(serving, r, mischief.restarts) /\ r.out = "asked" /\ r.op \in ServeOps
      /\ r.at \in 1 .. Len(Awaits[r.op]) /\ Awaits[r.op][r.at] = "journal" /\ DOMAIN r = ServeFields /\ CountsTyped
  BY WaitsFor
<1>2. r.op \in Grounded /\ r.at = 3
  BY <1>1, AwaitOf
<1>3. FoundFits(serving, r) /\ r.found \in Seq(ServerRequests) /\ r.k \in Nat
  BY <1>1, <1>2 DEF Answered, Rankers, Grounded, AskFits, KnownAsk
<1>4. Len(r.found) <= r.k
  BY <1>3 DEF FoundFits
<1>5. ContextFits(r.found, r.k, s.context, n)
  BY <1>3, <1>4, AssembledIs
<1>6. ContextFits(r.found, r.k, s.context, s.seen)
  BY <1>5 DEF ContextFits
<1>7. ASSUME NEW o, Onward(o, s)
      PROVE  /\ s.op \in Rankers /\ Answered(o, 2) => FoundFits(serving, o)
             /\ s.op \in Grounded /\ Answered(o, 3) => ContextFits(o.found, o.k, o.context, o.seen)
             /\ LooksFit(serving, o, mischief.restarts)
  BY <1>7, <1>3, <1>6, FoundSame, <1>2 DEF Onward, LooksFit, Grounded
<1>8. s.found \in Seq(ServerRequests)
  BY <1>3
<1>9. "journal" \notin {"open", "add"}
  OBVIOUS
<1> QED
  BY <1>7, <1>8, <1>9, Continues

-----------------------------------------------------------------------------
(***************************************************************************)
(* ... and those that write, the journal, and the restart.                 *)
(***************************************************************************)

(* The journal is read.                                                    *)
LEMMA ReadsTheJournal == ASSUME ServersInv, NEW q \in ServerRequests, ReadJournal(q) PROVE ServersInv'
<1> PICK r : r = serving[q]
  OBVIOUS
<1>0. AtAwait(q, "journal")
  BY DEF ReadJournal
<1>1. DOMAIN r = ServeFields /\ CountsTyped
  BY <1>0, WaitsFor
<1> DEFINE s == [r EXCEPT !.seen = lines, !.context = Assembled(r, lines)]
<1>2. ServedOn(q, s) /\ UNCHANGED <<docs, sessions, lines, tick, mischief>>
  BY DEF ReadJournal
<1>3. /\ DOMAIN s = ServeFields /\ s.op = r.op /\ s.text = r.text /\ s.space = r.space /\ s.k = r.k /\ s.least = r.least
      /\ s.before = r.before /\ s.out = r.out /\ s.at = r.at /\ s.found = r.found /\ s.seen = lines /\ s.context = Assembled(r, lines)
  BY <1>1 DEF ServeFields
<1> HIDE DEF s
<1>4. /\ s.seen \in Nat /\ lines \in Nat /\ lines <= s.seen /\ lines' \in Nat /\ mischief'.restarts = mischief.restarts
      /\ DOMAIN mischief' = {"fetches", "restarts"} /\ mischief'.fetches \in Nat
  BY <1>1, <1>2, <1>3 DEF CountsTyped
<1> QED
  BY <1>0, <1>2, <1>3, <1>4, Grounds

(* A lane answers a forwarded request.                                     *)
LEMMA ForwardsOn == ASSUME ServersInv, NEW q \in ServerRequests, NEW tool, Forward(q, tool) PROVE ServersInv'
<1> PICK r : r = serving[q]
  OBVIOUS
<1>0. AtAwait(q, "forward")
  BY DEF Forward
<1>1. /\ KnownAsk(r) /\ r.out = "asked" /\ r.op \in ServeOps
      /\ r.at \in 1 .. Len(Awaits[r.op]) /\ Awaits[r.op][r.at] = "forward" /\ DOMAIN r = ServeFields /\ CountsTyped
  BY <1>0, WaitsFor
<1>2. r.op \in {"guess", "forward"}
  BY <1>1, AwaitOf
<1> DEFINE s == [r EXCEPT !.context = <<LaneOf(r.text, tool)>>]
<1>3. ServedOn(q, s) /\ UNCHANGED <<docs, sessions, lines, tick, mischief>>
  BY DEF Forward
<1>4. /\ DOMAIN s = ServeFields /\ s.op = r.op /\ s.text = r.text /\ s.space = r.space /\ s.k = r.k /\ s.least = r.least
      /\ s.before = r.before /\ s.out = r.out /\ s.at = r.at /\ s.found = r.found /\ s.seen = r.seen
  BY <1>1 DEF ServeFields
<1> HIDE DEF s
<1>5. s.op \notin Rankers /\ s.op \notin Grounded /\ s.op # "look"
  BY <1>2, <1>4 DEF Rankers, Grounded
<1>6. \A n : Onward(n, s) => LooksFit(serving, n, mischief.restarts)
  BY <1>5 DEF Onward, LooksFit
<1>7. s.found \in Seq(ServerRequests)
  BY <1>1, <1>4 DEF KnownAsk
<1>8. lines' \in Nat /\ DOMAIN mischief' = {"fetches", "restarts"} /\ mischief'.fetches \in Nat /\ mischief'.restarts = mischief.restarts
  BY <1>1, <1>3 DEF CountsTyped
<1>9. "forward" \notin {"open", "add"}
  OBVIOUS
<1> QED
  BY <1>0, <1>3, <1>4, <1>5, <1>6, <1>7, <1>8, <1>9, Continues

(* A fetch fails.                                                          *)
LEMMA Breaks == ASSUME ServersInv, NEW q \in ServerRequests, FetchBreaks(q) PROVE ServersInv'
<1> PICK r : r = serving[q]
  OBVIOUS
<1>0. CountsTyped
  BY DEF ServersInv
<1>1. /\ lines' = lines /\ mischief' = [mischief EXCEPT !.fetches = mischief.fetches + 1] /\ UNCHANGED <<docs, sessions>>
      /\ ((\E await \in {"embed", "infer", "detect", "forward"} : AtAwait(q, await) /\ Ends(q, "failed"))
          \/ (AtAwait(q, "journal") /\ ServedOn(q, [serving[q] EXCEPT !.context = Assembled(serving[q], 0)])))
  BY DEF FetchBreaks
<1>2. lines' \in Nat /\ DOMAIN mischief' = {"fetches", "restarts"} /\ mischief'.fetches \in Nat /\ mischief'.restarts = mischief.restarts
  BY <1>0, <1>1 DEF CountsTyped
<1>3. ASSUME NEW await, AtAwait(q, await), Ends(q, "failed") PROVE ServersInv'
  BY <1>1, <1>2, <1>3, GivesUp
<1>4. ASSUME AtAwait(q, "journal"), ServedOn(q, [serving[q] EXCEPT !.context = Assembled(serving[q], 0)]) PROVE ServersInv'
  <2>1. KnownAsk(r) /\ DOMAIN r = ServeFields /\ r.op \in ServeOps /\ r.at \in 1 .. Len(Awaits[r.op])
        /\ Awaits[r.op][r.at] = "journal"
    BY <1>4, WaitsFor
  <2>2. r.seen \in Nat
    BY <2>1, AwaitOf DEF KnownAsk
  <2> DEFINE s == [r EXCEPT !.context = Assembled(r, 0)]
  <2>3. ServedOn(q, s)
    BY <1>4
  <2>4. /\ DOMAIN s = ServeFields /\ s.op = r.op /\ s.text = r.text /\ s.space = r.space /\ s.k = r.k /\ s.least = r.least
        /\ s.before = r.before /\ s.out = r.out /\ s.at = r.at /\ s.found = r.found /\ s.seen = r.seen /\ s.context = Assembled(r, 0)
    BY <2>1 DEF ServeFields
  <2> HIDE DEF s
  <2>5. s.seen \in Nat /\ 0 \in Nat /\ 0 <= s.seen
    BY <2>2, <2>4
  <2> QED
    BY <1>1, <1>2, <1>4, <2>3, <2>4, <2>5, Grounds
<1> QED
  BY <1>1, <1>3, <1>4

(* A session is opened under the millisecond it is made in.                *)
LEMMA Opens == ASSUME ServersInv, NEW q \in ServerRequests, OpenSession(q) PROVE ServersInv'
<1> PICK r : r = serving[q]
  OBVIOUS
<1>0. AtAwait(q, "open")
  BY DEF OpenSession
<1>1. /\ KnownAsk(r) /\ AskFits(serving, r, mischief.restarts) /\ r.out = "asked" /\ r.op \in ServeOps
      /\ r.at \in 1 .. Len(Awaits[r.op]) /\ Awaits[r.op][r.at] = "open" /\ DOMAIN r = ServeFields /\ CountsTyped
  BY <1>0, WaitsFor
<1>2. r.op = "session" /\ r.at = 1 /\ Len(Awaits[r.op]) = 1
  BY <1>1, AwaitOf
<1> DEFINE s == [r EXCEPT !.id = tick]
<1>3. ServedOn(q, s) /\ UNCHANGED <<docs, lines, tick, mischief>>
      /\ sessions' = [t \in DOMAIN sessions \cup {tick} |-> IF t = tick THEN q ELSE sessions[t]]
  BY DEF OpenSession
<1>4. /\ DOMAIN s = ServeFields /\ s.op = r.op /\ s.text = r.text /\ s.space = r.space /\ s.k = r.k /\ s.least = r.least
      /\ s.before = r.before /\ s.out = r.out /\ s.at = r.at /\ s.found = r.found /\ s.seen = r.seen /\ s.id = tick
  BY <1>1 DEF ServeFields
<1> HIDE DEF s
<1>5. PICK n : TurnOf(q, n) /\ Onward(n, s)
  BY <1>1, <1>3, <1>4, ServedDoes
<1>6. n.op = "session" /\ n.out = "ok" /\ n.id = tick
  BY <1>2, <1>4, <1>5 DEF Awaits, Onward
<1>7. CountsTyped'
  BY <1>1, <1>3, <1>5 DEF CountsTyped, TurnOf
<1>8. \A p \in ServerRequests : serving[p].out = "ok" => serving'[p] = serving[p]
  BY <1>5, TurnKeepsAnswers
<1>9. DocsFit' /\ (\A x : By(x)' = By(x))
  BY <1>3, <1>8, DocsStay DEF ServersInv, By
<1>10. IsOpened(serving', q)
  BY <1>5, <1>6 DEF IsOpened, TurnOf
<1>11. \A p : IsOpened(serving, p) => IsOpened(serving', p) /\ serving'[p] = serving[p]
  BY <1>8 DEF IsOpened
<1>12. SessionsFit'
  <2>1. ASSUME NEW t \in DOMAIN sessions' PROVE IsOpened(serving', sessions'[t]) /\ serving'[sessions'[t]].id = t
    <3>1. CASE t = tick
      BY <1>3, <1>5, <1>6, <1>10, <3>1 DEF TurnOf
    <3>2. CASE t # tick
      BY <1>3, <2>1, <3>2, <1>11 DEF ServersInv, SessionsFit
    <3> QED
      BY <3>1, <3>2
  <2> QED
    BY <2>1 DEF SessionsFit
<1>13. RestartsFit'
  <2>0. mischief'.restarts = mischief.restarts /\ DOMAIN sessions' = DOMAIN sessions \cup {tick}
    BY <1>3
  <2>1. ASSUME mischief.restarts = 0, NEW p \in ServerRequests, serving'[p].op = "index", serving'[p].out = "ok"
        PROVE  p \in By(serving'[p].space)
    BY <1>5, <1>6, <2>1 DEF TurnOf, ServersInv, RestartsFit
  <2>2. ASSUME mischief.restarts = 0, NEW p \in ServerRequests, IsOpened(serving', p)
        PROVE  serving'[p].id \in DOMAIN sessions'
    <3>1. CASE p = q
      BY <1>5, <1>6, <2>0, <3>1 DEF TurnOf
    <3>2. CASE p # q
      BY <1>5, <3>2, <2>2, <2>0 DEF TurnOf, IsOpened, ServersInv, RestartsFit
    <3> QED
      BY <3>1, <3>2
  <2> QED
    BY <1>9, <2>0, <2>1, <2>2 DEF RestartsFit
<1>14. AskFits(serving', n, mischief.restarts)
  <2> PICK all, m : all = serving' /\ m = mischief.restarts
    OBVIOUS
  <2>1. \A p \in r.before : IsIndex(all, p, r.space)
    BY <1>5, BeforeStays
  <2>2. s.op \notin Rankers /\ s.op \notin Grounded
    BY <1>2, <1>4 DEF Rankers, Grounded
  <2>3. LooksFit(all, n, m)
    BY <1>6 DEF LooksFit
  <2>4. s.found \in Seq(ServerRequests)
    BY <1>1, <1>4 DEF KnownAsk
  <2>5. AskFits(all, n, m)
    BY <1>1, <1>4, <1>5, <2>1, <2>2, <2>3, <2>4, OnwardFits
  <2> QED
    BY <2>5
<1>15. \A p \in ServerRequests : AskFits(serving', serving'[p], mischief'.restarts)
  BY <1>3, <1>5, <1>14, TurnFits
<1>16. ASSUME NEW p \in ServerRequests, serving'[p].out = "asked" PROVE serving'[p].before \subseteq By(serving'[p].space)
  BY <1>5, <1>6, <1>16 DEF ServersInv, TurnOf
<1>17. (\A p \in ServerRequests : serving[p].out = "asked" => serving[p].before \subseteq By(serving[p].space))'
  BY <1>9, <1>16
<1> QED
  BY <1>7, <1>9, <1>12, <1>13, <1>15, <1>17 DEF ServersInv

(* A document is added to its collection.                                  *)
LEMMA Adds == ASSUME ServersInv, NEW q \in ServerRequests, Add(q) PROVE ServersInv'
<1> PICK r : r = serving[q]
  OBVIOUS
<1>0. AtAwait(q, "add")
  BY DEF Add
<1>1. /\ KnownAsk(r) /\ AskFits(serving, r, mischief.restarts) /\ r.out = "asked" /\ r.op \in ServeOps
      /\ r.at \in 1 .. Len(Awaits[r.op]) /\ Awaits[r.op][r.at] = "add" /\ DOMAIN r = ServeFields /\ CountsTyped
  BY <1>0, WaitsFor
<1>2. r.op = "index" /\ r.at = 2 /\ Len(Awaits[r.op]) = 2
  BY <1>1, AwaitOf
<1> DEFINE doc == [by |-> q, text |-> r.text]
<1>3. ServedOn(q, r) /\ UNCHANGED <<sessions, lines, tick, mischief>> /\ docs' = [docs EXCEPT ![r.space] = Append(docs[r.space], doc)]
  BY DEF Add
<1>4. PICK n : TurnOf(q, n) /\ Onward(n, r)
  BY <1>1, <1>3, ServedDoes
<1>5. n.op = "index" /\ n.out = "ok" /\ n.space = r.space /\ n.text = r.text /\ r.space \in Collections /\ r.text \in Contents
  BY <1>1, <1>2, <1>4 DEF Onward, KnownAsk
<1>6. CountsTyped'
  BY <1>1, <1>3, <1>4 DEF CountsTyped, TurnOf
<1>7. \A p \in ServerRequests : serving[p].out = "ok" => serving'[p] = serving[p]
  BY <1>4, TurnKeepsAnswers
<1>8. \A p, x : IsIndex(serving, p, x) => IsIndex(serving', p, x) /\ serving'[p] = serving[p] /\ p # q
  BY <1>1, <1>7 DEF IsIndex
<1>9. IsIndex(serving', q, r.space) /\ serving'[q].text = r.text
  BY <1>4, <1>5 DEF TurnOf, IsIndex
<1>10. doc \in Documents /\ doc.by = q /\ doc.text = r.text
  BY <1>5 DEF Documents
<1>11. DocsFit
  BY DEF ServersInv
<1> HIDE DEF doc
<1> PICK stored : stored = docs[r.space]
  OBVIOUS
<1>12. stored \in Seq(Documents)
  BY <1>5, <1>11 DEF DocsFit
<1>13. /\ Len(stored) \in Nat /\ DOMAIN stored = 1 .. Len(stored)
       /\ Append(stored, doc) \in Seq(Documents)
       /\ DOMAIN Append(stored, doc) = 1 .. Len(stored) + 1
       /\ \A i \in 1 .. Len(stored) : Append(stored, doc)[i] = stored[i]
       /\ Append(stored, doc)[Len(stored) + 1] = doc
  <2> HIDE DEF Documents
  <2> QED
    BY <1>10, <1>12, AppendProperties
<1> DEFINE longer == Append(stored, doc)
<1>14. /\ DOMAIN docs' = Collections /\ docs'[r.space] = longer
       /\ \A x \in Collections : x # r.space => docs'[x] = docs[x]
  BY <1>3, <1>5, <1>11 DEF DocsFit
<1> HIDE DEF longer
<1>15. /\ longer \in Seq(Documents) /\ DOMAIN longer = DOMAIN stored \cup {Len(stored) + 1} /\ Len(stored) + 1 \notin DOMAIN stored
       /\ \A i \in DOMAIN stored : longer[i] = stored[i]
       /\ longer[Len(stored) + 1] = doc
  BY <1>13 DEF longer
<1>16. DocsFit'
  <2>1. \A x \in Collections : docs'[x] \in Seq(Documents)
    BY <1>11, <1>14, <1>15 DEF DocsFit
  <2>2. ASSUME NEW x \in Collections, NEW i \in DOMAIN docs'[x]
        PROVE  IsIndex(serving', docs'[x][i].by, x) /\ serving'[docs'[x][i].by].text = docs'[x][i].text
    <3>1. CASE x # r.space \/ i # Len(stored) + 1
      <4>1. i \in DOMAIN docs[x] /\ docs'[x][i] = docs[x][i]
        BY <1>14, <1>15, <2>2, <3>1
      <4> QED
        BY <1>8, <1>11, <4>1 DEF DocsFit
    <3>2. CASE x = r.space /\ i = Len(stored) + 1
      BY <1>9, <1>10, <1>14, <1>15, <3>2
    <3> QED
      BY <3>1, <3>2
  <2>3. ASSUME NEW x \in Collections, NEW i \in DOMAIN docs'[x], NEW j \in DOMAIN docs'[x], docs'[x][i].by = docs'[x][j].by
        PROVE  i = j
    <3>1. CASE x # r.space
      BY <1>11, <1>14, <2>3, <3>1 DEF DocsFit
    <3>2. CASE x = r.space
      <4>1. \A y \in DOMAIN stored : stored[y].by # q
        BY <1>5, <1>8, <1>11 DEF DocsFit
      <4>2. i \in DOMAIN stored \/ i = Len(stored) + 1
        BY <1>14, <1>15, <2>3, <3>2
      <4>3. j \in DOMAIN stored \/ j = Len(stored) + 1
        BY <1>14, <1>15, <2>3, <3>2
      <4>4. longer[i].by = longer[j].by
        BY <1>14, <2>3, <3>2
      <4>5. \A y, z \in DOMAIN stored : stored[y].by = stored[z].by => y = z
        BY <1>5, <1>11 DEF DocsFit
      <4> QED
        BY <1>10, <1>15, <4>1, <4>2, <4>3, <4>4, <4>5
    <3> QED
      BY <3>1, <3>2
  <2> QED
    BY <1>14, <2>1, <2>2, <2>3 DEF DocsFit
<1>17. \A x \in Collections : \A p \in By(x) : p \in By(x)'
  BY <1>14, <1>15 DEF By
<1>18. q \in By(r.space)'
  BY <1>10, <1>14, <1>15 DEF By
<1>19. SessionsFit'
  BY <1>3, <1>7, SessionsStay DEF ServersInv
<1>20. ASSUME NEW p \in ServerRequests PROVE serving[p].space \in Collections
  BY DEF ServersInv, AskFits, KnownAsk
<1>21. RestartsFit'
  <2>0. mischief'.restarts = mischief.restarts
    BY <1>3
  <2>1. ASSUME mischief.restarts = 0, NEW p \in ServerRequests, serving'[p].op = "index", serving'[p].out = "ok"
        PROVE  (p \in By(serving[p].space))'
    <3>1. CASE p = q
      BY <1>4, <1>5, <1>18, <3>1 DEF TurnOf
    <3>2. CASE p # q
      <4>1. serving'[p] = serving[p]
        BY <1>4, <3>2 DEF TurnOf
      <4> PICK x : x = serving[p].space
        OBVIOUS
      <4>2. p \in By(x) /\ x \in Collections
        BY <1>20, <2>1, <4>1 DEF ServersInv, RestartsFit
      <4>3. p \in By(x)'
        BY <1>17, <4>2
      <4> QED
        BY <4>1, <4>3
    <3> QED
      BY <3>1, <3>2
  <2>2. ASSUME mischief.restarts = 0, NEW p \in ServerRequests, IsOpened(serving', p)
        PROVE  serving'[p].id \in DOMAIN sessions'
    BY <1>4, <1>5, <2>2, <1>3 DEF TurnOf, IsOpened, ServersInv, RestartsFit
  <2> QED
    BY <2>0, <2>1, <2>2 DEF RestartsFit
<1>22. AskFits(serving', n, mischief.restarts)
  <2> PICK all, m : all = serving' /\ m = mischief.restarts
    OBVIOUS
  <2>1. \A p \in r.before : IsIndex(all, p, r.space)
    BY <1>4, BeforeStays
  <2>2. r.op \notin Rankers /\ r.op \notin Grounded
    BY <1>2 DEF Rankers, Grounded
  <2>3. LooksFit(all, n, m)
    BY <1>5 DEF LooksFit
  <2>4. r.found \in Seq(ServerRequests)
    BY <1>1 DEF KnownAsk
  <2>5. AskFits(all, n, m)
    BY <1>1, <1>4, <2>1, <2>2, <2>3, <2>4, OnwardFits
  <2> QED
    BY <2>5
<1>23. \A p \in ServerRequests : AskFits(serving', serving'[p], mischief'.restarts)
  BY <1>3, <1>4, <1>22, TurnFits
<1>24. ASSUME NEW p \in ServerRequests, serving'[p].out = "asked" PROVE (serving[p].before \subseteq By(serving[p].space))'
  <2>1. p # q /\ serving'[p] = serving[p]
    BY <1>4, <1>5, <1>24 DEF TurnOf
  <2> PICK x : x = serving[p].space
    OBVIOUS
  <2>2. serving[p].before \subseteq By(x) /\ x \in Collections
    BY <1>20, <1>24, <2>1 DEF ServersInv
  <2>3. serving[p].before \subseteq By(x)'
    BY <1>17, <2>2
  <2> QED
    BY <2>1, <2>3
<1>25. (\A p \in ServerRequests : serving[p].out = "asked" => serving[p].before \subseteq By(serving[p].space))'
  BY <1>24
<1> QED
  BY <1>6, <1>16, <1>19, <1>21, <1>23, <1>25 DEF ServersInv

-----------------------------------------------------------------------------
(* The journal grows, time passes, or nothing happens.                     *)
LEMMA JournalGrown == ASSUME ServersInv, JournalGrows \/ ServersTick \/ UNCHANGED serversVars PROVE ServersInv'
<1>1. UNCHANGED <<serving, docs, sessions, mischief>> /\ (lines' = lines \/ lines' = lines + 1)
  BY DEF JournalGrows, ServersTick, serversVars
<1>2. CountsTyped'
  BY <1>1 DEF ServersInv, CountsTyped
<1>3. \A x : By(x)' = By(x)
  BY <1>1 DEF By
<1>4. DocsFit' /\ SessionsFit' /\ RestartsFit'
  BY <1>1, <1>3 DEF ServersInv, DocsFit, SessionsFit, RestartsFit
<1> QED
  BY <1>1, <1>2, <1>3, <1>4 DEF ServersInv

(* The process restarts: nothing is there, and what waited is lost.        *)
LEMMA Restarts == ASSUME ServersInv, ServersRestart PROVE ServersInv'
<1>1. /\ mischief' = [mischief EXCEPT !.restarts = mischief.restarts + 1] /\ lines' = lines
      /\ serving' = [q \in ServerRequests |-> IF serving[q].out = "asked" THEN [serving[q] EXCEPT !.out = "lost"] ELSE serving[q]]
      /\ docs' = [s \in Collections |-> <<>>] /\ sessions' = [t \in {} |-> 0]
  BY DEF ServersRestart
<1>2. CountsTyped
  BY DEF ServersInv
<1>3. CountsTyped' /\ mischief'.restarts \in Nat /\ mischief'.restarts > 0 /\ mischief.restarts \in Nat
  BY <1>1, <1>2 DEF CountsTyped
<1>4. DocsFit'
  <2>1. DOMAIN docs' = Collections /\ \A s \in Collections : docs'[s] = <<>>
    BY <1>1
  <2>2. <<>> \in Seq(Documents) /\ DOMAIN <<>> = {}
    <3> HIDE DEF Documents
    <3> QED
      OBVIOUS
  <2> QED
    BY <2>1, <2>2 DEF DocsFit
<1>5. SessionsFit'
  BY <1>1 DEF SessionsFit
<1>6. RestartsFit'
  BY <1>3 DEF RestartsFit
<1>7. \A p \in ServerRequests : serving[p].out = "ok" => serving'[p] = serving[p]
  BY <1>1
<1>8. ASSUME NEW p \in ServerRequests PROVE AskFits(serving', serving'[p], mischief'.restarts) /\ serving'[p].out # "asked"
  <2> PICK r : r = serving[p]
    OBVIOUS
  <2> PICK n : n = [r EXCEPT !.out = "lost"]
    OBVIOUS
  <2> PICK m : m = mischief.restarts
    OBVIOUS
  <2>1. AskFits(serving, r, m) /\ KnownAsk(r)
    BY DEF ServersInv, AskFits
  <2>2. CASE r.out = "asked"
    <3>1. /\ DOMAIN n = ServeFields /\ n.op = r.op /\ n.text = r.text /\ n.space = r.space /\ n.k = r.k /\ n.least = r.least
          /\ n.found = r.found /\ n.context = r.context /\ n.before = r.before /\ n.seen = r.seen /\ n.out = "lost"
      BY <2>1 DEF KnownAsk, ServeFields
    <3>2. serving'[p] = n
      BY <1>1, <2>2
    <3>3. KnownAsk(n)
      BY <2>1, <2>2, <3>1 DEF KnownAsk
    <3>4. ~Answered(n, 2) /\ ~Answered(n, 3)
      BY <3>1 DEF Answered
    <3>5. LooksFit(serving, n, m)
      BY <2>1, <2>2, <3>1 DEF AskFits, LooksFit
    <3>6. AskFits(serving, n, m)
      BY <2>1, <3>1, <3>3, <3>4, <3>5 DEF AskFits
    <3>7. AskFits(serving', n, mischief'.restarts)
      BY <1>3, <1>7, <3>6, AskStays
    <3> QED
      BY <3>1, <3>2, <3>7
  <2>3. CASE r.out # "asked"
    BY <1>1, <2>3, <1>3, <1>7, <2>1, AskStays
  <2> QED
    BY <2>2, <2>3
<1> QED
  BY <1>3, <1>4, <1>5, <1>6, <1>8 DEF ServersInv

(* Every step of the servers keeps the invariant.                          *)
LEMMA ServersSteps == ServersInv /\ (ServersNext \/ UNCHANGED serversVars) => ServersInv'
<1> SUFFICES ASSUME ServersInv, ServersNext \/ UNCHANGED serversVars PROVE ServersInv'
  OBVIOUS
<1>1. ASSUME NEW q \in ServerRequests, NEW r \in Asks, Arrive(q, r) PROVE ServersInv'
  BY <1>1, AsksFresh, AskArrives
<1>2. ASSUME NEW q \in ServerRequests, NEW server, Arrive(q, [Idle EXCEPT !.op = "forward", !.text = server]) PROVE ServersInv'
  BY <1>2, ForwardFresh, AskArrives
<1>3. ASSUME NEW q \in ServerRequests, Embed(q) \/ Infer(q) \/ Detect(q) PROVE ServersInv'
  BY <1>3, PassesOn DEF Embed, Infer, Detect
<1>4. ASSUME NEW q \in ServerRequests, OpenSession(q) \/ GetSession(q) \/ Add(q) \/ Find(q) \/ ReadJournal(q) \/ FetchBreaks(q)
      PROVE  ServersInv'
  BY <1>4, Opens, GetsSession, Adds, Finds, ReadsTheJournal, Breaks
<1>5. ASSUME NEW q \in ServerRequests, NEW tool, Forward(q, tool) PROVE ServersInv'
  BY <1>5, ForwardsOn
<1>6. CASE JournalGrows \/ ServersTick \/ UNCHANGED serversVars
  BY <1>6, JournalGrown
<1>7. CASE ServersRestart
  BY <1>7, Restarts
<1>8. CASE ServersNext
  BY <1>1, <1>2, <1>3, <1>4, <1>5, <1>6, <1>7, <1>8, Zenon DEF ServersNext
<1> QED
  BY <1>6, <1>8

-----------------------------------------------------------------------------
(* A state of health has its reason.                                       *)
LEMMA MeshSound == MeshInv => HealthIsExplained
BY DEF MeshInv, Explained, Explains, HealthIsExplained
=============================================================================
