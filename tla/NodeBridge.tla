------------------------------ MODULE NodeBridge ------------------------------
(***************************************************************************)
(* The node bridge (bridge/): the registry of nodes with their heartbeats, *)
(* the resolver that picks a node for a request, and the handshake.        *)
(* Heartbeats carry the sender's time and arrive in any order.             *)
(***************************************************************************)
EXTENDS Naturals

CONSTANTS
  Nodes,
  CapabilitySets,   \* the capability sets nodes register and requests require
  Challenges,
  Threshold,        \* markStale: how old a heartbeat may be
  Ttl,              \* of a challenge
  MaxClock          \* (bound)

ASSUME NodeBridgeAssumption == {Threshold, Ttl, MaxClock} \subseteq Nat

VARIABLES
  registry,     \* for each registered node: its BridgeNode
  challenge,    \* for each challenge that is open: the node and when it expires
  clock,
  first,        \* history: for each registered node the capabilities it came with
  spoke,        \* history: the nodes that spoke since markStale last ran, and when that was
  accepted      \* history: for each challenge, how many responses have verified

bridgeVars == <<registry, challenge, clock, first, spoke, accepted>>

Extended(f, x, y) == [z \in DOMAIN f \cup {x} |-> IF z = x THEN y ELSE f[z]]
Dropped(f, x) == [z \in DOMAIN f \ {x} |-> f[z]]
NoEntries == [x \in {} |-> 0]
Trusts == {"trusted", "restricted", "quarantined"}
Priority == [trusted |-> 3, restricted |-> 2, quarantined |-> 1]

BridgeInit ==
  /\ registry = NoEntries /\ challenge = NoEntries /\ clock = 0
  /\ first = NoEntries
  /\ spoke = [nodes |-> {}, swept |-> 0]
  /\ accepted = [c \in Challenges |-> 0]

-----------------------------------------------------------------------------
(* Mutant: the registration of a known node replaces it.                   *)
RegisterNodeOver(n, caps, status, trust, beat) ==
  /\ registry' = Extended(registry, n, [caps |-> caps, status |-> status, trust |-> trust, beat |-> beat])
  /\ first' = IF n \in DOMAIN registry THEN first ELSE Extended(first, n, caps)
  /\ spoke' = [spoke EXCEPT !.nodes = @ \cup {n}]
  /\ UNCHANGED <<challenge, clock, accepted>>

(* register: a known node that asks for other capabilities is refused.     *)
RegisterNode(n, caps, status, trust, beat) ==
  /\ n \in DOMAIN registry => registry[n].caps = caps
  /\ registry' = Extended(registry, n, [caps |-> caps, status |-> status, trust |-> trust, beat |-> beat])
  /\ first' = IF n \in DOMAIN registry THEN first ELSE Extended(first, n, caps)
  /\ spoke' = [spoke EXCEPT !.nodes = @ \cup {n}]
  /\ UNCHANGED <<challenge, clock, accepted>>

(* recordHeartbeat: also one that is older than the last.                  *)
RecordHeartbeat(n, status, observed) ==
  /\ n \in DOMAIN registry
  /\ registry' = [registry EXCEPT ![n].status = status, ![n].beat = observed]
  /\ spoke' = [spoke EXCEPT !.nodes = @ \cup {n}]
  /\ UNCHANGED <<challenge, clock, first, accepted>>

Stale(n) == registry[n].status # "offline" /\ clock - registry[n].beat > Threshold

(* Mutant: a node that is online is not looked at.                         *)
StaleOnline(n) == registry[n].status # "online" /\ Stale(n)

MarkStaleSome ==
  /\ registry' = [n \in DOMAIN registry |->
       IF StaleOnline(n) THEN [registry[n] EXCEPT !.status = "offline"] ELSE registry[n]]
  /\ spoke' = [nodes |-> {}, swept |-> clock]
  /\ UNCHANGED <<challenge, clock, first, accepted>>

(* markStale: every node that has been silent for too long is offline.     *)
MarkStale ==
  /\ registry' = [n \in DOMAIN registry |-> IF Stale(n) THEN [registry[n] EXCEPT !.status = "offline"] ELSE registry[n]]
  /\ spoke' = [nodes |-> {}, swept |-> clock]
  /\ UNCHANGED <<challenge, clock, first, accepted>>

-----------------------------------------------------------------------------
Eligible(n, module, required) ==
  /\ registry[n].status = "online"
  /\ registry[n].trust # "quarantined"
  /\ module => registry[n].trust = "trusted"
  /\ required \subseteq registry[n].caps

Before(a, b) ==
  \/ Priority[registry[a].trust] > Priority[registry[b].trust]
  \/ registry[a].trust = registry[b].trust /\ registry[a].beat > registry[b].beat

(* resolve, by capabilities: the first eligible one of the sorted list;    *)
(* the order of equals is the registry's.                                  *)
Picks(module, required) ==
  LET eligible == {n \in DOMAIN registry : Eligible(n, module, required)}
  IN {n \in eligible : ~\E m \in eligible : Before(m, n)}

(* A preferred node, which modules may not name, only has to be eligible.  *)
PreferredPicks(required) == {n \in DOMAIN registry : Eligible(n, FALSE, required)}

-----------------------------------------------------------------------------
Issue(c, n) ==
  /\ c \notin DOMAIN challenge /\ accepted[c] = 0
  /\ challenge' = Extended(challenge, c, [node |-> n, expires |-> clock + Ttl])
  /\ UNCHANGED <<registry, clock, first, spoke, accepted>>

(* Mutant: the challenge stays open.                                       *)
VerifyKeeping(c, n, signed) ==
  /\ c \in DOMAIN challenge /\ challenge[c].node = n
  /\ IF challenge[c].expires < clock THEN challenge' = Dropped(challenge, c) /\ UNCHANGED accepted
     ELSE signed /\ UNCHANGED challenge /\ accepted' = [accepted EXCEPT ![c] = @ + 1]
  /\ UNCHANGED <<registry, clock, first, spoke>>

(* verify: an answer of another node, or with another signature, leaves    *)
(* the challenge open; one that is late closes it, as one that verifies.   *)
Verify(c, n, signed) ==
  /\ c \in DOMAIN challenge /\ challenge[c].node = n
  /\ \/ challenge[c].expires < clock /\ UNCHANGED accepted
     \/ challenge[c].expires >= clock /\ signed /\ accepted' = [accepted EXCEPT ![c] = @ + 1]
  /\ challenge' = Dropped(challenge, c)
  /\ UNCHANGED <<registry, clock, first, spoke>>

BridgeClockTicks ==
  /\ clock < MaxClock /\ clock' = clock + 1
  /\ UNCHANGED <<registry, challenge, first, spoke, accepted>>

NodeStatuses == {"online", "degraded", "offline"}

BridgeNext ==
  \/ \E n \in Nodes :
       \/ \E caps \in CapabilitySets, trust \in Trusts : RegisterNode(n, caps, "online", trust, clock)
       \/ \E status \in NodeStatuses, observed \in 0 .. clock : RecordHeartbeat(n, status, observed)
       \/ \E c \in Challenges : Issue(c, n) \/ \E signed \in BOOLEAN : Verify(c, n, signed)
  \/ MarkStale \/ BridgeClockTicks

BridgeSpec == BridgeInit /\ [][BridgeNext]_bridgeVars

-----------------------------------------------------------------------------
(* Whoever is picked, by capabilities or by name, has had the capabilities *)
(* asked for since it first registered, and has spoken since the last run  *)
(* of markStale or was recent then; a module gets a trusted node           *)
(* (node.registry.ts:19-43,74-99; bridge.resolver.ts:20-62).               *)
PickedIsSound ==
  \A required \in CapabilitySets : \A module \in BOOLEAN :
    \A n \in Picks(module, required) \cup PreferredPicks(required) :
      /\ required \subseteq first[n]
      /\ n \in spoke.nodes \/ spoke.swept - registry[n].beat <= Threshold
      /\ n \in Picks(TRUE, required) => registry[n].trust = "trusted"

(* A challenge is met at most once (node.handshake.ts:37-58).              *)
ChallengeMetOnce == \A c \in Challenges : accepted[c] <= 1

NodesSound == PickedIsSound /\ ChallengeMetOnce
=============================================================================
