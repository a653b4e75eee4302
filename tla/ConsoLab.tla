------------------------------ MODULE ConsoLab ------------------------------
(***************************************************************************)
(* ConsoLab: the heartbeat manager, then the authority plane.              *)
(***************************************************************************)
EXTENDS Sequences, Integers, FiniteSets

(***************************************************************************)
(* The heartbeat manager of ConsoLab (consolab/heartbeat.ts) as its server *)
(* runs it (consolab/token-refresh-server.ts:19-28,124-171).  Every        *)
(* interval a round sends to the nodes, one after the other, and saves the *)
(* nodes; a round that takes longer than the interval overlaps the next.   *)
(* Heartbeats of the nodes arrive, and nodes are registered, at any time.  *)
(* The process may stop and start again.                                   *)
(***************************************************************************)

CONSTANTS
  Peers,        \* the other nodes
  MaxMissed,    \* MAX_MISSED_BEATS
  MaxSends,     \* rounds (bound)
  MaxArrivals,  \* heartbeats and registrations (bound)
  MaxRestarts   \* (bound)

ASSUME HeartbeatAssumption ==
  /\ MaxMissed \in Nat \ {0}
  /\ {MaxSends, MaxArrivals, MaxRestarts} \subseteq Nat

VARIABLES
  known,        \* nodes: the ids, in the order of the map
  node,         \* for each known one: healthy, missedBeats, and (history) the last word of it
  beats,        \* the rounds under way, oldest first: where they are and what they save
  file,         \* the state file: the nodes as saved, None, or Garbled
  sends, arrivals, restarts

meshVars == <<known, node, beats, file, sends, arrivals, restarts>>

Member(n) == \E i \in 1 .. Len(known) : known[i] = n
WithNode(n, state) == [p \in DOMAIN node \cup {n} |-> IF p = n THEN state ELSE node[p]]
NoNodes == [p \in {} |-> 0]
None == [ids |-> <<>>, of |-> NoNodes]
Garbled == None

MeshInit ==
  /\ known = <<>> /\ node = NoNodes
  /\ beats = <<>> /\ file = None
  /\ sends = 0 /\ arrivals = 0 /\ restarts = 0

-----------------------------------------------------------------------------
Noted(n, state) ==
  /\ known' = IF Member(n) THEN known ELSE Append(known, n)
  /\ node' = WithNode(n, state)

(* registerNode *)
Register(n) ==
  /\ arrivals < MaxArrivals /\ arrivals' = arrivals + 1
  /\ Noted(n, [healthy |-> TRUE, missed |-> 0, word |-> "registered"])
  /\ UNCHANGED <<beats, file, sends, restarts>>

(* receiveHeartbeat *)
Receive(n, well) ==
  /\ arrivals < MaxArrivals /\ arrivals' = arrivals + 1
  /\ Noted(n, [healthy |-> well, missed |-> 0, word |-> IF well THEN "well" ELSE "ill"])
  /\ UNCHANGED <<beats, file, sends, restarts>>

(* The timer fires: a round begins, whatever became of the one before.     *)
Round ==
  /\ sends < MaxSends /\ sends' = sends + 1
  /\ beats' = Append(beats, [at |-> "sending", pos |-> 1, saves |-> None, mixed |-> FALSE])
  /\ UNCHANGED <<known, node, file, arrivals, restarts>>

(* Mutant: the node is forgiven what it has missed, and not its health.    *)
AcknowledgedBeatOnly(n) ==
  node' = WithNode(n, [node[n] EXCEPT !.missed = 0, !.word = "acknowledged"])

(* A node that acknowledges is healthy, whatever it last said of itself.   *)
Acknowledged(n) ==
  node' = WithNode(n, [healthy |-> TRUE, missed |-> 0, word |-> "acknowledged"])

(* Mutant: the limit has to be passed.                                     *)
MissedOverTheLimit(n) ==
  node' = WithNode(n, [node[n] EXCEPT !.missed = @ + 1, !.healthy = @ /\ node[n].missed + 1 <= MaxMissed])

(* incrementMissed: at the limit, and with each beat from there on, the    *)
(* node is down, which onNodeDown is told.                                 *)
Missed(n) ==
  node' = WithNode(n, [healthy |-> node[n].healthy /\ node[n].missed + 1 < MaxMissed,
                       missed |-> node[n].missed + 1, word |-> node[n].word])

(* One send of a round is answered, or not: no send function, no answer in *)
(* time and an error are all a missed beat.                                *)
SendEnds(b, answered) ==
  LET n == known[beats[b].pos]
  IN /\ b \in 1 .. Len(beats) /\ beats[b].at = "sending" /\ beats[b].pos <= Len(known)
     /\ beats' = [beats EXCEPT ![b].pos = @ + 1]
     /\ IF answered THEN Acknowledged(n) ELSE Missed(n)
     /\ UNCHANGED <<known, file, sends, arrivals, restarts>>

Saving == {b \in 1 .. Len(beats) : beats[b].at = "saving"}

(* persistState: the nodes are read and the file is emptied ...            *)
SaveBegins(b) ==
  /\ b \in 1 .. Len(beats) /\ beats[b].at = "sending" /\ beats[b].pos > Len(known)
  /\ beats' = [c \in 1 .. Len(beats) |->
       IF c = b THEN [at |-> "saving", pos |-> beats[b].pos, saves |-> [ids |-> known, of |-> node],
                      mixed |-> Saving # {}]
       ELSE [beats[c] EXCEPT !.mixed = @ \/ c \in Saving]]
  /\ file' = Garbled
  /\ UNCHANGED <<known, node, sends, arrivals, restarts>>

(* ... and then written, unless it cannot be: two writes at a time may     *)
(* leave a text that is neither.                                           *)
SaveEnds(b, failed) ==
  /\ b \in Saving
  /\ file' \in IF failed THEN {file} ELSE IF beats[b].mixed THEN {beats[b].saves, Garbled} ELSE {beats[b].saves}
  /\ beats' = SubSeq(beats, 1, b - 1) \o SubSeq(beats, b + 1, Len(beats))
  /\ UNCHANGED <<known, node, sends, arrivals, restarts>>

(* loadState, into an empty map: the file as it is, or nothing.            *)
StopAndStart ==
  /\ restarts < MaxRestarts /\ restarts' = restarts + 1
  /\ beats' = <<>>
  /\ known' = file.ids /\ node' = file.of
  /\ UNCHANGED <<file, sends, arrivals>>

MeshNext ==
  \/ \E n \in Peers : Register(n) \/ \E well \in BOOLEAN : Receive(n, well)
  \/ Round
  \/ \E b \in 1 .. Len(beats) :
       \/ \E answered \in BOOLEAN : SendEnds(b, answered)
       \/ SaveBegins(b) \/ \E failed \in BOOLEAN : SaveEnds(b, failed)
  \/ StopAndStart

MeshSpec == MeshInit /\ [][MeshNext]_meshVars

-----------------------------------------------------------------------------
(* A node is unhealthy exactly when it was silent for MaxMissed beats in a *)
(* row or said so itself and has not acknowledged a beat since, whichever  *)
(* rounds overlap and across restarts, when what it said last is what was  *)
(* saved of it (heartbeat.ts:77-87,113-144).                               *)
HealthIsExplained ==
  \A n \in DOMAIN node :
    ~node[n].healthy <=> node[n].missed >= MaxMissed \/ node[n].word = "ill"

-----------------------------------------------------------------------------
(***************************************************************************)
(* The authority plane of ConsoLab (consolab/authority.ts) behind its      *)
(* server (consolab/token-refresh-server.ts).  A process that starts takes *)
(* the pair of keys from two files, or generates one and writes them, and  *)
(* only then listens on its port: one that finds the port taken ends.  It  *)
(* signs attestation tokens and certificates, each written down before it  *)
(* is answered, and verifies tokens.  Another process may start meanwhile, *)
(* and each may stop at any time.                                          *)
(*                                                                         *)
(* A key is the process that generated it; EmptyKey is an empty file: opening *)
(* one for writing empties it.                                             *)
(***************************************************************************)

CONSTANTS
  Authorities,     \* processes, one after the other or at once
  SignRequests,    \* tokens and certificates asked for
  Lifetime,        \* of a token, in ticks
  MaxHands,        \* clock (bound)
  MaxLogErrors     \* appends that fail (bound)

ASSUME AuthorityAssumption ==
  /\ Lifetime \in Nat /\ MaxHands \in Nat /\ MaxLogErrors \in Nat
  /\ Authorities \cap {"none", "blank"} = {}

VARIABLES
  keyFile,     \* the files of the private and the public key
  authority,   \* the processes: where they are and their keys
  signing,     \* the requests: who signed when, and what was answered
  signLog,     \* the lines written down
  hands,       \* the clock
  logErrors,
  broken       \* history: one started, or stopped, while keys were written

authorityVars == <<keyFile, authority, signing, signLog, hands, logErrors, broken>>

NoKey == "none"
EmptyKey == "blank"

AuthorityInit ==
  /\ keyFile = [private |-> NoKey, public |-> NoKey]
  /\ authority = [p \in Authorities |-> [at |-> "off", private |-> NoKey, public |-> NoKey]]
  /\ signing = [r \in SignRequests |-> [at |-> "new", by |-> NoKey, key |-> NoKey, expires |-> -1]]
  /\ signLog = {} /\ hands = 0 /\ logErrors = 0 /\ broken = FALSE

Gone == [at |-> "ended", private |-> NoKey, public |-> NoKey]
Passes(p, next) == authority' = [authority EXCEPT ![p] = IF next.at = "ended" THEN Gone ELSE next]

-----------------------------------------------------------------------------
WritingKeys == {q \in Authorities : authority[q].at \in {"generated", "writing", "written", "finishing"}}

(* Mutant: the pair is generated at every start.                           *)
LooksForNoKey(p) ==
  /\ authority[p].at = "off"
  /\ Passes(p, [authority[p] EXCEPT !.at = "generated"])
  /\ broken' = (broken \/ WritingKeys # {})
  /\ UNCHANGED <<keyFile, signing, signLog, hands, logErrors>>

(* getAuthority, init: the private key's file decides.                     *)
LooksForKey(p) ==
  /\ authority[p].at = "off"
  /\ Passes(p, [authority[p] EXCEPT !.at = IF keyFile.private = NoKey THEN "generated" ELSE "private"])
  /\ broken' = (broken \/ WritingKeys # {})
  /\ UNCHANGED <<keyFile, signing, signLog, hands, logErrors>>

ReadsPrivate(p) ==
  /\ authority[p].at = "private"
  /\ Passes(p, [authority[p] EXCEPT !.at = "public", !.private = keyFile.private])
  /\ UNCHANGED <<keyFile, signing, signLog, hands, logErrors, broken>>

(* A public key that is not there ends the start.                          *)
ReadsPublic(p) ==
  /\ authority[p].at = "public"
  /\ Passes(p, IF keyFile.public = NoKey THEN [authority[p] EXCEPT !.at = "ended"]
                ELSE [authority[p] EXCEPT !.at = "ready", !.public = keyFile.public])
  /\ UNCHANGED <<keyFile, signing, signLog, hands, logErrors, broken>>

(* The two files are written one after the other, each opened and filled;  *)
(* the process keeps the pair it generated.                                *)
WritesKeys(p) ==
  LET step(from, to, part, content) ==
        /\ authority[p].at = from
        /\ keyFile' = [keyFile EXCEPT ![part] = content]
        /\ Passes(p, IF to # "ready" THEN [authority[p] EXCEPT !.at = to]
                      ELSE [at |-> "ready", private |-> p, public |-> p])
  IN /\ \/ step("generated", "writing", "private", EmptyKey)
        \/ step("writing", "written", "private", p)
        \/ step("written", "finishing", "public", EmptyKey)
        \/ step("finishing", "ready", "public", p)
     /\ UNCHANGED <<signing, signLog, hands, logErrors, broken>>

TakesPort(p) ==
  /\ authority[p].at = "ready"
  /\ Passes(p, [authority[p] EXCEPT !.at = IF \E q \in Authorities : authority[q].at = "up" THEN "ended" ELSE "up"])
  /\ UNCHANGED <<keyFile, signing, signLog, hands, logErrors, broken>>

(* Its requests go without an answer.                                      *)
Stops(p) ==
  /\ authority[p].at \notin {"off", "ended"}
  /\ Passes(p, [authority[p] EXCEPT !.at = "ended"])
  /\ signing' = [r \in SignRequests |-> IF signing[r].by = p /\ signing[r].at \in {"signed", "logged"}
                                        THEN [signing[r] EXCEPT !.at = "lost"] ELSE signing[r]]
  /\ broken' = (broken \/ authority[p].at \in {"writing", "written", "finishing"})
  /\ UNCHANGED <<keyFile, signLog, hands, logErrors>>

HandsMove ==
  /\ \E r \in SignRequests : signing[r].expires >= hands
  /\ hands < MaxHands /\ hands' = hands + 1
  /\ UNCHANGED <<keyFile, authority, signing, signLog, logErrors, broken>>

-----------------------------------------------------------------------------
(* signAttestationToken, issueCertificate; without a private key there is  *)
(* an error.                                                               *)
Signs(p, r) ==
  /\ authority[p].at = "up" /\ signing[r].at = "new"
  /\ signing' = [signing EXCEPT ![r] =
       IF authority[p].private = EmptyKey THEN [@ EXCEPT !.at = "error", !.by = p]
       ELSE [at |-> "signed", by |-> p, key |-> authority[p].private, expires |-> hands + Lifetime]]
  /\ UNCHANGED <<keyFile, authority, signLog, hands, logErrors, broken>>

(* Mutant: a line that cannot be written does not matter.                  *)
LogsEvidenceOrNot(r) ==
  /\ signing[r].at = "signed"
  /\ signing' = [signing EXCEPT ![r].at = "logged"]
  /\ \/ signLog' = signLog \cup {r} /\ UNCHANGED logErrors
     \/ logErrors < MaxLogErrors /\ logErrors' = logErrors + 1 /\ UNCHANGED signLog
  /\ UNCHANGED <<keyFile, authority, hands, broken>>

(* logEvidence; a line that cannot be written is an error of the request.  *)
LogsEvidence(r) ==
  /\ signing[r].at = "signed"
  /\ \/ signing' = [signing EXCEPT ![r].at = "logged"] /\ signLog' = signLog \cup {r} /\ UNCHANGED logErrors
     \/ /\ logErrors < MaxLogErrors /\ logErrors' = logErrors + 1 /\ UNCHANGED signLog
        /\ signing' = [signing EXCEPT ![r].at = "error"]
  /\ UNCHANGED <<keyFile, authority, hands, broken>>

AnswersSigned(r) ==
  /\ signing[r].at = "logged"
  /\ signing' = [signing EXCEPT ![r].at = "answered"]
  /\ UNCHANGED <<keyFile, authority, signLog, hands, logErrors, broken>>

(* Mutant: only the signature is looked at.                                *)
VerifiesSignature(p, r) == authority[p].public # EmptyKey /\ signing[r].key = authority[p].public

(* verifyToken and the route's look at the time.                           *)
Verifies(p, r) ==
  /\ authority[p].public # EmptyKey /\ signing[r].key = authority[p].public
  /\ ~(signing[r].expires < hands)

AuthorityNext ==
  \/ \E p \in Authorities :
       \/ LooksForKey(p) \/ ReadsPrivate(p) \/ ReadsPublic(p) \/ WritesKeys(p) \/ TakesPort(p) \/ Stops(p)
       \/ \E r \in SignRequests : Signs(p, r)
  \/ \E r \in SignRequests : LogsEvidence(r) \/ AnswersSigned(r)
  \/ HandsMove

-----------------------------------------------------------------------------
(* What is answered is written down, and stays good: whichever process     *)
(* serves, it verifies every answered token until it expires and none      *)
(* after, unless one started or stopped while keys were being written      *)
(* (authority.ts:83,101, token-refresh-server.ts:76).                      *)
TokensHold ==
  /\ ~broken /\ WritingKeys = {} => keyFile.private = keyFile.public
  /\ \A p, q \in Authorities : authority[p].at = "up" /\ authority[q].at = "up" => p = q
  /\ \A r \in SignRequests :
       signing[r].at = "answered" =>
         /\ r \in signLog
         /\ ~broken => \A p \in Authorities : authority[p].at = "up" => (Verifies(p, r) <=> signing[r].expires >= hands)
=============================================================================
