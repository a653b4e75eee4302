----------------------------- MODULE CommandBus -----------------------------
(***************************************************************************)
(* CommandBus.submit (command-bus/command.bus.ts) with the replay guard,   *)
(* the idempotency guard, the dispatcher and the journal.                  *)
(*                                                                         *)
(* A submission is one call of submit.  Calls overlap at every await, so   *)
(* an action is what runs from one awaited read of the journal, write job  *)
(* or answer of a node to the next.                                        *)
(*                                                                         *)
(* No decision layer exists: the constructor's assignment of evidenceLayer *)
(* is commented out (command.bus.ts:45), so writeDecision throws on every  *)
(* path, before insertAccepted and before a decision is returned, and the  *)
(* catch block answers every submission with a rejection.                  *)
(***************************************************************************)
EXTENDS CommandBackbone, FiniteSets

CONSTANTS
  Submissions,
  Commands,     \* what callers submit: records of optional fields, None if left out
  Root,         \* what the causal hash of a command without a parent starts from
  MaxTime,      \* bound on the clock
  MaxCrashes    \* bound on the crashes of buses

ASSUME CommandBusAssumption ==
  /\ Window \in Nat /\ MaxTime \in Nat /\ MaxCrashes \in Nat
  /\ IsFiniteSet(Submissions)
  /\ \A c \in Commands : c.issued = None \/ c.issued \in Nat

VARIABLES
  clock,        \* Date.now(), in units of which Window is some
  crashes,
  pc,           \* per submission: the await it is at
  env,          \* per submission: its CommandEnvelope, with its bus, source and route
  dispatched,   \* the submissions that the dispatcher routed
  reply,        \* per submission: what submit returned
  before,       \* history: the submissions answered when this one was submitted
  checked       \* history: the time at which the guard looked for the nonce

control == <<pc, env, dispatched, reply>>
history == <<before, checked>>
vars == <<backbone, clock, crashes, control, history>>

Times == 0..MaxTime
BusOf(s) == env[s].bus

Init ==
  /\ BackboneInit
  /\ clock = 0
  /\ crashes = 0
  /\ pc = [s \in Submissions |-> "idle"]
  /\ env = [s \in Submissions |-> None]
  /\ dispatched = {}
  /\ reply = [s \in Submissions |-> None]
  /\ before = [s \in Submissions |-> {}]
  /\ checked = [s \in Submissions |-> None]

-----------------------------------------------------------------------------
(* The envelope.                                                           *)

(* sha256 of a predecessor and a payload; injective.                       *)
Chain(from, payload) == <<from, payload>>

Default(value, otherwise) == IF value = None THEN otherwise ELSE value

(* Generated identifiers and nonces are random: they are the submission.   *)
ToEnvelope(s, c, b) ==
  LET id == Default(c.id, s)
  IN  [bus |-> b, id |-> id, key |-> Default(c.key, id), nonce |-> Default(c.nonce, s),
       actor |-> c.actor, payload |-> c.payload, parent |-> c.parent,
       causal |-> IF c.causal = None /\ c.parent = None
                  THEN Chain(Root, c.payload) ELSE c.causal,
       issued |-> Default(c.issued, clock), valid |-> c.valid, route |-> c.route]

-----------------------------------------------------------------------------
(* The write jobs that submit awaits.                                      *)

Goto(s, label) == pc' = [pc EXCEPT ![s] = label]

Await(s, e, label, job) ==
  /\ Goto(s, label)
  /\ queue' = Enqueued(e.bus, job)

(* The catch block: rejectWithEvidence, whose own throw ends the call.     *)
Throw(s, e) == Await(s, e, "fail", RejectJob(s, e))

(* A verdict of the guard: rejectWithEvidence inside the try block.        *)
Deny(s) == Await(s, env[s], "deny", RejectJob(s, env[s]))

(* ValidationLayer.assert, then the first statement of ReplayGuard.        *)
Validate(s, e) ==
  IF e.valid
  THEN Await(s, e, "purge", PurgeJob(s, clock))
  ELSE Throw(s, e)

-----------------------------------------------------------------------------
(* submit.                                                                 *)

Submit(s, c, b) ==
  LET e == ToEnvelope(s, c, b)
  IN  /\ pc[s] = "idle"
      /\ env' = [env EXCEPT ![s] = e]
      /\ before' = [before EXCEPT ![s] = {r \in Submissions : pc[r] = "answered"}]
      /\ IF e.causal = None
         THEN Goto(s, "parent") /\ UNCHANGED queue
         ELSE Validate(s, e)
      /\ UNCHANGED <<commands, nonces, image, unsaved, clock, crashes,
                     dispatched, reply, checked>>

(* normalizeCausalHash of a command that names a parent and no hash.       *)
NormalizeCausalHash(s) ==
  LET parent == FindCommandById(env[s].parent)
      from   == IF parent = None THEN env[s].parent ELSE parent.causal
      e      == [env[s] EXCEPT !.causal = Chain(from, env[s].payload)]
  IN  /\ pc[s] = "parent"
      /\ env' = [env EXCEPT ![s] = e]
      /\ Validate(s, e)
      /\ UNCHANGED <<commands, nonces, image, unsaved, clock, crashes,
                     dispatched, reply, history>>

-----------------------------------------------------------------------------
(* ReplayGuard.validate, one action per read, and the dispatch that the    *)
(* last check runs into.                                                   *)

UnchangedByGuard ==
  UNCHANGED <<commands, nonces, image, unsaved, clock, crashes, env, reply, before>>

(* The guard goes on to its next read or denies the command.               *)
Check(s, at, passes, next) ==
  /\ pc[s] = at
  /\ IF passes THEN Goto(s, next) /\ UNCHANGED queue ELSE Deny(s)
  /\ UNCHANGED dispatched
  /\ UnchangedByGuard

(* Date.now() differs from issued_at by the window at most.                *)
InWindow(e) == clock <= e.issued + Window /\ e.issued <= clock + Window

CheckNonce(s) ==
  /\ Check(s, "nonce", ~NonceUsed(env[s].nonce) /\ InWindow(env[s]), "key")
  /\ checked' = [checked EXCEPT ![s] = clock]

CheckKey(s) ==
  LET row == FindCommandByIdempotencyKey(env[s].key)
  IN  /\ Check(s, "key", row = None \/ row.payload = env[s].payload, "print")
      /\ UNCHANGED checked

(* CommandDispatcher.dispatch: the policies and the bridge resolver may    *)
(* throw; a bridge command waits for its node; for any other target the    *)
(* route is all there is, and submit goes on to writeDecision.  The        *)
(* answer "denied" is for targets that the route policy has refused.       *)
Dispatch(s) ==
  /\ dispatched' = IF env[s].route = "denied" THEN dispatched ELSE dispatched \cup {s}
  /\ IF env[s].route = "bridge"
     THEN Goto(s, "bridge") /\ UNCHANGED queue
     ELSE Throw(s, env[s])

(* The last check of the guard.                                            *)
CheckLast(s, at, passes) ==
  /\ pc[s] = at
  /\ IF passes THEN Dispatch(s) ELSE Deny(s) /\ UNCHANGED dispatched
  /\ UnchangedByGuard

(* Mutant: the fingerprint is not looked up.                               *)
CheckRootOnly(s) ==
  /\ pc[s] = "print"
  /\ IF env[s].parent # None
     THEN Check(s, "print", TRUE, "causal")
     ELSE CheckLast(s, "print", env[s].causal = Chain(Root, env[s].payload))
  /\ UNCHANGED checked

CheckFingerprint(s) ==
  LET known == ExistsFingerprint(Fingerprint(env[s]))
  IN  /\ pc[s] = "print"
      /\ IF env[s].parent # None
         THEN Check(s, "print", ~known, "causal")
         ELSE CheckLast(s, "print", ~known /\ env[s].causal = Chain(Root, env[s].payload))
      /\ UNCHANGED checked

(* Mutant: a parent that is not on record is not checked.                  *)
CheckKnownParent(s) ==
  LET parent == FindCommandById(env[s].parent)
  IN  /\ CheckLast(s, "causal",
           parent = None \/ env[s].causal = Chain(parent.causal, env[s].payload))
      /\ UNCHANGED checked

CheckParent(s) ==
  LET parent == FindCommandById(env[s].parent)
  IN  /\ CheckLast(s, "causal",
           parent # None /\ env[s].causal = Chain(parent.causal, env[s].payload))
      /\ UNCHANGED checked

(* HyperBridgeDispatcher.dispatch: the node answers, accepting or not, or  *)
(* the connection fails; else the timer aborts the request after 15        *)
(* seconds.  Each way submit throws: here, or in writeDecision.            *)
BridgeEnds(s) ==
  /\ pc[s] = "bridge"
  /\ Throw(s, env[s])
  /\ UNCHANGED <<dispatched, checked>>
  /\ UnchangedByGuard

BridgeAnswers(s) == BridgeEnds(s)

(* Mutant: the request has no timer.                                       *)
NoTimer(s) == FALSE

BridgeTimesOut(s) == BridgeEnds(s)

-----------------------------------------------------------------------------
(* The journal's jobs.                                                     *)

UnchangedByJob == UNCHANGED <<clock, crashes, env, dispatched, history>>

Load(b) == LoadState(b) /\ UnchangedByJob /\ UNCHANGED <<pc, reply>>

Save(b) == (\E t \in Tables : SaveTable(b, t)) /\ UnchangedByJob /\ UNCHANGED <<pc, reply>>

(* The job resolves and the submission that awaits it goes on: to the      *)
(* guard's first read, from a verdict's writeDecision into the catch block *)
(* with a second insertRejected, or from there to its answer.              *)
FinishWrite(b) ==
  LET s    == Head(queue[b]).by
      rest == [queue EXCEPT ![b] = Tail(@)]
  IN  /\ Saved(b)
      /\ image' = [image EXCEPT ![b] = None]
      /\ \/ /\ pc[s] = "purge"
            /\ Goto(s, "nonce")
            /\ queue' = rest
            /\ UNCHANGED reply
         \/ /\ pc[s] = "deny"
            /\ Goto(s, "fail")
            /\ queue' = [rest EXCEPT ![b] = Append(@, RejectJob(s, env[s]))]
            /\ UNCHANGED reply
         \/ /\ pc[s] = "fail"
            /\ Goto(s, "answered")
            /\ queue' = rest
            /\ reply' = [reply EXCEPT ![s] = "rejected"]
      /\ UNCHANGED <<commands, nonces, unsaved>>
      /\ UnchangedByJob

(* The process of a bus ends; its submissions are never answered.          *)
Crash(b) ==
  /\ crashes < MaxCrashes
  /\ crashes' = crashes + 1
  /\ CrashBackbone(b)
  /\ pc' = [s \in Submissions |->
              IF pc[s] \notin {"idle", "answered"} /\ BusOf(s) = b THEN "lost" ELSE pc[s]]
  /\ UNCHANGED <<clock, env, dispatched, reply, history>>

Tick ==
  /\ clock < MaxTime
  /\ clock' = clock + 1
  /\ UNCHANGED <<backbone, crashes, control, history>>

-----------------------------------------------------------------------------

Read(s) ==
  \/ NormalizeCausalHash(s)
  \/ CheckNonce(s)
  \/ CheckKey(s)
  \/ CheckFingerprint(s)
  \/ CheckParent(s)

Job(b) == Load(b) \/ Save(b) \/ FinishWrite(b)

(* Everything is answered and no time is left.                             *)
Finished ==
  /\ \A s \in Submissions : pc[s] \in {"answered", "lost"}
  /\ clock = MaxTime
  /\ UNCHANGED vars

Next ==
  \/ \E s \in Submissions, c \in Commands, b \in Buses : Submit(s, c, b)
  \/ \E s \in Submissions : Read(s) \/ BridgeAnswers(s) \/ BridgeTimesOut(s)
  \/ \E b \in Buses : Job(b) \/ Crash(b)
  \/ Tick
  \/ Finished

Spec == Init /\ [][Next]_vars

(* The event loop runs every continuation, the disk answers, and the       *)
(* timer of a dispatch goes off.  Nobody has to submit, and a node need    *)
(* not answer.                                                             *)
FairSpec ==
  /\ Spec
  /\ \A s \in Submissions : WF_vars(Read(s)) /\ WF_vars(BridgeTimesOut(s))
  /\ \A b \in Buses : WF_vars(Job(b))

=============================================================================
