-------------------------- MODULE CommandBackbone --------------------------
(***************************************************************************)
(* The journal of commands (command-bus/command.backbone.ts): JSON tables  *)
(* that every CommandBackbone object of every process reads and replaces   *)
(* as wholes.                                                              *)
(*                                                                         *)
(* A read takes a table as it is on disk.  A write is a job in the queue   *)
(* of its object: load all tables, change the image, replace the tables    *)
(* one by one by renaming.  The queue orders the jobs of one object, and   *)
(* nothing orders those of two.                                            *)
(*                                                                         *)
(* command_locks.json and evidence.json stay empty: only insertAccepted    *)
(* and insertEvidence write them, and no reachable code calls these.       *)
(***************************************************************************)
EXTENDS Naturals, Sequences

CONSTANTS
  Buses,        \* the CommandBus objects, each with a backbone of its own
  Window,       \* replay_window_ms
  None

VARIABLES
  commands,     \* commands.json: a sequence of rows
  nonces,       \* nonces.json: a set of [nonce, expires]
  queue,        \* per bus: the jobs that withWrite has chained, first one running
  image,        \* per bus: the state the running job is saving, or None
  unsaved       \* per bus: the tables of the image that are not renamed yet

backbone == <<commands, nonces, queue, image, unsaved>>

Tables == {"commands", "nonces"}

BackboneInit ==
  /\ commands = <<>>
  /\ nonces = {}
  /\ queue = [b \in Buses |-> <<>>]
  /\ image = [b \in Buses |-> None]
  /\ unsaved = [b \in Buses |-> {}]

-----------------------------------------------------------------------------
(* Rows and lookups.                                                       *)

(* The digest of who asks for what under which key.                        *)
Fingerprint(e) == <<e.actor, e.payload, e.key>>

Row(e) ==
  [id |-> e.id, key |-> e.key, print |-> Fingerprint(e),
   payload |-> e.payload, causal |-> e.causal]

HasId(rows, id) == \E i \in DOMAIN rows : rows[i].id = id

(* Array.find: the row at the first of the hits, or None.                  *)
FirstRow(hits) ==
  IF hits = {} THEN None ELSE commands[CHOOSE i \in hits : \A j \in hits : i <= j]

FindCommandById(id)              == FirstRow({i \in DOMAIN commands : commands[i].id = id})
FindCommandByIdempotencyKey(key) == FirstRow({i \in DOMAIN commands : commands[i].key = key})
ExistsFingerprint(print) == \E i \in DOMAIN commands : commands[i].print = print
NonceUsed(nonce) == \E n \in nonces : n.nonce = nonce

-----------------------------------------------------------------------------
(* Jobs and what they do to the image.                                     *)

PurgeJob(s, now) == [kind |-> "purge", by |-> s, now |-> now]
RejectJob(s, e)  == [kind |-> "reject", by |-> s, envelope |-> e]

(* Mutant: a purge that drops a nonce one tick before its window closes.   *)
PurgedEarly(state, now) ==
  [state EXCEPT !.nonces = {n \in @ : n.expires > now + 1}]

Purged(state, now) ==
  [state EXCEPT !.nonces = {n \in @ : n.expires > now}]

(* Mutant: no look at the id before the row is added.                      *)
RejectedAgain(state, e) ==
  [commands |-> Append(state.commands, Row(e)), nonces |-> state.nonces]

Rejected(state, e) ==
  IF HasId(state.commands, e.id) THEN state
  ELSE [commands |-> Append(state.commands, Row(e)),
        nonces   |-> IF \E n \in state.nonces : n.nonce = e.nonce
                     THEN state.nonces
                     ELSE state.nonces \cup
                            {[nonce |-> e.nonce, expires |-> e.issued + Window]}]

Effect(job, state) ==
  IF job.kind = "purge" THEN Purged(state, job.now) ELSE Rejected(state, job.envelope)

-----------------------------------------------------------------------------
(* withWrite.                                                              *)

Enqueued(b, job) == [queue EXCEPT ![b] = Append(@, job)]

(* The job at the head loads the tables and changes its image of them.     *)
LoadState(b) ==
  /\ queue[b] # <<>>
  /\ image[b] = None
  /\ image' = [image EXCEPT ![b] =
                 Effect(Head(queue[b]), [commands |-> commands, nonces |-> nonces])]
  /\ unsaved' = [unsaved EXCEPT ![b] = Tables]
  /\ UNCHANGED <<commands, nonces, queue>>

(* One of the renames that saveState starts together.                      *)
SaveTable(b, table) ==
  /\ image[b] # None
  /\ table \in unsaved[b]
  /\ unsaved' = [unsaved EXCEPT ![b] = @ \ {table}]
  /\ commands' = IF table = "commands" THEN image[b].commands ELSE commands
  /\ nonces' = IF table = "nonces" THEN image[b].nonces ELSE nonces
  /\ UNCHANGED <<queue, image>>

Saved(b) == image[b] # None /\ unsaved[b] = {}

(* Mutant: a crash that leaves the list of outstanding renames behind.     *)
CrashUnclean(b) ==
  /\ queue' = [queue EXCEPT ![b] = <<>>]
  /\ image' = [image EXCEPT ![b] = None]
  /\ UNCHANGED <<commands, nonces, unsaved>>

(* The process ends: what is not on disk is gone, queued jobs included.    *)
CrashBackbone(b) ==
  /\ queue' = [queue EXCEPT ![b] = <<>>]
  /\ image' = [image EXCEPT ![b] = None]
  /\ unsaved' = [unsaved EXCEPT ![b] = {}]
  /\ UNCHANGED <<commands, nonces>>

=============================================================================
