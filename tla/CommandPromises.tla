-------------------------- MODULE CommandPromises ---------------------------
(***************************************************************************)
(* What the command bus promises to the callers of submit, to the nodes of *)
(* the bridge and to the reader of its journal.                            *)
(***************************************************************************)
EXTENDS CommandBus

Ids == {c.id : c \in Commands} \cup Submissions
Labels == {"idle", "parent", "purge", "nonce", "key", "print", "causal", "bridge",
           "deny", "fail", "answered", "lost"}

(* Types of the state of a bus and of its journal.                         *)
TypeOK ==
  /\ \A i \in DOMAIN commands : commands[i].id \in Ids
  /\ \A n \in nonces : n.expires \in Nat
  /\ \A b \in Buses : /\ Len(queue[b]) <= Cardinality(Submissions)
                      /\ unsaved[b] \subseteq Tables
                      /\ image[b] = None => unsaved[b] = {}
  /\ clock \in Times /\ crashes \in 0..MaxCrashes
  /\ pc \in [Submissions -> Labels]
  /\ \A s \in Submissions : env[s] = None <=> pc[s] = "idle"
  /\ dispatched \subseteq Submissions
  /\ reply \in [Submissions -> {None, "accepted", "rejected"}]
  /\ before \in [Submissions -> SUBSET Submissions]
  /\ checked \in [Submissions -> Times \cup {None}]

SamePrint(r, s) == Fingerprint(env[r]) = Fingerprint(env[s])

(* No other command borrowed the id of r.                                  *)
OwnId(r) ==
  \A q \in Submissions : pc[q] # "idle" /\ env[q].id = env[r].id => SamePrint(q, r)

(* A command whose submission was answered is not routed when it is        *)
(* submitted again, even if a crash or another command came in between and *)
(* although the first one's row says REJECTED                              *)
(* (idempotency.guard.ts:27-36, command.backbone.ts:144-161).  A command   *)
(* under an id that is on record leaves no row, hence OwnId.               *)
AnsweredReplayBlocked ==
  \A s \in dispatched : \A r \in before[s] : OwnId(r) => ~SamePrint(r, s)

(* A command that carries the nonce of an answered submission is not       *)
(* routed before the replay window of some submission with this nonce has  *)
(* closed (command.backbone.ts:86-90, 162-168, replay.guard.ts:21-30),     *)
(* with the clock at any point of the window, its ends included.  A crash  *)
(* between two renames can leave a row whose nonce is never recorded, and  *)
(* a command under an id that is on record leaves no nonce.                *)
OwnNonce(r) ==
  \A q \in Submissions : pc[q] # "idle" /\ env[q].id = env[r].id => env[q].nonce = env[r].nonce

NonceHeldForWindow ==
  \A s \in dispatched : \A r \in before[s] :
    crashes = 0 /\ env[r].nonce = env[s].nonce /\ OwnNonce(r) =>
      \E q \in Submissions \ {s} :
        /\ pc[q] # "idle"
        /\ env[q].nonce = env[s].nonce
        /\ env[q].issued + Window <= checked[s]

(* Nonces, and the state they are kept in, hold what the guard relies on.  *)
NoncesKept == TypeOK /\ NonceHeldForWindow

(* A routed command hangs on a row of the journal with the hash that it    *)
(* continues, although the parent was looked up once to compute the hash   *)
(* and again, after other submissions wrote, to check it                   *)
(* (command.bus.ts:265-281, replay.guard.ts:57-98).                        *)
RoutedOnParent ==
  \A s \in dispatched :
    env[s].parent # None =>
      \E i \in DOMAIN commands :
        /\ commands[i].id = env[s].parent
        /\ env[s].causal = Chain(commands[i].causal, env[s].payload)

(* The journal of one bus as a sequence of ids (CommandJournal): a row is  *)
(* never lost or written twice, whatever a crash leaves behind, and no     *)
(* answer precedes its row (command.backbone.ts:144-197).                  *)
Journal == INSTANCE CommandJournal
  WITH Ids      <- Ids,
       rows     <- [i \in DOMAIN commands |-> commands[i].id],
       answered <- {env[s].id : s \in {r \in Submissions : pc[r] = "answered"}}

KeepsJournal == Journal!JournalSpec

(* Every submission is answered as long as its process lives: no job gets  *)
(* stuck behind another and no dispatch waits for a silent node            *)
(* (command.backbone.ts:189-197, hyper-bridge.dispatcher.ts:55-56).        *)
EverySubmissionAnswered ==
  \A s \in Submissions : pc[s] # "idle" ~> pc[s] \in {"answered", "lost"}

-----------------------------------------------------------------------------
(***************************************************************************)
(* What connects a job of the write queue with the submission that awaits  *)
(* it and with the table it is about to replace.  JInv is inductive when   *)
(* there is one bus.                                                       *)
(***************************************************************************)

(* s is a sequence, whatever its elements are.                             *)
IsSeq(s) == Len(s) \in Nat /\ s = [i \in 1..Len(s) |-> s[i]]

Waiting == {"purge", "deny", "fail"}
Routed  == {"bridge", "fail", "answered", "lost"}

Domains ==
  /\ DOMAIN pc = Submissions /\ DOMAIN env = Submissions
  /\ DOMAIN queue = Buses /\ DOMAIN image = Buses /\ DOMAIN unsaved = Buses

Addressed(s) == pc[s] # "idle" => env[s].bus \in Buses /\ env[s].id \in Ids

(* A job is what the submission that awaits it has asked for.              *)
JobSound(job) ==
  /\ job.by \in Submissions
  /\ \/ job.kind = "purge" /\ pc[job.by] = "purge"
     \/ job.kind = "reject" /\ pc[job.by] \in {"deny", "fail"} /\ job.envelope = env[job.by]

QueueSound(b) ==
  /\ IsSeq(queue[b])
  /\ \A i \in DOMAIN queue[b] : JobSound(queue[b][i])
  /\ \A i, k \in DOMAIN queue[b] : queue[b][i].by = queue[b][k].by => i = k

(* rows is table itself, or table and the row of e.                        *)
AtMostAdds(rows, table, e) ==
  \/ rows = table
  \/ rows = Append(table, Row(e)) /\ ~HasId(table, e.id)

(* The image of the running job, while the job saves it, is the table with *)
(* the job's effect: nobody else has replaced the table since it loaded.   *)
ImageSound(b) ==
  LET job == Head(queue[b])
  IN  /\ queue[b] # <<>>
      /\ IF "commands" \in unsaved[b]
         THEN IF job.kind = "reject" THEN AtMostAdds(image[b].commands, commands, job.envelope)
                                     ELSE image[b].commands = commands
         ELSE image[b].commands = commands
      /\ job.kind = "reject" => HasId(image[b].commands, job.envelope.id)

ParentSound(s) ==
  /\ s \in Submissions
  /\ pc[s] \in Routed
  /\ env[s].parent # None =>
       \E i \in DOMAIN commands :
         /\ commands[i].id = env[s].parent
         /\ env[s].causal = Chain(commands[i].causal, env[s].payload)

(* What makes the queue's jobs safe to resume.                             *)
QueueInv ==
  /\ Domains
  /\ IsSeq(commands)
  /\ \A s \in Submissions : Addressed(s)
  /\ \A b \in Buses : QueueSound(b)
  /\ \A b \in Buses : image[b] # None => ImageSound(b)

(* The inductive invariant of CommandBusProofs: the jobs of the queue and  *)
(* the parents of what was routed (command.backbone.ts:144-197,            *)
(* replay.guard.ts:57-98).                                                 *)
JInv == QueueInv /\ \A s \in dispatched : ParentSound(s)

-----------------------------------------------------------------------------
(***************************************************************************)
(* What the guard finds in the tables.  ReplayInv is inductive beside      *)
(* JInv, and NonceInv beside both.                                         *)
(***************************************************************************)

(* Only submissions that enqueued a rejection have written.                *)
Wrote == {"deny", "fail", "answered", "lost"}

Answered == {r \in Submissions : pc[r] = "answered"}

(* A row bears the id and the fingerprint of one submission that wrote.    *)
RowOwned(row) ==
  \E q \in Submissions : pc[q] \in Wrote /\ env[q].id = row.id /\ Fingerprint(env[q]) = row.print

(* No answered command that is its id's own is the like of s.              *)
Fresh(s) == \A r \in before[s] : OwnId(r) => ~SamePrint(r, s)

ReplayInv ==
  /\ before \in [Submissions -> SUBSET Submissions]
  /\ \A s \in Submissions : before[s] \subseteq Answered
  /\ \A s \in Answered : HasId(commands, env[s].id)
  /\ \A i \in DOMAIN commands : RowOwned(commands[i])
  /\ \A s \in Submissions : pc[s] = "causal" \/ s \in dispatched => Fresh(s)

(* A submission with this nonce wrote, and its window closed by time t.    *)
ClosedBy(nonce, t) ==
  \E q \in Submissions : /\ pc[q] \in Wrote
                         /\ env[q].nonce = nonce
                         /\ env[q].issued + Window <= t

NonceOwned(n) ==
  \E q \in Submissions : /\ pc[q] \in Wrote
                         /\ env[q].nonce = n.nonce
                         /\ env[q].issued + Window = n.expires

Held(nonce) == NonceUsed(nonce) \/ ClosedBy(nonce, clock)

(* The running job is about to rename a table that holds the nonce.        *)
Coming(nonce) ==
  \E b \in Buses : /\ image[b] # None /\ "nonces" \in unsaved[b]
                   /\ \E n \in image[b].nonces : n.nonce = nonce

RowCovered(row) ==
  \E q \in Submissions : /\ pc[q] \in Wrote /\ env[q].id = row.id
                         /\ Held(env[q].nonce) \/ Coming(env[q].nonce)

(* The image drops no nonce before its window closes, and brings that of   *)
(* the row it adds.                                                        *)
NoncesSaved(b) ==
  /\ \A n \in image[b].nonces : NonceOwned(n)
  /\ IF "nonces" \in unsaved[b]
     THEN \A n \in nonces : n \in image[b].nonces \/ n.expires <= clock
     ELSE nonces = image[b].nonces
  /\ \A i \in DOMAIN image[b].commands \ DOMAIN commands :
       \E q \in Submissions : /\ pc[q] \in Wrote
                              /\ env[q].id = image[b].commands[i].id
                              /\ \E n \in image[b].nonces : n.nonce = env[q].nonce

Checked(s) == pc[s] \in {"key", "print", "causal"} \/ s \in dispatched

(* The nonce of s had no answered owner whose window was open.             *)
NonceFree(s) ==
  \A r \in before[s] :
    crashes = 0 /\ env[r].nonce = env[s].nonce /\ OwnNonce(r) =>
      \E q \in Submissions \ {s} :
        /\ pc[q] # "idle"
        /\ env[q].nonce = env[s].nonce
        /\ env[q].issued + Window <= checked[s]

NonceInv ==
  /\ DOMAIN checked = Submissions
  /\ clock \in Nat /\ crashes \in Nat
  /\ \A s \in Submissions : pc[s] # "idle" => env[s].issued \in Nat
  /\ \A b \in Buses : \A i \in DOMAIN queue[b] :
       queue[b][i].kind = "purge" => queue[b][i].now \in 0..clock
  /\ \A n \in nonces : NonceOwned(n)
  /\ \A b \in Buses : image[b] # None => NoncesSaved(b)
  /\ crashes = 0 => /\ \A i \in DOMAIN commands : RowCovered(commands[i])
                    /\ \A r \in Answered : OwnNonce(r) => Held(env[r].nonce)
  /\ \A s \in Submissions : Checked(s) => NonceFree(s)
=============================================================================
