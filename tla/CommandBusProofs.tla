-------------------------- MODULE CommandBusProofs --------------------------
(***************************************************************************)
(* One bus keeps its journal: the row of every answered command is there   *)
(* before the answer and stays, and a routed command has its parent on     *)
(* record.  And its guard: what was answered is not routed again under its *)
(* id, and a nonce is held until its window has closed.  For every set of  *)
(* commands and submissions.                                               *)
(***************************************************************************)
EXTENDS CommandPromises, SequenceTheorems, FiniteSetTheorems, WellFoundedInduction, TLAPS

OneBus == \A b, c \in Buses : b = c

-----------------------------------------------------------------------------
(* Sequences of arbitrary elements.                                        *)

(* A sequence is one over the set of its elements.                         *)
LEMMA SeqForm ==
  ASSUME NEW s, NEW T, IsSeq(s), \A i \in 1..Len(s) : s[i] \in T
  PROVE  s \in Seq(T) /\ DOMAIN s = 1..Len(s) /\ Len(s) \in Nat
BY DEF IsSeq

(* What Append (Array.push) gives.                                         *)
LEMMA AppendForm ==
  ASSUME NEW s, NEW e, IsSeq(s)
  PROVE  /\ IsSeq(Append(s, e))
         /\ DOMAIN s = 1..Len(s)
         /\ DOMAIN Append(s, e) = 1..(Len(s) + 1)
         /\ \A i \in 1..Len(s) : Append(s, e)[i] = s[i]
         /\ Append(s, e)[Len(s) + 1] = e
<1> DEFINE T == {s[i] : i \in 1..Len(s)} \cup {e}
<1>1. s \in Seq(T) /\ DOMAIN s = 1..Len(s) /\ Len(s) \in Nat
  BY SeqForm
<1>2. e \in T
  OBVIOUS
<1>3. /\ Append(s, e) \in Seq(T)
      /\ Len(Append(s, e)) = Len(s) + 1
      /\ \A i \in 1..Len(s) : Append(s, e)[i] = s[i]
      /\ Append(s, e)[Len(s) + 1] = e
  <2> HIDE DEF T
  <2> QED
    BY <1>1, <1>2, AppendProperties
<1>4. Append(s, e) = [i \in 1..Len(Append(s, e)) |-> Append(s, e)[i]]
  <2> HIDE DEF T
  <2>1. Append(s, e) \in [1..Len(Append(s, e)) -> T]
    BY <1>3, LenProperties
  <2> QED
    BY <2>1
<1> QED
  BY <1>1, <1>3, <1>4 DEF IsSeq

(* What is left of a queue when its first job is done.                     *)
LEMMA TailForm ==
  ASSUME NEW s, IsSeq(s), s # <<>>
  PROVE  /\ IsSeq(Tail(s))
         /\ 1 \in DOMAIN s /\ Head(s) = s[1]
         /\ \A i \in DOMAIN Tail(s) : i + 1 \in DOMAIN s /\ i + 1 # 1 /\ Tail(s)[i] = s[i + 1]
         /\ DOMAIN Tail(s) \subseteq Nat
<1> DEFINE T == {s[i] : i \in 1..Len(s)}
<1>1. s \in Seq(T) /\ DOMAIN s = 1..Len(s) /\ Len(s) \in Nat
  BY SeqForm
<1> HIDE DEF T
<1>2. Len(s) > 0
  BY <1>1
<1>3. /\ Head(s) = s[1]
      /\ Tail(s) \in Seq(T)
      /\ Len(Tail(s)) = Len(s) - 1
      /\ \A i \in 1..Len(Tail(s)) : Tail(s)[i] = s[i + 1]
  BY <1>1, <1>2, HeadTailProperties
<1>4. DOMAIN Tail(s) = 1..Len(Tail(s)) /\ Len(Tail(s)) \in Nat
  BY <1>3
<1>5. Tail(s) = [i \in 1..Len(Tail(s)) |-> Tail(s)[i]]
  <2>1. Tail(s) \in [1..Len(Tail(s)) -> T]
    BY <1>3, LenProperties
  <2> QED
    BY <2>1
<1> QED
  BY <1>1, <1>2, <1>3, <1>4, <1>5 DEF IsSeq

-----------------------------------------------------------------------------
(* The queue.                                                              *)

(* The invariant holds initially.                                          *)
LEMMA QueueInvInit ==
  ASSUME Init
  PROVE  JInv
<1>1. IsSeq(<<>>)
  BY DEF IsSeq
<1>2. Domains /\ \A s \in Submissions : Addressed(s)
  BY DEF Init, BackboneInit, Domains, Addressed
<1>3. DOMAIN <<>> = {}
  OBVIOUS
<1>4. \A b \in Buses : queue[b] = <<>> /\ image[b] = None
  BY DEF Init, BackboneInit
<1>5. \A b \in Buses : QueueSound(b)
  BY <1>1, <1>3, <1>4 DEF QueueSound
<1> QED
  BY <1>1, <1>2, <1>4, <1>5 DEF Init, BackboneInit, JInv, QueueInv

(* A step of one submission that awaits no job: it may enqueue one.        *)
LEMMA QueueInvMove ==
  ASSUME QueueInv, NEW s \in Submissions, pc[s] \notin Waiting,
         DOMAIN pc' = Submissions, DOMAIN env' = Submissions,
         \A r \in Submissions \ {s} : pc'[r] = pc[r] /\ env'[r] = env[r],
         Addressed(s)',
         UNCHANGED <<commands, image, unsaved>>,
         \/ UNCHANGED queue
         \/ \E b \in Buses : \E job :
              queue' = Enqueued(b, job) /\ JobSound(job)' /\ job.by = s
  PROVE  QueueInv'
<1>1. Domains' /\ IsSeq(commands)' /\ \A r \in Submissions : Addressed(r)'
  BY DEF QueueInv, Domains, Enqueued, Addressed, IsSeq
<1>2. ASSUME NEW job, JobSound(job)
      PROVE  job.by # s /\ JobSound(job)'
  BY <1>2 DEF JobSound, Waiting
<1>3. CASE UNCHANGED queue
  <2>1. \A b \in Buses : QueueSound(b)'
    BY <1>2, <1>3 DEF QueueInv, QueueSound, IsSeq
  <2>2. \A b \in Buses : image'[b] # None => ImageSound(b)'
    BY <1>3 DEF QueueInv, ImageSound, AtMostAdds, HasId, Row, Fingerprint
  <2> QED
    BY <1>1, <2>1, <2>2 DEF QueueInv
<1>4. ASSUME NEW b \in Buses, NEW job,
             queue' = Enqueued(b, job), JobSound(job)', job.by = s
      PROVE  QueueInv'
  <2>1. /\ IsSeq(queue[b])
        /\ queue'[b] = Append(queue[b], job)
        /\ \A c \in Buses \ {b} : queue'[c] = queue[c]
    BY <1>4 DEF QueueInv, QueueSound, Domains, Enqueued
  <2>2. /\ IsSeq(queue'[b])
        /\ DOMAIN queue[b] = 1..Len(queue[b])
        /\ DOMAIN queue'[b] = 1..(Len(queue[b]) + 1)
        /\ \A i \in 1..Len(queue[b]) : queue'[b][i] = queue[b][i]
        /\ queue'[b][Len(queue[b]) + 1] = job
    BY <2>1, AppendForm
  <2>3. Len(queue[b]) \in Nat
    BY <2>1 DEF IsSeq
  <2>4. \A i \in DOMAIN queue[b] : JobSound(queue[b][i])
    BY DEF QueueInv, QueueSound
  <2>5. (\A i \in DOMAIN queue[b] : JobSound(queue[b][i]))'
    <3> SUFFICES ASSUME NEW i \in DOMAIN queue'[b]
                 PROVE  JobSound(queue[b][i])'
      OBVIOUS
    <3>1. CASE i \in 1..Len(queue[b])
      BY <3>1, <2>2, <2>4, <1>2 DEF JobSound
    <3>2. CASE i = Len(queue[b]) + 1
      BY <3>2, <2>2, <1>4 DEF JobSound
    <3> QED
      BY <2>2, <2>3, <3>1, <3>2
  <2>6. \A i, k \in DOMAIN queue'[b] : queue'[b][i].by = queue'[b][k].by => i = k
    <3>1. \A i \in 1..Len(queue[b]) : queue'[b][i].by # s
      BY <2>2, <2>4, <1>2
    <3>2. \A i, k \in 1..Len(queue[b]) : queue'[b][i].by = queue'[b][k].by => i = k
      BY <2>2 DEF QueueInv, QueueSound
    <3> QED
      BY <3>1, <3>2, <2>2, <2>3, <1>4
  <2>7. \A c \in Buses \ {b} : QueueSound(c)'
    BY <2>1, <1>2 DEF QueueInv, QueueSound, IsSeq
  <2>8. \A c \in Buses : QueueSound(c)'
    BY <2>1, <2>2, <2>5, <2>6, <2>7 DEF QueueSound
  <2>9. ASSUME NEW c \in Buses, image[c] # None
        PROVE  queue'[c] # <<>> /\ Head(queue'[c]) = Head(queue[c])
    <3>1. queue[c] # <<>> /\ IsSeq(queue[c])
      BY <2>9 DEF QueueInv, ImageSound, QueueSound
    <3>2. CASE c = b
      <4>1. 1 \in 1..Len(queue[b]) /\ Head(queue[b]) = queue[b][1]
        BY <3>1, <3>2, <2>2, TailForm
      <4>2. queue'[b] # <<>>
        BY <2>2, <2>3
      <4> QED
        BY <3>2, <4>1, <4>2, <2>2, TailForm
    <3> QED
      BY <3>1, <3>2, <2>1
  <2>10. \A c \in Buses : image'[c] # None => ImageSound(c)'
    BY <2>9 DEF QueueInv, ImageSound, AtMostAdds, HasId, Row, Fingerprint
  <2> QED
    BY <1>1, <2>8, <2>10 DEF QueueInv
<1> QED
  BY <1>3, <1>4

-----------------------------------------------------------------------------
(* The submissions.                                                        *)

(* What every step of submit between two awaits amounts to.                *)
Move(s) ==
  /\ pc[s] \notin Waiting \cup {"answered", "lost"}
  /\ pc'[s] \notin {"idle", "answered"}
  /\ DOMAIN pc' = Submissions /\ DOMAIN env' = Submissions
  /\ \A r \in Submissions \ {s} : pc'[r] = pc[r] /\ env'[r] = env[r]
  /\ env'[s].bus \in Buses /\ env'[s].id \in Ids
  /\ UNCHANGED <<commands, image, unsaved>>
  /\ \/ UNCHANGED queue
     \/ \E b \in Buses : \E job :
          queue' = Enqueued(b, job) /\ JobSound(job)' /\ job.by = s
  /\ \A r \in dispatched' : r \in dispatched \/ (r = s /\ ParentSound(s)')
  /\ s \in dispatched => env'[s] = env[s] /\ pc'[s] \in Routed

(* Enqueueing a rejection.                                                 *)
LEMMA ThrowEnqueues ==
  ASSUME QueueInv, NEW s \in Submissions, NEW e, e.bus \in Buses,
         Throw(s, e), env'[s] = e
  PROVE  /\ DOMAIN pc' = Submissions /\ pc'[s] = "fail"
         /\ \A r \in Submissions \ {s} : pc'[r] = pc[r]
         /\ \E b \in Buses : \E job :
              queue' = Enqueued(b, job) /\ JobSound(job)' /\ job.by = s
<1>1. DOMAIN pc' = Submissions /\ pc'[s] = "fail" /\ \A r \in Submissions \ {s} : pc'[r] = pc[r]
  BY DEF QueueInv, Domains, Throw, Await, Goto
<1>2. queue' = Enqueued(e.bus, RejectJob(s, e)) /\ RejectJob(s, e).by = s
  BY DEF Throw, Await, RejectJob
<1>3. JobSound(RejectJob(s, e))'
  BY <1>1 DEF JobSound, RejectJob
<1> QED
  BY <1>1, <1>2, <1>3

(* Enqueueing what a validated or refused submission starts with.          *)
LEMMA ValidateEnqueues ==
  ASSUME QueueInv, NEW s \in Submissions, NEW e, e.bus \in Buses,
         Validate(s, e), env'[s] = e
  PROVE  /\ DOMAIN pc' = Submissions /\ pc'[s] \in {"purge", "fail"}
         /\ \A r \in Submissions \ {s} : pc'[r] = pc[r]
         /\ \E b \in Buses : \E job :
              queue' = Enqueued(b, job) /\ JobSound(job)' /\ job.by = s
<1>1. CASE ~e.valid
  BY <1>1, ThrowEnqueues DEF Validate
<1>2. CASE e.valid
  <2>1. DOMAIN pc' = Submissions /\ pc'[s] = "purge" /\ \A r \in Submissions \ {s} : pc'[r] = pc[r]
    BY <1>2 DEF QueueInv, Domains, Validate, Await, Goto
  <2>2. PICK now : queue' = Enqueued(e.bus, PurgeJob(s, now))
    BY <1>2 DEF Validate, Await
  <2>3. PurgeJob(s, now).by = s /\ JobSound(PurgeJob(s, now))'
    BY <2>1 DEF JobSound, PurgeJob
  <2> QED
    BY <2>1, <2>2, <2>3
<1> QED
  BY <1>1, <1>2

(* submit up to its first await.                                           *)
LEMMA SubmitMoves ==
  ASSUME JInv, NEW s \in Submissions, NEW c \in Commands, NEW b \in Buses, Submit(s, c, b)
  PROVE  Move(s)
<1> DEFINE e == ToEnvelope(s, c, b)
<1>1. e.bus = b /\ e.id \in Ids
  BY DEF ToEnvelope, Default, Ids
<1>2. /\ pc[s] = "idle"
      /\ env' = [env EXCEPT ![s] = e]
      /\ UNCHANGED <<commands, image, unsaved, dispatched>>
      /\ \/ Goto(s, "parent") /\ UNCHANGED queue
         \/ Validate(s, e)
  BY DEF Submit
<1>3. s \notin dispatched
  BY <1>2 DEF JInv, ParentSound, Routed
<1> HIDE DEF e
<1>4. /\ DOMAIN env' = Submissions /\ env'[s] = e
      /\ \A r \in Submissions \ {s} : env'[r] = env[r]
  BY <1>2 DEF JInv, QueueInv, Domains
<1>5. CASE Goto(s, "parent") /\ UNCHANGED queue
  BY <1>1, <1>2, <1>3, <1>4, <1>5 DEF Move, Goto, Waiting, JInv, QueueInv, Domains
<1>6. CASE Validate(s, e)
  BY <1>1, <1>2, <1>3, <1>4, <1>6, ValidateEnqueues DEF Move, Waiting, JInv
<1> QED
  BY <1>2, <1>5, <1>6

(* The causal hash of a child.                                             *)
LEMMA NormalizeMoves ==
  ASSUME JInv, NEW s \in Submissions, NormalizeCausalHash(s)
  PROVE  Move(s)
<1>1. PICK e : /\ e.bus = env[s].bus /\ e.id = env[s].id
               /\ pc[s] = "parent"
               /\ env' = [env EXCEPT ![s] = e]
               /\ UNCHANGED <<commands, image, unsaved, dispatched>>
               /\ Validate(s, e)
  <2> DEFINE parent == FindCommandById(env[s].parent)
             from   == IF parent = None THEN env[s].parent ELSE parent.causal
             e      == [env[s] EXCEPT !.causal = Chain(from, env[s].payload)]
  <2>1. e.bus = env[s].bus /\ e.id = env[s].id
    OBVIOUS
  <2> QED
    BY <2>1 DEF NormalizeCausalHash
<1>2. s \notin dispatched
  BY <1>1 DEF JInv, ParentSound, Routed
<1>3. /\ DOMAIN env' = Submissions /\ env'[s] = e
      /\ \A r \in Submissions \ {s} : env'[r] = env[r]
  BY <1>1 DEF JInv, QueueInv, Domains
<1>4. e.bus \in Buses /\ e.id \in Ids
  BY <1>1 DEF JInv, QueueInv, Addressed
<1> QED
  BY <1>1, <1>2, <1>3, <1>4, ValidateEnqueues DEF Move, Waiting, JInv

(* A verdict of the guard enqueues its rejection.                          *)
LEMMA DenyEnqueues ==
  ASSUME QueueInv, NEW s \in Submissions, pc[s] # "idle", Deny(s), env' = env
  PROVE  /\ DOMAIN pc' = Submissions /\ pc'[s] = "deny"
         /\ \A r \in Submissions \ {s} : pc'[r] = pc[r]
         /\ \E b \in Buses : \E job :
              queue' = Enqueued(b, job) /\ JobSound(job)' /\ job.by = s
<1>1. DOMAIN pc' = Submissions /\ pc'[s] = "deny" /\ \A r \in Submissions \ {s} : pc'[r] = pc[r]
  BY DEF QueueInv, Domains, Deny, Await, Goto
<1>2. PICK e : e = env[s]
  OBVIOUS
<1>3. queue' = Enqueued(e.bus, RejectJob(s, e)) /\ RejectJob(s, e).by = s
  BY <1>2 DEF Deny, Await, RejectJob
<1>4. JobSound(RejectJob(s, e))'
  BY <1>1, <1>2 DEF JobSound, RejectJob
<1>5. e.bus \in Buses
  BY <1>2 DEF QueueInv, Addressed
<1> QED
  BY <1>1, <1>3, <1>4, <1>5

(* What the steps of the guard and of the dispatcher leave alone.          *)
LEMMA GuardFrame ==
  ASSUME JInv, NEW s \in Submissions, pc[s] \notin Waiting \cup {"idle", "answered", "lost"},
         UnchangedByGuard
  PROVE  /\ env' = env /\ DOMAIN env' = Submissions
         /\ env'[s].bus \in Buses /\ env'[s].id \in Ids
         /\ UNCHANGED <<commands, image, unsaved>>
BY DEF JInv, QueueInv, Domains, Addressed, UnchangedByGuard

(* A check of the guard that is not its last.                              *)
LEMMA CheckMoves ==
  ASSUME JInv, NEW s \in Submissions,
         NEW at, at \in {"nonce", "key", "print"},
         NEW next, next \in {"key", "print", "causal"},
         NEW passes, Check(s, at, passes, next)
  PROVE  Move(s)
<1>1. pc[s] = at /\ UNCHANGED dispatched /\ UnchangedByGuard /\ s \notin dispatched
  BY DEF Check, JInv, ParentSound, Routed
<1>2. /\ env' = env /\ DOMAIN env' = Submissions
      /\ env'[s].bus \in Buses /\ env'[s].id \in Ids
      /\ UNCHANGED <<commands, image, unsaved>>
  BY <1>1, GuardFrame DEF Waiting
<1>3. CASE Goto(s, next) /\ UNCHANGED queue
  BY <1>1, <1>2, <1>3 DEF Move, Goto, Waiting, JInv, QueueInv, Domains
<1>4. CASE Deny(s)
  BY <1>1, <1>2, <1>4, DenyEnqueues DEF Move, Waiting, JInv
<1> QED
  BY <1>3, <1>4 DEF Check

(* The last check of the guard, and the dispatch.                          *)
LEMMA CheckLastMoves ==
  ASSUME JInv, NEW s \in Submissions,
         NEW at, at \in {"print", "causal"},
         NEW passes, CheckLast(s, at, passes),
         passes => (env[s].parent # None =>
                      \E i \in DOMAIN commands :
                        /\ commands[i].id = env[s].parent
                        /\ env[s].causal = Chain(commands[i].causal, env[s].payload))
  PROVE  Move(s)
<1>1. pc[s] = at /\ UnchangedByGuard /\ s \notin dispatched
  BY DEF CheckLast, JInv, ParentSound, Routed
<1>2. /\ env' = env /\ DOMAIN env' = Submissions
      /\ env'[s].bus \in Buses /\ env'[s].id \in Ids
      /\ UNCHANGED <<commands, image, unsaved>>
  BY <1>1, GuardFrame DEF Waiting
<1>3. CASE ~passes
  <2>1. Deny(s) /\ UNCHANGED dispatched
    BY <1>3 DEF CheckLast
  <2> QED
    BY <1>1, <1>2, <2>1, DenyEnqueues DEF Move, Waiting, JInv
<1>4. CASE passes
  <2>1. Dispatch(s)
    BY <1>4 DEF CheckLast
  <2>2. ASSUME pc'[s] \in Routed
        PROVE  ParentSound(s)'
    BY <1>2, <1>4, <2>2 DEF ParentSound
  <2>3. dispatched' \in {dispatched, dispatched \cup {s}}
    BY <2>1 DEF Dispatch
  <2>4. CASE env[s].route = "bridge"
    <3>1. pc' = [pc EXCEPT ![s] = "bridge"] /\ UNCHANGED queue
      BY <2>1, <2>4 DEF Dispatch, Goto
    <3>2. pc'[s] = "bridge" /\ DOMAIN pc' = Submissions /\ \A r \in Submissions \ {s} : pc'[r] = pc[r]
      BY <3>1 DEF JInv, QueueInv, Domains
    <3> QED
      BY <1>1, <1>2, <2>2, <2>3, <3>1, <3>2 DEF Move, Waiting, Routed
  <2>5. CASE env[s].route # "bridge"
    <3>1. PICK e : e = env[s]
      OBVIOUS
    <3>2. Throw(s, e) /\ e.bus \in Buses /\ env'[s] = e
      BY <1>2, <2>1, <2>5, <3>1 DEF Dispatch
    <3>3. /\ DOMAIN pc' = Submissions /\ pc'[s] = "fail"
          /\ \A r \in Submissions \ {s} : pc'[r] = pc[r]
          /\ \E b \in Buses : \E job :
               queue' = Enqueued(b, job) /\ JobSound(job)' /\ job.by = s
      BY <3>2, ThrowEnqueues DEF JInv
    <3> QED
      BY <1>1, <1>2, <2>2, <2>3, <3>3 DEF Move, Waiting, Routed
  <2> QED
    BY <2>4, <2>5
<1> QED
  BY <1>3, <1>4

(* Array.find returns a row that satisfies its predicate.                  *)
LEMMA FoundById ==
  ASSUME IsSeq(commands), NEW id, FindCommandById(id) # None
  PROVE  \E i \in DOMAIN commands : commands[i].id = id /\ FindCommandById(id) = commands[i]
<1> DEFINE hits == {i \in DOMAIN commands : commands[i].id = id}
           Least(i) == \A j \in hits : i <= j
<1>1. hits \subseteq Nat /\ hits # {}
  BY DEF FindCommandById, FirstRow, IsSeq
<1>2. \E i \in hits : Least(i)
  <2>1. IsWellFoundedOn(OpToRel(<, Nat), Nat)
    BY NatLessThanWellFounded
  <2>2. PICK i \in hits : \A j \in hits : ~(<<j, i>> \in OpToRel(<, Nat))
    <3> HIDE DEF hits
    <3> QED
      BY <1>1, <2>1, WFMin
  <2>3. \A j \in hits : ~(j < i)
    BY <1>1, <2>2 DEF OpToRel
  <2> HIDE DEF hits
  <2>4. \A j \in hits : i <= j
    BY <1>1, <2>3
  <2> QED
    BY <2>4
<1>3. FindCommandById(id) = commands[CHOOSE i \in hits : Least(i)]
  BY <1>1 DEF FindCommandById, FirstRow
<1>4. (CHOOSE i \in hits : Least(i)) \in hits
  BY <1>2
<1> QED
  BY <1>3, <1>4

(* Every read of the guard.                                                *)
LEMMA ReadMoves ==
  ASSUME JInv, NEW s \in Submissions, Read(s)
  PROVE  Move(s)
<1>1. CASE NormalizeCausalHash(s)
  BY <1>1, NormalizeMoves
<1>2. CASE CheckNonce(s)
  BY <1>2, CheckMoves DEF CheckNonce
<1>3. CASE CheckKey(s)
  BY <1>3, CheckMoves DEF CheckKey
<1>4. CASE CheckFingerprint(s)
  <2> DEFINE passes == /\ ~ExistsFingerprint(Fingerprint(env[s]))
                       /\ env[s].causal = Chain(Root, env[s].payload)
  <2>1. CASE env[s].parent # None
    BY <1>4, <2>1, CheckMoves DEF CheckFingerprint
  <2>2. CASE env[s].parent = None
    <3>1. CheckLast(s, "print", passes)
      BY <1>4, <2>2 DEF CheckFingerprint
    <3> HIDE DEF passes
    <3> QED
      BY <2>2, <3>1, CheckLastMoves
  <2> QED
    BY <2>1, <2>2
<1>5. CASE CheckParent(s)
  <2> DEFINE parent == FindCommandById(env[s].parent)
             passes == /\ parent # None
                       /\ env[s].causal = Chain(parent.causal, env[s].payload)
  <2>1. CheckLast(s, "causal", passes)
    BY <1>5 DEF CheckParent
  <2>2. passes => \E i \in DOMAIN commands :
                    /\ commands[i].id = env[s].parent
                    /\ env[s].causal = Chain(commands[i].causal, env[s].payload)
    BY FoundById DEF JInv, QueueInv
  <2> HIDE DEF passes
  <2> QED
    BY <2>1, <2>2, CheckLastMoves
<1> QED
  BY <1>1, <1>2, <1>3, <1>4, <1>5 DEF Read

(* The end of a dispatch over the bridge.                                  *)
LEMMA BridgeMoves ==
  ASSUME JInv, NEW s \in Submissions, BridgeEnds(s)
  PROVE  Move(s)
<1>1. pc[s] = "bridge" /\ UnchangedByGuard /\ UNCHANGED dispatched
  BY DEF BridgeEnds
<1>2. /\ env' = env /\ DOMAIN env' = Submissions
      /\ env'[s].bus \in Buses /\ env'[s].id \in Ids
      /\ UNCHANGED <<commands, image, unsaved>>
  BY <1>1, GuardFrame DEF Waiting
<1>3. PICK e : e = env[s]
  OBVIOUS
<1>4. Throw(s, e) /\ e.bus \in Buses /\ env'[s] = e
  BY <1>2, <1>3 DEF BridgeEnds
<1>5. /\ DOMAIN pc' = Submissions /\ pc'[s] = "fail"
      /\ \A r \in Submissions \ {s} : pc'[r] = pc[r]
      /\ \E b \in Buses : \E job :
           queue' = Enqueued(b, job) /\ JobSound(job)' /\ job.by = s
  BY <1>4, ThrowEnqueues DEF JInv
<1> QED
  BY <1>1, <1>2, <1>5 DEF Move, Waiting, Routed

-----------------------------------------------------------------------------
(* The journal.                                                            *)

(* The step means nothing to the reader of the journal.                    *)
Silent ==
  /\ commands' = commands
  /\ {env[s].id : s \in Answered}' = {env[s].id : s \in Answered}

(* A step of a submission keeps the invariant and is silent.               *)
LEMMA MoveKeeps ==
  ASSUME JInv, NEW s \in Submissions, Move(s)
  PROVE  JInv' /\ Silent
<1>1. QueueInv'
  <2>1. Addressed(s)'
    BY DEF Move, Addressed
  <2> QED
    BY <2>1, QueueInvMove DEF Move, JInv
<1>2. ASSUME NEW r \in dispatched'
      PROVE  ParentSound(r)'
  <2>1. CASE r = s /\ ParentSound(s)'
    BY <2>1
  <2>2. CASE r \in dispatched
    <3>1. ParentSound(r)
      BY <2>2 DEF JInv
    <3>2. env'[r] = env[r] /\ pc'[r] \in Routed /\ commands' = commands
      BY <2>2, <3>1 DEF Move, ParentSound
    <3> QED
      BY <3>1, <3>2 DEF ParentSound
  <2> QED
    BY <2>1, <2>2 DEF Move
<1>3. Answered' = Answered /\ s \notin Answered
  BY DEF Move, Answered
<1>4. Silent
  BY <1>3 DEF Silent, Move, Answered
<1> QED
  BY <1>1, <1>2, <1>4 DEF JInv

(* Loading changes the image only.                                         *)
LEMMA LoadKeeps ==
  ASSUME JInv, OneBus, NEW b \in Buses, Load(b)
  PROVE  JInv' /\ Silent
<1> DEFINE job   == Head(queue[b])
           state == [commands |-> commands, nonces |-> nonces]
<1>1. /\ queue[b] # <<>>
      /\ image' = [image EXCEPT ![b] = Effect(job, state)]
      /\ unsaved' = [unsaved EXCEPT ![b] = Tables]
      /\ UNCHANGED <<commands, queue, pc, env, dispatched>>
  BY DEF Load, LoadState, UnchangedByJob
<1>2. Domains' /\ IsSeq(commands)' /\ (\A s \in Submissions : Addressed(s))'
  BY <1>1 DEF JInv, QueueInv, Domains, Addressed, IsSeq
<1>3. (\A c \in Buses : QueueSound(c))'
  BY <1>1 DEF JInv, QueueInv, QueueSound, JobSound, IsSeq
<1>4. image'[b] = Effect(job, state) /\ unsaved'[b] = Tables /\ queue'[b] = queue[b]
  BY <1>1 DEF JInv, QueueInv, Domains
<1>5. JobSound(job)
  BY <1>1, TailForm DEF JInv, QueueInv, QueueSound
<1>6. IF job.kind = "reject"
      THEN /\ AtMostAdds(image'[b].commands, commands, job.envelope)
           /\ HasId(image'[b].commands, job.envelope.id)
      ELSE image'[b].commands = commands
  <2>1. CASE job.kind = "purge"
    BY <1>4, <2>1 DEF Effect, Purged
  <2>2. CASE job.kind = "reject" /\ HasId(commands, job.envelope.id)
    BY <1>4, <2>2 DEF Effect, Rejected, AtMostAdds
  <2>3. CASE job.kind = "reject" /\ ~HasId(commands, job.envelope.id)
    <3> DEFINE rows == Append(commands, Row(job.envelope))
    <3>1. image'[b].commands = rows
      BY <1>4, <2>3 DEF Effect, Rejected
    <3>2. HasId(rows, job.envelope.id)
      <4>1. Len(commands) + 1 \in DOMAIN rows /\ rows[Len(commands) + 1] = Row(job.envelope)
        BY AppendForm DEF JInv, QueueInv, IsSeq
      <4> QED
        BY <4>1 DEF HasId, Row
    <3> QED
      BY <2>3, <3>1, <3>2 DEF AtMostAdds
  <2> QED
    BY <1>5, <2>1, <2>2, <2>3 DEF JobSound
<1>7. ImageSound(b)'
  <2> HIDE DEF job
  <2>1. job = Head(queue[b])
    BY DEF job
  <2> QED
    BY <1>1, <1>4, <1>6, <2>1 DEF ImageSound, Tables, AtMostAdds, HasId, Row, Fingerprint
<1>8. (\A c \in Buses : image[c] # None => ImageSound(c))'
  BY <1>7 DEF OneBus
<1>9. (\A s \in dispatched : ParentSound(s))'
  BY <1>1 DEF JInv, ParentSound
<1>10. Silent
  BY <1>1 DEF Silent, Answered
<1> QED
  BY <1>2, <1>3, <1>8, <1>9, <1>10 DEF JInv, QueueInv

(* One rename: of commands.json, it adds the row of the job or nothing.    *)
LEMMA SaveKeeps ==
  ASSUME JInv, OneBus, NEW b \in Buses, Save(b)
  PROVE  /\ JInv'
         /\ \/ Silent
            \/ \E s \in Submissions :
                 /\ commands' = Append(commands, Row(env[s])) /\ ~HasId(commands, env[s].id)
                 /\ env[s].id \in Ids /\ pc[s] \in {"deny", "fail"}
                 /\ env' = env /\ pc' = pc
<1>1. PICK t \in Tables : SaveTable(b, t)
  BY DEF Save
<1>2. /\ image[b] # None
      /\ unsaved' = [unsaved EXCEPT ![b] = @ \ {t}]
      /\ commands' = IF t = "commands" THEN image[b].commands ELSE commands
      /\ t \in unsaved[b]
      /\ UNCHANGED <<queue, image, pc, env, dispatched>>
  BY <1>1 DEF SaveTable, Save, UnchangedByJob
<1>3. ImageSound(b)
  BY <1>2 DEF JInv, QueueInv
<1> DEFINE job == Head(queue[b])
<1>4. JobSound(job)
  BY <1>3, TailForm DEF JInv, QueueInv, QueueSound, ImageSound
<1>5. commands' \in {commands, image[b].commands}
  BY <1>2
<1>6. \/ image[b].commands = commands
      \/ /\ job.kind = "reject"
         /\ image[b].commands = Append(commands, Row(job.envelope))
         /\ ~HasId(commands, job.envelope.id)
  BY <1>3 DEF ImageSound, AtMostAdds
<1>7. /\ IsSeq(commands')
      /\ \A i \in DOMAIN commands : i \in DOMAIN commands' /\ commands'[i] = commands[i]
  <2>1. IsSeq(commands)
    BY DEF JInv, QueueInv
  <2>2. CASE commands' = commands
    BY <2>1, <2>2
  <2>3. CASE commands' = Append(commands, Row(job.envelope))
    <3>1. /\ IsSeq(commands')
          /\ DOMAIN commands = 1..Len(commands)
          /\ DOMAIN commands' = 1..(Len(commands) + 1)
          /\ \A i \in 1..Len(commands) : commands'[i] = commands[i]
      BY <2>1, <2>3, AppendForm
    <3>2. Len(commands) \in Nat
      BY <2>1 DEF IsSeq
    <3> QED
      BY <3>1, <3>2
  <2> QED
    BY <1>5, <1>6, <2>2, <2>3
<1>8. Domains' /\ IsSeq(commands)' /\ (\A s \in Submissions : Addressed(s))'
  BY <1>2, <1>7 DEF JInv, QueueInv, Domains, Addressed, IsSeq
<1>9. (\A c \in Buses : QueueSound(c))'
  BY <1>2 DEF JInv, QueueInv, QueueSound, JobSound, IsSeq
<1>10. unsaved'[b] = unsaved[b] \ {t} /\ queue'[b] = queue[b] /\ image'[b] = image[b]
  BY <1>2 DEF JInv, QueueInv, Domains
<1>11. ImageSound(b)'
  <2>1. CASE t = "commands"
    BY <1>2, <1>3, <1>10, <2>1 DEF ImageSound
  <2>2. CASE t # "commands"
    BY <1>2, <1>3, <1>10, <2>2 DEF ImageSound, AtMostAdds, HasId, Row, Fingerprint
  <2> QED
    BY <2>1, <2>2
<1>12. (\A c \in Buses : image[c] # None => ImageSound(c))'
  BY <1>11 DEF OneBus
<1>13. (\A s \in dispatched : ParentSound(s))'
  <2> SUFFICES ASSUME NEW s \in dispatched
               PROVE  ParentSound(s)'
    BY <1>2
  <2>1. ParentSound(s)
    BY DEF JInv
  <2> QED
    BY <1>2, <1>7, <2>1 DEF ParentSound
<1>14. CASE commands' = commands
  BY <1>2, <1>8, <1>9, <1>12, <1>13, <1>14 DEF JInv, QueueInv, Silent, Answered
<1>15. CASE commands' # commands
  <2>1. /\ job.kind = "reject"
        /\ commands' = Append(commands, Row(job.envelope))
        /\ ~HasId(commands, job.envelope.id)
    BY <1>5, <1>6, <1>15
  <2>2. job.by \in Submissions /\ job.envelope = env[job.by] /\ pc[job.by] \in {"deny", "fail"}
    BY <1>4, <2>1 DEF JobSound
  <2>3. env[job.by].id \in Ids
    BY <2>2 DEF JInv, QueueInv, Addressed
  <2> QED
    BY <1>2, <1>8, <1>9, <1>12, <1>13, <2>1, <2>2, <2>3 DEF JInv, QueueInv
<1> QED
  BY <1>14, <1>15

(* The job is done and its submission goes on.                             *)
LEMMA FinishKeeps ==
  ASSUME JInv, OneBus, NEW b \in Buses, FinishWrite(b)
  PROVE  /\ JInv'
         /\ commands' = commands
         /\ \/ Silent
            \/ \E s \in Submissions :
                 /\ Answered' = Answered \cup {s}
                 /\ env' = env
                 /\ HasId(commands, env[s].id) /\ env[s].id \in Ids
<1> DEFINE s    == Head(queue[b]).by
           tail == Tail(queue[b])
<1>1. /\ image[b] # None /\ unsaved[b] = {}
      /\ image' = [image EXCEPT ![b] = None]
      /\ UNCHANGED <<commands, unsaved, env, dispatched>>
  BY DEF FinishWrite, Saved, UnchangedByJob
<1>2. ImageSound(b) /\ QueueSound(b)
  BY <1>1 DEF JInv, QueueInv
<1>3. /\ IsSeq(tail)
      /\ Head(queue[b]) = queue[b][1] /\ 1 \in DOMAIN queue[b]
      /\ \A i \in DOMAIN tail : i + 1 \in DOMAIN queue[b] /\ i + 1 # 1 /\ tail[i] = queue[b][i + 1]
      /\ DOMAIN tail \subseteq Nat
  BY <1>2, TailForm DEF ImageSound, QueueSound
<1>4. JobSound(Head(queue[b]))
  BY <1>2, <1>3 DEF QueueSound
<1>5. s \in Submissions /\ env[s].bus \in Buses /\ env[s].id \in Ids
  BY <1>4 DEF JobSound, JInv, QueueInv, Addressed
<1>6. \A i \in DOMAIN tail : JobSound(tail[i]) /\ tail[i].by # s
  BY <1>2, <1>3 DEF QueueSound
<1>7. \A i, k \in DOMAIN tail : tail[i].by = tail[k].by => i = k
  <2> TAKE i, k \in DOMAIN tail
  <2> HAVE tail[i].by = tail[k].by
  <2>1. i + 1 = k + 1
    BY <1>2, <1>3 DEF QueueSound
  <2> QED
    BY <1>3, <2>1
<1>8. pc[s] \in Waiting /\ (pc[s] = "fail" => HasId(commands, env[s].id))
  BY <1>1, <1>2, <1>4 DEF JobSound, ImageSound, Waiting
<1>9. \/ /\ pc[s] = "purge" /\ Goto(s, "nonce")
         /\ queue' = [queue EXCEPT ![b] = tail]
      \/ /\ pc[s] = "deny" /\ Goto(s, "fail")
         /\ queue' = [[queue EXCEPT ![b] = tail] EXCEPT ![b] = Append(@, RejectJob(s, env[s]))]
      \/ /\ pc[s] = "fail" /\ Goto(s, "answered")
         /\ queue' = [queue EXCEPT ![b] = tail]
  BY DEF FinishWrite
<1> HIDE DEF s, tail
<1>10. /\ DOMAIN pc' = Submissions /\ DOMAIN queue' = Buses
       /\ pc'[s] \in {"nonce", "fail", "answered"}
       /\ \A r \in Submissions \ {s} : pc'[r] = pc[r]
  BY <1>5, <1>9 DEF Goto, JInv, QueueInv, Domains
<1>11. Domains' /\ IsSeq(commands)' /\ (\A r \in Submissions : Addressed(r))'
  BY <1>1, <1>5, <1>10 DEF JInv, QueueInv, Domains, Addressed, IsSeq
<1>12. ASSUME NEW job, JobSound(job), job.by # s
       PROVE  JobSound(job)'
  BY <1>1, <1>10, <1>12 DEF JobSound
<1>13. QueueSound(b)'
  <2>1. CASE queue'[b] = tail
    BY <1>3, <1>6, <1>7, <1>12, <2>1 DEF QueueSound, JobSound
  <2>2. CASE pc[s] = "deny" /\ pc'[s] = "fail" /\ queue'[b] = Append(tail, RejectJob(s, env[s]))
    <3> DEFINE job == RejectJob(s, env[s])
    <3>1. /\ IsSeq(queue'[b])
          /\ DOMAIN tail = 1..Len(tail)
          /\ DOMAIN queue'[b] = 1..(Len(tail) + 1)
          /\ \A i \in 1..Len(tail) : queue'[b][i] = tail[i]
          /\ queue'[b][Len(tail) + 1] = job
      BY <1>3, <2>2, AppendForm
    <3>2. Len(tail) \in Nat
      BY <1>3 DEF IsSeq
    <3>3. job.by = s /\ job.kind = "reject" /\ job.envelope = env'[s]
      BY <1>1 DEF RejectJob
    <3> HIDE DEF job
    <3>4. (\A i \in DOMAIN queue[b] : JobSound(queue[b][i]))'
      <4> SUFFICES ASSUME NEW i \in DOMAIN queue'[b]
                   PROVE  JobSound(queue[b][i])'
        OBVIOUS
      <4>1. CASE i \in 1..Len(tail)
        BY <4>1, <3>1, <1>6, <1>12 DEF JobSound
      <4>2. CASE i = Len(tail) + 1
        BY <4>2, <3>1, <3>3, <2>2, <1>5 DEF JobSound
      <4> QED
        BY <3>1, <3>2, <4>1, <4>2
    <3>5. \A i, k \in DOMAIN queue'[b] : queue'[b][i].by = queue'[b][k].by => i = k
      <4>1. \A i \in 1..Len(tail) : queue'[b][i].by # s
        BY <3>1, <1>6
      <4>2. \A i, k \in 1..Len(tail) : queue'[b][i].by = queue'[b][k].by => i = k
        BY <3>1, <1>7
      <4> QED
        BY <3>1, <3>2, <3>3, <4>1, <4>2
    <3> QED
      BY <3>1, <3>4, <3>5 DEF QueueSound
  <2> QED
    BY <1>5, <1>9, <2>1, <2>2 DEF Goto, JInv, QueueInv, Domains
<1>14. image'[b] = None
  BY <1>1 DEF JInv, QueueInv, Domains
<1>15. /\ (\A c \in Buses : QueueSound(c))'
       /\ (\A c \in Buses : image[c] # None => ImageSound(c))'
  BY <1>13, <1>14 DEF OneBus
<1>16. (\A r \in dispatched : ParentSound(r))'
  <2> SUFFICES ASSUME NEW r \in dispatched
               PROVE  ParentSound(r)'
    BY <1>1
  <2>1. ParentSound(r)
    BY DEF JInv
  <2>2. pc'[r] \in Routed
    BY <1>9, <1>10, <2>1 DEF ParentSound, Routed, Goto
  <2> QED
    BY <1>1, <2>1, <2>2 DEF ParentSound
<1>17. CASE pc[s] # "fail"
  <2>1. Answered' = Answered
    BY <1>5, <1>8, <1>9, <1>10, <1>17 DEF Answered, Goto, Waiting, JInv, QueueInv, Domains
  <2>2. Silent
    BY <1>1, <2>1 DEF Silent
  <2> QED
    BY <1>1, <1>11, <1>15, <1>16, <2>2 DEF JInv, QueueInv
<1>18. CASE pc[s] = "fail"
  <2>1. pc'[s] = "answered"
    BY <1>5, <1>9, <1>18 DEF Goto, JInv, QueueInv, Domains
  <2>2. Answered' = Answered \cup {s}
    BY <1>5, <1>10, <2>1 DEF Answered
  <2> QED
    BY <1>1, <1>5, <1>8, <1>11, <1>15, <1>16, <1>18, <2>2 DEF JInv, QueueInv
<1> QED
  BY <1>17, <1>18

(* A crash drops the jobs and what they would have answered.               *)
LEMMA CrashKeeps ==
  ASSUME JInv, OneBus, NEW b \in Buses, Crash(b)
  PROVE  JInv' /\ Silent
<1>1. /\ queue' = [queue EXCEPT ![b] = <<>>]
      /\ image' = [image EXCEPT ![b] = None]
      /\ unsaved' = [unsaved EXCEPT ![b] = {}]
      /\ pc' = [s \in Submissions |->
                  IF pc[s] \notin {"idle", "answered"} /\ BusOf(s) = b THEN "lost" ELSE pc[s]]
      /\ UNCHANGED <<commands, env, dispatched>>
  BY DEF Crash, CrashBackbone
<1>2. Domains' /\ IsSeq(commands)' /\ (\A s \in Submissions : Addressed(s))'
  BY <1>1 DEF JInv, QueueInv, Domains, Addressed, IsSeq
<1>3. queue'[b] = <<>> /\ image'[b] = None
  BY <1>1 DEF JInv, QueueInv, Domains
<1>4. IsSeq(<<>>) /\ DOMAIN <<>> = {}
  BY DEF IsSeq
<1>5. QueueSound(b)'
  BY <1>3, <1>4 DEF QueueSound
<1>6. /\ (\A c \in Buses : QueueSound(c))'
      /\ (\A c \in Buses : image[c] # None => ImageSound(c))'
  BY <1>3, <1>5 DEF OneBus
<1>7. (\A s \in dispatched : ParentSound(s))'
  <2> SUFFICES ASSUME NEW s \in dispatched
               PROVE  ParentSound(s)'
    BY <1>1
  <2>1. ParentSound(s)
    BY DEF JInv
  <2> QED
    BY <1>1, <2>1 DEF ParentSound, Routed
<1>8. Answered' = Answered
  BY <1>1 DEF Answered
<1> QED
  BY <1>1, <1>2, <1>6, <1>7, <1>8 DEF JInv, QueueInv, Silent

-----------------------------------------------------------------------------
(* Every step.                                                             *)

(* The ids of a journal of rows, as the abstract journal has them.         *)
IdsOf(table) == [i \in DOMAIN table |-> table[i].id]

(* Appending a row appends its id.                                         *)
LEMMA IdsOfAppend ==
  ASSUME NEW s, NEW e, IsSeq(s)
  PROVE  IdsOf(Append(s, e)) = Append(IdsOf(s), e.id)
<1>1. /\ DOMAIN s = 1..Len(s) /\ Len(s) \in Nat
      /\ DOMAIN Append(s, e) = 1..(Len(s) + 1)
      /\ \A i \in 1..Len(s) : Append(s, e)[i] = s[i]
      /\ Append(s, e)[Len(s) + 1] = e
  BY AppendForm DEF IsSeq
<1> DEFINE ids == IdsOf(s)
           T   == {s[i].id : i \in 1..Len(s)}
<1>2. ids \in Seq(T) /\ DOMAIN ids = 1..Len(s)
  BY <1>1 DEF IdsOf
<1>3. Len(ids) = Len(s)
  BY <1>1, <1>2, LenProperties
<1>4. IsSeq(ids)
  BY <1>1, <1>2, <1>3 DEF IsSeq, IdsOf
<1> HIDE DEF T
<1>5. /\ DOMAIN Append(ids, e.id) = 1..(Len(s) + 1)
      /\ \A i \in 1..Len(s) : Append(ids, e.id)[i] = ids[i]
      /\ Append(ids, e.id)[Len(s) + 1] = e.id
      /\ IsSeq(Append(ids, e.id))
      /\ Len(Append(ids, e.id)) = Len(s) + 1
  <2>1. /\ DOMAIN Append(ids, e.id) = 1..(Len(s) + 1)
        /\ \A i \in 1..Len(s) : Append(ids, e.id)[i] = ids[i]
        /\ Append(ids, e.id)[Len(s) + 1] = e.id
        /\ IsSeq(Append(ids, e.id))
    <3> HIDE DEF ids
    <3> QED
      BY <1>3, <1>4, AppendForm
  <2> QED
    BY <1>1, <2>1 DEF IsSeq
<1>6. \A i \in 1..Len(s) : ids[i] = s[i].id
  BY <1>1 DEF IdsOf
<1>7. Append(ids, e.id) = [i \in 1..(Len(s) + 1) |-> Append(ids, e.id)[i]]
  BY <1>5 DEF IsSeq
<1>8. IdsOf(Append(s, e)) = [i \in 1..(Len(s) + 1) |-> Append(s, e)[i].id]
  BY <1>1 DEF IdsOf
<1>9. \A i \in 1..(Len(s) + 1) : Append(ids, e.id)[i] = Append(s, e)[i].id
  <2> HIDE DEF ids
  <2> QED
    BY <1>1, <1>5, <1>6
<1> QED
  BY <1>7, <1>8, <1>9

(* Every step keeps the invariant, and the reader of the journal sees that *)
(* nothing happened, that a row was added or that a command was answered.  *)
LEMMA NextKeeps ==
  ASSUME JInv, OneBus, [Next]_vars
  PROVE  /\ JInv'
         /\ \/ Silent
            \/ \E s \in Submissions :
                 /\ commands' = Append(commands, Row(env[s])) /\ ~HasId(commands, env[s].id)
                 /\ env[s].id \in Ids /\ pc[s] \in {"deny", "fail"}
                 /\ env' = env /\ pc' = pc
            \/ \E s \in Submissions :
                 /\ commands' = commands
                 /\ Answered' = Answered \cup {s}
                 /\ env' = env
                 /\ HasId(commands, env[s].id) /\ env[s].id \in Ids
<1>1. CASE \E s \in Submissions, c \in Commands, b \in Buses : Submit(s, c, b)
  BY <1>1, SubmitMoves, MoveKeeps
<1>2. CASE \E s \in Submissions : Read(s) \/ BridgeEnds(s)
  BY <1>2, ReadMoves, BridgeMoves, MoveKeeps
<1>3. CASE \E b \in Buses : Load(b) \/ Crash(b)
  BY <1>3, LoadKeeps, CrashKeeps
<1>4. CASE \E b \in Buses : Save(b)
  BY <1>4, SaveKeeps
<1>5. CASE \E b \in Buses : FinishWrite(b)
  BY <1>5, FinishKeeps
<1>6. CASE UNCHANGED <<commands, queue, image, unsaved, pc, env, dispatched>>
  <2>1. QueueInv'
    BY <1>6 DEF JInv, QueueInv, Domains, Addressed, QueueSound, JobSound, ImageSound,
                AtMostAdds, HasId, Row, Fingerprint, IsSeq
  <2>2. (\A s \in dispatched : ParentSound(s))'
    BY <1>6 DEF JInv, ParentSound
  <2>3. Silent
    BY <1>6 DEF Silent, Answered
  <2> QED
    BY <2>1, <2>2, <2>3 DEF JInv
<1>7. CASE Tick \/ Finished \/ UNCHANGED vars
  BY <1>6, <1>7 DEF Tick, Finished, vars, backbone, control
<1> QED
  BY <1>1, <1>2, <1>3, <1>4, <1>5, <1>7
  DEF Next, Job, BridgeAnswers, BridgeTimesOut

(* JInv holds throughout.                                                  *)
LEMMA JInvHolds ==
  ASSUME OneBus
  PROVE  Spec => []JInv
<1>1. Init => JInv
  BY QueueInvInit
<1>2. JInv /\ [Next]_vars => JInv'
  BY NextKeeps
<1> QED
  BY <1>1, <1>2, PTL DEF Spec

(* With one bus, whatever its callers submit and however often it crashes, *)
(* a routed command hangs on a row of the journal with the hash that it    *)
(* continues: what the guard read of the parent is still on record         *)
(* (command.bus.ts:265-281, replay.guard.ts:57-98).                        *)
THEOREM ParentTheorem ==
  ASSUME OneBus
  PROVE  Spec => []RoutedOnParent
<1>1. JInv => RoutedOnParent
  BY DEF JInv, ParentSound, RoutedOnParent
<1> QED
  BY <1>1, JInvHolds, PTL

(* With one bus, the table of commands implements CommandJournal: a row is *)
(* appended, once per id, and never lost, and no answer precedes its row   *)
(* (command.backbone.ts:144-197).                                          *)
THEOREM JournalTheorem ==
  ASSUME OneBus
  PROVE  Spec => KeepsJournal
<1>1. Init => Journal!JournalInit
  BY DEF Init, BackboneInit, Journal!JournalInit
<1>2. ASSUME JInv, [Next]_vars
      PROVE  [Journal!JournalNext]_(Journal!journal)
  <2>1. CASE Silent
    BY <2>1 DEF Silent, Answered, Journal!journal
  <2>2. ASSUME NEW s \in Submissions,
               commands' = Append(commands, Row(env[s])), ~HasId(commands, env[s].id),
               env[s].id \in Ids, env' = env, pc' = pc
        PROVE  Journal!JournalNext
    <3> PICK id \in Ids : id = env[s].id
      BY <2>2
    <3>1. IdsOf(commands') = Append(IdsOf(commands), id)
      BY <2>2, <1>2, IdsOfAppend DEF Row, JInv, QueueInv
    <3>2. Journal!Record(id)
      BY <2>2, <3>1 DEF Journal!Record, Journal!OnRecord, HasId, IdsOf
    <3> QED
      BY <3>2 DEF Journal!JournalNext
  <2>3. ASSUME NEW s \in Submissions,
               commands' = commands, Answered' = Answered \cup {s}, env' = env,
               HasId(commands, env[s].id), env[s].id \in Ids
        PROVE  Journal!JournalNext
    <3> PICK id \in Ids : id = env[s].id
      BY <2>3
    <3>1. {env[r].id : r \in Answered}' = {env[r].id : r \in Answered} \cup {id}
      BY <2>3
    <3>2. Journal!Answer(id)
      BY <2>3, <3>1 DEF Journal!Answer, Journal!OnRecord, HasId, Answered
    <3> QED
      BY <3>2 DEF Journal!JournalNext
  <2> QED
    BY <1>2, <2>1, <2>2, <2>3, NextKeeps
<1> QED
  BY <1>1, <1>2, JInvHolds, PTL DEF Spec, KeepsJournal, Journal!JournalSpec

(* What no step takes from a submission that has begun.                    *)
Carried ==
  \A q \in Submissions :
    /\ pc[q] # "idle" => /\ pc'[q] # "idle"
                         /\ env'[q].id = env[q].id
                         /\ env'[q].nonce = env[q].nonce
                         /\ env'[q].issued = env[q].issued
                         /\ Fingerprint(env'[q]) = Fingerprint(env[q])
    /\ pc[q] \in Wrote => pc'[q] \in Wrote
    /\ pc[q] = "answered" => pc'[q] = "answered"

(* A move of a submission, when it keeps what its envelope is known by.    *)
LEMMA MoveCarries ==
  ASSUME NEW s \in Submissions, Move(s),
         pc[s] # "idle" => /\ env'[s].id = env[s].id
                           /\ env'[s].nonce = env[s].nonce
                           /\ env'[s].issued = env[s].issued
                           /\ Fingerprint(env'[s]) = Fingerprint(env[s])
  PROVE  Carried
<1>1. /\ pc[s] \notin Wrote /\ pc[s] # "answered" /\ pc'[s] # "idle"
      /\ \A r \in Submissions \ {s} : pc'[r] = pc[r] /\ env'[r] = env[r]
  BY DEF Move, Wrote, Waiting
<1> QED
  BY <1>1 DEF Carried, Fingerprint

(* Every step carries what was submitted.                                  *)
LEMMA NextCarries ==
  ASSUME JInv, [Next]_vars
  PROVE  Carried
<1>1. ASSUME NEW s \in Submissions, NEW c \in Commands, NEW b \in Buses, Submit(s, c, b)
      PROVE  Carried
  <2>1. pc[s] = "idle"
    BY <1>1 DEF Submit
  <2> QED
    BY <1>1, <2>1, SubmitMoves, MoveCarries
<1>2. ASSUME NEW s \in Submissions, NormalizeCausalHash(s)
      PROVE  Carried
  <2>1. PICK h : env' = [env EXCEPT ![s] = [env[s] EXCEPT !.causal = h]]
    BY <1>2 DEF NormalizeCausalHash
  <2>2. env'[s] = [env[s] EXCEPT !.causal = h]
    BY <2>1 DEF JInv, QueueInv, Domains
  <2>3. /\ env'[s].id = env[s].id
        /\ env'[s].nonce = env[s].nonce
        /\ env'[s].issued = env[s].issued
        /\ Fingerprint(env'[s]) = Fingerprint(env[s])
    BY <2>2 DEF Fingerprint
  <2> QED
    BY <1>2, <2>3, NormalizeMoves, MoveCarries
<1>3. ASSUME NEW s \in Submissions,
             CheckNonce(s) \/ CheckKey(s) \/ CheckFingerprint(s) \/ CheckParent(s) \/ BridgeEnds(s)
      PROVE  Carried
  <2>1. env' = env
    BY <1>3 DEF CheckNonce, CheckKey, CheckFingerprint, CheckParent, BridgeEnds, Check, CheckLast,
                UnchangedByGuard
  <2>2. Move(s)
    BY <1>3, ReadMoves, BridgeMoves DEF Read
  <2> QED
    BY <2>1, <2>2, MoveCarries
<1>4. ASSUME NEW b \in Buses, Load(b) \/ Save(b)
      PROVE  Carried
  <2>1. UNCHANGED <<pc, env>>
    BY <1>4 DEF Load, Save, UnchangedByJob
  <2> QED
    BY <2>1 DEF Carried
<1>5. ASSUME NEW b \in Buses, FinishWrite(b)
      PROVE  Carried
  <2>1. PICK s : /\ env' = env
                 /\ \/ pc[s] = "purge" /\ Goto(s, "nonce")
                    \/ pc[s] = "deny" /\ Goto(s, "fail")
                    \/ pc[s] = "fail" /\ Goto(s, "answered")
    BY <1>5 DEF FinishWrite, UnchangedByJob
  <2> QED
    BY <2>1 DEF Carried, Goto, Wrote, JInv, QueueInv, Domains
<1>6. ASSUME NEW b \in Buses, Crash(b)
      PROVE  Carried
  <2>1. /\ env' = env
        /\ pc' = [s \in Submissions |->
                    IF pc[s] \notin {"idle", "answered"} /\ BusOf(s) = b THEN "lost" ELSE pc[s]]
    BY <1>6 DEF Crash
  <2> QED
    BY <2>1 DEF Carried, Wrote
<1>7. CASE Tick \/ Finished \/ UNCHANGED vars
  BY <1>7 DEF Tick, Finished, vars, control, Carried
<1> QED
  BY <1>1, <1>2, <1>3, <1>4, <1>5, <1>6, <1>7
  DEF Next, Read, Job, BridgeAnswers, BridgeTimesOut

-----------------------------------------------------------------------------
(* The idempotency guard.                                                  *)

(* A submission notes what was answered before it, once.                   *)
Noted ==
  /\ before' \in [Submissions -> SUBSET Submissions]
  /\ \A s \in Submissions : before'[s] = before[s] \/ (pc[s] = "idle" /\ before'[s] = Answered)

(* Only the look for the fingerprint lets a submission on to its parent or *)
(* to its route.                                                           *)
LookedUp ==
  \A s \in Submissions :
    pc'[s] = "causal" \/ s \in dispatched' =>
      \/ pc[s] = "causal" \/ s \in dispatched
      \/ /\ pc[s] = "print" /\ ~ExistsFingerprint(Fingerprint(env[s]))

LEMMA NextNotes ==
  ASSUME ReplayInv, [Next]_vars
  PROVE  Noted
<1>1. ASSUME NEW s \in Submissions, NEW c \in Commands, NEW b \in Buses, Submit(s, c, b)
      PROVE  Noted
  BY <1>1 DEF Submit, Noted, ReplayInv, Answered
<1>2. CASE UNCHANGED before
  BY <1>2 DEF Noted, ReplayInv
<1> QED
  BY <1>1, <1>2
  DEF Next, Read, Job, BridgeAnswers, BridgeTimesOut, NormalizeCausalHash, CheckNonce, CheckKey,
      CheckFingerprint, CheckParent, BridgeEnds, Check, CheckLast, UnchangedByGuard, Load, Save,
      FinishWrite, UnchangedByJob, Crash, Tick, Finished, vars, history

(* Where a check of the guard may lead.                                    *)
LEMMA CheckLeads ==
  ASSUME JInv, NEW s \in Submissions, NEW at, NEW next, NEW passes, Check(s, at, passes, next)
  PROVE  /\ \A r \in Submissions \ {s} : pc'[r] = pc[r]
         /\ pc'[s] \in {next, "deny"} /\ pc[s] = at
         /\ pc'[s] # "deny" => passes
         /\ dispatched' = dispatched
BY DEF Check, Goto, Deny, Await, JInv, QueueInv, Domains

LEMMA CheckLastLeads ==
  ASSUME JInv, NEW s \in Submissions, NEW at, NEW passes, CheckLast(s, at, passes)
  PROVE  /\ \A r \in Submissions \ {s} : pc'[r] = pc[r]
         /\ pc'[s] \in {"deny", "bridge", "fail"} /\ pc[s] = at
         /\ dispatched' \subseteq dispatched \cup {s}
         /\ s \in dispatched' => s \in dispatched \/ passes
BY DEF CheckLast, Dispatch, Throw, Goto, Deny, Await, JInv, QueueInv, Domains

LEMMA NextLooksUp ==
  ASSUME JInv, [Next]_vars
  PROVE  LookedUp
<1>1. CASE UNCHANGED dispatched /\ \A s \in Submissions : pc'[s] = "causal" => pc[s] = "causal"
  BY <1>1 DEF LookedUp
<1>2. ASSUME NEW s \in Submissions, NEW c \in Commands, NEW b \in Buses, Submit(s, c, b)
      PROVE  LookedUp
  <2>1. UNCHANGED dispatched /\ \A r \in Submissions : pc'[r] = "causal" => pc[r] = "causal"
    BY <1>2 DEF Submit, Validate, Throw, Await, Goto, JInv, QueueInv, Domains
  <2> QED
    BY <2>1, <1>1
<1>3. ASSUME NEW s \in Submissions, NormalizeCausalHash(s)
      PROVE  LookedUp
  <2>1. UNCHANGED dispatched /\ \E e : Validate(s, e)
    BY <1>3 DEF NormalizeCausalHash
  <2>2. \A r \in Submissions : pc'[r] = "causal" => pc[r] = "causal"
    BY <2>1 DEF Validate, Throw, Await, Goto, JInv, QueueInv, Domains
  <2> QED
    BY <2>1, <2>2, <1>1
<1>4. ASSUME NEW s \in Submissions, CheckNonce(s) \/ CheckKey(s)
      PROVE  LookedUp
  <2>1. PICK at, next, passes : Check(s, at, passes, next) /\ next # "causal"
    BY <1>4 DEF CheckNonce, CheckKey
  <2> QED
    BY <2>1, <1>1, CheckLeads
<1>5. ASSUME NEW s \in Submissions, CheckFingerprint(s)
      PROVE  LookedUp
  <2> DEFINE known == ExistsFingerprint(Fingerprint(env[s]))
  <2>1. \/ Check(s, "print", ~known, "causal")
        \/ CheckLast(s, "print", ~known /\ env[s].causal = Chain(Root, env[s].payload))
    BY <1>5 DEF CheckFingerprint
  <2> HIDE DEF known
  <2>2. ASSUME Check(s, "print", ~known, "causal")
        PROVE  /\ \A r \in Submissions \ {s} : pc'[r] = pc[r]
               /\ pc[s] = "print" /\ dispatched' = dispatched
               /\ pc'[s] = "causal" => ~known
    BY <2>2, CheckLeads
  <2>3. ASSUME NEW passes, CheckLast(s, "print", passes)
        PROVE  /\ \A r \in Submissions \ {s} : pc'[r] = pc[r]
               /\ pc[s] = "print" /\ pc'[s] # "causal"
               /\ dispatched' \subseteq dispatched \cup {s}
               /\ s \in dispatched' => s \in dispatched \/ passes
    BY <2>3, CheckLastLeads
  <2>4. LookedUp
    BY <2>1, <2>2, <2>3 DEF LookedUp, known
  <2> QED
    BY <2>4
<1>6. ASSUME NEW s \in Submissions, CheckParent(s)
      PROVE  LookedUp
  <2>1. PICK passes : CheckLast(s, "causal", passes)
    BY <1>6 DEF CheckParent
  <2> QED
    BY <2>1, CheckLastLeads DEF LookedUp
<1>7. ASSUME NEW s \in Submissions, BridgeEnds(s)
      PROVE  LookedUp
  <2>1. UNCHANGED dispatched /\ \A r \in Submissions : pc'[r] = "causal" => pc[r] = "causal"
    BY <1>7 DEF BridgeEnds, Throw, Await, Goto, JInv, QueueInv, Domains
  <2> QED
    BY <2>1, <1>1
<1>8. ASSUME NEW b \in Buses, Load(b) \/ Save(b) \/ FinishWrite(b) \/ Crash(b)
      PROVE  LookedUp
  <2>1. UNCHANGED dispatched
    BY <1>8 DEF Load, Save, FinishWrite, Crash, UnchangedByJob
  <2>2. \A r \in Submissions : pc'[r] = "causal" => pc[r] = "causal"
    BY <1>8 DEF Load, Save, FinishWrite, Crash, Goto, JInv, QueueInv, Domains
  <2> QED
    BY <2>1, <2>2, <1>1
<1>9. CASE Tick \/ Finished \/ UNCHANGED vars
  BY <1>1, <1>9 DEF Tick, Finished, vars, control
<1> QED
  BY <1>2, <1>3, <1>4, <1>5, <1>6, <1>7, <1>8, <1>9
  DEF Next, Read, Job, BridgeAnswers, BridgeTimesOut

(* A row is always of the form that an append leaves it.                   *)
LEMMA RowsStay ==
  ASSUME JInv, OneBus, [Next]_vars
  PROVE  /\ \A id : HasId(commands, id) => HasId(commands', id)
         /\ \A i \in DOMAIN commands : i \in DOMAIN commands' /\ commands'[i] = commands[i]
         /\ \A i \in DOMAIN commands' :
              \/ i \in DOMAIN commands /\ commands'[i] = commands[i]
              \/ \E s \in Submissions : pc[s] \in {"deny", "fail"} /\ commands'[i] = Row(env[s])
<1>1. CASE commands' = commands
  BY <1>1 DEF HasId
<1>2. ASSUME NEW s \in Submissions, commands' = Append(commands, Row(env[s])), pc[s] \in {"deny", "fail"}
      PROVE  /\ \A i \in DOMAIN commands : i \in DOMAIN commands' /\ commands'[i] = commands[i]
             /\ \A i \in DOMAIN commands' : i \in DOMAIN commands \/ commands'[i] = Row(env[s])
  <2>1. /\ DOMAIN commands = 1..Len(commands) /\ Len(commands) \in Nat
        /\ DOMAIN commands' = 1..(Len(commands) + 1)
        /\ \A i \in 1..Len(commands) : commands'[i] = commands[i]
        /\ commands'[Len(commands) + 1] = Row(env[s])
    BY <1>2, AppendForm DEF JInv, QueueInv, IsSeq
  <2> QED
    BY <2>1
<1> QED
  BY <1>1, <1>2, NextKeeps DEF HasId, Silent

LEMMA ReplayInvInit ==
  ASSUME Init
  PROVE  ReplayInv
BY DEF Init, BackboneInit, ReplayInv, Answered

(* The row of an answered command is the command's, if the id is its own:  *)
(* nobody then passes the look for the fingerprint with its like.          *)
LEMMA ReplayInvNext ==
  ASSUME JInv, ReplayInv, OneBus, [Next]_vars
  PROVE  ReplayInv'
<1>1. Carried /\ Noted /\ LookedUp
  BY NextCarries, NextNotes, NextLooksUp
<1>2. Answered \subseteq Answered'
  BY <1>1 DEF Carried, Answered
<1>3. \A s \in Submissions : before'[s] \subseteq Answered'
  BY <1>1, <1>2 DEF Noted, ReplayInv
<1>4. \A s \in Answered' : HasId(commands', env'[s].id)
  <2> SUFFICES ASSUME NEW s \in Answered' PROVE HasId(commands', env'[s].id)
    OBVIOUS
  <2>1. CASE s \in Answered
    BY <1>1, <2>1, RowsStay DEF Carried, Answered, ReplayInv
  <2>2. CASE s \notin Answered
    <3>1. CASE Silent
      BY <2>2, <3>1 DEF Silent, ReplayInv
    <3>2. CASE pc' = pc
      BY <2>2, <3>2 DEF Answered
    <3>3. ASSUME NEW r \in Submissions, commands' = commands, Answered' = Answered \cup {r},
                 env' = env, HasId(commands, env[r].id)
          PROVE  HasId(commands', env'[s].id)
      BY <2>2, <3>3
    <3> QED
      BY <3>1, <3>2, <3>3, NextKeeps
  <2> QED
    BY <2>1, <2>2
<1>5. ASSUME NEW i \in DOMAIN commands'
      PROVE  RowOwned(commands[i])'
  <2>1. CASE i \in DOMAIN commands /\ commands'[i] = commands[i]
    <3>1. PICK q \in Submissions : /\ pc[q] \in Wrote /\ env[q].id = commands[i].id
                                   /\ Fingerprint(env[q]) = commands[i].print
      BY <2>1 DEF ReplayInv, RowOwned
    <3>2. /\ pc'[q] \in Wrote /\ env'[q].id = commands'[i].id
          /\ Fingerprint(env'[q]) = commands'[i].print
      BY <1>1, <2>1, <3>1 DEF Carried, Wrote
    <3> QED
      BY <3>2 DEF RowOwned, Fingerprint
  <2>2. ASSUME NEW q \in Submissions, pc[q] \in {"deny", "fail"}, commands'[i] = Row(env[q])
        PROVE  RowOwned(commands[i])'
    <3>1. /\ pc'[q] \in Wrote /\ env'[q].id = env[q].id
          /\ Fingerprint(env'[q]) = Fingerprint(env[q])
      BY <1>1, <2>2 DEF Carried, Wrote
    <3>2. commands'[i].id = env[q].id /\ commands'[i].print = Fingerprint(env[q])
      BY <2>2 DEF Row
    <3> QED
      BY <3>1, <3>2 DEF RowOwned, Fingerprint
  <2> QED
    BY <2>1, <2>2, RowsStay
<1>6. ASSUME NEW s \in Submissions, pc'[s] = "causal" \/ s \in dispatched'
      PROVE  Fresh(s)'
  <2> SUFFICES ASSUME NEW r \in before'[s], OwnId(r)'
               PROVE  ~SamePrint(r, s)'
    BY DEF Fresh
  <2>1. pc[s] # "idle" /\ before'[s] = before[s]
    BY <1>1, <1>6 DEF LookedUp, Noted, JInv, ParentSound, Routed
  <2>2. r \in Submissions /\ pc[r] = "answered"
    BY <2>1 DEF ReplayInv, Answered
  <2>3. OwnId(r)
    <3> SUFFICES ASSUME NEW q \in Submissions, pc[q] # "idle", env[q].id = env[r].id
                 PROVE  SamePrint(q, r)
      BY DEF OwnId
    <3>1. pc'[q] # "idle" /\ env'[q].id = env'[r].id
      BY <1>1, <2>2 DEF Carried
    <3>2. Fingerprint(env'[q]) = Fingerprint(env'[r])
      BY <3>1 DEF OwnId, SamePrint, Fingerprint
    <3> QED
      BY <1>1, <2>2, <3>2 DEF Carried, SamePrint
  <2>4. CASE pc[s] = "causal" \/ s \in dispatched
    <3>1. ~SamePrint(r, s)
      BY <2>1, <2>3, <2>4 DEF ReplayInv, Fresh
    <3>2. Fingerprint(env'[r]) # Fingerprint(env'[s])
      BY <1>1, <2>1, <2>2, <3>1 DEF Carried, SamePrint
    <3> QED
      BY <3>2 DEF SamePrint, Fingerprint
  <2>5. CASE ~ExistsFingerprint(Fingerprint(env[s]))
    <3>1. PICK i \in DOMAIN commands : commands[i].id = env[r].id
      BY <2>2 DEF ReplayInv, Answered, HasId
    <3>2. PICK q \in Submissions : /\ pc[q] \in Wrote /\ env[q].id = commands[i].id
                                   /\ Fingerprint(env[q]) = commands[i].print
      BY DEF ReplayInv, RowOwned
    <3>3. Fingerprint(env[r]) = commands[i].print
      BY <2>3, <3>1, <3>2 DEF OwnId, SamePrint, Wrote
    <3>4. Fingerprint(env[r]) # Fingerprint(env[s])
      BY <2>5, <3>3 DEF ExistsFingerprint
    <3>5. Fingerprint(env'[r]) # Fingerprint(env'[s])
      BY <1>1, <2>1, <2>2, <3>4 DEF Carried
    <3> QED
      BY <3>5 DEF SamePrint, Fingerprint
  <2> QED
    BY <1>1, <1>6, <2>4, <2>5 DEF LookedUp
<1> QED
  BY <1>1, <1>3, <1>4, <1>5, <1>6 DEF ReplayInv, Noted

LEMMA ReplayInvHolds ==
  ASSUME OneBus
  PROVE  Spec => []ReplayInv
<1>1. JInv /\ ReplayInv /\ [Next]_vars => ReplayInv'
  BY ReplayInvNext
<1> QED
  BY <1>1, ReplayInvInit, JInvHolds, PTL DEF Spec

(* With one bus, a command whose submission was answered is not routed     *)
(* when it is submitted again, whatever overlaps or crashes in between     *)
(* (idempotency.guard.ts:27-36, command.backbone.ts:144-161).              *)
THEOREM ReplayTheorem ==
  ASSUME OneBus
  PROVE  Spec => []AnsweredReplayBlocked
<1>1. JInv /\ ReplayInv => AnsweredReplayBlocked
  BY DEF JInv, ParentSound, ReplayInv, Fresh, AnsweredReplayBlocked
<1> QED
  BY <1>1, ReplayInvHolds, JInvHolds, PTL

-----------------------------------------------------------------------------
(* The nonces.                                                             *)

(* Nothing of a nonce's owners gets lost, and time does not go back.       *)
LEMMA OwnersStay ==
  ASSUME Carried, NonceInv
  PROVE  /\ \A n : NonceOwned(n) => NonceOwned(n)'
         /\ \A nonce, t, u : t \in Nat /\ u \in Nat /\ t <= u /\ ClosedBy(nonce, t)
                                => ClosedBy(nonce, u)'
         /\ \A r \in Submissions : pc[r] # "idle" /\ OwnNonce(r)' => OwnNonce(r)
<1>1. Wrote \subseteq {"deny", "fail", "answered", "lost"}
  BY DEF Wrote
<1>2. \A q \in Submissions : pc[q] \in Wrote => /\ pc'[q] \in Wrote
                                              /\ env'[q].nonce = env[q].nonce
                                              /\ env'[q].issued = env[q].issued
                                              /\ env[q].issued \in Nat
  BY <1>1 DEF Carried, NonceInv
<1>3. ASSUME NEW n, NonceOwned(n)
      PROVE  NonceOwned(n)'
  BY <1>2, <1>3 DEF NonceOwned, Wrote
<1>4. ASSUME NEW nonce, NEW t \in Nat, NEW u \in Nat, t <= u, ClosedBy(nonce, t)
      PROVE  ClosedBy(nonce, u)'
  <2>1. PICK q \in Submissions : pc[q] \in Wrote /\ env[q].nonce = nonce /\ env[q].issued + Window <= t
    BY <1>4 DEF ClosedBy
  <2>2. env'[q].issued + Window <= u
    BY <1>2, <1>4, <2>1, CommandBusAssumption
  <2> QED
    BY <1>2, <2>1, <2>2 DEF ClosedBy, Wrote
<1>5. \A r \in Submissions : pc[r] # "idle" /\ OwnNonce(r)' => OwnNonce(r)
  BY DEF OwnNonce, Carried
<1> QED
  BY <1>3, <1>4, <1>5

(* Which jobs there may be after a step.                                   *)
JobsKept ==
  \A b \in Buses : \A i \in DOMAIN queue'[b] :
    \/ \E k \in DOMAIN queue[b] : queue'[b][i] = queue[b][k]
    \/ queue'[b][i].kind = "reject"
    \/ queue'[b][i].now = clock

(* Enqueueing such a job.                                                  *)
LEMMA EnqueueKeepsJobs ==
  ASSUME JInv, NEW b, NEW job, queue' = Enqueued(b, job), job.kind = "reject" \/ job.now = clock
  PROVE  JobsKept
<1> SUFFICES ASSUME NEW c \in Buses, NEW i \in DOMAIN queue'[c]
             PROVE  \/ \E k \in DOMAIN queue[c] : queue'[c][i] = queue[c][k]
                    \/ queue'[c][i].kind = "reject"
                    \/ queue'[c][i].now = clock
  BY DEF JobsKept
<1>1. CASE c # b
  <2>1. queue'[c] = queue[c]
    BY <1>1 DEF Enqueued, JInv, QueueInv, Domains
  <2> QED
    BY <2>1
<1>2. CASE c = b
  <2>1. queue'[b] = Append(queue[b], job) /\ IsSeq(queue[b])
    BY <1>2 DEF Enqueued, JInv, QueueInv, Domains, QueueSound
  <2>2. /\ DOMAIN queue[b] = 1..Len(queue[b]) /\ Len(queue[b]) \in Nat
        /\ DOMAIN queue'[b] = 1..(Len(queue[b]) + 1)
        /\ \A k \in 1..Len(queue[b]) : queue'[b][k] = queue[b][k]
        /\ queue'[b][Len(queue[b]) + 1] = job
    BY <2>1, AppendForm DEF IsSeq
  <2>3. CASE i \in 1..Len(queue[b])
    BY <1>2, <2>2, <2>3
  <2>4. CASE i = Len(queue[b]) + 1
    BY <1>2, <2>2, <2>4
  <2> QED
    BY <1>2, <2>2, <2>3, <2>4
<1> QED
  BY <1>1, <1>2

LEMMA NextKeepsJobs ==
  ASSUME JInv, [Next]_vars
  PROVE  JobsKept
<1>1. ASSUME NEW s, NEW e, Throw(s, e)
      PROVE  JobsKept
  BY <1>1, EnqueueKeepsJobs DEF Throw, Await, RejectJob
<1>2. ASSUME NEW s, Deny(s)
      PROVE  JobsKept
  BY <1>2, EnqueueKeepsJobs DEF Deny, Await, RejectJob
<1>3. ASSUME NEW s, NEW e, Validate(s, e)
      PROVE  JobsKept
  BY <1>1, <1>3, EnqueueKeepsJobs DEF Validate, Await, PurgeJob
<1>4. CASE UNCHANGED queue
  BY <1>4 DEF JobsKept
<1>5. ASSUME NEW b \in Buses, FinishWrite(b)
      PROVE  JobsKept
  <2> DEFINE tail == Tail(queue[b])
  <2>1. PICK s : \/ queue' = [queue EXCEPT ![b] = tail]
                 \/ queue' = [[queue EXCEPT ![b] = tail] EXCEPT ![b] = Append(@, RejectJob(s, env[s]))]
    BY <1>5 DEF FinishWrite
  <2>2. /\ IsSeq(tail)
        /\ \A i \in DOMAIN tail : i + 1 \in DOMAIN queue[b] /\ tail[i] = queue[b][i + 1]
    <3>1. IsSeq(queue[b]) /\ queue[b] # <<>>
      BY <1>5 DEF FinishWrite, Saved, JInv, QueueInv, QueueSound, ImageSound
    <3> QED
      BY <3>1, TailForm
  <2> HIDE DEF tail
  <2>3. \A c \in Buses \ {b} : queue'[c] = queue[c]
    BY <2>1 DEF JInv, QueueInv, Domains
  <2>4. CASE queue'[b] = tail
    BY <2>2, <2>3, <2>4 DEF JobsKept
  <2>5. CASE queue'[b] = Append(tail, RejectJob(s, env[s]))
    <3>1. RejectJob(s, env[s]).kind = "reject"
      BY DEF RejectJob
    <3>2. /\ DOMAIN tail = 1..Len(tail) /\ Len(tail) \in Nat
          /\ DOMAIN queue'[b] = 1..(Len(tail) + 1)
          /\ \A k \in 1..Len(tail) : queue'[b][k] = tail[k]
          /\ queue'[b][Len(tail) + 1] = RejectJob(s, env[s])
      BY <2>2, <2>5, AppendForm DEF IsSeq
    <3>3. \A i \in DOMAIN queue'[b] : i \in DOMAIN tail \/ i = Len(tail) + 1
      BY <3>2
    <3>4. \A i \in DOMAIN queue'[b] : \/ \E k \in DOMAIN queue[b] : queue'[b][i] = queue[b][k]
                                      \/ queue'[b][i].kind = "reject"
      BY <2>2, <3>1, <3>2, <3>3
    <3> QED
      BY <2>3, <3>4 DEF JobsKept
  <2> QED
    BY <2>1, <2>4, <2>5 DEF JInv, QueueInv, Domains
<1>6. ASSUME NEW b \in Buses, Crash(b)
      PROVE  JobsKept
  <2>1. queue'[b] = <<>> /\ \A c \in Buses \ {b} : queue'[c] = queue[c]
    BY <1>6 DEF Crash, CrashBackbone, JInv, QueueInv, Domains
  <2> QED
    BY <2>1 DEF JobsKept
<1> QED
  BY <1>1, <1>2, <1>3, <1>4, <1>5, <1>6
  DEF Next, Read, Job, BridgeAnswers, BridgeTimesOut, Submit, NormalizeCausalHash, CheckNonce, CheckKey,
      CheckFingerprint, CheckParent, BridgeEnds, Check, CheckLast, Dispatch, Load, LoadState, Save, SaveTable,
      Tick, Finished, vars, backbone

(* A step that loads and renames nothing.                                  *)
TablesRest ==
  /\ UNCHANGED <<commands, nonces>>
  /\ \A b \in Buses : image'[b] # None => image'[b] = image[b] /\ unsaved'[b] = unsaved[b]
  /\ crashes' = crashes =>
       \A b \in Buses : image[b] # None /\ "nonces" \in unsaved[b] =>
                        image'[b] = image[b] /\ unsaved'[b] = unsaved[b]

LEMMA NextTables ==
  ASSUME JInv, NonceInv, [Next]_vars
  PROVE  /\ clock' \in Nat /\ clock <= clock' /\ crashes' \in {crashes, crashes + 1}
         /\ \/ TablesRest
            \/ \E b \in Buses : Load(b)
            \/ \E b \in Buses : Save(b)
<1>1. clock \in Nat /\ crashes \in Nat
  BY DEF NonceInv
<1>2. CASE UNCHANGED <<commands, nonces, image, unsaved, clock, crashes>>
  BY <1>1, <1>2 DEF TablesRest
<1>3. CASE Tick
  BY <1>1, <1>3 DEF Tick, TablesRest, backbone
<1>4. ASSUME NEW b \in Buses, FinishWrite(b)
      PROVE  UNCHANGED <<clock, crashes>> /\ TablesRest
  <2>1. /\ UNCHANGED <<commands, nonces, unsaved, clock, crashes>>
        /\ unsaved[b] = {} /\ image' = [image EXCEPT ![b] = None]
    BY <1>4 DEF FinishWrite, Saved, UnchangedByJob
  <2> QED
    BY <2>1 DEF TablesRest, JInv, QueueInv, Domains
<1>5. ASSUME NEW b \in Buses, Crash(b)
      PROVE  clock' = clock /\ crashes' = crashes + 1 /\ TablesRest
  <2>1. /\ UNCHANGED <<commands, nonces, clock>> /\ crashes' = crashes + 1
        /\ image' = [image EXCEPT ![b] = None] /\ unsaved' = [unsaved EXCEPT ![b] = {}]
    BY <1>5 DEF Crash, CrashBackbone
  <2> QED
    BY <1>1, <2>1 DEF TablesRest, JInv, QueueInv, Domains
<1>6. ASSUME NEW b \in Buses, Load(b) \/ Save(b)
      PROVE  UNCHANGED <<clock, crashes>>
  BY <1>6 DEF Load, Save, UnchangedByJob
<1>7. ASSUME NEW s \in Submissions, NEW c \in Commands, NEW b \in Buses, Submit(s, c, b)
      PROVE  UNCHANGED <<commands, nonces, image, unsaved, clock, crashes>>
  BY <1>7 DEF Submit
<1>8. ASSUME NEW s \in Submissions, Read(s) \/ BridgeEnds(s)
      PROVE  UNCHANGED <<commands, nonces, image, unsaved, clock, crashes>>
  BY <1>8 DEF Read, NormalizeCausalHash, CheckNonce, CheckKey, CheckFingerprint, CheckParent, BridgeEnds,
              Check, CheckLast, UnchangedByGuard
<1>9. CASE Finished \/ UNCHANGED vars
  BY <1>2, <1>9 DEF Finished, vars, backbone
<1> QED
  BY <1>1, <1>2, <1>3, <1>4, <1>5, <1>6, <1>7, <1>8, <1>9
  DEF Next, Job, BridgeAnswers, BridgeTimesOut

(* One bus renames.                                                        *)
LEMMA SaveForm ==
  ASSUME JInv, OneBus, NEW b \in Buses, Save(b)
  PROVE  /\ image[b] # None /\ image' = image /\ \A c \in Buses : c = b
         /\ \/ /\ "commands" \in unsaved[b] /\ unsaved'[b] = unsaved[b] \ {"commands"}
               /\ commands' = image[b].commands /\ nonces' = nonces
            \/ /\ "nonces" \in unsaved[b] /\ unsaved'[b] = unsaved[b] \ {"nonces"}
               /\ commands' = commands /\ nonces' = image[b].nonces
<1>1. PICK t \in Tables : SaveTable(b, t)
  BY DEF Save
<1>2. /\ image[b] # None /\ t \in unsaved[b] /\ image' = image
      /\ unsaved'[b] = unsaved[b] \ {t}
      /\ commands' = IF t = "commands" THEN image[b].commands ELSE commands
      /\ nonces' = IF t = "nonces" THEN image[b].nonces ELSE nonces
  BY <1>1 DEF SaveTable, JInv, QueueInv, Domains
<1> QED
  BY <1>2 DEF Tables, OneBus

(* A nonce on record stays there until the window of its owner closes.     *)
LEMMA HeldStays ==
  ASSUME JInv, NonceInv, OneBus, [Next]_vars, NEW nonce, Held(nonce)
  PROVE  Held(nonce)'
<1>1. Carried /\ clock \in Nat /\ clock' \in Nat /\ clock <= clock'
  BY NextCarries, NextTables DEF NonceInv
<1>2. CASE ClosedBy(nonce, clock)
  <2> PICK u \in Nat : u = clock'
    BY <1>1
  <2>1. ClosedBy(nonce, u)'
    BY <1>1, <1>2, OwnersStay
  <2> QED
    BY <2>1 DEF Held, ClosedBy
<1>3. ASSUME NEW m \in nonces, m.nonce = nonce
      PROVE  Held(nonce)'
  <2>1. NonceOwned(m) /\ NonceOwned(m)'
    BY <1>1, <1>3, OwnersStay DEF NonceInv
  <2>2. CASE m \in nonces'
    BY <1>3, <2>2 DEF Held, NonceUsed
  <2>3. CASE m \notin nonces'
    <3>1. PICK b \in Buses : Save(b)
      BY <1>3, <2>3, NextTables DEF TablesRest, Load, LoadState
    <3>2. "nonces" \in unsaved[b] /\ nonces' = image[b].nonces /\ image[b] # None
      BY <1>3, <2>3, <3>1, SaveForm
    <3>3. m.expires <= clock
      BY <1>3, <2>3, <3>2 DEF NonceInv, NoncesSaved
    <3>4. PICK q \in Submissions : /\ pc[q] \in Wrote /\ env[q].nonce = nonce
                                   /\ env[q].issued + Window = m.expires
      BY <1>3, <2>1 DEF NonceOwned
    <3>5. ClosedBy(nonce, clock)
      BY <3>3, <3>4 DEF ClosedBy
    <3> QED
      BY <1>2, <3>5
  <2> QED
    BY <2>2, <2>3
<1> QED
  BY <1>2, <1>3 DEF Held, NonceUsed

(* A nonce that is about to be renamed is so still, or is on record.       *)
LEMMA ComingStays ==
  ASSUME JInv, NonceInv, OneBus, [Next]_vars, crashes' = 0, NEW nonce, Coming(nonce)
  PROVE  (Held(nonce) \/ Coming(nonce))'
<1>1. PICK b \in Buses : /\ image[b] # None /\ "nonces" \in unsaved[b]
                         /\ \E n \in image[b].nonces : n.nonce = nonce
  BY DEF Coming
<1>2. crashes' = crashes
  BY NextTables DEF NonceInv
<1>3. CASE TablesRest
  BY <1>1, <1>2, <1>3 DEF TablesRest, Coming
<1>4. ASSUME NEW c \in Buses, Load(c)
      PROVE  FALSE
  BY <1>1, <1>4 DEF Load, LoadState, OneBus
<1>5. ASSUME NEW c \in Buses, Save(c)
      PROVE  (Held(nonce) \/ Coming(nonce))'
  <2>1. c = b
    BY DEF OneBus
  <2>2. CASE nonces' = image[b].nonces
    BY <1>1, <2>2 DEF Held, NonceUsed
  <2>3. CASE image' = image /\ unsaved'[b] = unsaved[b] \ {"commands"}
    BY <1>1, <2>3 DEF Coming
  <2> QED
    BY <1>5, <2>1, <2>2, <2>3, SaveForm
<1> QED
  BY <1>3, <1>4, <1>5, NextTables

(* What the first job of a queue makes of the tables that it loads.        *)
LEMMA LoadForm ==
  ASSUME JInv, NonceInv, OneBus, NEW b \in Buses, Load(b)
  PROVE  /\ UNCHANGED <<commands, nonces, pc, env, clock>> /\ unsaved'[b] = Tables
         /\ \/ /\ image'[b].commands = commands
               /\ \A n \in image'[b].nonces : n \in nonces
               /\ \A n \in nonces : n \in image'[b].nonces \/ ~(n.expires > clock)
            \/ \E q \in Submissions :
                 /\ pc[q] \in {"deny", "fail"}
                 /\ image'[b].commands = Append(commands, Row(env[q]))
                 /\ \E n \in image'[b].nonces : n.nonce = env[q].nonce
                 /\ \A n \in nonces : n \in image'[b].nonces
                 /\ \A n \in image'[b].nonces :
                      \/ n \in nonces
                      \/ n = [nonce |-> env[q].nonce, expires |-> env[q].issued + Window]
<1> DEFINE job == Head(queue[b])
           state == [commands |-> commands, nonces |-> nonces]
<1>1. /\ UNCHANGED <<commands, nonces, pc, env, clock>> /\ unsaved'[b] = Tables
      /\ image'[b] = Effect(job, state) /\ queue[b] # <<>>
  BY DEF Load, LoadState, UnchangedByJob, JInv, QueueInv, Domains
<1>2. /\ 1 \in DOMAIN queue[b] /\ job = queue[b][1]
  BY <1>1, TailForm DEF JInv, QueueInv, QueueSound
<1>3. JobSound(job) /\ (job.kind = "purge" => job.now \in 0..clock)
  BY <1>2 DEF JInv, QueueInv, QueueSound, NonceInv
<1> HIDE DEF job
<1>4. CASE job.kind = "purge"
  <2>1. image'[b] = [state EXCEPT !.nonces = {n \in @ : n.expires > job.now}]
    BY <1>1, <1>4 DEF Effect, Purged
  <2>2. /\ image'[b].commands = commands
        /\ image'[b].nonces = {n \in nonces : n.expires > job.now}
    BY <2>1
  <2>3. ASSUME NEW n \in nonces, n.expires > clock
        PROVE  n.expires > job.now
    <3>1. PICK q \in Submissions : pc[q] \in Wrote /\ env[q].issued + Window = n.expires
      BY DEF NonceInv, NonceOwned
    <3>2. n.expires \in Nat /\ clock \in Nat
      BY <3>1, CommandBusAssumption DEF NonceInv, Wrote
    <3> QED
      BY <1>3, <1>4, <2>3, <3>2
  <2> QED
    BY <1>1, <2>2, <2>3
<1>5. CASE job.kind = "reject" /\ HasId(commands, job.envelope.id)
  <2>1. image'[b] = state
    BY <1>1, <1>5 DEF Effect, Rejected
  <2> QED
    BY <1>1, <2>1
<1>6. CASE job.kind = "reject" /\ ~HasId(commands, job.envelope.id)
  <2>1. PICK q \in Submissions : pc[q] \in {"deny", "fail"} /\ job.envelope = env[q]
    BY <1>3, <1>6 DEF JobSound
  <2>2. /\ image'[b].commands = Append(commands, Row(env[q]))
        /\ image'[b].nonces = IF \E n \in nonces : n.nonce = env[q].nonce
                              THEN nonces
                              ELSE nonces \cup {[nonce |-> env[q].nonce, expires |-> env[q].issued + Window]}
    BY <1>1, <1>6, <2>1 DEF Effect, Rejected
  <2>3. \E n \in image'[b].nonces : n.nonce = env[q].nonce
    BY <2>2
  <2> QED
    BY <1>1, <2>1, <2>2, <2>3
<1> QED
  BY <1>3, <1>4, <1>5, <1>6 DEF JobSound

(* The image keeps what its job owes to the nonces.                        *)
LEMMA NoncesSavedStays ==
  ASSUME JInv, NonceInv, OneBus, [Next]_vars, NEW b \in Buses, image'[b] # None
  PROVE  NoncesSaved(b)'
<1>1. Carried /\ clock \in Nat /\ clock' \in Nat /\ clock <= clock'
  BY NextCarries, NextTables DEF NonceInv
<1>2. \A n : NonceOwned(n) => NonceOwned(n)'
  BY <1>1, OwnersStay
<1>3. \A n : NonceOwned(n) => n.expires \in Nat
  BY CommandBusAssumption DEF NonceOwned, NonceInv, Wrote
<1>4. \A q \in Submissions : pc[q] \in Wrote => /\ pc'[q] \in Wrote /\ env'[q].id = env[q].id
                                              /\ env'[q].nonce = env[q].nonce
  BY <1>1 DEF Carried, Wrote
<1>5. CASE TablesRest
  <2>1. /\ image'[b] = image[b] /\ unsaved'[b] = unsaved[b] /\ image[b] # None
        /\ commands' = commands /\ nonces' = nonces
    BY <1>5 DEF TablesRest
  <2>2. NoncesSaved(b) /\ \A n \in nonces : NonceOwned(n)
    BY <2>1 DEF NonceInv
  <2>3. (\A n \in image[b].nonces : NonceOwned(n))'
    BY <1>2, <2>1, <2>2 DEF NoncesSaved
  <2>4. IF "nonces" \in unsaved'[b]
        THEN \A n \in nonces' : n \in image'[b].nonces \/ n.expires <= clock'
        ELSE nonces' = image'[b].nonces
    BY <1>1, <1>3, <2>1, <2>2 DEF NoncesSaved
  <2>5. \A i \in DOMAIN image'[b].commands \ DOMAIN commands' :
          \E q \in Submissions : /\ pc'[q] \in Wrote
                                 /\ env'[q].id = image'[b].commands[i].id
                                 /\ \E n \in image'[b].nonces : n.nonce = env'[q].nonce
    BY <1>4, <2>1, <2>2 DEF NoncesSaved
  <2> QED
    BY <2>3, <2>4, <2>5 DEF NoncesSaved, Wrote
<1>6. ASSUME NEW c \in Buses, Load(c)
      PROVE  NoncesSaved(b)'
  <2>1. Load(b)
    BY <1>6 DEF OneBus
  <2>2. /\ UNCHANGED <<commands, nonces, pc, env, clock>> /\ "nonces" \in unsaved'[b]
    BY <2>1, LoadForm DEF Tables
  <2>3. CASE /\ image'[b].commands = commands
             /\ \A n \in image'[b].nonces : n \in nonces
             /\ \A n \in nonces : n \in image'[b].nonces \/ ~(n.expires > clock)
    <3>1. \A n \in nonces : n \in image'[b].nonces \/ n.expires <= clock
      BY <1>1, <1>3, <2>3 DEF NonceInv
    <3>2. (\A n \in image[b].nonces : NonceOwned(n))'
      BY <1>2, <2>3 DEF NonceInv
    <3> QED
      BY <2>2, <2>3, <3>1, <3>2 DEF NoncesSaved
  <2>4. ASSUME NEW q \in Submissions, pc[q] \in {"deny", "fail"},
               image'[b].commands = Append(commands, Row(env[q])),
               \E n \in image'[b].nonces : n.nonce = env[q].nonce,
               \A n \in nonces : n \in image'[b].nonces,
               \A n \in image'[b].nonces :
                 \/ n \in nonces
                 \/ n = [nonce |-> env[q].nonce, expires |-> env[q].issued + Window]
        PROVE  NoncesSaved(b)'
    <3>1. (\A n \in image[b].nonces : NonceOwned(n))'
      <4> SUFFICES ASSUME NEW n \in image'[b].nonces PROVE NonceOwned(n)'
        OBVIOUS
      <4>1. CASE n \in nonces
        BY <1>2, <4>1 DEF NonceInv
      <4>2. CASE n = [nonce |-> env[q].nonce, expires |-> env[q].issued + Window]
        <5>1. n.nonce = env'[q].nonce /\ n.expires = env'[q].issued + Window /\ pc'[q] \in Wrote
          BY <2>2, <2>4, <4>2 DEF Wrote
        <5> QED
          BY <5>1 DEF NonceOwned, Wrote
      <4> QED
        BY <2>4, <4>1, <4>2
    <3>2. \A i \in DOMAIN image'[b].commands \ DOMAIN commands : image'[b].commands[i] = Row(env[q])
      <4>1. /\ DOMAIN commands = 1..Len(commands) /\ Len(commands) \in Nat
            /\ DOMAIN image'[b].commands = 1..(Len(commands) + 1)
            /\ image'[b].commands[Len(commands) + 1] = Row(env[q])
        BY <2>4, AppendForm DEF JInv, QueueInv, IsSeq
      <4> QED
        BY <4>1
    <3>3. Row(env[q]).id = env[q].id
      BY DEF Row
    <3>4. \A i \in DOMAIN image'[b].commands \ DOMAIN commands' :
            /\ pc'[q] \in Wrote
            /\ env'[q].id = image'[b].commands[i].id
            /\ \E n \in image'[b].nonces : n.nonce = env'[q].nonce
      BY <2>2, <2>4, <3>2, <3>3 DEF Wrote
    <3> QED
      BY <2>2, <2>4, <3>1, <3>4 DEF NoncesSaved, Wrote
  <2> QED
    BY <2>1, <2>3, <2>4, LoadForm
<1>7. ASSUME NEW c \in Buses, Save(c)
      PROVE  NoncesSaved(b)'
  <2>1. Save(b) /\ image'[b] = image[b] /\ image[b] # None
    BY <1>7, SaveForm DEF OneBus
  <2>2. NoncesSaved(b)
    BY <2>1 DEF NonceInv
  <2>3. (\A n \in image[b].nonces : NonceOwned(n))'
    BY <1>2, <2>1, <2>2 DEF NoncesSaved
  <2>4. UNCHANGED <<pc, env, clock>>
    BY <2>1 DEF Save, UnchangedByJob
  <2>5. CASE /\ unsaved'[b] = unsaved[b] \ {"commands"}
             /\ commands' = image[b].commands /\ nonces' = nonces
    BY <2>1, <2>2, <2>3, <2>4, <2>5 DEF NoncesSaved
  <2>6. CASE /\ unsaved'[b] = unsaved[b] \ {"nonces"}
             /\ commands' = commands /\ nonces' = image[b].nonces
    BY <2>1, <2>2, <2>3, <2>4, <2>6 DEF NoncesSaved, Wrote
  <2> QED
    BY <2>1, <2>5, <2>6, SaveForm
<1> QED
  BY <1>5, <1>6, <1>7, NextTables

(* As long as nothing crashes, every row has brought its nonce, or the job *)
(* that saves the row still does.                                          *)
LEMMA RowsStayCovered ==
  ASSUME JInv, NonceInv, OneBus, [Next]_vars, crashes' = 0, NEW i \in DOMAIN commands'
  PROVE  RowCovered(commands[i])'
<1>1. Carried /\ crashes = 0
  BY NextCarries, NextTables DEF NonceInv
<1>2. \A q \in Submissions : pc[q] \in Wrote => /\ pc'[q] \in Wrote /\ env'[q].id = env[q].id
                                              /\ env'[q].nonce = env[q].nonce
  BY <1>1 DEF Carried, Wrote
<1>3. CASE i \in DOMAIN commands
  <2>1. commands'[i] = commands[i]
    BY <1>3, RowsStay
  <2>2. PICK q \in Submissions : /\ pc[q] \in Wrote /\ env[q].id = commands[i].id
                                 /\ Held(env[q].nonce) \/ Coming(env[q].nonce)
    BY <1>1, <1>3 DEF NonceInv, RowCovered
  <2> PICK nonce : nonce = env[q].nonce
    OBVIOUS
  <2>3. (Held(nonce) \/ Coming(nonce))'
    BY <2>2, HeldStays, ComingStays
  <2>4. /\ pc'[q] \in Wrote /\ env'[q].id = commands'[i].id /\ env'[q].nonce = nonce
    BY <1>2, <2>1, <2>2
  <2>5. (Held(env[q].nonce) \/ Coming(env[q].nonce))'
    BY <2>3, <2>4 DEF Held, Coming, NonceUsed, ClosedBy
  <2> QED
    BY <2>4, <2>5 DEF RowCovered, Wrote
<1>4. CASE i \notin DOMAIN commands
  <2>1. PICK b \in Buses : Save(b)
    BY <1>4, NextTables DEF TablesRest, Load, LoadState
  <2>2. /\ image[b] # None /\ image' = image /\ unsaved'[b] = unsaved[b] \ {"commands"}
        /\ commands' = image[b].commands /\ nonces' = nonces
    BY <1>4, <2>1, SaveForm
  <2>3. UNCHANGED <<pc, env>>
    BY <2>1 DEF Save, UnchangedByJob
  <2>4. NoncesSaved(b)
    BY <2>2 DEF NonceInv
  <2>5. PICK q \in Submissions : /\ pc[q] \in Wrote /\ env[q].id = image[b].commands[i].id
                                 /\ \E n \in image[b].nonces : n.nonce = env[q].nonce
    BY <1>4, <2>2, <2>4 DEF NoncesSaved
  <2>6. (Held(env[q].nonce) \/ Coming(env[q].nonce))'
    <3>1. CASE "nonces" \in unsaved[b]
      BY <2>2, <2>3, <2>5, <3>1 DEF Coming
    <3>2. CASE "nonces" \notin unsaved[b]
      BY <2>2, <2>3, <2>4, <2>5, <3>2 DEF Held, NonceUsed, NoncesSaved
    <3> QED
      BY <3>1, <3>2
  <2> QED
    BY <2>2, <2>3, <2>5, <2>6 DEF RowCovered
<1> QED
  BY <1>3, <1>4

(* Only the look for the nonce lets a submission on.                       *)
NonceLookedUp ==
  \A s \in Submissions :
    Checked(s)' =>
      \/ Checked(s) /\ checked'[s] = checked[s]
      \/ /\ pc[s] = "nonce" /\ ~NonceUsed(env[s].nonce) /\ checked'[s] = clock
         /\ UNCHANGED <<env, before, crashes>> /\ \A q \in Submissions : pc[q] # "idle" => pc'[q] # "idle"

LEMMA NextLooksNonceUp ==
  ASSUME JInv, NonceInv, [Next]_vars
  PROVE  NonceLookedUp /\ DOMAIN checked' = Submissions
<1> DEFINE Stays == checked' = checked /\ \A s \in Submissions : Checked(s)' => Checked(s)
<1>1. CASE Stays
  BY <1>1 DEF NonceLookedUp, NonceInv
<1>2. ASSUME NEW s \in Submissions, NEW c \in Commands, NEW b \in Buses, Submit(s, c, b)
      PROVE  Stays
  BY <1>2 DEF Checked, Submit, Validate, Throw, Await, Goto, JInv, QueueInv, Domains
<1>3. ASSUME NEW s \in Submissions, NormalizeCausalHash(s)
      PROVE  Stays
  <2>1. UNCHANGED <<dispatched, checked>> /\ \E e : Validate(s, e)
    BY <1>3 DEF NormalizeCausalHash, history
  <2> QED
    BY <2>1 DEF Checked, Validate, Throw, Await, Goto, JInv, QueueInv, Domains
<1>4. ASSUME NEW s \in Submissions, CheckNonce(s)
      PROVE  NonceLookedUp /\ DOMAIN checked' = Submissions
  <2> DEFINE passes == ~NonceUsed(env[s].nonce) /\ InWindow(env[s])
  <2>1. /\ Check(s, "nonce", passes, "key")
        /\ checked' = [checked EXCEPT ![s] = clock]
    BY <1>4 DEF CheckNonce
  <2>2. /\ \A r \in Submissions \ {s} : pc'[r] = pc[r]
        /\ pc'[s] \in {"key", "deny"} /\ pc[s] = "nonce"
        /\ pc'[s] # "deny" => ~NonceUsed(env[s].nonce)
        /\ dispatched' = dispatched /\ UNCHANGED <<env, before, crashes>>
    <3>1. passes => ~NonceUsed(env[s].nonce)
      OBVIOUS
    <3>2. UNCHANGED <<env, before, crashes>>
      BY <2>1 DEF Check, UnchangedByGuard
    <3> HIDE DEF passes
    <3> QED
      BY <2>1, <3>1, <3>2, CheckLeads
  <2>3. s \notin dispatched
    BY <2>2 DEF JInv, ParentSound, Routed
  <2>4. /\ DOMAIN checked' = Submissions /\ checked'[s] = clock
        /\ \A r \in Submissions \ {s} : checked'[r] = checked[r]
    BY <2>1 DEF NonceInv
  <2> QED
    BY <2>2, <2>3, <2>4 DEF NonceLookedUp, Checked
<1>5. ASSUME NEW s \in Submissions, CheckKey(s) \/ CheckFingerprint(s) \/ CheckParent(s) \/ BridgeEnds(s)
      PROVE  Stays
  <2>1. checked' = checked
    BY <1>5 DEF CheckKey, CheckFingerprint, CheckParent, BridgeEnds
  <2>2. CASE \E passes : \E at, next \in {"key", "print", "causal"} : Check(s, at, passes, next)
    BY <2>1, <2>2, CheckLeads DEF Checked
  <2>3. CASE \E passes : \E at \in {"print", "causal"} : CheckLast(s, at, passes)
    BY <2>1, <2>3, CheckLastLeads DEF Checked
  <2>4. CASE BridgeEnds(s)
    BY <2>1, <2>4 DEF BridgeEnds, Throw, Await, Goto, Checked, JInv, QueueInv, Domains
  <2> QED
    BY <1>5, <2>2, <2>3, <2>4 DEF CheckKey, CheckFingerprint, CheckParent
<1>6. ASSUME NEW b \in Buses, Load(b) \/ Save(b) \/ FinishWrite(b) \/ Crash(b)
      PROVE  Stays
  <2>1. UNCHANGED <<dispatched, checked>>
    BY <1>6 DEF Load, Save, FinishWrite, Crash, UnchangedByJob, history
  <2>2. \A r \in Submissions : pc'[r] \in {"key", "print", "causal"} => pc[r] = pc'[r]
    BY <1>6 DEF Load, Save, FinishWrite, Crash, Goto, JInv, QueueInv, Domains
  <2> QED
    BY <2>1, <2>2 DEF Checked
<1>7. CASE Tick \/ Finished \/ UNCHANGED vars
  BY <1>7, <1>1 DEF Tick, Finished, vars, control, history, Checked
<1> QED
  BY <1>1, <1>2, <1>3, <1>4, <1>5, <1>6, <1>7
  DEF Next, Read, Job, BridgeAnswers, BridgeTimesOut, NonceInv

LEMMA NonceInvInit ==
  ASSUME Init
  PROVE  NonceInv
BY DEF Init, BackboneInit, NonceInv, Answered, Checked

(* A command is answered when its job has renamed both tables.             *)
LEMMA AnsweredStayHeld ==
  ASSUME JInv, ReplayInv, NonceInv, OneBus, [Next]_vars, crashes' = 0,
         NEW r \in Answered', OwnNonce(r)'
  PROVE  Held(env[r].nonce)'
<1>1. Carried /\ crashes = 0 /\ ReplayInv'
  BY NextCarries, NextTables, ReplayInvNext DEF NonceInv
<1>2. CASE r \in Answered
  <2>1. r \in Submissions /\ pc[r] # "idle" /\ env'[r].nonce = env[r].nonce
    BY <1>1, <1>2 DEF Carried, Answered
  <2>2. Held(env[r].nonce)
    BY <1>1, <1>2, <2>1, OwnersStay DEF NonceInv
  <2> PICK nonce : nonce = env[r].nonce
    OBVIOUS
  <2>3. Held(nonce)'
    BY <2>2, HeldStays
  <2> QED
    BY <2>1, <2>3 DEF Held, NonceUsed, ClosedBy
<1>3. CASE r \notin Answered
  <2>1. PICK b \in Buses : FinishWrite(b)
    <3>1. r \in Submissions /\ pc[r] # "answered" /\ pc'[r] = "answered"
      BY <1>3 DEF Answered
    <3>2. ASSUME NEW s \in Submissions, Move(s)
          PROVE  FALSE
      BY <3>1, <3>2 DEF Move
    <3>3. ~(\E b \in Buses : Load(b) \/ Save(b)) /\ ~Tick /\ ~Finished /\ ~UNCHANGED vars
      BY <3>1 DEF Load, Save, Tick, Finished, vars, control
    <3>4. ~(\E b \in Buses : Crash(b))
      BY <3>1 DEF Crash
    <3> QED
      BY <3>2, <3>3, <3>4, SubmitMoves, ReadMoves, BridgeMoves
      DEF Next, Job, BridgeAnswers, BridgeTimesOut
  <2>2. \A c \in Buses : image'[c] = None
    BY <2>1 DEF FinishWrite, OneBus, JInv, QueueInv, Domains
  <2>3. PICK i \in DOMAIN commands' : commands'[i].id = env'[r].id
    BY <1>1 DEF ReplayInv, HasId
  <2>4. PICK q \in Submissions : /\ pc'[q] \in Wrote /\ env'[q].id = env'[r].id
                                 /\ (Held(env[q].nonce) \/ Coming(env[q].nonce))'
    BY <2>3, RowsStayCovered DEF RowCovered, Wrote
  <2>5. Held(env[q].nonce)'
    BY <2>2, <2>4 DEF Coming
  <2>6. env'[q].nonce = env'[r].nonce
    BY <2>4 DEF OwnNonce, Wrote
  <2> QED
    BY <2>5, <2>6 DEF Held, NonceUsed, ClosedBy
<1> QED
  BY <1>2, <1>3

(* A nonce that is neither on record nor open was answered before, and its *)
(* window has closed.                                                      *)
LEMMA NonceFreeStays ==
  ASSUME JInv, ReplayInv, NonceInv, OneBus, [Next]_vars, NEW s \in Submissions, Checked(s)'
  PROVE  NonceFree(s)'
<1>1. Carried /\ Noted /\ NonceLookedUp
  BY NextCarries, NextNotes, NextLooksNonceUp
<1>2. pc[s] # "idle" /\ before'[s] = before[s] /\ env'[s].nonce = env[s].nonce
  BY <1>1 DEF NonceLookedUp, Noted, Carried, Checked, JInv, ParentSound, Routed
<1> SUFFICES ASSUME NEW r \in before[s], crashes' = 0, env'[r].nonce = env'[s].nonce, OwnNonce(r)'
             PROVE  \E q \in Submissions \ {s} :
                      /\ pc'[q] # "idle"
                      /\ env'[q].nonce = env'[s].nonce
                      /\ env'[q].issued + Window <= checked'[s]
  BY <1>2 DEF NonceFree
<1>3. r \in Submissions /\ pc[r] = "answered" /\ crashes = 0
  BY NextTables DEF ReplayInv, Answered, NonceInv
<1>4. OwnNonce(r) /\ env[r].nonce = env[s].nonce
  BY <1>1, <1>2, <1>3, OwnersStay DEF Carried
<1>5. CASE Checked(s) /\ checked'[s] = checked[s]
  <2>1. PICK q \in Submissions \ {s} : /\ pc[q] # "idle"
                                       /\ env[q].nonce = env[s].nonce
                                       /\ env[q].issued + Window <= checked[s]
    BY <1>3, <1>4, <1>5 DEF NonceInv, NonceFree
  <2> QED
    BY <1>1, <1>2, <1>5, <2>1 DEF Carried
<1>6. CASE pc[s] = "nonce" /\ ~NonceUsed(env[s].nonce) /\ checked'[s] = clock
  <2>1. Held(env[r].nonce)
    BY <1>3, <1>4 DEF NonceInv, Answered
  <2>2. PICK q \in Submissions : /\ pc[q] \in Wrote /\ env[q].nonce = env[r].nonce
                                 /\ env[q].issued + Window <= clock
    BY <1>4, <1>6, <2>1 DEF Held, ClosedBy
  <2>3. q # s /\ pc[q] # "idle"
    BY <1>6, <2>2 DEF Wrote
  <2> QED
    BY <1>1, <1>2, <1>4, <1>6, <2>2, <2>3 DEF Carried
<1> QED
  BY <1>1, <1>5, <1>6 DEF NonceLookedUp

LEMMA NonceInvNext ==
  ASSUME JInv, ReplayInv, NonceInv, OneBus, [Next]_vars
  PROVE  NonceInv'
<1>1. Carried /\ DOMAIN checked' = Submissions
  BY NextCarries, NextLooksNonceUp
<1>2. clock \in Nat /\ clock' \in Nat /\ clock <= clock' /\ crashes' \in Nat
  BY NextTables DEF NonceInv
<1>3. ASSUME NEW s \in Submissions, pc'[s] # "idle"
      PROVE  env'[s].issued \in Nat
  <2>1. CASE pc[s] # "idle"
    BY <1>1, <2>1 DEF Carried, NonceInv
  <2>2. CASE pc[s] = "idle"
    <3>1. ASSUME NEW r \in Submissions, Read(r) \/ BridgeEnds(r)
          PROVE  FALSE
      <4>1. Move(r)
        BY <3>1, ReadMoves, BridgeMoves
      <4>2. r = s
        BY <1>3, <2>2, <4>1 DEF Move
      <4>3. pc[r] # "idle"
        BY <3>1 DEF Read, NormalizeCausalHash, CheckNonce, CheckKey, CheckFingerprint, CheckParent,
                    BridgeEnds, Check, CheckLast
      <4> QED
        BY <2>2, <4>2, <4>3
    <3>2. ~(\E b \in Buses : Load(b) \/ Save(b) \/ FinishWrite(b) \/ Crash(b))
      BY <1>3, <2>2 DEF Load, Save, FinishWrite, Goto, Crash, UnchangedByJob, JInv, QueueInv, Domains
    <3>3. ~Tick /\ ~Finished /\ ~UNCHANGED vars
      BY <1>3, <2>2 DEF Tick, Finished, vars, control
    <3>4. PICK r \in Submissions, c \in Commands, b \in Buses : Submit(r, c, b)
      BY <3>1, <3>2, <3>3 DEF Next, Job, BridgeAnswers, BridgeTimesOut
    <3>5. r = s
      BY <1>3, <2>2, <3>4, SubmitMoves DEF Move
    <3>6. env'[s] = ToEnvelope(s, c, b)
      BY <3>4, <3>5 DEF Submit, JInv, QueueInv, Domains
    <3> QED
      BY <1>2, <3>6, CommandBusAssumption DEF ToEnvelope, Default
  <2> QED
    BY <2>1, <2>2
<1>4. ASSUME NEW b \in Buses, NEW i \in DOMAIN queue'[b], queue'[b][i].kind = "purge"
      PROVE  queue'[b][i].now \in 0..clock'
  BY <1>2, <1>4, NextKeepsJobs DEF JobsKept, NonceInv
<1>5. ASSUME NEW n \in nonces'
      PROVE  NonceOwned(n)'
  <2>1. NonceOwned(n)
    <3>1. CASE n \in nonces
      BY <3>1 DEF NonceInv
    <3>2. CASE n \notin nonces
      <4>1. PICK b \in Buses : Save(b)
        BY <3>2, NextTables DEF TablesRest, Load, LoadState
      <4>2. image[b] # None /\ nonces' = image[b].nonces
        BY <3>2, <4>1, SaveForm
      <4> QED
        BY <4>2 DEF NonceInv, NoncesSaved
    <3> QED
      BY <3>1, <3>2
  <2> QED
    BY <1>1, <2>1, OwnersStay
<1>6. \A b \in Buses : image'[b] # None => NoncesSaved(b)'
  BY NoncesSavedStays
<1>7. ASSUME crashes' = 0
      PROVE  /\ (\A i \in DOMAIN commands : RowCovered(commands[i]))'
             /\ (\A r \in Answered : OwnNonce(r) => Held(env[r].nonce))'
  BY <1>7, RowsStayCovered, AnsweredStayHeld
<1>8. (\A s \in Submissions : Checked(s) => NonceFree(s))'
  BY NonceFreeStays
<1> QED
  BY <1>1, <1>2, <1>3, <1>4, <1>5, <1>6, <1>7, <1>8 DEF NonceInv

LEMMA NonceInvHolds ==
  ASSUME OneBus
  PROVE  Spec => []NonceInv
<1>1. JInv /\ ReplayInv /\ NonceInv /\ [Next]_vars => NonceInv'
  BY NonceInvNext
<1> QED
  BY <1>1, NonceInvInit, ReplayInvHolds, JInvHolds, PTL DEF Spec

-----------------------------------------------------------------------------
(* The types.                                                              *)

(* None is no function, hence no record.                                   *)
NoneIsNoRecord == None # [x \in DOMAIN None |-> None[x]]

LEMMA RecordsAreSome ==
  ASSUME NoneIsNoRecord
  PROVE  /\ \A c, n : [commands |-> c, nonces |-> n] # None
         /\ \A e, h : [e EXCEPT !.causal = h] # None
         /\ \A e, n : [e EXCEPT !.nonces = n] # None
         /\ \A s, c, b : ToEnvelope(s, c, b) # None
BY DEF NoneIsNoRecord, ToEnvelope

(* What the other invariants do not say of the types.                      *)
OwnTypes ==
  /\ \A b \in Buses : /\ unsaved[b] \subseteq Tables
                      /\ image[b] = None => unsaved[b] = {}
  /\ clock \in Times /\ crashes \in 0..MaxCrashes
  /\ pc \in [Submissions -> Labels]
  /\ \A s \in Submissions : env[s] = None <=> pc[s] = "idle"
  /\ reply \in [Submissions -> {None, "accepted", "rejected"}]
  /\ checked \in [Submissions -> Times \cup {None}]

(* Each waiting submission has one job in its queue.                       *)
LEMMA QueueBounded ==
  ASSUME JInv, NEW b \in Buses
  PROVE  Len(queue[b]) <= Cardinality(Submissions)
<1>1. Len(queue[b]) \in Nat /\ DOMAIN queue[b] = 1..Len(queue[b])
  BY DEF JInv, QueueInv, QueueSound, IsSeq
<1> DEFINE n == Len(queue[b])
           f == [i \in 1..n |-> queue[b][i].by]
<1>2. f \in Injection(1..n, Submissions)
  BY <1>1 DEF Injection, IsInjective, JInv, QueueInv, QueueSound, JobSound
<1>3. Cardinality(1..n) = n
  BY <1>1, FS_Interval
<1> HIDE DEF f
<1>4. Cardinality(1..n) <= Cardinality(Submissions)
  BY <1>2, CommandBusAssumption, FS_Injection
<1> QED
  BY <1>3, <1>4

LEMMA OwnTypesInit ==
  ASSUME Init, NoneIsNoRecord
  PROVE  OwnTypes
BY CommandBusAssumption DEF Init, BackboneInit, OwnTypes, Labels, Times

(* The labels and the envelope of a submission that enqueues or goes on.   *)
LEMMA GoesOn ==
  ASSUME OwnTypes, NEW s \in Submissions, NEW e,
         \/ \E l \in Labels \ {"idle"} : Goto(s, l)
         \/ Deny(s) \/ Throw(s, e) \/ Validate(s, e)
  PROVE  /\ pc' \in [Submissions -> Labels] /\ pc'[s] # "idle"
         /\ \A r \in Submissions \ {s} : pc'[r] = pc[r]
BY DEF OwnTypes, Goto, Deny, Throw, Validate, Await, Labels

LEMMA OwnTypesNext ==
  ASSUME JInv, NonceInv, OwnTypes, OneBus, NoneIsNoRecord, [Next]_vars
  PROVE  OwnTypes'
<1>1. ASSUME NEW s \in Submissions, NEW c \in Commands, NEW b \in Buses, Submit(s, c, b)
      PROVE  OwnTypes'
  <2> PICK e : e = ToEnvelope(s, c, b)
    OBVIOUS
  <2>1. Validate(s, e) \/ Goto(s, "parent")
    BY <1>1 DEF Submit
  <2>2. /\ pc' \in [Submissions -> Labels] /\ pc'[s] # "idle"
        /\ \A r \in Submissions \ {s} : pc'[r] = pc[r]
    BY <2>1, GoesOn DEF Labels
  <2>3. env'[s] # None /\ \A r \in Submissions \ {s} : env'[r] = env[r]
    BY <1>1, RecordsAreSome DEF Submit, JInv, QueueInv, Domains
  <2>4. UNCHANGED <<image, unsaved, clock, crashes, reply, checked>>
    BY <1>1 DEF Submit
  <2> QED
    BY <2>2, <2>3, <2>4 DEF OwnTypes
<1>2. ASSUME NEW s \in Submissions, NormalizeCausalHash(s)
      PROVE  OwnTypes'
  <2>1. PICK h, e : env' = [env EXCEPT ![s] = [env[s] EXCEPT !.causal = h]] /\ Validate(s, e)
    BY <1>2 DEF NormalizeCausalHash
  <2>2. /\ pc' \in [Submissions -> Labels] /\ pc'[s] # "idle"
        /\ \A r \in Submissions \ {s} : pc'[r] = pc[r]
    BY <2>1, GoesOn
  <2>3. env'[s] # None /\ \A r \in Submissions \ {s} : env'[r] = env[r]
    BY <2>1, RecordsAreSome DEF JInv, QueueInv, Domains
  <2>4. UNCHANGED <<image, unsaved, clock, crashes, reply, checked>>
    BY <1>2 DEF NormalizeCausalHash, history
  <2> QED
    BY <2>2, <2>3, <2>4 DEF OwnTypes
<1>3. ASSUME NEW s \in Submissions,
             CheckNonce(s) \/ CheckKey(s) \/ CheckFingerprint(s) \/ CheckParent(s) \/ BridgeEnds(s)
      PROVE  OwnTypes'
  <2>1. /\ UNCHANGED <<image, unsaved, clock, crashes, env, reply>> /\ pc[s] # "idle"
        /\ \/ checked' = checked
           \/ checked' = [checked EXCEPT ![s] = clock]
    BY <1>3 DEF CheckNonce, CheckKey, CheckFingerprint, CheckParent, BridgeEnds, Check, CheckLast, UnchangedByGuard
  <2>2. \/ \E l \in Labels \ {"idle"} : Goto(s, l)
        \/ \E e : Deny(s) \/ Throw(s, e)
    BY <1>3 DEF CheckNonce, CheckKey, CheckFingerprint, CheckParent, BridgeEnds, Check, CheckLast, Dispatch, Labels
  <2>3. /\ pc' \in [Submissions -> Labels] /\ pc'[s] # "idle"
        /\ \A r \in Submissions \ {s} : pc'[r] = pc[r]
    BY <2>2, GoesOn
  <2>4. checked' \in [Submissions -> Times \cup {None}]
    BY <2>1 DEF OwnTypes
  <2> QED
    BY <2>1, <2>3, <2>4 DEF OwnTypes
<1>4. ASSUME NEW b \in Buses, Load(b)
      PROVE  OwnTypes'
  <2>1. /\ UNCHANGED <<clock, crashes, pc, env, reply, checked>> /\ queue[b] # <<>>
        /\ image' = [image EXCEPT ![b] = Effect(Head(queue[b]), [commands |-> commands, nonces |-> nonces])]
        /\ unsaved' = [unsaved EXCEPT ![b] = Tables]
    BY <1>4 DEF Load, LoadState, UnchangedByJob, history
  <2>2. image'[b] # None /\ unsaved'[b] = Tables
    BY <2>1, RecordsAreSome DEF Effect, Purged, Rejected, JInv, QueueInv, Domains
  <2>3. \A c \in Buses : c = b
    BY DEF OneBus
  <2> QED
    BY <2>1, <2>2, <2>3 DEF OwnTypes
<1>5. ASSUME NEW b \in Buses, Save(b)
      PROVE  OwnTypes'
  <2>1. UNCHANGED <<clock, crashes, pc, env, reply, checked>>
    BY <1>5 DEF Save, UnchangedByJob, history
  <2> QED
    BY <1>5, <2>1, SaveForm DEF OwnTypes
<1>6. ASSUME NEW b \in Buses, FinishWrite(b)
      PROVE  OwnTypes'
  <2> DEFINE s == Head(queue[b]).by
  <2>1. /\ UNCHANGED <<clock, crashes, env, checked, unsaved>> /\ unsaved[b] = {}
        /\ image' = [image EXCEPT ![b] = None]
        /\ \/ pc[s] = "purge" /\ Goto(s, "nonce") /\ reply' = reply
           \/ pc[s] = "deny" /\ Goto(s, "fail") /\ reply' = reply
           \/ pc[s] = "fail" /\ Goto(s, "answered") /\ reply' = [reply EXCEPT ![s] = "rejected"]
    BY <1>6 DEF FinishWrite, Saved, UnchangedByJob, history
  <2>2. s \in Submissions
    <3>1. ImageSound(b) /\ QueueSound(b)
      BY <1>6 DEF FinishWrite, Saved, JInv, QueueInv
    <3>2. JobSound(Head(queue[b]))
      BY <3>1, TailForm DEF ImageSound, QueueSound
    <3> QED
      BY <3>2 DEF JobSound
  <2> HIDE DEF s
  <2>3. /\ pc' \in [Submissions -> Labels] /\ pc'[s] # "idle" /\ pc[s] # "idle"
        /\ \A r \in Submissions \ {s} : pc'[r] = pc[r]
    BY <2>1, <2>2, GoesOn DEF Labels
  <2>4. reply' \in [Submissions -> {None, "accepted", "rejected"}]
    BY <2>1 DEF OwnTypes
  <2>5. \A c \in Buses : unsaved'[c] \subseteq Tables /\ (image'[c] = None => unsaved'[c] = {})
    BY <2>1 DEF OwnTypes, OneBus
  <2> QED
    BY <2>1, <2>3, <2>4, <2>5 DEF OwnTypes
<1>7. ASSUME NEW b \in Buses, Crash(b)
      PROVE  OwnTypes'
  <2>1. /\ crashes < MaxCrashes /\ crashes' = crashes + 1
        /\ unsaved' = [unsaved EXCEPT ![b] = {}]
        /\ pc' = [s \in Submissions |->
                    IF pc[s] \notin {"idle", "answered"} /\ BusOf(s) = b THEN "lost" ELSE pc[s]]
        /\ UNCHANGED <<clock, env, reply, checked>>
    BY <1>7 DEF Crash, CrashBackbone, history
  <2>2. crashes' \in 0..MaxCrashes
    BY <2>1, CommandBusAssumption DEF OwnTypes
  <2>3. /\ pc' \in [Submissions -> Labels]
        /\ \A s \in Submissions : pc'[s] = "idle" <=> pc[s] = "idle"
    BY <2>1 DEF OwnTypes, Labels
  <2>4. \A c \in Buses : unsaved'[c] = {}
    BY <2>1 DEF OneBus, JInv, QueueInv, Domains
  <2> QED
    BY <2>1, <2>2, <2>3, <2>4 DEF OwnTypes
<1>8. CASE Tick
  BY <1>8, CommandBusAssumption DEF Tick, OwnTypes, Times, backbone, control, history
<1>9. CASE Finished \/ UNCHANGED vars
  BY <1>9 DEF Finished, vars, OwnTypes, backbone, control, history
<1> QED
  BY <1>1, <1>2, <1>3, <1>4, <1>5, <1>6, <1>7, <1>8, <1>9
  DEF Next, Read, Job, BridgeAnswers, BridgeTimesOut

(* With one bus, every state is well typed, and a command is not routed    *)
(* under the nonce of an answered one before the replay window of such a   *)
(* nonce has closed, as long as no crash cuts a job short                  *)
(* (command.backbone.ts:86-90, 162-168, replay.guard.ts:21-30).            *)
THEOREM NoncesTheorem ==
  ASSUME OneBus, NoneIsNoRecord
  PROVE  Spec => []NoncesKept
<1>1. Init => OwnTypes
  BY OwnTypesInit
<1>2. JInv /\ NonceInv /\ OwnTypes /\ [Next]_vars => OwnTypes'
  BY OwnTypesNext
<1>3. JInv /\ ReplayInv /\ NonceInv => NonceHeldForWindow
  BY DEF JInv, ParentSound, NonceInv, NonceFree, Checked, NonceHeldForWindow
<1>4. ASSUME JInv, ReplayInv, NonceInv, OwnTypes
      PROVE  TypeOK
  <2>1. \A i \in DOMAIN commands : commands[i].id \in Ids
    BY <1>4 DEF ReplayInv, RowOwned, JInv, QueueInv, Addressed, Wrote
  <2>2. \A n \in nonces : n.expires \in Nat
    BY <1>4, CommandBusAssumption DEF NonceInv, NonceOwned, Wrote
  <2>3. \A b \in Buses : Len(queue[b]) <= Cardinality(Submissions)
    BY <1>4, QueueBounded
  <2>4. dispatched \subseteq Submissions
    BY <1>4 DEF JInv, ParentSound
  <2>5. before \in [Submissions -> SUBSET Submissions]
    BY <1>4 DEF ReplayInv
  <2> QED
    BY <1>4, <2>1, <2>2, <2>3, <2>4, <2>5 DEF OwnTypes, TypeOK
<1> QED
  BY <1>1, <1>2, <1>3, <1>4, JInvHolds, ReplayInvHolds, NonceInvHolds, PTL DEF Spec, NoncesKept
=============================================================================
