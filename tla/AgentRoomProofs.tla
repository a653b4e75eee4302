-------------------------- MODULE AgentRoomProofs --------------------------
(***************************************************************************)
(* The AI room's gateway and its clients, for any number of submissions    *)
(* and clients: the queue stays in bands, one echo of a submission goes    *)
(* round, and what a client is told is true.                               *)
(***************************************************************************)
EXTENDS AgentRoom, FiniteSetTheorems, SequenceTheorems, TLAPS

-----------------------------------------------------------------------------
(* The invariant, of given tasks, queue and loop.                          *)
PriorityIn(tasks, item) == IF item.echo THEN "normal" ELSE tasks[item.of].priority

InBands(tasks, queue) ==
  \A i, k \in 1 .. Len(queue) : i < k => Band[PriorityIn(tasks, queue[i])] <= Band[PriorityIn(tasks, queue[k])]

TasksTyped(tasks) ==
  /\ tasks = [s \in Submissions |-> tasks[s]]
  /\ \A s \in Submissions :
       /\ DOMAIN tasks[s] = {"status", "priority", "known"}
       /\ tasks[s] = [status |-> tasks[s].status, priority |-> tasks[s].priority, known |-> tasks[s].known]
       /\ tasks[s].status \in TaskState /\ tasks[s].priority \in Levels /\ tasks[s].known \in BOOLEAN

(* A task waits once, itself or its echo; only those of agents there are   *)
(* have echoes.                                                            *)
QueueTrue(tasks, queue) ==
  /\ queue \in Seq(Items)
  /\ \A i, k \in 1 .. Len(queue) : queue[i].of = queue[k].of => i = k
  /\ \A i \in 1 .. Len(queue) : IF queue[i].echo THEN tasks[queue[i].of].known ELSE tasks[queue[i].of].status = "queued"

InQueue(queue, s) == \E i \in 1 .. Len(queue) : queue[i].of = s
InLoop(now, at, s) == now # Nobody /\ now.of = s /\ at = "analyze"
GoesRound(t) == t.status # "none" /\ (t.known \/ t.status # "failed")

LoopTrue(tasks, queue, now, at) ==
  /\ now \in Items \cup {Nobody} /\ at \in {"analyze", "notified", "evidence"}
  /\ now = Nobody => queue = <<>>
  /\ now # Nobody =>
       /\ tasks[now.of].status # "none"
       /\ now.echo \/ at # "analyze" => tasks[now.of].known
       /\ ~now.echo /\ at = "analyze" => tasks[now.of].status = "routing"
       /\ ~now.echo /\ at = "notified" => tasks[now.of].status = "executing"

GatewayHolds(tasks, queue, now, at) ==
  /\ TasksTyped(tasks) /\ InBands(tasks, queue) /\ QueueTrue(tasks, queue) /\ LoopTrue(tasks, queue, now, at)
  /\ \A s \in Submissions : /\ ~(InQueue(queue, s) /\ InLoop(now, at, s))
                            /\ InQueue(queue, s) \/ InLoop(now, at, s) <=> GoesRound(tasks[s])

GatewayInv == GatewayHolds(task, waiting, current, stage)

(* Nothing is in the loop: what goes round, waits.                         *)
Ready(tasks, queue) ==
  /\ TasksTyped(tasks) /\ InBands(tasks, queue) /\ QueueTrue(tasks, queue)
  /\ \A s \in Submissions : InQueue(queue, s) <=> GoesRound(tasks[s])

(* What was submitted and what has completed, stays so.                    *)
Advances(old, new) ==
  \A s \in Submissions : /\ old[s].status # "none" => new[s].status # "none"
                         /\ old[s].status = "completed" => new[s].status = "completed"

(* next is queue with item behind its first n.                             *)
Inserted(next, queue, n, item) ==
  /\ next \in Seq(Items) /\ n \in 0 .. Len(queue) /\ Len(next) = Len(queue) + 1
  /\ next[n + 1] = item
  /\ \A i \in 1 .. n : next[i] = queue[i]
  /\ \A i \in n + 1 .. Len(queue) : next[i + 1] = queue[i]

-----------------------------------------------------------------------------
(* The levels, and their bands.                                            *)
LEMMA BandsAre ==
  /\ Band["critical"] = 0 /\ Band["high"] = 1 /\ Band["normal"] = 2 /\ Band["low"] = 2
  /\ \A l \in Levels : Band[l] \in 0 .. 2 /\ (Band[l] = 0 <=> l = "critical")
BY DEF Band, Levels

(* Array.splice puts the item behind the first n.                          *)
LEMMA SplicedInserts ==
  ASSUME NEW queue \in Seq(Items), NEW n \in 0 .. Len(queue), NEW item \in Items
  PROVE  Inserted(Spliced(queue, n, item), queue, n, item)
<1> DEFINE before == SubSeq(queue, 1, n)
           after == SubSeq(queue, n + 1, Len(queue))
           both == before \o <<item>>
           next == Spliced(queue, n, item)
<1>1. Len(queue) \in Nat /\ n \in Nat /\ n <= Len(queue)
  OBVIOUS
<1>2. /\ before \in Seq(Items) /\ Len(before) = n
      /\ \A i \in 1 .. n : before[i] = queue[i]
  <2>1. 1 \in Int /\ n \in Int /\ \A i \in 1 .. n : queue[i] \in Items
    BY <1>1, ElementOfSeq
  <2> QED
    BY <1>1, <2>1, SubSeqProperties
<1>3. /\ after \in Seq(Items) /\ Len(after) = Len(queue) - n
      /\ \A i \in 1 .. Len(queue) - n : after[i] = queue[n + i]
  <2>1. n + 1 \in Int /\ Len(queue) \in Int /\ \A i \in n + 1 .. Len(queue) : queue[i] \in Items
    BY <1>1, ElementOfSeq
  <2> QED
    BY <1>1, <2>1, SubSeqProperties
<1>4. <<item>> \in Seq(Items) /\ Len(<<item>>) = 1 /\ <<item>>[1] = item
  OBVIOUS
<1> HIDE DEF before, after
<1>5. /\ both \in Seq(Items) /\ Len(both) = n + 1
      /\ \A i \in 1 .. n + 1 : both[i] = IF i <= n THEN before[i] ELSE <<item>>[i - n]
  BY <1>2, <1>4, ConcatProperties
<1> HIDE DEF both
<1>6. next = both \o after
  BY DEF Spliced, both, before, after
<1>7. /\ next \in Seq(Items) /\ Len(next) = n + 1 + (Len(queue) - n)
      /\ \A i \in 1 .. n + 1 + (Len(queue) - n) : next[i] = IF i <= n + 1 THEN both[i] ELSE after[i - (n + 1)]
  <2>1. /\ next \in Seq(Items) /\ Len(next) = Len(both) + Len(after)
        /\ \A i \in 1 .. Len(both) + Len(after) : next[i] = IF i <= Len(both) THEN both[i] ELSE after[i - Len(both)]
    <3>1. both \in Seq(Items) /\ after \in Seq(Items)
      BY <1>3, <1>5
    <3> HIDE DEF next
    <3> QED
      BY <1>6, <3>1, ConcatProperties
  <2>2. Len(both) = n + 1 /\ Len(after) = Len(queue) - n
    BY <1>3, <1>5
  <2> HIDE DEF next
  <2> QED
    BY <2>1, <2>2
<1> HIDE DEF next
<1>8. Len(next) = Len(queue) + 1
  BY <1>1, <1>7
<1>9. next[n + 1] = item
  BY <1>1, <1>4, <1>5, <1>7
<1>10. \A i \in 1 .. n : next[i] = queue[i]
  BY <1>1, <1>2, <1>5, <1>7
<1>11. \A i \in n + 1 .. Len(queue) : next[i + 1] = queue[i]
  BY <1>1, <1>3, <1>7
<1> QED
  BY <1>7, <1>8, <1>9, <1>10, <1>11 DEF Inserted, next

(* Array.push puts it behind all.                                          *)
LEMMA AppendInserts ==
  ASSUME NEW queue \in Seq(Items), NEW item \in Items
  PROVE  Inserted(Append(queue, item), queue, Len(queue), item)
BY AppendProperties DEF Inserted

(* A queue in bands begins with its critical tasks, as many as it counts.  *)
LEMMA CriticalsFirst ==
  ASSUME NEW queue \in Seq(Items), TasksTyped(task), InBands(task, queue)
  PROVE  /\ Criticals(queue) \in 0 .. Len(queue)
         /\ \A i \in 1 .. Len(queue) : PriorityIn(task, queue[i]) = "critical" <=> i <= Criticals(queue)
<1> DEFINE criticals == {i \in 1 .. Len(queue) : PriorityIn(task, queue[i]) = "critical"}
           n == Cardinality(criticals)
<1>1. Len(queue) \in Nat /\ 1 \in Int /\ \A m \in Nat : IsFiniteSet(1 .. m) /\ Cardinality(1 .. m) = m
  <2>1. ASSUME NEW m \in Nat PROVE IsFiniteSet(1 .. m) /\ Cardinality(1 .. m) = m
    <3>1. 1 \in Int /\ m \in Int
      OBVIOUS
    <3>2. IsFiniteSet(1 .. m) /\ Cardinality(1 .. m) = IF 1 > m THEN 0 ELSE m - 1 + 1
      BY <3>1, FS_Interval
    <3> QED
      BY <3>2
  <2> QED
    BY <2>1
<1>2. criticals \in SUBSET (1 .. Len(queue)) /\ IsFiniteSet(1 .. Len(queue)) /\ Cardinality(1 .. Len(queue)) = Len(queue)
  BY <1>1
<1>3. Criticals(queue) = n
  BY DEF Criticals, PriorityOf, PriorityIn
<1>4. \A i, k \in 1 .. Len(queue) : i < k /\ k \in criticals => i \in criticals
  <2> SUFFICES ASSUME NEW i \in 1 .. Len(queue), NEW k \in 1 .. Len(queue), i < k, k \in criticals PROVE i \in criticals
    OBVIOUS
  <2>1. queue[i] \in Items /\ PriorityIn(task, queue[i]) \in Levels
    <3>1. queue[i] \in Items
      BY ElementOfSeq
    <3> QED
      BY <3>1 DEF Items, PriorityIn, TasksTyped, Levels
  <2>2. Band[PriorityIn(task, queue[i])] <= 0
    BY BandsAre DEF InBands
  <2> QED
    BY <2>1, <2>2, BandsAre
<1> HIDE DEF criticals
<1>5. IsFiniteSet(criticals) /\ n \in Nat /\ n <= Len(queue)
  BY <1>2, FS_Subset, FS_CardinalityType
<1>6. ASSUME NEW i \in criticals PROVE i <= n
  <2>1. i \in Nat /\ 1 .. i \subseteq criticals
    BY <1>2, <1>4, <1>6
  <2>2. Cardinality(1 .. i) <= n
    BY <1>5, <2>1, FS_Subset
  <2> QED
    BY <1>1, <2>1, <2>2
<1>7. ASSUME NEW i \in 1 .. Len(queue), i \notin criticals PROVE ~(i <= n)
  <2>1. i - 1 \in Nat /\ criticals \subseteq 1 .. (i - 1)
    <3>1. ASSUME NEW k \in criticals PROVE k \in 1 .. (i - 1)
      <4>1. k \in 1 .. Len(queue) /\ k # i /\ ~(i < k)
        BY <1>2, <1>4, <1>7, <3>1
      <4> QED
        BY <1>1, <4>1
    <3> QED
      BY <1>1, <3>1
  <2>2. IsFiniteSet(1 .. (i - 1)) /\ Cardinality(1 .. (i - 1)) = i - 1
    BY <1>1, <2>1
  <2>3. n <= i - 1
    BY <2>1, <2>2, FS_Subset
  <2> QED
    BY <1>5, <2>3
<1> QED
  BY <1>3, <1>5, <1>6, <1>7 DEF criticals

(* enqueue puts the item behind those it may not overtake.                 *)
LEMMA Enqueued ==
  ASSUME NEW queue \in Seq(Items), TasksTyped(task), InBands(task, queue), NEW item \in Items, NEW priority \in Levels
  PROVE  \E n \in 0 .. Len(queue) :
           /\ Inserted(QueuedByPriority(queue, item, priority), queue, n, item)
           /\ \A i \in 1 .. n : Band[PriorityIn(task, queue[i])] <= Band[priority]
           /\ \A i \in n + 1 .. Len(queue) : Band[priority] <= Band[PriorityIn(task, queue[i])]
<1>1. Len(queue) \in Nat /\ \A i \in 1 .. Len(queue) : PriorityIn(task, queue[i]) \in Levels
  <2>1. \A i \in 1 .. Len(queue) : queue[i] \in Items
    BY ElementOfSeq
  <2> QED
    BY <2>1 DEF Items, PriorityIn, TasksTyped, Levels
<1>2. \A i \in 1 .. Len(queue) : Band[PriorityIn(task, queue[i])] \in 0 .. 2
  BY <1>1, BandsAre
<1>3. CASE priority = "critical"
  <2>1. QueuedByPriority(queue, item, priority) = Spliced(queue, 0, item) /\ Band[priority] = 0 /\ 0 \in 0 .. Len(queue)
    BY <1>1, <1>3, BandsAre DEF QueuedByPriority
  <2>2. Inserted(QueuedByPriority(queue, item, priority), queue, 0, item)
    BY <2>1, SplicedInserts
  <2> QED
    BY <1>1, <1>2, <2>1, <2>2
<1>4. CASE priority = "high"
  <2>1. QueuedByPriority(queue, item, priority) = Spliced(queue, Criticals(queue), item) /\ Band[priority] = 1
    BY <1>4, BandsAre DEF QueuedByPriority
  <2>2. /\ Criticals(queue) \in 0 .. Len(queue)
        /\ \A i \in 1 .. Len(queue) : PriorityIn(task, queue[i]) = "critical" <=> i <= Criticals(queue)
    BY CriticalsFirst
  <2>3. Inserted(QueuedByPriority(queue, item, priority), queue, Criticals(queue), item)
    BY <2>1, <2>2, SplicedInserts
  <2>4. \A i \in 1 .. Criticals(queue) : Band[PriorityIn(task, queue[i])] <= Band[priority]
    BY <1>1, <2>1, <2>2, BandsAre
  <2>5. \A i \in Criticals(queue) + 1 .. Len(queue) : Band[priority] <= Band[PriorityIn(task, queue[i])]
    BY <1>1, <1>2, <2>1, <2>2, BandsAre
  <2> QED
    BY <2>2, <2>3, <2>4, <2>5
<1>5. CASE priority \notin {"critical", "high"}
  <2>1. QueuedByPriority(queue, item, priority) = Append(queue, item) /\ Band[priority] = 2 /\ Len(queue) \in 0 .. Len(queue)
    BY <1>1, <1>5, BandsAre DEF QueuedByPriority, Levels
  <2>2. Inserted(QueuedByPriority(queue, item, priority), queue, Len(queue), item)
    BY <2>1, AppendInserts
  <2>3. \A i \in 1 .. Len(queue) : Band[PriorityIn(task, queue[i])] <= Band[priority]
    BY <1>2, <2>1
  <2> QED
    BY <1>1, <2>1, <2>2, <2>3
<1> QED
  BY <1>3, <1>4, <1>5

(* An item that belongs where it is put leaves the queue in bands, and is  *)
(* the only one of its task when that did not wait.                        *)
LEMMA QueueGrows ==
  ASSUME NEW tasks, NEW queue, QueueTrue(tasks, queue), InBands(tasks, queue), TasksTyped(tasks),
         NEW item \in Items, ~InQueue(queue, item.of), NEW next, NEW n, Inserted(next, queue, n, item),
         \A i \in 1 .. n : Band[PriorityIn(tasks, queue[i])] <= Band[PriorityIn(tasks, item)],
         \A i \in n + 1 .. Len(queue) : Band[PriorityIn(tasks, item)] <= Band[PriorityIn(tasks, queue[i])],
         IF item.echo THEN tasks[item.of].known ELSE tasks[item.of].status = "queued"
  PROVE  /\ QueueTrue(tasks, next) /\ InBands(tasks, next)
         /\ \A s \in Submissions : InQueue(next, s) <=> InQueue(queue, s) \/ s = item.of
<1>1. Len(queue) \in Nat /\ n \in Nat /\ n <= Len(queue) /\ Len(next) = Len(queue) + 1 /\ next \in Seq(Items)
  BY DEF Inserted, QueueTrue
<1>2. \A j \in 1 .. Len(next) : \/ j <= n /\ j \in 1 .. Len(queue) /\ next[j] = queue[j]
                                \/ j = n + 1 /\ next[j] = item
                                \/ j > n + 1 /\ j - 1 \in 1 .. Len(queue) /\ next[j] = queue[j - 1]
  <2> SUFFICES ASSUME NEW j \in 1 .. Len(next), ~(j <= n), j # n + 1
               PROVE  j > n + 1 /\ j - 1 \in 1 .. Len(queue) /\ next[j] = queue[j - 1]
    BY <1>1 DEF Inserted
  <2>1. j > n + 1 /\ j - 1 \in n + 1 .. Len(queue) /\ j - 1 \in 1 .. Len(queue) /\ (j - 1) + 1 = j
    BY <1>1
  <2>2. next[(j - 1) + 1] = queue[j - 1]
    BY <2>1 DEF Inserted
  <2> QED
    BY <2>1, <2>2
<1>3. /\ \A i \in 1 .. n : i \in 1 .. Len(next) /\ next[i] = queue[i]
      /\ n + 1 \in 1 .. Len(next) /\ next[n + 1] = item
      /\ \A i \in n + 1 .. Len(queue) : i + 1 \in 1 .. Len(next) /\ next[i + 1] = queue[i]
  BY <1>1 DEF Inserted
<1>4. \A i \in 1 .. Len(queue) : queue[i].of # item.of
  BY DEF InQueue
<1>5. \A s \in Submissions : InQueue(next, s) <=> InQueue(queue, s) \/ s = item.of
  <2> SUFFICES ASSUME NEW s \in Submissions PROVE InQueue(next, s) <=> InQueue(queue, s) \/ s = item.of
    OBVIOUS
  <2>1. ASSUME InQueue(next, s) PROVE InQueue(queue, s) \/ s = item.of
    BY <1>2, <2>1 DEF InQueue
  <2>2. ASSUME InQueue(queue, s) PROVE InQueue(next, s)
    <3>1. PICK i \in 1 .. Len(queue) : queue[i].of = s
      BY <2>2 DEF InQueue
    <3>2. i \in 1 .. n \/ i \in n + 1 .. Len(queue)
      BY <1>1
    <3> QED
      BY <1>3, <3>1, <3>2 DEF InQueue
  <2>3. ASSUME s = item.of PROVE InQueue(next, s)
    BY <1>3, <2>3 DEF InQueue
  <2> QED
    BY <2>1, <2>2, <2>3
<1>6. ASSUME NEW i \in 1 .. Len(next), NEW k \in 1 .. Len(next), next[i].of = next[k].of PROVE i = k
  <2>1. \A a, b \in 1 .. Len(queue) : queue[a].of = queue[b].of => a = b
    BY DEF QueueTrue
  <2>2. ASSUME NEW a \in 1 .. Len(next), a # n + 1 PROVE next[a].of # item.of
    BY <1>2, <1>4, <2>2
  <2>3. CASE i <= n /\ k <= n
    BY <1>2, <1>6, <2>1, <2>3, <1>1
  <2>4. CASE i > n + 1 /\ k > n + 1
    <3>1. i - 1 \in 1 .. Len(queue) /\ k - 1 \in 1 .. Len(queue) /\ next[i] = queue[i - 1] /\ next[k] = queue[k - 1]
      BY <1>1, <1>2, <2>4
    <3>2. i - 1 = k - 1
      BY <1>6, <2>1, <3>1
    <3> QED
      BY <1>1, <3>2
  <2>5. ASSUME NEW a \in 1 .. Len(next), NEW b \in 1 .. Len(next), a <= n, b > n + 1 PROVE next[a].of # next[b].of
    <3>1. /\ a \in 1 .. Len(queue) /\ b - 1 \in 1 .. Len(queue) /\ next[a] = queue[a] /\ next[b] = queue[b - 1]
          /\ a # b - 1
      BY <1>1, <1>2, <2>5
    <3> QED
      BY <2>1, <3>1
  <2> QED
    BY <1>1, <1>3, <1>6, <2>2, <2>3, <2>4, <2>5
<1>7. ASSUME NEW i \in 1 .. Len(next)
      PROVE  IF next[i].echo THEN tasks[next[i].of].known ELSE tasks[next[i].of].status = "queued"
  BY <1>2 DEF QueueTrue
<1>8. ASSUME NEW i \in 1 .. Len(next), NEW k \in 1 .. Len(next), i < k
      PROVE  Band[PriorityIn(tasks, next[i])] <= Band[PriorityIn(tasks, next[k])]
  <2>1. \A a, b \in 1 .. Len(queue) : a < b => Band[PriorityIn(tasks, queue[a])] <= Band[PriorityIn(tasks, queue[b])]
    BY DEF InBands
  <2>2. CASE i <= n /\ k <= n
    BY <1>2, <1>8, <2>1, <2>2, <1>1
  <2>3. CASE i <= n /\ k = n + 1
    BY <1>2, <2>3, <1>1
  <2>4. CASE i <= n /\ k > n + 1
    <3>1. next[i] = queue[i] /\ next[k] = queue[k - 1] /\ i < k - 1 /\ i \in 1 .. Len(queue) /\ k - 1 \in 1 .. Len(queue)
      BY <1>1, <1>2, <2>4
    <3> QED
      BY <2>1, <3>1
  <2>5. CASE i = n + 1 /\ k > n + 1
    <3>1. next[i] = item /\ next[k] = queue[k - 1] /\ k - 1 \in n + 1 .. Len(queue)
      BY <1>1, <1>2, <2>5
    <3> QED
      BY <3>1
  <2>6. CASE i > n + 1 /\ k > n + 1
    <3>1. next[i] = queue[i - 1] /\ next[k] = queue[k - 1] /\ i - 1 < k - 1 /\ i - 1 \in 1 .. Len(queue) /\ k - 1 \in 1 .. Len(queue)
      BY <1>1, <1>2, <1>8, <2>6
    <3> QED
      BY <2>1, <3>1
  <2> QED
    BY <1>1, <1>8, <2>2, <2>3, <2>4, <2>5, <2>6
<1> QED
  BY <1>1, <1>5, <1>6, <1>7, <1>8 DEF QueueTrue, InBands

-----------------------------------------------------------------------------
(* One status is set, of a submission, by its name.                        *)
LEMMA StatusSet ==
  ASSUME NEW tasks, TasksTyped(tasks), NEW item \in Items, NEW status \in TaskState
  PROVE  LET new == SetStatus(tasks, item, status)
         IN /\ TasksTyped(new)
            /\ \A s \in Submissions : new[s].priority = tasks[s].priority /\ new[s].known = tasks[s].known
            /\ \A s \in Submissions : new[s].status = IF s = item.of /\ ~item.echo THEN status ELSE tasks[s].status
<1> DEFINE new == SetStatus(tasks, item, status)
<1>1. item.of \in Submissions /\ item.echo \in BOOLEAN
  BY DEF Items
<1>2. CASE item.echo
  BY <1>2 DEF SetStatus
<1>3. CASE ~item.echo
  <2>1. new = [tasks EXCEPT ![item.of].status = status]
    BY <1>3 DEF SetStatus
  <2> HIDE DEF new
  <2>2. /\ \A s \in Submissions : s # item.of => new[s] = tasks[s]
        /\ new[item.of] = [tasks[item.of] EXCEPT !.status = status]
        /\ new = [s \in Submissions |-> new[s]]
    BY <1>1, <2>1 DEF TasksTyped
  <2>3. new[item.of] = [status |-> status, priority |-> tasks[item.of].priority, known |-> tasks[item.of].known]
    <3>1. tasks[item.of] = [status |-> tasks[item.of].status, priority |-> tasks[item.of].priority, known |-> tasks[item.of].known]
      BY <1>1 DEF TasksTyped
    <3> DEFINE a == tasks[item.of].status
               b == tasks[item.of].priority
               c == tasks[item.of].known
    <3>2. tasks[item.of] = [status |-> a, priority |-> b, known |-> c]
      BY <3>1
    <3> HIDE DEF a, b, c
    <3>3. new[item.of] = [status |-> status, priority |-> b, known |-> c]
      BY <2>2, <3>2
    <3> QED
      BY <3>3 DEF b, c
  <2>4. /\ DOMAIN new[item.of] = {"status", "priority", "known"} /\ new[item.of].status = status
        /\ new[item.of].priority = tasks[item.of].priority /\ new[item.of].known = tasks[item.of].known
    BY <2>3
  <2>5. ASSUME NEW s \in Submissions
        PROVE  /\ DOMAIN new[s] = {"status", "priority", "known"}
               /\ new[s] = [status |-> new[s].status, priority |-> new[s].priority, known |-> new[s].known]
               /\ new[s].status \in TaskState /\ new[s].priority \in Levels /\ new[s].known \in BOOLEAN
    <3>1. CASE s = item.of
      BY <1>1, <2>3, <2>4, <3>1 DEF TasksTyped
    <3>2. CASE s # item.of
      BY <2>2, <3>2 DEF TasksTyped
    <3> QED
      BY <3>1, <3>2
  <2>6. TasksTyped(new)
    BY <2>2, <2>5 DEF TasksTyped
  <2> QED
    BY <1>1, <1>3, <2>2, <2>4, <2>6 DEF new
<1> QED
  BY <1>1, <1>2, <1>3

(* With the same priorities and agents the queue is as it was.             *)
LEMMA QueueStays ==
  ASSUME NEW old, NEW new, NEW queue, QueueTrue(old, queue), InBands(old, queue),
         \A s \in Submissions : new[s].priority = old[s].priority /\ new[s].known = old[s].known,
         \A s \in Submissions : InQueue(queue, s) /\ old[s].status = "queued" => new[s].status = "queued"
  PROVE  QueueTrue(new, queue) /\ InBands(new, queue)
<1>1. \A i \in 1 .. Len(queue) : queue[i] \in Items /\ queue[i].of \in Submissions /\ InQueue(queue, queue[i].of)
  <2>1. \A i \in 1 .. Len(queue) : queue[i] \in Items
    BY ElementOfSeq DEF QueueTrue
  <2> QED
    BY <2>1 DEF Items, InQueue
<1>2. \A i \in 1 .. Len(queue) : PriorityIn(new, queue[i]) = PriorityIn(old, queue[i])
  BY <1>1 DEF PriorityIn
<1>3. InBands(new, queue)
  BY <1>2 DEF InBands
<1> QED
  BY <1>1, <1>3 DEF QueueTrue

(* The loop takes the first.                                               *)
LEMMA Takes ==
  ASSUME NEW tasks, NEW queue, Ready(tasks, queue), TakeNext(tasks, queue)
  PROVE  GatewayInv' /\ Advances(tasks, task')
<1>1. CASE queue = <<>>
  <2>1. stage' = "analyze" /\ current' = Nobody /\ waiting' = queue /\ task' = tasks
    BY <1>1 DEF TakeNext
  <2>2. GatewayHolds(tasks, queue, Nobody, "analyze")
    BY <1>1 DEF GatewayHolds, Ready, LoopTrue, InLoop
  <2> QED
    BY <2>1, <2>2 DEF GatewayInv, Advances
<1>2. CASE queue # <<>>
  <2> DEFINE item == Head(queue)
             rest == Tail(queue)
             new == SetStatus(tasks, item, "routing")
  <2>1. stage' = "analyze" /\ current' = item /\ waiting' = rest /\ task' = new
    BY <1>2 DEF TakeNext
  <2>2. /\ queue \in Seq(Items) /\ Len(queue) \in Nat /\ Len(queue) > 0 /\ item = queue[1] /\ item \in Items
        /\ rest \in Seq(Items) /\ Len(rest) = Len(queue) - 1
        /\ \A i \in 1 .. Len(rest) : rest[i] = queue[i + 1]
    <3>1. queue \in Seq(Items)
      BY DEF Ready, QueueTrue
    <3>2. Len(queue) \in Nat /\ Len(queue) > 0 /\ item = queue[1]
      BY <1>2, <3>1
    <3> QED
      BY <1>2, <3>1, <3>2, HeadTailProperties
  <2> HIDE DEF item, rest
  <2>3. /\ TasksTyped(new)
        /\ \A s \in Submissions : new[s].priority = tasks[s].priority /\ new[s].known = tasks[s].known
        /\ \A s \in Submissions : new[s].status = IF s = item.of /\ ~item.echo THEN "routing" ELSE tasks[s].status
    BY <2>2, StatusSet DEF Ready, TaskState
  <2> HIDE DEF new
  <2>4. \A s \in Submissions : /\ s = item.of => ~InQueue(rest, s) /\ InQueue(queue, s)
                               /\ s # item.of => (InQueue(rest, s) <=> InQueue(queue, s))
    <3>1. \A i \in 1 .. Len(rest) : i + 1 \in 1 .. Len(queue) /\ i + 1 # 1 /\ 1 \in 1 .. Len(queue)
      BY <2>2
    <3>2. \A i, k \in 1 .. Len(queue) : queue[i].of = queue[k].of => i = k
      BY DEF Ready, QueueTrue
    <3>3. 1 \in 1 .. Len(queue)
      BY <2>2
    <3>4. ~InQueue(rest, item.of)
      BY <2>2, <3>1, <3>2 DEF InQueue
    <3>5. InQueue(queue, item.of)
      BY <2>2, <3>3 DEF InQueue
    <3>6. ASSUME NEW s \in Submissions, InQueue(rest, s) PROVE InQueue(queue, s)
      BY <2>2, <3>1, <3>6 DEF InQueue
    <3>7. ASSUME NEW s \in Submissions, s # item.of, InQueue(queue, s) PROVE InQueue(rest, s)
      <4>1. PICK i \in 1 .. Len(queue) : queue[i].of = s
        BY <3>7 DEF InQueue
      <4>2. i # 1
        BY <2>2, <3>7, <4>1
      <4>3. i - 1 \in 1 .. Len(rest) /\ (i - 1) + 1 = i
        BY <2>2, <4>2
      <4>4. rest[i - 1] = queue[(i - 1) + 1]
        BY <2>2, <4>3
      <4> QED
        BY <4>1, <4>3, <4>4 DEF InQueue
    <3> QED
      BY <3>4, <3>5, <3>6, <3>7
  <2>5. QueueTrue(tasks, rest) /\ InBands(tasks, rest)
    <3>1. \A i \in 1 .. Len(rest) : i + 1 \in 1 .. Len(queue) /\ rest[i] = queue[i + 1]
      BY <2>2
    <3>2. ASSUME NEW i \in 1 .. Len(rest), NEW k \in 1 .. Len(rest), rest[i].of = rest[k].of PROVE i = k
      <4>1. i + 1 = k + 1
        BY <3>1, <3>2 DEF Ready, QueueTrue
      <4> QED
        BY <4>1, <2>2
    <3>3. ASSUME NEW i \in 1 .. Len(rest), NEW k \in 1 .. Len(rest), i < k
          PROVE  Band[PriorityIn(tasks, rest[i])] <= Band[PriorityIn(tasks, rest[k])]
      <4>1. i + 1 < k + 1
        BY <3>3, <2>2
      <4> QED
        BY <3>1, <4>1 DEF Ready, InBands
    <3> QED
      BY <2>2, <3>1, <3>2, <3>3 DEF QueueTrue, InBands, Ready
  <2>6. QueueTrue(new, rest) /\ InBands(new, rest)
    BY <2>3, <2>4, <2>5, QueueStays
  <2>7. item # Nobody /\ item.of \in Submissions /\ item.echo \in BOOLEAN
    BY <2>2, AgentGatewayAssumption DEF Items
  <2>8. GoesRound(tasks[item.of])
    BY <2>4, <2>7 DEF Ready
  <2>9. IF item.echo THEN tasks[item.of].known ELSE tasks[item.of].status = "queued"
    <3>1. 1 \in 1 .. Len(queue)
      BY <2>2
    <3> QED
      BY <2>2, <3>1 DEF Ready, QueueTrue
  <2>10. LoopTrue(new, rest, item, "analyze")
    BY <2>2, <2>3, <2>7, <2>8, <2>9 DEF LoopTrue, GoesRound
  <2>11. ASSUME NEW s \in Submissions
         PROVE  /\ ~(InQueue(rest, s) /\ InLoop(item, "analyze", s))
                /\ InQueue(rest, s) \/ InLoop(item, "analyze", s) <=> GoesRound(new[s])
    <3>1. InQueue(queue, s) <=> GoesRound(tasks[s])
      BY DEF Ready
    <3>2. GoesRound(new[s]) <=> GoesRound(tasks[s])
      <4>1. CASE s = item.of /\ ~item.echo
        BY <2>3, <2>8, <4>1 DEF GoesRound
      <4>2. CASE ~(s = item.of /\ ~item.echo)
        BY <2>3, <4>2 DEF GoesRound
      <4> QED
        BY <4>1, <4>2
    <3> QED
      BY <2>4, <2>7, <3>1, <3>2 DEF InLoop
  <2>12. GatewayHolds(new, rest, item, "analyze")
    BY <2>3, <2>6, <2>10, <2>11 DEF GatewayHolds
  <2>13. Advances(tasks, new)
    BY <2>3, <2>9 DEF Advances
  <2> QED
    BY <2>1, <2>12, <2>13 DEF GatewayInv
<1> QED
  BY <1>1, <1>2

(* The item in the loop leaves it for good, or leaves an echo behind.      *)
LEMMA LoopLeft ==
  ASSUME GatewayInv, current # Nobody, NEW status \in Final, stage = "notified" \/ (stage = "analyze" /\ status = "failed" /\ ~task[current.of].known)
  PROVE  LET new == SetStatus(task, current, status)
         IN Ready(new, waiting) /\ Advances(task, new)
<1> DEFINE new == SetStatus(task, current, status)
<1>1. /\ current \in Items /\ current.of \in Submissions /\ current.echo \in BOOLEAN /\ TasksTyped(task)
      /\ QueueTrue(task, waiting) /\ InBands(task, waiting)
  BY DEF GatewayInv, GatewayHolds, LoopTrue, Items
<1>2. status \in TaskState /\ status # "none" /\ status # "queued"
  BY DEF Final, TaskState
<1>3. /\ TasksTyped(new)
      /\ \A s \in Submissions : new[s].priority = task[s].priority /\ new[s].known = task[s].known
      /\ \A s \in Submissions : new[s].status = IF s = current.of /\ ~current.echo THEN status ELSE task[s].status
  BY <1>1, <1>2, StatusSet
<1> HIDE DEF new
<1>4. /\ current.echo \/ stage # "analyze" => task[current.of].known
      /\ ~current.echo /\ stage = "analyze" => task[current.of].status = "routing"
      /\ ~current.echo /\ stage = "notified" => task[current.of].status = "executing"
  BY DEF GatewayInv, GatewayHolds, LoopTrue
<1>5. Advances(task, new)
  BY <1>2, <1>3, <1>4 DEF Advances
<1>6. \A s \in Submissions : InQueue(waiting, s) /\ task[s].status = "queued" => new[s].status = "queued"
  BY <1>3, <1>4
<1>7. QueueTrue(new, waiting) /\ InBands(new, waiting)
  BY <1>1, <1>3, <1>6, QueueStays
<1>8. ASSUME NEW s \in Submissions PROVE InQueue(waiting, s) <=> GoesRound(new[s])
  <2>1. /\ ~(InQueue(waiting, s) /\ InLoop(current, stage, s))
        /\ InQueue(waiting, s) \/ InLoop(current, stage, s) <=> GoesRound(task[s])
    BY DEF GatewayInv, GatewayHolds
  <2>2. CASE stage = "notified"
    <3>1. ~InLoop(current, stage, s)
      BY <2>2 DEF InLoop
    <3>2. CASE s = current.of /\ ~current.echo
      <4>1. task[s].known /\ task[s].status = "executing"
        BY <1>4, <2>2, <3>2
      <4> QED
        BY <1>2, <1>3, <2>1, <3>1, <3>2, <4>1 DEF GoesRound
    <3>3. CASE ~(s = current.of /\ ~current.echo)
      BY <1>3, <2>1, <3>1, <3>3 DEF GoesRound
    <3> QED
      BY <3>2, <3>3
  <2>3. CASE stage = "analyze" /\ status = "failed" /\ ~task[current.of].known
    <3>1. ~current.echo
      BY <1>4, <2>3
    <3>2. CASE s = current.of
      BY <1>3, <2>1, <2>3, <3>1, <3>2 DEF GoesRound, InLoop
    <3>3. CASE s # current.of
      BY <1>3, <2>1, <2>3, <3>3 DEF GoesRound, InLoop
    <3> QED
      BY <3>2, <3>3
  <2> QED
    BY <2>2, <2>3
<1> QED
  BY <1>3, <1>5, <1>7, <1>8 DEF Ready, new

(* A submission starts the loop, or waits.                                 *)
LEMMA SubmitKeeps ==
  ASSUME GatewayInv, NEW s \in Submissions, NEW priority \in Levels, NEW known \in BOOLEAN, SubmitTask(s, priority, known)
  PROVE  GatewayInv' /\ Advances(task, task') /\ task'[s].status # "none"
<1> DEFINE tasks == [task EXCEPT ![s] = [status |-> "queued", priority |-> priority, known |-> known]]
<1>1. /\ TasksTyped(task) /\ QueueTrue(task, waiting) /\ InBands(task, waiting) /\ task[s].status = "none"
      /\ LoopTrue(task, waiting, current, stage)
  BY DEF GatewayInv, GatewayHolds, SubmitTask
<1>2. Original(s) \in Items /\ Original(s).of = s /\ Original(s).echo = FALSE
  BY DEF Original, Items
<1>3. /\ tasks = [p \in Submissions |-> tasks[p]] /\ \A p \in Submissions : p # s => tasks[p] = task[p]
      /\ tasks[s] = [status |-> "queued", priority |-> priority, known |-> known]
  BY <1>1 DEF TasksTyped
<1>4. /\ DOMAIN tasks[s] = {"status", "priority", "known"}
      /\ tasks[s].status = "queued" /\ tasks[s].priority = priority /\ tasks[s].known = known
  BY <1>3
<1> HIDE DEF tasks
<1>5. TasksTyped(tasks)
  <2>1. "queued" \in TaskState
    BY DEF TaskState
  <2>2. ASSUME NEW p \in Submissions
        PROVE  /\ DOMAIN tasks[p] = {"status", "priority", "known"}
               /\ tasks[p] = [status |-> tasks[p].status, priority |-> tasks[p].priority, known |-> tasks[p].known]
               /\ tasks[p].status \in TaskState /\ tasks[p].priority \in Levels /\ tasks[p].known \in BOOLEAN
    <3>1. CASE p = s
      BY <1>3, <1>4, <2>1, <3>1
    <3>2. CASE p # s
      BY <1>1, <1>3, <3>2 DEF TasksTyped
    <3> QED
      BY <3>1, <3>2
  <2> QED
    BY <1>3, <2>2 DEF TasksTyped
<1>6. Advances(task, tasks)
  BY <1>1, <1>3 DEF Advances
<1>7. /\ \A p \in Submissions : p # s => (GoesRound(tasks[p]) <=> GoesRound(task[p]))
      /\ GoesRound(tasks[s]) /\ ~GoesRound(task[s])
  BY <1>1, <1>3, <1>4 DEF GoesRound
<1>8. ~InQueue(waiting, s) /\ ~InLoop(current, stage, s)
  BY <1>7 DEF GatewayInv, GatewayHolds
<1>9. \A i \in 1 .. Len(waiting) : waiting[i] \in Items /\ waiting[i].of \in Submissions /\ waiting[i].of # s
  <2>1. \A i \in 1 .. Len(waiting) : waiting[i] \in Items
    BY <1>1, ElementOfSeq DEF QueueTrue
  <2> QED
    BY <1>8, <2>1 DEF Items, InQueue
<1>10. \A i \in 1 .. Len(waiting) : PriorityIn(tasks, waiting[i]) = PriorityIn(task, waiting[i])
  BY <1>3, <1>9 DEF PriorityIn
<1>11. QueueTrue(tasks, waiting) /\ InBands(tasks, waiting)
  BY <1>1, <1>3, <1>9, <1>10 DEF QueueTrue, InBands
<1>12. CASE current = Nobody
  <2>1. TakeNext(tasks, <<Original(s)>>)
    BY <1>12 DEF SubmitTask, tasks
  <2>2. waiting = <<>> /\ \A p \in Submissions : ~InQueue(waiting, p) /\ ~InLoop(current, stage, p)
    BY <1>1, <1>12 DEF LoopTrue, InQueue, InLoop
  <2>3. <<Original(s)>> \in Seq(Items) /\ Len(<<Original(s)>>) = 1 /\ <<Original(s)>>[1] = Original(s)
    BY <1>2
  <2>4. QueueTrue(tasks, <<Original(s)>>) /\ InBands(tasks, <<Original(s)>>)
    <3>1. \A i \in 1 .. Len(<<Original(s)>>) : i = 1
      BY <2>3
    <3>2. \A i, k \in 1 .. Len(<<Original(s)>>) : ~(i < k) /\ i = k
      BY <3>1
    <3>3. InBands(tasks, <<Original(s)>>)
      BY <3>2 DEF InBands
    <3> QED
      BY <1>2, <1>4, <2>3, <3>1, <3>2, <3>3 DEF QueueTrue
  <2>5. ASSUME NEW p \in Submissions PROVE InQueue(<<Original(s)>>, p) <=> GoesRound(tasks[p])
    <3>1. InQueue(<<Original(s)>>, p) <=> p = s
      BY <1>2, <2>3 DEF InQueue
    <3>2. ~GoesRound(task[p])
      BY <2>2 DEF GatewayInv, GatewayHolds
    <3> QED
      BY <1>7, <3>1, <3>2
  <2>6. Ready(tasks, <<Original(s)>>)
    BY <1>5, <2>4, <2>5 DEF Ready
  <2>7. GatewayInv' /\ Advances(tasks, task')
    BY <2>1, <2>6, Takes
  <2> QED
    BY <1>4, <1>6, <2>7 DEF Advances
<1>13. CASE current # Nobody
  <2> DEFINE next == QueuedByPriority(waiting, Original(s), priority)
  <2>1. task' = tasks /\ waiting' = next /\ current' = current /\ stage' = stage
    BY <1>13 DEF SubmitTask, tasks
  <2>2. PICK n \in 0 .. Len(waiting) :
          /\ Inserted(next, waiting, n, Original(s))
          /\ \A i \in 1 .. n : Band[PriorityIn(task, waiting[i])] <= Band[priority]
          /\ \A i \in n + 1 .. Len(waiting) : Band[priority] <= Band[PriorityIn(task, waiting[i])]
    BY <1>1, <1>2, Enqueued DEF QueueTrue
  <2> HIDE DEF next
  <2>3. PriorityIn(tasks, Original(s)) = priority
    BY <1>2, <1>4 DEF PriorityIn
  <2>4. /\ \A i \in 1 .. n : Band[PriorityIn(tasks, waiting[i])] <= Band[PriorityIn(tasks, Original(s))]
        /\ \A i \in n + 1 .. Len(waiting) : Band[PriorityIn(tasks, Original(s))] <= Band[PriorityIn(tasks, waiting[i])]
    <3>1. Len(waiting) \in Nat
      BY <1>1 DEF QueueTrue
    <3>2. \A i \in 1 .. n : i \in 1 .. Len(waiting)
      BY <3>1
    <3>3. \A i \in n + 1 .. Len(waiting) : i \in 1 .. Len(waiting)
      BY <3>1
    <3> QED
      BY <1>10, <2>2, <2>3, <3>2, <3>3
  <2>5. /\ QueueTrue(tasks, next) /\ InBands(tasks, next)
        /\ \A p \in Submissions : InQueue(next, p) <=> InQueue(waiting, p) \/ p = s
    <3>1. ~InQueue(waiting, Original(s).of) /\ tasks[Original(s).of].status = "queued" /\ ~Original(s).echo
      BY <1>2, <1>4, <1>8
    <3> QED
      BY <1>2, <1>5, <1>11, <2>2, <2>4, <3>1, QueueGrows
  <2>6. current.of # s /\ current.of \in Submissions
    BY <1>1, <1>13 DEF LoopTrue, Items
  <2>7. LoopTrue(tasks, next, current, stage)
    BY <1>1, <1>3, <1>13, <2>6 DEF LoopTrue
  <2>8. ASSUME NEW p \in Submissions
        PROVE  /\ ~(InQueue(next, p) /\ InLoop(current, stage, p))
               /\ InQueue(next, p) \/ InLoop(current, stage, p) <=> GoesRound(tasks[p])
    BY <1>7, <1>8, <2>5 DEF GatewayInv, GatewayHolds
  <2>9. GatewayHolds(tasks, next, current, stage)
    BY <1>5, <2>5, <2>7, <2>8 DEF GatewayHolds
  <2> QED
    BY <1>4, <1>6, <2>1, <2>9 DEF GatewayInv
<1> QED
  BY <1>12, <1>13

(* What is told to the agent comes back as an echo at the end.             *)
LEMMA TellKeeps ==
  ASSUME GatewayInv, TellAgent
  PROVE  GatewayInv' /\ Advances(task, task')
<1> DEFINE new == SetStatus(task, current, "executing")
           echo == Echo(current.of)
           next == QueuedByPriority(waiting, echo, "normal")
<1>1. /\ current # Nobody /\ stage = "analyze" /\ task[current.of].known
      /\ waiting' = next /\ stage' = "notified" /\ task' = new /\ current' = current
  BY DEF TellAgent
<1>2. /\ current \in Items /\ current.of \in Submissions /\ current.echo \in BOOLEAN /\ TasksTyped(task)
      /\ QueueTrue(task, waiting) /\ InBands(task, waiting) /\ task[current.of].status # "none"
      /\ ~current.echo => task[current.of].status = "routing"
  BY <1>1 DEF GatewayInv, GatewayHolds, LoopTrue, Items
<1>3. echo \in Items /\ echo.of = current.of /\ echo.echo = TRUE
  BY <1>2 DEF Echo, Items
<1> HIDE DEF echo
<1>4. /\ TasksTyped(new)
      /\ \A s \in Submissions : new[s].priority = task[s].priority /\ new[s].known = task[s].known
      /\ \A s \in Submissions : new[s].status = IF s = current.of /\ ~current.echo THEN "executing" ELSE task[s].status
  BY <1>2, StatusSet DEF TaskState
<1> HIDE DEF new
<1>5. /\ ~InQueue(waiting, current.of)
      /\ \A s \in Submissions : InQueue(waiting, s) \/ s = current.of <=> GoesRound(task[s])
  BY <1>1, <1>2 DEF GatewayInv, GatewayHolds, InLoop
<1>6. \A s \in Submissions : InQueue(waiting, s) /\ task[s].status = "queued" => new[s].status = "queued"
  BY <1>4, <1>5
<1>7. QueueTrue(new, waiting) /\ InBands(new, waiting)
  BY <1>2, <1>4, <1>6, QueueStays
<1>8. PICK n \in 0 .. Len(waiting) :
        /\ Inserted(next, waiting, n, echo)
        /\ \A i \in 1 .. n : Band[PriorityIn(task, waiting[i])] <= Band["normal"]
        /\ \A i \in n + 1 .. Len(waiting) : Band["normal"] <= Band[PriorityIn(task, waiting[i])]
  <2>1. "normal" \in Levels
    BY DEF Levels
  <2> QED
    BY <1>2, <1>3, <2>1, Enqueued DEF QueueTrue
<1> HIDE DEF next
<1>9. /\ \A i \in 1 .. n : Band[PriorityIn(new, waiting[i])] <= Band[PriorityIn(new, echo)]
      /\ \A i \in n + 1 .. Len(waiting) : Band[PriorityIn(new, echo)] <= Band[PriorityIn(new, waiting[i])]
  <2>1. Len(waiting) \in Nat /\ \A i \in 1 .. Len(waiting) : waiting[i] \in Items
    BY <1>2, ElementOfSeq DEF QueueTrue
  <2>2. \A i \in 1 .. Len(waiting) : PriorityIn(new, waiting[i]) = PriorityIn(task, waiting[i])
    BY <1>4, <2>1 DEF PriorityIn, Items
  <2>3. PriorityIn(new, echo) = "normal"
    BY <1>3 DEF PriorityIn
  <2>4. (\A i \in 1 .. n : i \in 1 .. Len(waiting)) /\ \A i \in n + 1 .. Len(waiting) : i \in 1 .. Len(waiting)
    BY <2>1
  <2> QED
    BY <1>8, <2>2, <2>3, <2>4
<1>10. /\ QueueTrue(new, next) /\ InBands(new, next)
       /\ \A s \in Submissions : InQueue(next, s) <=> InQueue(waiting, s) \/ s = current.of
  <2>1. ~InQueue(waiting, echo.of) /\ new[echo.of].known /\ echo.echo
    BY <1>1, <1>2, <1>3, <1>4, <1>5
  <2> QED
    BY <1>3, <1>4, <1>7, <1>8, <1>9, <2>1, QueueGrows
<1>11. LoopTrue(new, next, current, "notified")
  BY <1>1, <1>2, <1>4 DEF LoopTrue
<1>12. ASSUME NEW s \in Submissions
       PROVE  /\ ~(InQueue(next, s) /\ InLoop(current, "notified", s))
              /\ InQueue(next, s) \/ InLoop(current, "notified", s) <=> GoesRound(new[s])
  <2>1. GoesRound(new[s]) <=> GoesRound(task[s])
    <3>1. CASE s = current.of /\ ~current.echo
      BY <1>2, <1>4, <3>1 DEF GoesRound
    <3>2. CASE ~(s = current.of /\ ~current.echo)
      BY <1>4, <3>2 DEF GoesRound
    <3> QED
      BY <3>1, <3>2
  <2> QED
    BY <1>5, <1>10, <2>1 DEF InLoop
<1>13. GatewayHolds(new, next, current, "notified")
  BY <1>4, <1>10, <1>11, <1>12 DEF GatewayHolds
<1>14. Advances(task, new)
  BY <1>2, <1>4 DEF Advances
<1> QED
  BY <1>1, <1>13, <1>14 DEF GatewayInv

(* The steps of the loop.                                                  *)
LEMMA LoopKeeps ==
  ASSUME GatewayInv, LoopStep
  PROVE  GatewayInv' /\ Advances(task, task')
<1>1. CASE AgentMissing
  <2> DEFINE new == SetStatus(task, current, "failed")
  <2>1. "failed" \in Final /\ current # Nobody /\ stage = "analyze" /\ ~task[current.of].known /\ TakeNext(new, waiting)
    BY <1>1 DEF AgentMissing, Final
  <2>2. Ready(new, waiting) /\ Advances(task, new)
    BY <2>1, LoopLeft
  <2> HIDE DEF new
  <2>3. GatewayInv' /\ Advances(new, task')
    BY <2>1, <2>2, Takes
  <2> QED
    BY <2>2, <2>3 DEF Advances
<1>2. CASE EvidenceSubmitted
  <2>1. current # Nobody /\ stage = "evidence" /\ TakeNext(task, waiting)
    BY <1>2 DEF EvidenceSubmitted
  <2>2. Ready(task, waiting)
    BY <2>1 DEF Ready, GatewayInv, GatewayHolds, InLoop
  <2> QED
    BY <2>1, <2>2, Takes
<1>3. ASSUME NEW status \in Final, InferenceEnds(status) PROVE GatewayInv' /\ Advances(task, task')
  <2> DEFINE new == SetStatus(task, current, status)
  <2>1. current # Nobody /\ stage = "notified"
    BY <1>3 DEF InferenceEnds
  <2>2. Ready(new, waiting) /\ Advances(task, new)
    BY <2>1, LoopLeft
  <2> HIDE DEF new
  <2>3. CASE TakeNext(new, waiting)
    <3>1. GatewayInv' /\ Advances(new, task')
      BY <2>2, <2>3, Takes
    <3> QED
      BY <2>2, <3>1 DEF Advances
  <2>4. CASE stage' = "evidence" /\ task' = new /\ waiting' = waiting /\ current' = current
    <3>1. current \in Items /\ current.of \in Submissions /\ current.echo \in BOOLEAN
      BY <2>1 DEF GatewayInv, GatewayHolds, LoopTrue, Items
    <3>2. TasksTyped(task) /\ status \in TaskState /\ status # "none"
      BY DEF GatewayInv, GatewayHolds, Final, TaskState
    <3>3. /\ new[current.of].known = task[current.of].known
          /\ new[current.of].status = IF ~current.echo THEN status ELSE task[current.of].status
      BY <3>1, <3>2, StatusSet DEF new
    <3>4. LoopTrue(new, waiting, current, "evidence")
      BY <2>1, <3>1, <3>2, <3>3 DEF LoopTrue, GatewayInv, GatewayHolds
    <3>5. GatewayHolds(new, waiting, current, "evidence")
      BY <2>2, <3>4 DEF Ready, GatewayHolds, InLoop
    <3> QED
      BY <2>2, <2>4, <3>5 DEF GatewayInv
  <2> QED
    BY <1>3, <2>3, <2>4 DEF InferenceEnds, new
<1> QED
  BY <1>1, <1>2, <1>3, TellKeeps DEF LoopStep

-----------------------------------------------------------------------------
(* The clients: what a submission's client has heard, of given tasks.      *)
Spoken(answer) == <<"routed", "busy", answer, "live">>

ClientTrue(t, client, record, there) ==
  /\ DOMAIN record = {"answer", "heard"} /\ record.answer \in {"none", "result", "error"}
  /\ client = NoClient => record.answer = "none"
  /\ client # NoClient =>
       /\ t.status # "none"
       /\ record.answer = "none" => record.heard = <<"routed", "busy">>
       /\ record.answer # "none" /\ client \in there => record.heard = Spoken(record.answer)
       /\ record.answer # "none" => record.heard \in {<<"routed", "busy">>, Spoken(record.answer)}
       /\ record.answer = "result" => t.status = "completed"

ClientsTrue(tasks, clients, records, there) ==
  /\ clients = [s \in Submissions |-> clients[s]] /\ records = [s \in Submissions |-> records[s]]
  /\ \A s \in Submissions : ClientTrue(tasks[s], clients[s], records[s], there)

RoomInv == GatewayInv /\ ClientsTrue(task, from, told, connected)

(* The last messages come behind the first.                                *)
LEMMA SpokenIs ==
  ASSUME NEW answer \in {"result", "error"}
  PROVE  /\ <<"routed", "busy">> \o <<answer, "live">> = Spoken(answer) /\ <<"routed", "busy">> \o <<>> = <<"routed", "busy">>
         /\ Len(Spoken(answer)) = 4 /\ Len(<<"routed", "busy">>) = 2
<1> DEFINE words == {"routed", "busy", "live", "result", "error"}
           opening == <<"routed", "busy">>
           ending == <<answer, "live">>
           all == opening \o ending
<1>1. /\ opening \in Seq(words) /\ Len(opening) = 2 /\ opening[1] = "routed" /\ opening[2] = "busy"
      /\ ending \in Seq(words) /\ Len(ending) = 2 /\ ending[1] = answer /\ ending[2] = "live"
  OBVIOUS
<1>2. /\ Spoken(answer) \in Seq(words) /\ Len(Spoken(answer)) = 4
      /\ Spoken(answer)[1] = "routed" /\ Spoken(answer)[2] = "busy" /\ Spoken(answer)[3] = answer /\ Spoken(answer)[4] = "live"
  BY DEF Spoken
<1> HIDE DEF words, opening, ending
<1>3. /\ all \in Seq(words) /\ Len(all) = Len(opening) + Len(ending)
      /\ \A i \in 1 .. Len(opening) + Len(ending) : all[i] = IF i <= Len(opening) THEN opening[i] ELSE ending[i - Len(opening)]
  BY <1>1, ConcatProperties
<1> HIDE DEF all
<1>4. Len(all) = 4 /\ all[1] = "routed" /\ all[2] = "busy" /\ all[3] = answer /\ all[4] = "live"
  BY <1>1, <1>3
<1>5. \A i \in 1 .. Len(all) : all[i] = Spoken(answer)[i]
  <2>1. \A i \in 1 .. Len(all) : i \in {1, 2, 3, 4}
    BY <1>4
  <2> QED
    BY <1>2, <1>4, <2>1
<1>6. all = Spoken(answer)
  BY <1>2, <1>3, <1>4, <1>5, SeqEqual
<1>7. opening \o <<>> = opening
  BY <1>1, ConcatEmptySeq
<1> QED
  BY <1>1, <1>2, <1>6, <1>7 DEF all, opening, ending

(* A poll that ends tells the outcome.                                     *)
LEMMA PollKeeps ==
  ASSUME RoomInv, NEW s \in Submissions, PollEnds(s)
  PROVE  RoomInv'
<1> DEFINE record == told[s]
           words == IF from[s] \in connected THEN <<Outcome(s), "live">> ELSE <<>>
<1>1. /\ from[s] # NoClient /\ record.answer = "none" /\ from' = from /\ connected' = connected
      /\ task' = task /\ waiting' = waiting /\ current' = current /\ stage' = stage
      /\ told' = [told EXCEPT ![s].answer = Outcome(s), ![s].heard = @ \o words]
  BY DEF PollEnds, gatewayVars, Heard
<1>2. Outcome(s) \in {"result", "error"} /\ (Outcome(s) = "result" => task[s].status = "completed")
  BY DEF Outcome
<1>3. /\ from = [p \in Submissions |-> from[p]] /\ told = [p \in Submissions |-> told[p]]
      /\ \A p \in Submissions : ClientTrue(task[p], from[p], told[p], connected)
  BY DEF RoomInv, ClientsTrue
<1>4. DOMAIN record = {"answer", "heard"} /\ record.heard = <<"routed", "busy">>
  BY <1>1, <1>3 DEF ClientTrue
<1> HIDE DEF words, record
<1>5. /\ told' = [p \in Submissions |-> told'[p]] /\ \A p \in Submissions : p # s => told'[p] = told[p]
      /\ told'[s] = [record EXCEPT !.answer = Outcome(s), !.heard = @ \o words]
  BY <1>1, <1>3 DEF record
<1>6. /\ DOMAIN told'[s] = {"answer", "heard"} /\ told'[s].answer = Outcome(s)
      /\ told'[s].heard = <<"routed", "busy">> \o words
  BY <1>4, <1>5
<1>7. ClientTrue(task[s], from[s], told'[s], connected)
  <2>1. CASE from[s] \in connected
    <3>1. told'[s].heard = Spoken(Outcome(s))
      BY <1>2, <1>6, <2>1, SpokenIs DEF words
    <3> QED
      BY <1>1, <1>2, <1>3, <1>6, <3>1 DEF ClientTrue
  <2>2. CASE from[s] \notin connected
    <3>1. told'[s].heard = <<"routed", "busy">>
      BY <1>2, <1>6, <2>2, SpokenIs DEF words
    <3> QED
      BY <1>1, <1>2, <1>3, <1>6, <2>2, <3>1 DEF ClientTrue
  <2> QED
    BY <2>1, <2>2
<1>8. ClientsTrue(task', from', told', connected')
  <2>1. \A p \in Submissions : ClientTrue(task[p], from[p], told'[p], connected)
    BY <1>3, <1>5, <1>7
  <2> QED
    BY <1>1, <1>3, <1>5, <2>1 DEF ClientsTrue
<1>9. GatewayInv'
  BY <1>1 DEF RoomInv, GatewayInv
<1> QED
  BY <1>8, <1>9 DEF RoomInv

(* What a step of the gateway leaves of the clients.                       *)
LEMMA ClientsStay ==
  ASSUME NEW old, NEW new, NEW clients, NEW records, NEW there,
         ClientsTrue(old, clients, records, there), Advances(old, new)
  PROVE  ClientsTrue(new, clients, records, there)
BY DEF ClientsTrue, ClientTrue, Advances

(* A submission of a client is told as routed and busy.                    *)
LEMMA HandleKeeps ==
  ASSUME RoomInv, NEW c \in Clients, NEW s \in Submissions, HandleSubmission(c, s)
  PROVE  RoomInv'
<1>1. /\ c \in connected /\ SubmitTask(s, "normal", TRUE) /\ from' = [from EXCEPT ![s] = c] /\ connected' = connected
      /\ told' = [told EXCEPT ![s].heard = <<"routed", "busy">>]
  BY DEF HandleSubmission, Heard
<1>2. GatewayInv' /\ Advances(task, task') /\ task'[s].status # "none"
  <2>1. "normal" \in Levels /\ TRUE \in BOOLEAN
    BY DEF Levels
  <2> QED
    BY <1>1, <2>1, SubmitKeeps DEF RoomInv
<1>3. /\ from = [p \in Submissions |-> from[p]] /\ told = [p \in Submissions |-> told[p]]
      /\ \A p \in Submissions : ClientTrue(task'[p], from[p], told[p], connected)
  BY <1>2, ClientsStay DEF RoomInv, ClientsTrue
<1>4. /\ from' = [p \in Submissions |-> from'[p]] /\ told' = [p \in Submissions |-> told'[p]]
      /\ \A p \in Submissions : p # s => from'[p] = from[p] /\ told'[p] = told[p]
      /\ from'[s] = c /\ told'[s] = [told[s] EXCEPT !.heard = <<"routed", "busy">>]
  BY <1>1, <1>3
<1>5. told[s].answer = "none" /\ DOMAIN told[s] = {"answer", "heard"}
  <2>1. task[s].status = "none" /\ ClientTrue(task[s], from[s], told[s], connected)
    BY <1>1 DEF SubmitTask, RoomInv, ClientsTrue
  <2> QED
    BY <2>1 DEF ClientTrue
<1>6. DOMAIN told'[s] = {"answer", "heard"} /\ told'[s].answer = "none" /\ told'[s].heard = <<"routed", "busy">>
  BY <1>4, <1>5
<1>7. ClientTrue(task'[s], from'[s], told'[s], connected)
  BY <1>2, <1>6 DEF ClientTrue
<1>8. ClientsTrue(task', from', told', connected')
  <2>1. \A p \in Submissions : ClientTrue(task'[p], from'[p], told'[p], connected)
    BY <1>3, <1>4, <1>7
  <2> QED
    BY <1>1, <1>4, <2>1 DEF ClientsTrue
<1> QED
  BY <1>2, <1>8 DEF RoomInv

(* Clients come when nothing of theirs is submitted, and go at any time.   *)
LEMMA ComeAndGo ==
  ASSUME RoomInv, NEW c \in Clients, Connect(c) \/ Disconnect(c)
  PROVE  RoomInv'
<1>1. /\ from' = from /\ told' = told /\ task' = task /\ waiting' = waiting /\ current' = current /\ stage' = stage
      /\ \A s \in Submissions : from[s] \in connected' => from[s] \in connected
  BY DEF Connect, Disconnect, gatewayVars
<1>2. ClientsTrue(task, from, told, connected')
  BY <1>1 DEF RoomInv, ClientsTrue, ClientTrue
<1>3. ClientsTrue(task', from', told', connected')
  BY <1>1, <1>2
<1>4. GatewayInv'
  BY <1>1 DEF RoomInv, GatewayInv
<1> QED
  BY <1>3, <1>4 DEF RoomInv

(* Nothing is submitted.                                                   *)
LEMMA RoomStarts == AgentRoomInit => RoomInv
<1> SUFFICES ASSUME AgentRoomInit PROVE RoomInv
  OBVIOUS
<1>1. /\ task = [s \in Submissions |-> [status |-> "none", priority |-> "normal", known |-> TRUE]]
      /\ waiting = <<>> /\ current = Nobody /\ stage = "analyze" /\ connected = {}
      /\ from = [s \in Submissions |-> NoClient] /\ told = [s \in Submissions |-> [answer |-> "none", heard |-> <<>>]]
  BY DEF AgentRoomInit, GatewayInit
<1>2. \A s \in Submissions : task[s] = [status |-> "none", priority |-> "normal", known |-> TRUE]
  BY <1>1
<1>3. TasksTyped(task)
  <2>1. ASSUME NEW s \in Submissions
        PROVE  /\ DOMAIN task[s] = {"status", "priority", "known"}
               /\ task[s].status = "none" /\ task[s].priority = "normal" /\ task[s].known = TRUE
    BY <1>2
  <2>2. task = [s \in Submissions |-> task[s]]
    BY <1>1
  <2> QED
    <3>1. \A s \in Submissions : task[s] = [status |-> task[s].status, priority |-> task[s].priority, known |-> task[s].known]
      BY <1>2, <2>1
    <3>2. "none" \in TaskState /\ "normal" \in Levels /\ TRUE \in BOOLEAN
      BY DEF TaskState, Levels
    <3>3. \A s \in Submissions : task[s].known \in BOOLEAN
      BY <2>1
    <3> QED
      BY <2>1, <2>2, <3>1, <3>2, <3>3 DEF TasksTyped
<1>4. QueueTrue(task, waiting) /\ InBands(task, waiting) /\ \A s \in Submissions : ~InQueue(waiting, s)
  <2>1. waiting \in Seq(Items) /\ \A i \in 1 .. Len(waiting) : FALSE
    BY <1>1
  <2> QED
    BY <2>1 DEF QueueTrue, InBands, InQueue
<1>5. LoopTrue(task, waiting, current, stage) /\ \A s \in Submissions : ~InLoop(current, stage, s)
  BY <1>1 DEF LoopTrue, InLoop
<1>6. \A s \in Submissions : ~GoesRound(task[s])
  BY <1>2 DEF GoesRound
<1>7. GatewayInv
  BY <1>3, <1>4, <1>5, <1>6 DEF GatewayInv, GatewayHolds
<1>8. ClientsTrue(task, from, told, connected)
  <2>1. ASSUME NEW s \in Submissions
        PROVE  DOMAIN told[s] = {"answer", "heard"} /\ told[s].answer = "none" /\ from[s] = NoClient
    BY <1>1
  <2> QED
    BY <1>1, <2>1 DEF ClientsTrue, ClientTrue
<1> QED
  BY <1>7, <1>8 DEF RoomInv

(* Every step keeps queue, loop and clients.                               *)
LEMMA RoomSteps == RoomInv /\ [AgentRoomNext]_agentRoomVars => RoomInv'
<1> SUFFICES ASSUME RoomInv, [AgentRoomNext]_agentRoomVars PROVE RoomInv'
  OBVIOUS
<1>1. CASE UNCHANGED agentRoomVars
  <2>1. /\ from' = from /\ told' = told /\ connected' = connected
        /\ task' = task /\ waiting' = waiting /\ current' = current /\ stage' = stage
    BY <1>1 DEF agentRoomVars, gatewayVars, roomClientVars
  <2> QED
    BY <2>1 DEF RoomInv, GatewayInv
<1>2. ASSUME UNCHANGED roomClientVars, GatewayInv' /\ Advances(task, task') PROVE RoomInv'
  <2>1. from' = from /\ told' = told /\ connected' = connected
    BY <1>2 DEF roomClientVars
  <2>2. ClientsTrue(task', from, told, connected)
    BY <1>2, ClientsStay DEF RoomInv
  <2> QED
    BY <1>2, <2>1, <2>2 DEF RoomInv
<1>3. ASSUME NEW offer \in Submitted, PostTask(offer[1], offer[2], offer[3]) PROVE RoomInv'
  <2>1. offer[1] \in Submissions /\ offer[2] \in Levels /\ offer[3] \in BOOLEAN
    BY AgentGatewayAssumption
  <2> QED
    BY <1>2, <1>3, <2>1, SubmitKeeps DEF PostTask, RoomInv
<1>4. CASE LoopStep /\ UNCHANGED roomClientVars
  BY <1>2, <1>4, LoopKeeps DEF RoomInv
<1> QED
  BY <1>1, <1>3, <1>4, ComeAndGo, HandleKeeps, PollKeeps DEF AgentRoomNext

-----------------------------------------------------------------------------
(* What the invariant gives.                                               *)
LEMMA RoomHolds == RoomInv => RoomKept
<1> SUFFICES ASSUME RoomInv PROVE RoomKept
  OBVIOUS
<1>1. /\ TasksTyped(task) /\ InBands(task, waiting) /\ QueueTrue(task, waiting) /\ LoopTrue(task, waiting, current, stage)
      /\ \A s \in Submissions : /\ ~(InQueue(waiting, s) /\ InLoop(current, stage, s))
                                /\ InQueue(waiting, s) \/ InLoop(current, stage, s) <=> GoesRound(task[s])
  BY DEF RoomInv, GatewayInv, GatewayHolds
<1>2. GatewayTypeOK
  <2>1. ASSUME NEW s \in Submissions PROVE task[s] \in [status : TaskState, priority : Levels, known : BOOLEAN]
    BY <1>1 DEF TasksTyped
  <2> QED
    BY <1>1, <2>1 DEF GatewayTypeOK, TasksTyped, QueueTrue, LoopTrue
<1>3. QueueInBands
  BY <1>1 DEF QueueInBands, InBands, PriorityOf, PriorityIn
<1>4. OneEchoGoesRound
  <2> SUFFICES ASSUME NEW s \in Submissions
               PROVE  LET queued  == {i \in 1 .. Len(waiting) : waiting[i].of = s}
                          inLoop  == IF current # Nobody /\ current.of = s /\ stage = "analyze" THEN 1 ELSE 0
                      IN Cardinality(queued) + inLoop =
                           IF task[s].status = "none" \/ (~task[s].known /\ task[s].status = "failed") THEN 0 ELSE 1
    BY DEF OneEchoGoesRound
  <2> DEFINE queued  == {i \in 1 .. Len(waiting) : waiting[i].of = s}
  <2>1. CASE InQueue(waiting, s)
    <3>1. PICK i \in 1 .. Len(waiting) : waiting[i].of = s
      BY <2>1 DEF InQueue
    <3>2. queued = {i}
      BY <1>1, <3>1 DEF QueueTrue
    <3>3. Cardinality(queued) = 1
      BY <3>2, FS_Singleton
    <3> HIDE DEF queued
    <3>4. ~InLoop(current, stage, s) /\ GoesRound(task[s])
      BY <1>1, <2>1
    <3> QED
      BY <3>3, <3>4 DEF InLoop, GoesRound, queued
  <2>2. CASE ~InQueue(waiting, s)
    <3>1. queued = {}
      BY <2>2 DEF InQueue
    <3>2. Cardinality(queued) = 0
      BY <3>1, FS_EmptySet
    <3> HIDE DEF queued
    <3>3. InLoop(current, stage, s) <=> GoesRound(task[s])
      BY <1>1, <2>2
    <3> QED
      BY <3>2, <3>3 DEF InLoop, GoesRound, queued
  <2> QED
    BY <2>1, <2>2
<1>5. ToldOnceAndRight
  <2> SUFFICES ASSUME NEW s \in Submissions, from[s] # NoClient
               PROVE  /\ told[s].heard \in {<<"routed", "busy">>, <<"routed", "busy", told[s].answer, "live">>}
                      /\ told[s].answer = "result" => task[s].status = "completed"
                      /\ from[s] \in connected => (told[s].answer = "none" <=> Len(told[s].heard) = 2)
    BY DEF ToldOnceAndRight
  <2>1. ClientTrue(task[s], from[s], told[s], connected)
    BY DEF RoomInv, ClientsTrue
  <2>2. CASE told[s].answer = "none"
    <3>1. told[s].heard = <<"routed", "busy">>
      BY <2>1, <2>2 DEF ClientTrue
    <3> QED
      BY <2>2, <3>1
  <2>3. CASE told[s].answer # "none"
    <3>1. told[s].answer \in {"result", "error"}
      BY <2>1, <2>3 DEF ClientTrue
    <3>2. Len(Spoken(told[s].answer)) = 4
      BY <3>1, SpokenIs
    <3> QED
      BY <2>1, <2>3, <3>2 DEF ClientTrue, Spoken
  <2> QED
    BY <2>2, <2>3
<1> QED
  BY <1>2, <1>3, <1>4, <1>5 DEF RoomKept

(* For every set of submissions, agents and clients: critical tasks wait   *)
(* before high ones and those before the others, each submission whose     *)
(* agent exists goes round once, for ever, and a client hears the routing, *)
(* then the outcome, once (gateway.ts:157,205, room.ts:273).               *)
THEOREM AgentRoomTheorem == AgentRoomSpec => []RoomKept
<1>1. AgentRoomInit => RoomInv
  BY RoomStarts
<1>2. RoomInv /\ [AgentRoomNext]_agentRoomVars => RoomInv'
  BY RoomSteps
<1>3. RoomInv => RoomKept
  BY RoomHolds
<1> QED
  BY <1>1, <1>2, <1>3, PTL DEF AgentRoomSpec
=============================================================================
