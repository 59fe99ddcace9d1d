-------------------------- MODULE TaskQueueProofs ---------------------------
(***************************************************************************)
(* Proofs about TaskQueue, for any number of workers, items and losses,    *)
(* every size of chunk and every limit of deliveries: no item is lost,     *)
(* TaskQueue implements TaskPromise, and without losses every item is done *)
(* once and a finished task is complete.                                   *)
(***************************************************************************)
EXTENDS TaskQueue, TLAPS

-----------------------------------------------------------------------------
(* chunkTask: the chunks partition the items.                              *)

LEMMA Division ==
    ASSUME NEW a \in Nat, NEW b \in Nat \ {0}
    PROVE  /\ a \div b \in Nat
           /\ (a \div b) * b <= a
           /\ a < (a \div b) * b + b
OBVIOUS

LEMMA ChunkCount == ChunkOf(ItemCount) \in Nat /\ ChunkOf(ItemCount) >= 1
BY TaskAssumption, Division DEF ChunkOf

LEMMA Smaller ==
    ASSUME NEW x \in Nat, NEW y \in Nat, NEW b \in Nat \ {0}, x * b < y * b + b
    PROVE  x <= y
<1>1. ASSUME y + 1 <= x PROVE (y + 1) * b <= x * b
  BY <1>1
<1>2. (y + 1) * b = y * b + b /\ x * b \in Nat /\ y * b \in Nat
  OBVIOUS
<1>3. QED
  BY <1>1, <1>2

\* A chunk that is cut begins with an item of the task and ends with the task.
LEMMA ChunkBounds ==
    ASSUME NEW c \in Chunks
    PROVE  /\ FirstItem(c) \in Items
           /\ AfterChunk(c) \in 1..ItemCount + 1
           /\ FirstItem(c) < AfterChunk(c)
<1> DEFINE q == (ItemCount - 1) \div ChunkSize
<1>1. c \in Nat /\ 1 <= c /\ c <= q + 1
  BY ChunkCount DEF Chunks, ChunkOf
<1>2. q \in Nat /\ q * ChunkSize <= ItemCount - 1
  BY TaskAssumption, Division
<1> HIDE DEF q
<1>3. /\ (c - 1) * ChunkSize \in Nat
      /\ (c - 1) * ChunkSize <= q * ChunkSize
      /\ c * ChunkSize = (c - 1) * ChunkSize + ChunkSize
      /\ q * ChunkSize \in Nat
  BY <1>1, <1>2, TaskAssumption
<1>4. QED
  BY <1>2, <1>3, TaskAssumption DEF FirstItem, AfterChunk, Items

\* An item lies within the chunk it is pushed with.
LEMMA ItemInChunk ==
    ASSUME NEW i \in Items
    PROVE  /\ ChunkOf(i) \in Chunks
           /\ FirstItem(ChunkOf(i)) <= i
           /\ i < AfterChunk(ChunkOf(i))
<1> DEFINE q == (i - 1) \div ChunkSize
           m == (ItemCount - 1) \div ChunkSize
<1>1. i \in Nat /\ 1 <= i /\ i <= ItemCount /\ i - 1 \in Nat /\ ItemCount - 1 \in Nat
  BY TaskAssumption DEF Items
<1>2. q \in Nat /\ q * ChunkSize <= i - 1 /\ i - 1 < q * ChunkSize + ChunkSize
  BY <1>1, TaskAssumption, Division
<1>3. m \in Nat /\ ItemCount - 1 < m * ChunkSize + ChunkSize
  BY <1>1, TaskAssumption, Division
<1>4. ChunkOf(i) = q + 1 /\ ChunkOf(ItemCount) = m + 1
  BY DEF ChunkOf
<1> HIDE DEF q, m
<1>5. /\ q * ChunkSize \in Nat /\ m * ChunkSize \in Nat
      /\ (q + 1) * ChunkSize = q * ChunkSize + ChunkSize
      /\ q + 1 - 1 = q
  BY <1>2, <1>3, TaskAssumption
<1>6. q <= m
  <2>1. q * ChunkSize < m * ChunkSize + ChunkSize
    BY <1>1, <1>2, <1>3, <1>5, TaskAssumption
  <2>2. QED
    BY <2>1, <1>2, <1>3, TaskAssumption, Smaller
<1>7. ChunkOf(i) \in Chunks
  BY <1>2, <1>3, <1>4, <1>6 DEF Chunks
<1>8. FirstItem(ChunkOf(i)) = q * ChunkSize + 1
  <2>1. ChunkOf(i) - 1 = q
    BY <1>2, <1>4
  <2>2. QED
    BY <2>1 DEF FirstItem
<1>9. i < AfterChunk(ChunkOf(i))
  BY <1>1, <1>2, <1>4, <1>5, TaskAssumption DEF AfterChunk
<1>10. QED
  BY <1>1, <1>2, <1>5, <1>7, <1>8, <1>9

-----------------------------------------------------------------------------
(* The inductive invariant.  That no item is lost follows from what a      *)
(* worker knows: the rows it has read, and the rows there are, say FINISHED *)
(* only of items that were processed, and it never passes another one.     *)

RecordsOK == \A i \in Items : item[i] = "FINISHED" => effect[i] > 0

\* A worker in state s knows nothing wrong, and has passed nothing, of what e says
\* of the effects.
WorkerOK(s, e) ==
    /\ \A i \in Items : s.seen[i] = "FINISHED" => e[i] > 0
    /\ s.pc # "idle" =>
          /\ FirstItem(s.chunk) <= s.at
          /\ s.at <= AfterChunk(s.chunk)
          /\ \A i \in Items : FirstItem(s.chunk) <= i /\ i < s.at => e[i] > 0
    /\ s.pc = "record" => s.at < AfterChunk(s.chunk) /\ e[s.at] > 0
    /\ s.pc \in {"finish", "clear", "delete"} => s.at = AfterChunk(s.chunk)

WorkersOK == \A w \in Workers : WorkerOK(worker[w], effect)

\* Who may delete the first message works on it.
HolderOK ==
    \A w \in Workers :
       holder = w /\ worker[w].pc # "idle" => queue # <<>> /\ worker[w].chunk = Head(queue)

TaskInv ==
    /\ TypeOK
    /\ RecordsOK
    /\ WorkersOK
    /\ HolderOK
    /\ NoItemIsLost

\* Callbacks commit and are never undone.
Grows == effect' \in [Items -> Nat] /\ \A i \in Items : effect[i] <= effect'[i]

LEMMA MoreIsOK ==
    ASSUME NEW s \in WorkerState, NEW e \in [Items -> Nat], NEW f \in [Items -> Nat],
           \A i \in Items : e[i] <= f[i], WorkerOK(s, e)
    PROVE  WorkerOK(s, f)
<1>1. \A i \in Items : e[i] \in Nat /\ f[i] \in Nat /\ (e[i] > 0 => f[i] > 0)
  OBVIOUS
<1>2. s.pc = "record" => s.at \in Items
  <2>1. s.at \in 1..ItemCount + 1 /\ s.chunk \in Chunks
    BY DEF WorkerState
  <2>2. AfterChunk(s.chunk) \in 1..ItemCount + 1
    BY <2>1, ChunkBounds
  <2>3. s.pc = "record" => s.at < AfterChunk(s.chunk)
    BY DEF WorkerOK
  <2>4. QED
    BY <2>1, <2>2, <2>3, TaskAssumption DEF Items
<1>3. QED
  BY <1>1, <1>2 DEF WorkerOK

\* A worker that is left in a sound state leaves all workers so.
LEMMA WorkersKept ==
    ASSUME TaskInv, Grows, NEW w \in Workers, NEW s \in WorkerState,
           worker' = [worker EXCEPT ![w] = s], WorkerOK(s, effect')
    PROVE  worker' \in [Workers -> WorkerState] /\ WorkersOK'
<1>1. /\ worker \in [Workers -> WorkerState]
      /\ effect \in [Items -> Nat]
      /\ effect' \in [Items -> Nat]
      /\ \A i \in Items : effect[i] <= effect'[i]
  BY DEF TaskInv, TypeOK, Grows
<1>2. worker' \in [Workers -> WorkerState]
  BY <1>1
<1>3. ASSUME NEW v \in Workers PROVE WorkerOK(worker'[v], effect')
  <2>1. CASE v = w
    BY <2>1, <1>1
  <2>2. CASE v # w
    <3>1. worker'[v] = worker[v] /\ worker[v] \in WorkerState
      BY <2>2, <1>1
    <3>2. WorkerOK(worker[v], effect)
      BY DEF TaskInv, WorkersOK
    <3>3. QED
      BY <3>1, <3>2, <1>1, MoreIsOK
  <2>3. QED
    BY <2>1, <2>2
<1>4. QED
  BY <1>2, <1>3 DEF WorkersOK

\* A worker that stays with its chunk, or stops, may still be the holder.
LEMMA HolderKept ==
    ASSUME TaskInv, NEW w \in Workers, NEW s \in WorkerState,
           worker' = [worker EXCEPT ![w] = s], UNCHANGED <<queue, holder>>,
           s.pc # "idle" => worker[w].pc # "idle" /\ s.chunk = worker[w].chunk
    PROVE  HolderOK'
BY DEF TaskInv, TypeOK, HolderOK

LEMMA NothingLost ==
    ASSUME TaskInv, Grows, UNCHANGED <<queue, received, dropped>>
    PROVE  NoItemIsLost'
<1>1. \A i \in Items : effect[i] \in Nat /\ effect'[i] \in Nat /\ effect[i] <= effect'[i]
  BY DEF TaskInv, TypeOK, Grows
<1>2. \A c : Handled(c)' => Handled(c)
  BY DEF Handled
<1>3. QED
  BY <1>1, <1>2 DEF TaskInv, NoItemIsLost

LEMMA NothingGrows == TaskInv /\ UNCHANGED effect => Grows
BY DEF TaskInv, TypeOK, Grows

\* A worker that goes on, or stops, with effects and rows left alone.
LEMMA WorkerMoves ==
    ASSUME TaskInv, NEW w \in Workers, NEW s \in WorkerState,
           worker' = [worker EXCEPT ![w] = s], WorkerOK(s, effect),
           s.pc # "idle" => worker[w].pc # "idle" /\ s.chunk = worker[w].chunk,
           UNCHANGED <<item, queue, received, holder, unpushed, dropped, effect>>,
           task' \in [status : {"QUEUED", "PROCESSING", "FINISHED", "ERRORED"},
                      processed : Nat, errors : Nat],
           losses' \in 0..MaxLosses
    PROVE  TaskInv'
<1>1. Grows
  BY NothingGrows
<1>2. worker' \in [Workers -> WorkerState] /\ WorkersOK'
  BY <1>1, WorkersKept
<1>3. TypeOK'
  BY <1>2 DEF TaskInv, TypeOK
<1>4. RecordsOK'
  BY DEF TaskInv, RecordsOK
<1>5. HolderOK' /\ NoItemIsLost'
  BY <1>1, HolderKept, NothingLost
<1>6. QED
  BY <1>2, <1>3, <1>4, <1>5 DEF TaskInv

LEMMA IdleOK == Idle \in WorkerState /\ \A e : WorkerOK(Idle, e)
<1>1. 1 \in Chunks /\ 1 \in 1..ItemCount + 1
  BY ChunkCount, TaskAssumption DEF Chunks
<1>2. NotSeen \in [Items -> {"none", "FINISHED", "ERRORED"}]
        /\ \A i \in Items : NotSeen[i] # "FINISHED"
  BY DEF NotSeen
<1>3. QED
  BY <1>1, <1>2 DEF Idle, WorkerState, WorkerOK

\* A worker that stops, for whatever reason.
LEMMA WorkerStops ==
    ASSUME TaskInv, NEW w \in Workers, worker' = [worker EXCEPT ![w] = Idle],
           UNCHANGED <<item, queue, received, holder, unpushed, dropped, effect>>,
           task' \in [status : {"QUEUED", "PROCESSING", "FINISHED", "ERRORED"},
                      processed : Nat, errors : Nat],
           losses' \in 0..MaxLosses
    PROVE  TaskInv'
BY IdleOK, WorkerMoves DEF Idle

LEMMA LosesType == TaskInv /\ (Loses \/ UNCHANGED losses) => losses' \in 0..MaxLosses
BY TaskAssumption DEF TaskInv, TypeOK, Loses

\* What is known of a worker at work.
LEMMA WorkerType ==
    ASSUME TaskInv, NEW w \in Workers
    PROVE  /\ worker[w] \in WorkerState
           /\ WorkerOK(worker[w], effect)
           /\ worker[w].chunk \in Chunks
           /\ worker[w].at \in 1..ItemCount + 1
           /\ \A i \in Items : effect[i] \in Nat
           /\ task \in [status : {"QUEUED", "PROCESSING", "FINISHED", "ERRORED"},
                        processed : Nat, errors : Nat]
           /\ losses \in 0..MaxLosses
BY DEF TaskInv, TypeOK, WorkersOK, WorkerState

LEMMA InChunkItem ==
    ASSUME TaskInv, NEW w \in Workers, InChunk(w)
    PROVE  worker[w].at \in Items /\ worker[w].at + 1 \in 1..ItemCount + 1
<1>1. worker[w].at \in 1..ItemCount + 1 /\ worker[w].chunk \in Chunks
  BY WorkerType
<1>2. AfterChunk(worker[w].chunk) \in 1..ItemCount + 1
  BY <1>1, ChunkBounds
<1>3. QED
  BY <1>1, <1>2, TaskAssumption DEF InChunk, Items

-----------------------------------------------------------------------------
(* The publisher and the queue.                                            *)

LEMMA PublisherKeeps ==
    ASSUME TaskInv, Push \/ PublisherStops
    PROVE  TaskInv'
<1>1. Grows
  BY NothingGrows DEF Push, PublisherStops
<1>2. CASE Push
  <2>1. unpushed \in Chunks /\ queue \in Seq(Chunks) /\ queue' = Append(queue, unpushed)
    BY <1>2 DEF TaskInv, TypeOK, Push
  <2>2. queue' \in Seq(Chunks) /\ (queue # <<>> => queue' # <<>> /\ Head(queue') = Head(queue))
    BY <2>1
  <2>3. unpushed' \in 0..ChunkOf(ItemCount) + 1
    BY <1>2, ChunkCount DEF Push, Chunks
  <2>4. TypeOK'
    BY <1>2, <2>2, <2>3 DEF TaskInv, TypeOK, Push
  <2>5. RecordsOK' /\ WorkersOK'
    BY <1>2 DEF TaskInv, RecordsOK, WorkersOK, Push
  <2>6. HolderOK'
    BY <1>2, <2>2 DEF TaskInv, HolderOK, Push
  <2>7. \A c : Handled(c)' => Handled(c)
    <3>1. \A k \in DOMAIN queue : k \in DOMAIN queue' /\ queue'[k] = queue[k]
      BY <2>1
    <3>2. QED
      BY <1>2, <3>1 DEF Handled, Push
  <2>8. NoItemIsLost'
    BY <1>2, <2>7 DEF TaskInv, NoItemIsLost, Push
  <2>9. QED
    BY <2>4, <2>5, <2>6, <2>8 DEF TaskInv
<1>3. CASE PublisherStops
  <2>1. TypeOK'
    BY <1>3, ChunkCount DEF TaskInv, TypeOK, PublisherStops
  <2>2. RecordsOK' /\ WorkersOK' /\ HolderOK'
    BY <1>3 DEF TaskInv, RecordsOK, WorkersOK, HolderOK, PublisherStops
  <2>3. NoItemIsLost'
    BY <1>1, <1>3, NothingLost DEF PublisherStops
  <2>4. QED
    BY <2>1, <2>2, <2>3 DEF TaskInv
<1>4. QED
  BY <1>2, <1>3

LEMMA ExpireKeeps ==
    ASSUME TaskInv, Expire
    PROVE  TaskInv'
<1>1. losses' \in 0..MaxLosses
  BY LosesType DEF Expire
<1>2. TypeOK'
  BY <1>1 DEF TaskInv, TypeOK, Expire
<1>3. RecordsOK' /\ WorkersOK'
  BY DEF TaskInv, RecordsOK, WorkersOK, Expire
<1>4. HolderOK'
  BY TaskAssumption DEF HolderOK, Expire
<1>5. NoItemIsLost'
  BY NothingGrows, NothingLost DEF Expire
<1>6. QED
  BY <1>2, <1>3, <1>4, <1>5 DEF TaskInv

\* The first message of a queue is the only one that Tail takes away.
LEMMA TailOf ==
    ASSUME NEW S, NEW q \in Seq(S), q # <<>>
    PROVE  /\ Tail(q) \in Seq(S)
           /\ Head(q) \in S
           /\ \A c : (\A k \in DOMAIN Tail(q) : Tail(q)[k] # c) /\ c # Head(q)
                        => \A k \in DOMAIN q : q[k] # c
<1>1. Tail(q) \in Seq(S) /\ Head(q) \in S
  OBVIOUS
<1>2. ASSUME NEW c, \A k \in DOMAIN Tail(q) : Tail(q)[k] # c, c # Head(q),
             NEW k \in DOMAIN q
      PROVE  q[k] # c
  <2>1. k \in 1..Len(q) /\ Len(q) \in Nat
    OBVIOUS
  <2>2. CASE k = 1
    BY <2>2, <1>2
  <2>3. CASE k > 1
    <3>1. k - 1 \in DOMAIN Tail(q) /\ Tail(q)[k - 1] = q[k]
      BY <2>1, <2>3
    <3>2. QED
      BY <3>1, <1>2
  <2>4. QED
    BY <2>1, <2>2, <2>3
<1>3. QED
  BY <1>1, <1>2

LEMMA DropKeeps ==
    ASSUME TaskInv, Drop
    PROVE  TaskInv'
<1>1. queue \in Seq(Chunks) /\ queue # <<>>
  BY DEF TaskInv, TypeOK, Drop
<1>2. TypeOK'
  BY <1>1, TailOf DEF TaskInv, TypeOK, Drop
<1>3. RecordsOK' /\ WorkersOK'
  BY DEF TaskInv, RecordsOK, WorkersOK, Drop
<1>4. HolderOK'
  BY TaskAssumption DEF HolderOK, Drop
<1>5. \A c : Handled(c)' => Handled(c)
  BY <1>1, TailOf DEF Handled, Drop
<1>6. NoItemIsLost'
  BY <1>5 DEF TaskInv, NoItemIsLost, Drop
<1>7. QED
  BY <1>2, <1>3, <1>4, <1>6 DEF TaskInv

-----------------------------------------------------------------------------
(* The workers.                                                            *)

LEMMA ReceiveKeeps ==
    ASSUME TaskInv, NEW w \in Workers, Receive(w)
    PROVE  TaskInv'
<1> DEFINE c == Head(queue)
           s == [pc |-> "read", chunk |-> c, at |-> FirstItem(c), seen |-> NotSeen]
<1>1. /\ queue \in Seq(Chunks) /\ queue # <<>> /\ received \in [Chunks -> Nat]
      /\ worker \in [Workers -> WorkerState] /\ Grows
  BY NothingGrows DEF TaskInv, TypeOK, Receive
<1>2. c \in Chunks /\ \E k \in DOMAIN queue : queue[k] = c
  BY <1>1
<1>3. FirstItem(c) \in Items /\ FirstItem(c) < AfterChunk(c) /\ AfterChunk(c) \in 1..ItemCount + 1
  BY <1>2, ChunkBounds
<1> HIDE DEF c
<1>4. s \in WorkerState
  <2>1. NotSeen \in [Items -> {"none", "FINISHED", "ERRORED"}]
    BY DEF NotSeen
  <2>2. FirstItem(c) \in 1..ItemCount + 1
    BY <1>3, TaskAssumption DEF Items
  <2>3. QED
    BY <1>2, <2>1, <2>2 DEF WorkerState
<1>5. WorkerOK(s, effect')
  <2>1. \A i \in Items : NotSeen[i] # "FINISHED"
    BY DEF NotSeen
  <2>2. \A i \in Items : ~(FirstItem(c) <= i /\ i < FirstItem(c))
    BY <1>3, TaskAssumption DEF Items
  <2>3. FirstItem(c) <= FirstItem(c) /\ FirstItem(c) <= AfterChunk(c)
    BY <1>3, TaskAssumption DEF Items
  <2>4. QED
    BY <2>1, <2>2, <2>3 DEF WorkerOK
<1>6. worker' = [worker EXCEPT ![w] = s]
  BY DEF Receive, c
<1>7. worker' \in [Workers -> WorkerState] /\ WorkersOK'
  BY <1>1, <1>4, <1>5, <1>6, WorkersKept
<1>8. TypeOK'
  BY <1>1, <1>7 DEF TaskInv, TypeOK, Receive
<1>9. RecordsOK'
  BY DEF TaskInv, RecordsOK, Receive
<1>10. HolderOK'
  BY <1>1, <1>6 DEF HolderOK, Receive, c
<1>11. \A d \in Chunks : Handled(d)' => Handled(d)
  <2>1. \A d \in Chunks : d # c => received'[d] = received[d]
    BY <1>1 DEF Receive, c
  <2>2. queue' = queue /\ dropped' = dropped
    BY DEF Receive
  <2>3. QED
    BY <1>2, <2>1, <2>2 DEF Handled
<1>12. NoItemIsLost'
  BY <1>11, ItemInChunk DEF TaskInv, NoItemIsLost, Receive
<1>13. QED
  BY <1>7, <1>8, <1>9, <1>10, <1>12 DEF TaskInv

LEMMA ReadKeeps ==
    ASSUME TaskInv, NEW w \in Workers, Read(w)
    PROVE  TaskInv'
<1> DEFINE next == IF task.status = "QUEUED" /\ task.processed = 0 THEN "start" ELSE "item"
           s == [worker[w] EXCEPT !.pc = next, !.seen = item]
<1>1. /\ worker[w] \in WorkerState /\ WorkerOK(worker[w], effect)
      /\ worker \in [Workers -> WorkerState]
      /\ item \in [Items -> {"none", "FINISHED", "ERRORED"}]
      /\ \A i \in Items : item[i] = "FINISHED" => effect[i] > 0
      /\ worker[w].pc = "read"
  BY WorkerType DEF TaskInv, TypeOK, RecordsOK, Read, At
<1>2. next \in {"start", "item"}
  OBVIOUS
<1>3. worker' = [worker EXCEPT ![w] = s]
  BY <1>1 DEF Read
<1> HIDE DEF next
<1>4. /\ s \in WorkerState
      /\ s.pc = next /\ s.chunk = worker[w].chunk /\ s.at = worker[w].at /\ s.seen = item
  BY <1>1, <1>2 DEF WorkerState
<1> HIDE DEF s
<1>5. WorkerOK(s, effect)
  BY <1>1, <1>2, <1>4 DEF WorkerOK
<1>6. QED
  BY <1>1, <1>3, <1>4, <1>5, WorkerMoves, WorkerType DEF Read

\* Going on to a step at which nothing more has to be known.
LEMMA GoOn ==
    ASSUME TaskInv, NEW w \in Workers, worker[w].pc # "idle",
           NEW pc \in {"item", "failed", "clear", "delete", "finish", "errored"}, GoTo(w, pc),
           pc \in {"finish", "clear", "delete"} => worker[w].at = AfterChunk(worker[w].chunk)
    PROVE  /\ [worker[w] EXCEPT !.pc = pc] \in WorkerState
           /\ worker' = [worker EXCEPT ![w] = [worker[w] EXCEPT !.pc = pc]]
           /\ WorkerOK([worker[w] EXCEPT !.pc = pc], effect)
<1> DEFINE s == [worker[w] EXCEPT !.pc = pc]
<1>1. worker[w] \in WorkerState /\ WorkerOK(worker[w], effect) /\ worker \in [Workers -> WorkerState]
  BY WorkerType DEF TaskInv, TypeOK
<1>2. /\ s \in WorkerState
      /\ s.pc = pc /\ s.chunk = worker[w].chunk /\ s.at = worker[w].at /\ s.seen = worker[w].seen
  BY <1>1 DEF WorkerState
<1>3. worker' = [worker EXCEPT ![w] = s]
  BY <1>1 DEF GoTo
<1> HIDE DEF s
<1>4. WorkerOK(s, effect)
  BY <1>1, <1>2 DEF WorkerOK
<1>5. QED
  BY <1>2, <1>3, <1>4 DEF s

LEMMA GoOnKeeps ==
    ASSUME TaskInv, NEW w \in Workers, worker[w].pc # "idle",
           NEW pc \in {"item", "failed", "clear", "delete", "finish", "errored"}, GoTo(w, pc),
           pc \in {"finish", "clear", "delete"} => worker[w].at = AfterChunk(worker[w].chunk),
           UNCHANGED <<item, queue, received, holder, unpushed, dropped, effect>>,
           task' \in [status : {"QUEUED", "PROCESSING", "FINISHED", "ERRORED"},
                      processed : Nat, errors : Nat],
           losses' \in 0..MaxLosses
    PROVE  TaskInv'
<1> DEFINE s == [worker[w] EXCEPT !.pc = pc]
<1>1. s \in WorkerState /\ worker' = [worker EXCEPT ![w] = s] /\ WorkerOK(s, effect)
  BY GoOn
<1>2. s.chunk = worker[w].chunk
  BY WorkerType DEF WorkerState
<1> HIDE DEF s
<1>3. QED
  BY <1>1, <1>2, WorkerMoves

LEMMA ApplyKeeps ==
    ASSUME TaskInv, NEW w \in Workers, Apply(w)
    PROVE  TaskInv'
<1> DEFINE i == worker[w].at
           s == [worker[w] EXCEPT !.pc = "record"]
<1>1. /\ worker[w] \in WorkerState /\ WorkerOK(worker[w], effect)
      /\ worker \in [Workers -> WorkerState] /\ effect \in [Items -> Nat]
      /\ worker[w].pc = "item" /\ worker[w].at < AfterChunk(worker[w].chunk)
  BY WorkerType DEF TaskInv, TypeOK, Apply, At, InChunk
<1>2. i \in Items
  BY InChunkItem DEF Apply
<1>3. effect' = [effect EXCEPT ![i] = @ + 1]
  BY DEF Apply
<1> HIDE DEF i
<1>4. Grows /\ effect'[i] > 0 /\ effect' \in [Items -> Nat]
        /\ \A j \in Items : effect[j] <= effect'[j]
  BY <1>1, <1>2, <1>3 DEF Grows
<1>5. /\ s \in WorkerState /\ worker' = [worker EXCEPT ![w] = s]
      /\ s.pc = "record" /\ s.chunk = worker[w].chunk /\ s.at = i /\ s.seen = worker[w].seen
  BY <1>1 DEF WorkerState, Apply, GoTo, i
<1> HIDE DEF s
<1>6. WorkerOK(worker[w], effect')
  BY <1>1, <1>4, MoreIsOK
<1>7. WorkerOK(s, effect')
  BY <1>1, <1>4, <1>5, <1>6 DEF WorkerOK, i
<1>8. worker' \in [Workers -> WorkerState] /\ WorkersOK'
  BY <1>4, <1>5, <1>7, WorkersKept
<1>9. TypeOK'
  BY <1>4, <1>8 DEF TaskInv, TypeOK, Apply
<1>10. RecordsOK'
  <2>1. \A j \in Items : effect[j] \in Nat /\ effect'[j] \in Nat /\ effect[j] <= effect'[j]
    BY <1>1, <1>4
  <2>2. QED
    BY <2>1 DEF TaskInv, RecordsOK, Apply
<1>11. HolderOK'
  BY <1>1, <1>5, HolderKept DEF Apply
<1>12. NoItemIsLost'
  BY <1>4, NothingLost DEF Apply
<1>13. QED
  BY <1>8, <1>9, <1>10, <1>11, <1>12 DEF TaskInv

\* Past an item that was processed.
LEMMA PassKeeps ==
    ASSUME TaskInv, NEW w \in Workers, InChunk(w), worker[w].pc \in {"item", "record"},
           effect[worker[w].at] > 0,
           worker' = [worker EXCEPT ![w].pc = "item", ![w].at = @ + 1],
           item' \in [Items -> {"none", "FINISHED", "ERRORED"}],
           \A i \in Items : item'[i] = "FINISHED" => effect[i] > 0,
           UNCHANGED <<task, queue, received, holder, unpushed, dropped, effect, losses>>
    PROVE  TaskInv'
<1> DEFINE i == worker[w].at
           s == [worker[w] EXCEPT !.pc = "item", !.at = @ + 1]
<1>1. /\ worker[w] \in WorkerState /\ WorkerOK(worker[w], effect)
      /\ worker \in [Workers -> WorkerState] /\ effect \in [Items -> Nat]
      /\ i < AfterChunk(worker[w].chunk) /\ effect[i] > 0
      /\ AfterChunk(worker[w].chunk) \in 1..ItemCount + 1
      /\ FirstItem(worker[w].chunk) \in Items
      /\ worker[w].pc # "idle"
  BY WorkerType, ChunkBounds DEF TaskInv, TypeOK, InChunk
<1>2. i \in Items /\ i + 1 \in 1..ItemCount + 1
  BY InChunkItem
<1>3. worker' = [worker EXCEPT ![w] = s]
  BY <1>1
<1> HIDE DEF i
<1>4. /\ s \in WorkerState /\ s.pc = "item" /\ s.chunk = worker[w].chunk
      /\ s.at = i + 1 /\ s.seen = worker[w].seen
  BY <1>1, <1>2 DEF WorkerState, i
<1> HIDE DEF s
<1>5. WorkerOK(s, effect')
  <2>1. FirstItem(worker[w].chunk) <= i
        /\ \A j \in Items : FirstItem(worker[w].chunk) <= j /\ j < i => effect[j] > 0
    BY <1>1 DEF WorkerOK, i
  <2>2. \A j \in Items : FirstItem(worker[w].chunk) <= j /\ j < i + 1 => effect[j] > 0
    BY <1>1, <1>2, <2>1, TaskAssumption DEF Items
  <2>3. FirstItem(worker[w].chunk) <= i + 1 /\ i + 1 <= AfterChunk(worker[w].chunk)
    BY <1>1, <1>2, <2>1, TaskAssumption DEF Items
  <2>4. \A j \in Items : worker[w].seen[j] = "FINISHED" => effect[j] > 0
    BY <1>1 DEF WorkerOK
  <2>5. QED
    BY <1>4, <2>2, <2>3, <2>4 DEF WorkerOK
<1>6. Grows
  BY NothingGrows
<1>7. worker' \in [Workers -> WorkerState] /\ WorkersOK'
  BY <1>3, <1>4, <1>5, <1>6, WorkersKept
<1>8. TypeOK'
  BY <1>7 DEF TaskInv, TypeOK
<1>9. RecordsOK'
  BY DEF RecordsOK
<1>10. HolderOK' /\ NoItemIsLost'
  BY <1>1, <1>3, <1>4, <1>6, HolderKept, NothingLost
<1>11. QED
  BY <1>7, <1>8, <1>9, <1>10 DEF TaskInv

LEMMA SkipKeeps ==
    ASSUME TaskInv, NEW w \in Workers, Skip(w)
    PROVE  TaskInv'
<1>1. worker[w].at \in Items /\ worker[w].pc = "item" /\ InChunk(w)
  BY InChunkItem DEF Skip, At
<1>2. effect[worker[w].at] > 0
  BY <1>1, WorkerType DEF Skip, IsDone, WorkerOK
<1>3. worker' = [worker EXCEPT ![w].pc = "item", ![w].at = @ + 1]
  <2>1. worker[w] \in WorkerState /\ worker \in [Workers -> WorkerState]
    BY WorkerType DEF TaskInv, TypeOK
  <2>2. [worker[w] EXCEPT !.at = @ + 1] = [worker[w] EXCEPT !.pc = "item", !.at = @ + 1]
    BY <1>1, <2>1 DEF WorkerState
  <2>3. worker' = [worker EXCEPT ![w] = [worker[w] EXCEPT !.at = @ + 1]]
    BY <2>1 DEF Skip
  <2>4. QED
    BY <2>1, <2>2, <2>3
<1>4. /\ item' \in [Items -> {"none", "FINISHED", "ERRORED"}]
      /\ \A i \in Items : item'[i] = "FINISHED" => effect[i] > 0
  BY DEF Skip, TaskInv, TypeOK, RecordsOK
<1>5. QED
  BY <1>1, <1>2, <1>3, <1>4, PassKeeps DEF Skip

LEMMA RecordKeeps ==
    ASSUME TaskInv, NEW w \in Workers, Record(w)
    PROVE  TaskInv'
<1>1. worker[w].pc = "record" /\ InChunk(w) /\ effect[worker[w].at] > 0
  BY WorkerType DEF Record, At, WorkerOK, InChunk
<1>2. /\ item' \in [Items -> {"none", "FINISHED", "ERRORED"}]
      /\ \A i \in Items : item'[i] = "FINISHED" => effect[i] > 0
  BY <1>1 DEF Record, TaskInv, TypeOK, RecordsOK
<1>3. QED
  BY <1>1, <1>2, PassKeeps DEF Record

\* Writing rows that do not say FINISHED.
LEMMA RowsKeep ==
    ASSUME TaskInv, NEW w \in Workers, worker[w].pc # "idle",
           NEW pc \in {"failed", "delete"}, GoTo(w, pc),
           pc = "delete" => worker[w].at = AfterChunk(worker[w].chunk),
           item' \in [Items -> {"none", "FINISHED", "ERRORED"}],
           \A i \in Items : item'[i] = "FINISHED" => item[i] = "FINISHED",
           UNCHANGED <<task, queue, received, holder, unpushed, dropped, effect>>,
           losses' \in 0..MaxLosses
    PROVE  TaskInv'
<1> DEFINE s == [worker[w] EXCEPT !.pc = pc]
<1>1. s \in WorkerState /\ worker' = [worker EXCEPT ![w] = s] /\ WorkerOK(s, effect)
  BY GoOn
<1>2. s.chunk = worker[w].chunk
  BY WorkerType DEF WorkerState
<1> HIDE DEF s
<1>3. Grows
  BY NothingGrows
<1>4. worker' \in [Workers -> WorkerState] /\ WorkersOK'
  BY <1>1, <1>3, WorkersKept
<1>5. TypeOK'
  BY <1>4 DEF TaskInv, TypeOK
<1>6. RecordsOK'
  BY DEF TaskInv, RecordsOK
<1>7. HolderOK' /\ NoItemIsLost'
  BY <1>1, <1>2, <1>3, HolderKept, NothingLost
<1>8. QED
  BY <1>4, <1>5, <1>6, <1>7 DEF TaskInv

LEMMA ErrorKeeps ==
    ASSUME TaskInv, NEW w \in Workers, ItemFails(w) \/ RecordFails(w)
    PROVE  TaskInv'
<1>1. worker[w].pc # "idle" /\ RecordsError(w)
  BY DEF ItemFails, RecordFails, At
<1>2. losses' \in 0..MaxLosses
  BY LosesType DEF ItemFails, RecordFails
<1>3. /\ item' \in [Items -> {"none", "FINISHED", "ERRORED"}]
      /\ \A i \in Items : item'[i] = "FINISHED" => item[i] = "FINISHED"
  BY <1>1 DEF RecordsError, TaskInv, TypeOK
<1>4. QED
  BY <1>1, <1>2, <1>3, RowsKeep DEF RecordsError

LEMMA ClearKeeps ==
    ASSUME TaskInv, NEW w \in Workers, Clear(w)
    PROVE  TaskInv'
<1>1. worker[w].pc = "clear" /\ worker[w].at = AfterChunk(worker[w].chunk)
  BY WorkerType DEF Clear, At, WorkerOK
<1>2. /\ item' \in [Items -> {"none", "FINISHED", "ERRORED"}]
      /\ \A i \in Items : item'[i] # "FINISHED"
  BY DEF Clear, NotSeen
<1>3. losses' \in 0..MaxLosses
  BY WorkerType DEF Clear
<1>4. QED
  BY <1>1, <1>2, <1>3, RowsKeep DEF Clear

LEMMA StartKeeps ==
    ASSUME TaskInv, NEW w \in Workers, Start(w)
    PROVE  TaskInv'
<1>1. task' \in [status : {"QUEUED", "PROCESSING", "FINISHED", "ERRORED"},
                 processed : Nat, errors : Nat]
  BY WorkerType DEF Start
<1>2. losses' \in 0..MaxLosses
  BY WorkerType DEF Start
<1>3. QED
  BY <1>1, <1>2, GoOnKeeps DEF Start, At

LEMMA CountKeeps ==
    ASSUME TaskInv, NEW w \in Workers, Count(w)
    PROVE  TaskInv'
<1>1. worker[w].pc = "item" /\ worker[w].at = AfterChunk(worker[w].chunk)
  <2>1. worker[w].pc = "item" /\ worker[w].at <= AfterChunk(worker[w].chunk)
    BY WorkerType DEF Count, At, WorkerOK
  <2>2. AfterChunk(worker[w].chunk) \in 1..ItemCount + 1 /\ worker[w].at \in 1..ItemCount + 1
    BY WorkerType, ChunkBounds
  <2>3. QED
    BY <2>1, <2>2, TaskAssumption DEF Count, InChunk
<1>2. task' \in [status : {"QUEUED", "PROCESSING", "FINISHED", "ERRORED"},
                 processed : Nat, errors : Nat]
  BY WorkerType DEF Count
<1>3. losses' \in 0..MaxLosses
  BY WorkerType DEF Count
<1>4. PICK pc \in {"finish", "delete"} : GoTo(w, pc)
  BY DEF Count
<1>5. QED
  BY <1>1, <1>2, <1>3, <1>4, GoOnKeeps DEF Count

LEMMA FinishKeeps ==
    ASSUME TaskInv, NEW w \in Workers, Finish(w)
    PROVE  TaskInv'
<1>1. worker[w].pc = "finish" /\ worker[w].at = AfterChunk(worker[w].chunk)
  BY WorkerType DEF Finish, At, WorkerOK
<1>2. task' \in [status : {"QUEUED", "PROCESSING", "FINISHED", "ERRORED"},
                 processed : Nat, errors : Nat]
  BY WorkerType DEF Finish
<1>3. losses' \in 0..MaxLosses
  BY WorkerType DEF Finish
<1>4. QED
  BY <1>1, <1>2, <1>3, GoOnKeeps DEF Finish

LEMMA StepFailsKeeps ==
    ASSUME TaskInv, NEW w \in Workers, StepFails(w)
    PROVE  TaskInv'
<1>1. worker[w].pc # "idle"
  BY DEF StepFails, At
<1>2. losses' \in 0..MaxLosses
  BY LosesType DEF StepFails
<1>3. QED
  BY <1>1, <1>2, WorkerType, GoOnKeeps DEF StepFails

\* The message is deleted by the worker that has done all of its items.
LEMMA DeleteKeeps ==
    ASSUME TaskInv, NEW w \in Workers, Delete(w)
    PROVE  TaskInv'
<1>1. CASE holder # w
  BY <1>1, WorkerStops, WorkerType DEF Delete
<1>2. CASE holder = w
  <2> DEFINE c == worker[w].chunk
  <2>1. /\ worker[w].pc = "delete" /\ queue' = Tail(queue) /\ holder' = Nobody
        /\ worker' = [worker EXCEPT ![w] = Idle]
    BY <1>2 DEF Delete, At
  <2>2. queue \in Seq(Chunks) /\ queue # <<>> /\ c = Head(queue) /\ c \in Chunks
    BY <1>2, <2>1, WorkerType DEF TaskInv, TypeOK, HolderOK
  <2>3. Grows
    BY NothingGrows DEF Delete
  <2>4. worker' \in [Workers -> WorkerState] /\ WorkersOK'
    BY <2>1, <2>3, IdleOK, WorkersKept
  <2>5. TypeOK'
    BY <2>1, <2>2, <2>4, TailOf DEF TaskInv, TypeOK, Delete
  <2>6. RecordsOK'
    BY DEF TaskInv, RecordsOK, Delete
  <2>7. HolderOK'
    BY <2>1, TaskAssumption DEF HolderOK
  <2>8. \A i \in Items : ChunkOf(i) = c => effect[i] > 0
    <3>1. /\ worker[w].at = AfterChunk(c)
          /\ \A i \in Items : FirstItem(c) <= i /\ i < AfterChunk(c) => effect[i] > 0
      BY <2>1, WorkerType DEF WorkerOK
    <3>2. QED
      BY <3>1, ItemInChunk
  <2>9. \A d : d # c /\ Handled(d)' => Handled(d)
    BY <2>1, <2>2, TailOf DEF Handled, Delete
  <2>10. NoItemIsLost'
    BY <2>8, <2>9 DEF TaskInv, NoItemIsLost, Delete
  <2>11. QED
    BY <2>4, <2>5, <2>6, <2>7, <2>10 DEF TaskInv
<1>3. QED
  BY <1>1, <1>2

LEMMA FailedKeeps ==
    ASSUME TaskInv, NEW w \in Workers, Failed(w)
    PROVE  TaskInv'
<1>1. task' \in [status : {"QUEUED", "PROCESSING", "FINISHED", "ERRORED"},
                 processed : Nat, errors : Nat]
  BY WorkerType DEF Failed
<1>2. losses' \in 0..MaxLosses /\ worker[w].pc = "failed" /\ worker \in [Workers -> WorkerState]
  BY WorkerType DEF Failed, At, TaskInv, TypeOK
<1>3. CASE worker' = [worker EXCEPT ![w] = Idle]
  BY <1>1, <1>2, <1>3, WorkerStops DEF Failed
<1>4. CASE GoTo(w, "errored")
  BY <1>1, <1>2, <1>4, GoOnKeeps DEF Failed
<1>5. QED
  BY <1>2, <1>3, <1>4 DEF Failed, GoTo

LEMMA StopsKeep ==
    ASSUME TaskInv, NEW w \in Workers, DeleteFails(w) \/ Errored(w) \/ Crash(w)
    PROVE  TaskInv'
<1>1. losses' \in 0..MaxLosses
  BY LosesType DEF DeleteFails, Errored, Crash
<1>2. task' \in [status : {"QUEUED", "PROCESSING", "FINISHED", "ERRORED"},
                 processed : Nat, errors : Nat]
  BY WorkerType DEF DeleteFails, Errored, Crash
<1>3. QED
  BY <1>1, <1>2, WorkerStops DEF DeleteFails, Errored, Crash

-----------------------------------------------------------------------------
LEMMA InitTask == Init => TaskInv
<1> SUFFICES ASSUME Init PROVE TaskInv
  OBVIOUS
<1>1. TypeOK
  BY IdleOK, ChunkCount, TaskAssumption DEF Init, TypeOK, NotSeen
<1>2. RecordsOK
  BY DEF Init, RecordsOK, NotSeen
<1>3. WorkersOK
  BY IdleOK DEF Init, WorkersOK
<1>4. HolderOK
  BY TaskAssumption DEF Init, HolderOK
<1>5. NoItemIsLost
  BY ItemInChunk DEF Init, NoItemIsLost, Handled
<1>6. QED
  BY <1>1, <1>2, <1>3, <1>4, <1>5 DEF TaskInv

LEMMA StepTask == TaskInv /\ [Next]_vars => TaskInv'
<1> SUFFICES ASSUME TaskInv, [Next]_vars PROVE TaskInv'
  OBVIOUS
<1>1. CASE UNCHANGED vars
  BY <1>1 DEF vars, TaskInv, TypeOK, RecordsOK, WorkersOK, HolderOK, NoItemIsLost,
              Handled, WorkerOK
<1>2. CASE Push \/ PublisherStops
  BY <1>2, PublisherKeeps
<1>3. CASE Expire \/ Drop
  BY <1>3, ExpireKeeps, DropKeeps
<1>4. ASSUME NEW w \in Workers, Goes(w) PROVE TaskInv'
  BY <1>4, ReceiveKeeps, ReadKeeps, StartKeeps, SkipKeeps, ApplyKeeps, RecordKeeps, CountKeeps,
     FinishKeeps, ClearKeeps, DeleteKeeps, FailedKeeps, StopsKeep DEF Goes
<1>5. ASSUME NEW w \in Workers, GoesWrong(w) PROVE TaskInv'
  BY <1>5, ErrorKeeps, StepFailsKeeps, StopsKeep DEF GoesWrong
<1>6. QED
  BY <1>1, <1>2, <1>3, <1>4, <1>5 DEF Next

LEMMA TaskInvariant == Spec => []TaskInv
BY InitTask, StepTask, PTL DEF Spec

\* The rows, the messages and the workers stay in the states that subscribe and
\* processItems know.
THEOREM TaskTypeCorrect == Spec => []TypeOK
<1>1. TaskInv => TypeOK
  BY DEF TaskInv
<1>2. QED
  BY <1>1, TaskInvariant, PTL

\* A message is only deleted when all of its items were processed, for any number
\* of workers that crash, fail and handle it at the same time.
THEOREM NoItemIsEverLost == Spec => []NoItemIsLost
<1>1. TaskInv => NoItemIsLost
  BY DEF TaskInv
<1>2. QED
  BY <1>1, TaskInvariant, PTL

-----------------------------------------------------------------------------
(* TaskQueue implements TaskPromise: every step of the publisher, the      *)
(* queue or a worker is a step of the promise or none at all.  That the    *)
(* promise's chunks do not stay open (its fairness) is checked by TLC.     *)
(*                                                                         *)
(* What the mapping needs besides TaskInv: the messages are in order, each *)
(* chunk has one, and only of a chunk that was pushed is anything known.   *)

Earlier(c) == unpushed = 0 \/ c < unpushed

OrderOK ==
    /\ \A k \in DOMAIN queue : Earlier(queue[k])
    /\ \A j, k \in DOMAIN queue : j < k => queue[j] < queue[k]

DroppedOK ==
    /\ \A c \in dropped : Earlier(c)
    /\ \A c \in dropped, k \in DOMAIN queue : c < queue[k]

ReceivedOK ==
    /\ \A c \in Chunks : received[c] > 0 => Earlier(c)
    /\ \A w \in Workers : worker[w].pc # "idle" => received[worker[w].chunk] > 0

MessagesInv == TaskInv /\ OrderOK /\ DroppedOK /\ ReceivedOK

\* The types that the steps below need.
LEMMA QueueTypes ==
    ASSUME TaskInv
    PROVE  /\ queue \in Seq(Chunks)
           /\ Len(queue) \in Nat /\ DOMAIN queue = 1..Len(queue)
           /\ \A k \in DOMAIN queue : queue[k] \in Chunks
           /\ unpushed \in Nat
           /\ dropped \subseteq Chunks
           /\ received \in [Chunks -> Nat]
           /\ worker \in [Workers -> WorkerState]
           /\ \A w \in Workers : worker[w].chunk \in Chunks
           /\ \A c \in Chunks : c \in Nat /\ c > 0
BY ChunkCount DEF TaskInv, TypeOK, WorkerState, Chunks

LEMMA PushKeepsOrder ==
    ASSUME MessagesInv, Push
    PROVE  OrderOK' /\ DroppedOK' /\ ReceivedOK'
<1>1. /\ unpushed \in Chunks /\ unpushed' = unpushed + 1 /\ unpushed # 0 /\ unpushed \in Nat
      /\ queue \in Seq(Chunks)
      /\ UNCHANGED <<dropped, received, worker>>
  BY QueueTypes DEF Push, MessagesInv
<1>2. /\ DOMAIN queue' = 1..(Len(queue) + 1) /\ DOMAIN queue = 1..Len(queue) /\ Len(queue) \in Nat
      /\ \A k \in 1..Len(queue) : queue'[k] = queue[k] /\ queue[k] \in Nat /\ queue[k] < unpushed
      /\ queue'[Len(queue) + 1] = unpushed
  <2>1. /\ queue \in Seq(Chunks) /\ queue' = Append(queue, unpushed)
        /\ Len(queue) \in Nat /\ DOMAIN queue = 1..Len(queue)
    BY <1>1, QueueTypes DEF Push, MessagesInv
  <2>2. \A k \in 1..Len(queue) : queue[k] \in Nat /\ queue[k] < unpushed
    BY <1>1, <2>1, QueueTypes DEF MessagesInv, OrderOK, Earlier
  <2> QED
    BY <1>1, <2>1, <2>2
<1>3. \A c \in Chunks : Earlier(c) => Earlier(c)'
  BY <1>1, QueueTypes DEF Earlier, MessagesInv
<1>4. OrderOK'
  <2>1. \A k \in DOMAIN queue' : unpushed' = 0 \/ queue'[k] < unpushed'
    BY <1>1, <1>2 DEF Earlier
  <2>2. \A j, k \in DOMAIN queue' : j < k => queue'[j] < queue'[k]
    BY <1>1, <1>2 DEF MessagesInv, OrderOK
  <2> QED
    BY <2>1, <2>2 DEF OrderOK, Earlier
<1>5. DroppedOK'
  <2>1. \A c \in dropped : Earlier(c)' /\ c < unpushed
    BY <1>1, <1>3, QueueTypes DEF MessagesInv, DroppedOK, Earlier
  <2>2. \A c \in dropped, k \in DOMAIN queue' : c < queue'[k]
    BY <1>1, <1>2, <2>1 DEF MessagesInv, DroppedOK
  <2> QED
    BY <1>1, <2>1, <2>2 DEF DroppedOK
<1>6. ReceivedOK'
  BY <1>1, <1>3 DEF MessagesInv, ReceivedOK
<1> QED
  BY <1>4, <1>5, <1>6

\* The first message has gone, deleted or dropped.
LEMMA TailKeepsOrder ==
    ASSUME MessagesInv, queue # <<>>, queue' = Tail(queue), UNCHANGED unpushed
    PROVE  /\ OrderOK'
           /\ \A k \in DOMAIN queue' : Head(queue) < queue'[k]
           /\ \A k \in DOMAIN queue' : \E j \in DOMAIN queue : queue'[k] = queue[j]
           /\ {queue'[k] : k \in DOMAIN queue'} = {queue[k] : k \in DOMAIN queue} \ {Head(queue)}
<1>1. /\ queue \in Seq(Chunks) /\ Len(queue) \in Nat /\ DOMAIN queue = 1..Len(queue)
      /\ Len(queue) > 0 /\ Head(queue) = queue[1]
  BY QueueTypes DEF MessagesInv
<1>2. /\ DOMAIN queue' = 1..(Len(queue) - 1)
      /\ \A k \in 1..(Len(queue) - 1) : queue'[k] = queue[k + 1]
  BY <1>1
<1>3. \A k \in DOMAIN queue : queue[k] \in Nat
  BY QueueTypes DEF MessagesInv
<1>4. \A j, k \in DOMAIN queue : j < k => queue[j] < queue[k]
  BY DEF MessagesInv, OrderOK
<1>5. \A k \in DOMAIN queue : unpushed' = 0 \/ queue[k] < unpushed'
  BY DEF MessagesInv, OrderOK, Earlier
<1>6. OrderOK'
  <2>1. \A k \in DOMAIN queue' : unpushed' = 0 \/ queue'[k] < unpushed'
    BY <1>1, <1>2, <1>5
  <2>2. \A j, k \in DOMAIN queue' : j < k => queue'[j] < queue'[k]
    BY <1>1, <1>2, <1>4
  <2> QED
    BY <2>1, <2>2 DEF OrderOK, Earlier
<1>7. \A k \in DOMAIN queue' : Head(queue) < queue'[k] /\ k + 1 \in DOMAIN queue
  BY <1>1, <1>2, <1>4
<1>8. ASSUME NEW k \in DOMAIN queue, queue[k] # Head(queue)
      PROVE  k - 1 \in DOMAIN queue' /\ queue'[k - 1] = queue[k]
  BY <1>1, <1>2, <1>8
<1>9. {queue'[k] : k \in DOMAIN queue'} = {queue[k] : k \in DOMAIN queue} \ {Head(queue)}
  <2>1. \A k \in DOMAIN queue' : queue'[k] # Head(queue)
    BY <1>1, <1>2, <1>3, <1>7
  <2>2. \A k \in DOMAIN queue' : queue'[k] = queue[k + 1] /\ k + 1 \in DOMAIN queue
    BY <1>2, <1>7
  <2>3. \A x : x \in {queue'[k] : k \in DOMAIN queue'} <=> \E k \in DOMAIN queue' : x = queue'[k]
    OBVIOUS
  <2>4. \A x : x \in {queue[k] : k \in DOMAIN queue} <=> \E k \in DOMAIN queue : x = queue[k]
    OBVIOUS
  <2>5. ASSUME NEW x PROVE (\E k \in DOMAIN queue' : x = queue'[k])
                              <=> (\E k \in DOMAIN queue : x = queue[k]) /\ x # Head(queue)
    <3>1. ASSUME NEW k \in DOMAIN queue', x = queue'[k]
          PROVE  x = queue[k + 1] /\ k + 1 \in DOMAIN queue /\ x # Head(queue)
      BY <2>1, <2>2, <3>1
    <3>2. ASSUME NEW k \in DOMAIN queue, x = queue[k], x # Head(queue)
          PROVE  k - 1 \in DOMAIN queue' /\ x = queue'[k - 1]
      BY <1>8, <3>2
    <3> QED
      BY <3>1, <3>2
  <2> QED
    BY <2>3, <2>4, <2>5
<1> QED
  BY <1>2, <1>6, <1>7, <1>9

LEMMA DropKeepsOrder ==
    ASSUME MessagesInv, Drop
    PROVE  OrderOK' /\ DroppedOK' /\ ReceivedOK'
<1>1. /\ queue # <<>> /\ queue' = Tail(queue) /\ dropped' = dropped \cup {Head(queue)}
      /\ UNCHANGED <<received, worker, unpushed>>
  BY DEF Drop
<1>2. 1 \in DOMAIN queue /\ Head(queue) = queue[1]
  BY <1>1, QueueTypes DEF MessagesInv
<1>3. \A c \in dropped' : Earlier(c)'
  BY <1>1, <1>2 DEF MessagesInv, OrderOK, DroppedOK, Earlier
<1>4. \A c \in dropped', k \in DOMAIN queue' : c < queue'[k]
  <2>1. \A k \in DOMAIN queue' : Head(queue) < queue'[k]
    BY <1>1, TailKeepsOrder
  <2>2. \A k \in DOMAIN queue' : \E j \in DOMAIN queue : queue'[k] = queue[j]
    BY <1>1, TailKeepsOrder
  <2> QED
    BY <1>1, <2>1, <2>2 DEF MessagesInv, DroppedOK
<1>5. ReceivedOK'
  BY <1>1 DEF MessagesInv, ReceivedOK, Earlier
<1> QED
  BY <1>1, <1>3, <1>4, <1>5, TailKeepsOrder DEF DroppedOK

LEMMA DeleteKeepsOrder ==
    ASSUME MessagesInv, NEW w \in Workers, Delete(w)
    PROVE  OrderOK' /\ DroppedOK' /\ ReceivedOK'
<1>1. /\ worker' = [worker EXCEPT ![w] = Idle]
      /\ UNCHANGED <<received, dropped, unpushed>>
  BY DEF Delete
<1>2. ReceivedOK'
  <2>1. \A v \in Workers : worker'[v].pc # "idle" => worker'[v] = worker[v]
    BY <1>1, QueueTypes DEF MessagesInv, Idle
  <2> QED
    BY <1>1, <2>1 DEF MessagesInv, ReceivedOK, Earlier
<1>3. CASE UNCHANGED queue
  BY <1>1, <1>2, <1>3 DEF MessagesInv, OrderOK, DroppedOK, Earlier
<1>4. CASE holder = w
  <2>1. queue' = Tail(queue) /\ queue # <<>>
    BY <1>4 DEF Delete, At, MessagesInv, TaskInv, HolderOK
  <2>2. \A c \in dropped, k \in DOMAIN queue' : c < queue'[k]
    <3>1. \A k \in DOMAIN queue' : \E j \in DOMAIN queue : queue'[k] = queue[j]
      BY <1>1, <2>1, TailKeepsOrder
    <3> QED
      BY <3>1 DEF MessagesInv, DroppedOK
  <2>3. OrderOK'
    BY <1>1, <2>1, TailKeepsOrder
  <2> QED
    BY <1>1, <1>2, <2>2, <2>3 DEF MessagesInv, DroppedOK, Earlier
<1> QED
  BY <1>3, <1>4 DEF Delete

LEMMA ReceiveKeepsOrder ==
    ASSUME MessagesInv, NEW w \in Workers, Receive(w)
    PROVE  OrderOK' /\ DroppedOK' /\ ReceivedOK'
<1> DEFINE h == Head(queue)
<1>1. /\ queue # <<>> /\ received' = [received EXCEPT ![h] = @ + 1]
      /\ UNCHANGED <<queue, dropped, unpushed>>
      /\ worker' = [worker EXCEPT ![w] =
            [pc |-> "read", chunk |-> h, at |-> FirstItem(h), seen |-> NotSeen]]
  BY DEF Receive
<1>2. /\ 1 \in DOMAIN queue /\ h = queue[1] /\ h \in Chunks
      /\ received \in [Chunks -> Nat]
      /\ worker \in [Workers -> WorkerState]
      /\ \A v \in Workers : worker[v].chunk \in Chunks
  BY <1>1, QueueTypes DEF MessagesInv
<1> HIDE DEF h
<1>3. Earlier(h) /\ received'[h] > 0 /\ \A c \in Chunks : c # h => received'[c] = received[c]
  BY <1>1, <1>2 DEF MessagesInv, OrderOK
<1>4. \A c \in Chunks : received'[c] > 0 => Earlier(c)'
  BY <1>1, <1>3 DEF MessagesInv, ReceivedOK, Earlier
<1>5. \A v \in Workers : worker'[v].pc # "idle" => received'[worker'[v].chunk] > 0
  <2> SUFFICES ASSUME NEW v \in Workers, worker'[v].pc # "idle"
               PROVE  received'[worker'[v].chunk] > 0
    OBVIOUS
  <2>1. CASE v = w
    BY <1>1, <1>2, <1>3, <2>1
  <2>2. CASE v # w
    <3>1. worker'[v] = worker[v] /\ received[worker[v].chunk] > 0
      BY <1>1, <1>2, <2>2 DEF MessagesInv, ReceivedOK
    <3> QED
      BY <1>2, <1>3, <3>1
  <2> QED
    BY <2>1, <2>2
<1> QED
  BY <1>1, <1>4, <1>5 DEF MessagesInv, OrderOK, DroppedOK, ReceivedOK, Earlier

\* A step that leaves the messages alone, of a worker that stays with its chunk or stops.
LEMMA WorkKeepsOrder ==
    ASSUME MessagesInv, UNCHANGED <<queue, received, dropped>>,
           unpushed' = unpushed \/ unpushed' = 0,
           \A v \in Workers : worker'[v].pc # "idle" =>
              worker[v].pc # "idle" /\ worker'[v].chunk = worker[v].chunk
    PROVE  OrderOK' /\ DroppedOK' /\ ReceivedOK'
BY DEF MessagesInv, OrderOK, DroppedOK, ReceivedOK, Earlier

\* Which steps leave the messages alone.
LEMMA WorkIsQuiet ==
    ASSUME MessagesInv, NEW w \in Workers,
           \/ Read(w) \/ Start(w) \/ Skip(w) \/ Apply(w) \/ Record(w) \/ Count(w) \/ Finish(w)
           \/ Clear(w) \/ Failed(w) \/ Errored(w)
           \/ ItemFails(w) \/ RecordFails(w) \/ DeleteFails(w) \/ StepFails(w) \/ Crash(w)
    PROVE  /\ UNCHANGED <<queue, received, dropped, unpushed>>
           /\ \A v \in Workers : worker'[v].pc # "idle" =>
                 worker[v].pc # "idle" /\ worker'[v].chunk = worker[v].chunk
<1>1. UNCHANGED <<queue, received, dropped, unpushed>>
  BY DEF Read, Start, Skip, Apply, Record, Count, Finish, Clear, Failed, Errored,
         ItemFails, RecordFails, DeleteFails, StepFails, Crash, RecordsError
<1>2. worker \in [Workers -> WorkerState]
  BY QueueTypes DEF MessagesInv
<1>3. worker[w].pc # "idle"
  BY DEF Read, Start, Skip, Apply, Record, Count, Finish, Clear, Failed, Errored,
         ItemFails, RecordFails, DeleteFails, StepFails, Crash, At
<1> DEFINE Stays == \A v \in Workers : worker'[v].pc # "idle" =>
                       worker[v].pc # "idle" /\ worker'[v].chunk = worker[v].chunk
<1> SUFFICES Stays
  BY <1>1
<1>4. ASSUME NEW pc, GoTo(w, pc) PROVE Stays
  BY <1>2, <1>3, <1>4 DEF GoTo, WorkerState
<1>5. CASE Start(w) \/ Apply(w) \/ Finish(w) \/ Clear(w) \/ Count(w)
  BY <1>4, <1>5 DEF Start, Apply, Finish, Clear, Count
<1>6. CASE ItemFails(w) \/ RecordFails(w) \/ StepFails(w)
  BY <1>4, <1>6 DEF ItemFails, RecordFails, StepFails, RecordsError
<1>7. CASE worker' = [worker EXCEPT ![w] = Idle]
  BY <1>2, <1>7 DEF Idle
<1>8. CASE Errored(w) \/ Crash(w) \/ DeleteFails(w)
  BY <1>7, <1>8 DEF Errored, Crash, DeleteFails
<1>9. CASE Read(w)
  BY <1>2, <1>3, <1>9 DEF Read, WorkerState
<1>10. CASE Skip(w)
  BY <1>2, <1>3, <1>10 DEF Skip, WorkerState
<1>11. CASE Record(w)
  BY <1>2, <1>3, <1>11 DEF Record, WorkerState
<1>12. CASE Failed(w)
  <2>1. CASE worker' = [worker EXCEPT ![w] = [@ EXCEPT !.pc = "errored"]]
    BY <1>2, <1>3, <2>1 DEF WorkerState
  <2> QED
    BY <1>7, <1>12, <2>1 DEF Failed
<1> QED
  BY <1>1, <1>5, <1>6, <1>8, <1>9, <1>10, <1>11, <1>12

LEMMA MessagesInvariant == Spec => []MessagesInv
<1>1. Init => MessagesInv
  BY InitTask DEF Init, MessagesInv, OrderOK, DroppedOK, ReceivedOK, Idle
<1>2. ASSUME MessagesInv, [Next]_vars PROVE MessagesInv'
  <2>1. TaskInv'
    BY <1>2, StepTask DEF MessagesInv
  <2>2. CASE UNCHANGED vars
    <3>1. UNCHANGED <<queue, received, dropped, unpushed, worker>>
      BY <2>2 DEF vars
    <3> QED
      BY <1>2, <2>1, <3>1, WorkKeepsOrder DEF MessagesInv
  <2>3. CASE Push
    BY <1>2, <2>1, <2>3, PushKeepsOrder DEF MessagesInv
  <2>4. CASE PublisherStops \/ Expire
    <3>1. /\ UNCHANGED <<queue, received, dropped, worker>>
          /\ unpushed' = unpushed \/ unpushed' = 0
      BY <2>4 DEF PublisherStops, Expire
    <3> QED
      BY <1>2, <2>1, <3>1, WorkKeepsOrder DEF MessagesInv
  <2>5. ASSUME NEW w \in Workers, Delete(w) PROVE MessagesInv'
    BY <1>2, <2>1, <2>5, DeleteKeepsOrder DEF MessagesInv
  <2>6. CASE Drop
    BY <1>2, <2>1, <2>6, DropKeepsOrder DEF MessagesInv
  <2>7. ASSUME NEW w \in Workers, Receive(w) PROVE MessagesInv'
    BY <1>2, <2>1, <2>7, ReceiveKeepsOrder DEF MessagesInv
  <2>8. ASSUME NEW w \in Workers, Goes(w), ~Receive(w), ~Delete(w) PROVE MessagesInv'
    BY <1>2, <2>1, <2>8, WorkIsQuiet, WorkKeepsOrder DEF Goes, MessagesInv
  <2>9. ASSUME NEW w \in Workers, GoesWrong(w) PROVE MessagesInv'
    BY <1>2, <2>1, <2>9, WorkIsQuiet, WorkKeepsOrder DEF GoesWrong, MessagesInv
  <2> QED
    BY <1>2, <2>2, <2>3, <2>4, <2>5, <2>6, <2>7, <2>8, <2>9 DEF Next
<1> QED
  BY <1>1, <1>2, PTL DEF Spec

-----------------------------------------------------------------------------
(* The steps of the promise.                                               *)

\* What a worker is at belongs to its chunk.
LEMMA ChunkOfItem ==
    ASSUME NEW c \in Chunks, NEW i \in Items, FirstItem(c) <= i, i < AfterChunk(c)
    PROVE  ChunkOf(i) = c
<1> DEFINE q == (i - 1) \div ChunkSize
<1>1. /\ i - 1 \in Nat /\ c - 1 \in Nat /\ c \in Nat /\ i \in Nat /\ i <= ItemCount
      /\ ChunkSize \in Nat \ {0} /\ ItemCount \in Nat
  BY TaskAssumption, ChunkCount DEF Items, Chunks
<1>2. q \in Nat /\ q * ChunkSize <= i - 1 /\ i - 1 < q * ChunkSize + ChunkSize
  BY <1>1, Division
<1>3. ChunkOf(i) = q + 1
  BY DEF ChunkOf
<1> HIDE DEF q
<1>4. /\ (c - 1) * ChunkSize \in Nat /\ q * ChunkSize \in Nat /\ c * ChunkSize \in Nat
      /\ c * ChunkSize = (c - 1) * ChunkSize + ChunkSize
  BY <1>1, <1>2
<1>5. (c - 1) * ChunkSize <= i - 1
  BY <1>1, <1>4 DEF FirstItem
<1>6. i - 1 < (c - 1) * ChunkSize + ChunkSize
  <2>1. i <= c * ChunkSize
    BY <1>1, <1>4 DEF AfterChunk
  <2> QED
    BY <1>1, <1>4, <2>1
<1>7. c - 1 <= q
  <2>1. (c - 1) * ChunkSize < q * ChunkSize + ChunkSize
    BY <1>1, <1>2, <1>4, <1>5
  <2> QED
    BY <1>1, <1>2, <2>1, Smaller
<1>8. q <= c - 1
  <2>1. q * ChunkSize < (c - 1) * ChunkSize + ChunkSize
    BY <1>1, <1>2, <1>4, <1>6
  <2> QED
    BY <1>1, <1>2, <2>1, Smaller
<1> QED
  BY <1>1, <1>2, <1>3, <1>7, <1>8

Open == {queue[k] : k \in DOMAIN queue}
Settled == {c \in Chunks : Handled(c)}
Done == {i \in Items : effect[i] > 0}

LEMMA HandledIsNotOpen ==
    ASSUME NEW c
    PROVE  Handled(c) <=> received[c] > 0 /\ c \notin dropped /\ c \notin Open
BY DEF Handled, Open

\* Any step but those of the messages and Apply leaves all that the promise is about.
LEMMA WorkIsStutter ==
    ASSUME UNCHANGED <<queue, received, dropped, effect>>
    PROVE  UNCHANGED <<Open, Settled, dropped, Done>>
BY DEF Open, Settled, Done, Handled

LEMMA PushAccepts ==
    ASSUME MessagesInv, Push
    PROVE  Promise!Accept(unpushed)
<1>1. /\ unpushed \in Chunks /\ unpushed # 0 /\ unpushed \in Nat
      /\ queue' = Append(queue, unpushed) /\ queue \in Seq(Chunks)
      /\ UNCHANGED <<dropped, received, effect>>
  BY QueueTypes DEF Push, MessagesInv
<1>2. unpushed \notin Open
  BY <1>1, QueueTypes DEF Open, MessagesInv, OrderOK, Earlier
<1>3. unpushed \notin dropped /\ received[unpushed] = 0
  BY <1>1, QueueTypes DEF MessagesInv, DroppedOK, ReceivedOK, Earlier
<1>4. Open' = Open \cup {unpushed}
  <2>1. /\ DOMAIN queue' = 1..(Len(queue) + 1) /\ DOMAIN queue = 1..Len(queue) /\ Len(queue) \in Nat
        /\ \A k \in 1..Len(queue) : queue'[k] = queue[k]
        /\ queue'[Len(queue) + 1] = unpushed
    BY <1>1
  <2>2. ASSUME NEW k \in DOMAIN queue'
        PROVE  queue'[k] = unpushed \/ \E j \in DOMAIN queue : queue'[k] = queue[j]
    <3>1. CASE k = Len(queue) + 1
      BY <2>1, <3>1
    <3>2. CASE k \in 1..Len(queue)
      BY <2>1, <3>2
    <3> QED
      BY <2>1, <3>1, <3>2
  <2>3. ASSUME NEW x PROVE x \in Open' <=> x \in Open \/ x = unpushed
    <3>1. x \in Open' => x \in Open \/ x = unpushed
      BY <2>2 DEF Open
    <3>2. x \in Open => x \in Open'
      BY <2>1 DEF Open
    <3>3. unpushed \in Open'
      <4>1. Len(queue) + 1 \in DOMAIN queue'
        BY <2>1
      <4> QED
        BY <2>1, <4>1 DEF Open
    <3> QED
      BY <3>1, <3>2, <3>3
  <2> QED
    BY <2>3
<1>5. Settled' = Settled
  <2>1. ASSUME NEW c \in Chunks PROVE Handled(c)' <=> Handled(c)
    <3>1. Handled(c)' <=> received[c] > 0 /\ c \notin dropped /\ c \notin Open'
      BY <1>1 DEF Handled, Open
    <3> QED
      BY <1>2, <1>3, <1>4, <3>1, HandledIsNotOpen, QueueTypes DEF MessagesInv
  <2> QED
    BY <2>1 DEF Settled
<1>6. unpushed \notin Settled
  BY <1>3, QueueTypes DEF Settled, Handled, MessagesInv
<1>7. Done' = Done
  BY <1>1 DEF Done
<1> QED
  BY <1>1, <1>2, <1>3, <1>4, <1>5, <1>6, <1>7 DEF Promise!Accept, Open, Settled, Done

LEMMA DropGivesUp ==
    ASSUME MessagesInv, Drop
    PROVE  Head(queue) \in Chunks /\ Promise!GiveUp(Head(queue))
<1>1. /\ queue # <<>> /\ queue' = Tail(queue) /\ dropped' = dropped \cup {Head(queue)}
      /\ UNCHANGED <<received, effect, unpushed>>
  BY DEF Drop
<1>2. 1 \in DOMAIN queue /\ Head(queue) = queue[1] /\ Head(queue) \in Chunks
  BY <1>1, QueueTypes DEF MessagesInv
<1>3. Open' = Open \ {Head(queue)} /\ Head(queue) \in Open
  BY <1>1, <1>2, TailKeepsOrder DEF Open
<1>4. Settled' = Settled
  <2>1. ASSUME NEW c \in Chunks PROVE Handled(c)' <=> Handled(c)
    <3>1. Handled(c)' <=> received[c] > 0 /\ c \notin dropped' /\ c \notin Open'
      BY <1>1 DEF Handled, Open
    <3> QED
      BY <1>1, <1>3, <3>1, HandledIsNotOpen
  <2> QED
    BY <2>1 DEF Settled
<1>5. Done' = Done
  BY <1>1 DEF Done
<1> QED
  BY <1>1, <1>2, <1>3, <1>4, <1>5 DEF Promise!GiveUp, Open, Settled, Done

LEMMA DeleteSettles ==
    ASSUME MessagesInv, NEW w \in Workers, Delete(w)
    PROVE  Promise!Settle(worker[w].chunk) \/ UNCHANGED Promise!vars
<1> DEFINE c == worker[w].chunk
<1>1. CASE UNCHANGED queue
  <2>1. UNCHANGED <<queue, received, dropped, effect>>
    BY <1>1 DEF Delete
  <2> QED
    BY <2>1, WorkIsStutter DEF Promise!vars, Open, Settled, Done
<1>2. CASE holder = w
  <2>1. /\ worker[w].pc = "delete" /\ queue' = Tail(queue)
        /\ UNCHANGED <<received, dropped, effect, unpushed>>
    BY <1>2 DEF Delete, At
  <2>2. queue # <<>> /\ c = Head(queue) /\ c \in Chunks
    BY <1>2, <2>1, QueueTypes DEF MessagesInv, TaskInv, HolderOK
  <2>3. 1 \in DOMAIN queue /\ c = queue[1]
    BY <2>2, QueueTypes DEF MessagesInv
  <2>4. Open' = Open \ {c} /\ c \in Open
    BY <2>1, <2>2, <2>3, TailKeepsOrder DEF Open
  <2>5. received[c] > 0 /\ c \notin dropped
    <3>1. \A d \in dropped : d < queue[1]
      BY <2>3 DEF MessagesInv, DroppedOK
    <3>2. ~(c < c)
      BY <2>2, QueueTypes DEF MessagesInv
    <3> QED
      BY <2>1, <2>3, <3>1, <3>2 DEF MessagesInv, ReceivedOK
  <2>6. Settled' = Settled \cup {c}
    <3>1. ASSUME NEW d \in Chunks PROVE Handled(d)' <=> Handled(d) \/ d = c
      <4>1. Handled(d)' <=> received[d] > 0 /\ d \notin dropped /\ d \notin Open'
        BY <2>1 DEF Handled, Open
      <4> QED
        BY <2>4, <2>5, <4>1, HandledIsNotOpen
    <3> QED
      BY <2>2, <3>1 DEF Settled
  <2>7. \A i \in Items : ChunkOf(i) = c => i \in Done
    <3>1. /\ worker[w].at = AfterChunk(c)
          /\ \A i \in Items : FirstItem(c) <= i /\ i < AfterChunk(c) => effect[i] > 0
      BY <2>1, WorkerType DEF WorkerOK, MessagesInv
    <3> QED
      BY <3>1, ItemInChunk DEF Done
  <2>8. Done' = Done
    BY <2>1 DEF Done
  <2> QED
    BY <2>1, <2>4, <2>6, <2>7, <2>8 DEF Promise!Settle, Open, Settled, Done
<1> QED
  BY <1>1, <1>2 DEF Delete

LEMMA ReceiveIsStutter ==
    ASSUME MessagesInv, NEW w \in Workers, Receive(w)
    PROVE  UNCHANGED Promise!vars
<1>1. /\ queue # <<>> /\ received' = [received EXCEPT ![Head(queue)] = @ + 1]
      /\ UNCHANGED <<queue, dropped, effect>>
  BY DEF Receive
<1>2. Head(queue) \in Open /\ received \in [Chunks -> Nat] /\ Open' = Open /\ Done' = Done
  <2>1. 1 \in DOMAIN queue /\ Head(queue) = queue[1]
    BY <1>1, QueueTypes DEF MessagesInv
  <2> QED
    BY <1>1, <2>1, QueueTypes DEF MessagesInv, Open, Done
<1>3. Settled' = Settled
  <2>1. ASSUME NEW d \in Chunks PROVE Handled(d)' <=> Handled(d)
    <3>1. Handled(d)' <=> received'[d] > 0 /\ d \notin dropped /\ d \notin Open
      BY <1>1 DEF Handled, Open
    <3>2. d # Head(queue) => received'[d] = received[d]
      BY <1>1, <1>2
    <3> QED
      BY <1>2, <3>1, <3>2, HandledIsNotOpen
  <2> QED
    BY <2>1 DEF Settled
<1> QED
  BY <1>1, <1>2, <1>3 DEF Promise!vars, Open, Settled, Done

LEMMA ApplyProcesses ==
    ASSUME MessagesInv, NEW w \in Workers, Apply(w)
    PROVE  worker[w].at \in Items /\ (Promise!Process(worker[w].at) \/ UNCHANGED Promise!vars)
<1> DEFINE c == worker[w].chunk
           i == worker[w].at
<1>1. /\ worker[w].pc = "item" /\ InChunk(w) /\ effect' = [effect EXCEPT ![i] = @ + 1]
      /\ UNCHANGED <<queue, received, dropped>>
  BY DEF Apply, At
<1>2. i \in Items /\ c \in Chunks /\ effect \in [Items -> Nat]
  BY <1>1, InChunkItem, QueueTypes DEF MessagesInv, TaskInv, TypeOK
<1>3. ChunkOf(i) = c
  <2>1. FirstItem(c) <= i
    BY <1>1, WorkerType DEF WorkerOK, MessagesInv
  <2>2. i < AfterChunk(c)
    BY <1>1 DEF InChunk
  <2> QED
    BY <1>2, <2>1, <2>2, ChunkOfItem
<1>4. received[c] > 0
  BY <1>1 DEF MessagesInv, ReceivedOK
<1>5. Open' = Open /\ Settled' = Settled
  BY <1>1 DEF Open, Settled, Handled
<1>6. Done' = Done \cup {i}
  <2>1. effect'[i] > 0 /\ \A j \in Items : j # i => effect'[j] = effect[j]
    BY <1>1, <1>2
  <2> QED
    BY <1>2, <2>1 DEF Done
<1>7. CASE c \in Open \cup dropped
  BY <1>1, <1>2, <1>3, <1>5, <1>6, <1>7 DEF Promise!Process, Open, Settled, Done
<1>8. CASE c \notin Open \cup dropped
  <2>1. Handled(c)
    BY <1>4, <1>8, HandledIsNotOpen
  <2>2. effect[i] > 0
    BY <1>2, <1>3, <2>1 DEF MessagesInv, TaskInv, NoItemIsLost
  <2>3. Done' = Done
    BY <1>2, <1>6, <2>2 DEF Done
  <2> QED
    BY <1>1, <1>2, <1>5, <2>3 DEF Promise!vars, Open, Settled, Done
<1> QED
  BY <1>2, <1>7, <1>8

\* Whatever fails, dies or comes back too early, the publisher, the queue and the workers
\* do no more than at-least-once processing of chunks: the safety part of KeepsPromise.
THEOREM TaskQueueKeepsPromise == Spec => Promise!Spec
<1>1. Init => Promise!Init
  BY DEF Init, Promise!Init, Handled
<1>2. ASSUME MessagesInv, [Next]_vars PROVE [Promise!Next]_(Promise!vars)
  <2>1. CASE UNCHANGED vars
    BY <2>1, WorkIsStutter DEF vars, Promise!vars, Open, Settled, Done
  <2>2. CASE Push
    BY <1>2, <2>2, PushAccepts DEF Promise!Next, Promise!Accept, Push
  <2>3. CASE PublisherStops \/ Expire
    BY <2>3, WorkIsStutter DEF PublisherStops, Expire, Promise!vars, Open, Settled, Done
  <2>4. CASE Drop
    BY <1>2, <2>4, DropGivesUp DEF Promise!Next, Promise!GiveUp
  <2>5. ASSUME NEW w \in Workers, Receive(w) PROVE UNCHANGED Promise!vars
    BY <1>2, <2>5, ReceiveIsStutter
  <2>6. ASSUME NEW w \in Workers, Apply(w) PROVE [Promise!Next]_(Promise!vars)
    BY <1>2, <2>6, ApplyProcesses DEF Promise!Next, Promise!Process
  <2>7. ASSUME NEW w \in Workers, Delete(w) PROVE [Promise!Next]_(Promise!vars)
    <3>1. worker[w].chunk \in Chunks
      BY <1>2, QueueTypes DEF MessagesInv
    <3> QED
      BY <1>2, <2>7, <3>1, DeleteSettles DEF Promise!Next, Promise!Settle
  <2>8. ASSUME NEW w \in Workers, Goes(w) \/ GoesWrong(w), ~Receive(w), ~Apply(w), ~Delete(w)
        PROVE  UNCHANGED Promise!vars
    <3>1. UNCHANGED <<queue, received, dropped, effect>>
      BY <2>8 DEF Goes, GoesWrong, Read, Start, Skip, Record, Count, Finish, Clear, Failed, Errored,
                  ItemFails, RecordFails, DeleteFails, StepFails, Crash, RecordsError
    <3> QED
      BY <3>1, WorkIsStutter DEF Promise!vars, Open, Settled, Done
  <2> QED
    BY <1>2, <2>1, <2>2, <2>3, <2>4, <2>5, <2>6, <2>7, <2>8 DEF Next
<1> QED
  BY <1>1, <1>2, MessagesInvariant, PTL DEF Spec, Promise!Spec

-----------------------------------------------------------------------------
(* As long as nothing is lost, one worker at a time works on a message and *)
(* none starts a message that somebody has counted.  The counter can then  *)
(* be compared with the messages that have gone, and a callback with the   *)
(* row of its item, until the last worker deletes the rows.                *)

\* Nobody's message is left out: of all chunks up to one that was pushed something is known.
Known(c) == received[c] > 0 \/ c \in dropped \/ \E k \in DOMAIN queue : queue[k] = c

KnownOK ==
    /\ \A c \in Chunks, k \in DOMAIN queue : c < queue[k] => Known(c)
    /\ \A c \in Chunks : unpushed # 0 /\ c < unpushed => Known(c)

Alone == \A w \in Workers : worker[w].pc # "idle" => holder = w

\* How many messages may have gone from the queue.
Gone ==
    IF queue # <<>> THEN Head(queue) - 1
    ELSE IF unpushed = 0 THEN ChunkOf(ItemCount) ELSE unpushed - 1

HasCounted(s) == s.pc \in {"finish", "clear", "delete"}

\* Only messages that have gone are counted, or the one at hand; a dropped one never is.
Counted ==
    task.processed + (IF dropped = {} THEN 0 ELSE 1)
       <= Gone + (IF \E w \in Workers : HasCounted(worker[w]) THEN 1 ELSE 0)

AllDone == \A i \in Items : effect[i] > 0

EndOK ==
    /\ \A w \in Workers :
          worker[w].pc \in {"finish", "clear"} => Head(queue) = ChunkOf(ItemCount) /\ AllDone
    /\ task.status = "FINISHED" => AllDone

\* Nobody will look at the rows again.
Over ==
    /\ unpushed \notin Chunks
    /\ \/ queue = <<>>
       \/ /\ Len(queue) = 1
          /\ \E w \in Workers : holder = w /\ worker[w].pc = "delete"

Recording(i) == \E w \in Workers : worker[w].pc = "record" /\ worker[w].at = i

\* The row of an item whose callback has committed says so, or will next.
OnceOK ==
    \A i \in Items :
       /\ effect[i] <= 1
       /\ effect[i] = 1 => item[i] = "FINISHED" \/ Over \/ Recording(i)

\* What a worker has read of the items it has not passed is still true.
SeenOK(s) ==
    s.pc \in {"start", "item", "record"} =>
       \A i \in Items : s.at <= i => s.seen[i] = item[i]

SeesOK == \A w \in Workers : SeenOK(worker[w])

Undisturbed == Alone /\ Counted /\ EndOK /\ OnceOK /\ SeesOK

OnceInv == MessagesInv /\ KnownOK /\ (losses = 0 => Undisturbed)

-----------------------------------------------------------------------------
\* What was received or dropped once is so for ever, and a message goes by one of the two.
LEMMA KnownStays ==
    ASSUME MessagesInv, [Next]_vars, NEW c \in Chunks, Known(c)
    PROVE  Known(c)'
<1>1. CASE received[c] > 0
  <2>1. CASE UNCHANGED received
    BY <1>1, <2>1 DEF Known
  <2>2. ASSUME NEW w \in Workers, Receive(w) PROVE Known(c)'
    BY <1>1, <2>2, QueueTypes DEF Receive, Known, MessagesInv
  <2> QED
    BY <2>1, <2>2 DEF Next, vars, Push, PublisherStops, Expire, Drop, Goes, GoesWrong, Read, Start,
       Skip, Apply, Record, Count, Finish, Clear, Delete, Failed, Errored,
       ItemFails, RecordFails, DeleteFails, StepFails, Crash, RecordsError
<1>2. CASE c \in dropped
  BY <1>2 DEF Known, Next, vars, Push, PublisherStops, Expire, Drop, Goes, GoesWrong, Receive, Read,
     Start, Skip, Apply, Record, Count, Finish, Clear, Delete, Failed, Errored,
     ItemFails, RecordFails, DeleteFails, StepFails, Crash, RecordsError
<1>3. ASSUME NEW k \in DOMAIN queue, queue[k] = c PROVE Known(c)'
  <2>1. CASE UNCHANGED queue
    BY <1>3, <2>1 DEF Known
  <2>2. CASE Push
    <3>1. k \in DOMAIN queue' /\ queue'[k] = queue[k]
      BY <2>2, QueueTypes DEF Push, MessagesInv
    <3> QED
      BY <1>3, <3>1 DEF Known
  <2>3. ASSUME queue # <<>>, queue' = Tail(queue), c # Head(queue) PROVE Known(c)'
    <3>1. \E j \in DOMAIN Tail(queue) : Tail(queue)[j] = c
      BY <1>3, <2>3, QueueTypes, TailOf DEF MessagesInv
    <3> QED
      BY <2>3, <3>1 DEF Known
  <2>4. CASE Drop
    BY <2>3, <2>4 DEF Drop, Known
  <2>5. ASSUME NEW w \in Workers, Delete(w) PROVE Known(c)'
    <3>1. CASE holder = w
      <4>1. /\ worker[w].pc = "delete" /\ queue' = Tail(queue) /\ UNCHANGED received
            /\ queue # <<>> /\ worker[w].chunk = Head(queue)
        BY <2>5, <3>1 DEF Delete, At, MessagesInv, TaskInv, HolderOK
      <4>2. received[Head(queue)] > 0
        BY <4>1 DEF MessagesInv, ReceivedOK
      <4> QED
        BY <2>3, <4>1, <4>2 DEF Known
    <3> QED
      BY <2>1, <2>5, <3>1 DEF Delete
  <2> QED
    BY <2>1, <2>2, <2>4, <2>5 DEF Next, vars, PublisherStops, Expire, Goes, GoesWrong, Receive, Read,
       Start, Skip, Apply, Record, Count, Finish, Clear, Failed, Errored,
       ItemFails, RecordFails, DeleteFails, StepFails, Crash, RecordsError
<1> QED
  BY <1>1, <1>2, <1>3 DEF Known

\* Which messages there are, and what comes next, changes by Push, Drop and Delete alone.
LEMMA KnownKept ==
    ASSUME MessagesInv, KnownOK, [Next]_vars
    PROVE  KnownOK'
<1>1. \A c \in Chunks : Known(c) => Known(c)'
  BY KnownStays
<1>2. CASE Push
  <2>1. /\ unpushed \in Chunks /\ unpushed' = unpushed + 1 /\ unpushed # 0 /\ unpushed \in Nat
        /\ queue' = Append(queue, unpushed) /\ queue \in Seq(Chunks)
        /\ Len(queue) \in Nat /\ DOMAIN queue = 1..Len(queue)
    BY <1>2, QueueTypes DEF Push, MessagesInv
  <2>2. /\ DOMAIN queue' = 1..(Len(queue) + 1)
        /\ \A k \in 1..Len(queue) : queue'[k] = queue[k]
        /\ queue'[Len(queue) + 1] = unpushed
    BY <2>1
  <2>3. ASSUME NEW c \in Chunks, c = unpushed PROVE Known(c)'
    <3>1. Len(queue) + 1 \in DOMAIN queue' /\ queue'[Len(queue) + 1] = c
      BY <2>1, <2>2, <2>3
    <3> QED
      BY <3>1 DEF Known
  <2>4. ASSUME NEW c \in Chunks, c < unpushed' PROVE Known(c)'
    <3>1. c = unpushed \/ c < unpushed
      BY <2>1, <2>4, QueueTypes DEF MessagesInv
    <3> QED
      BY <1>1, <2>1, <2>3, <3>1 DEF KnownOK
  <2>5. ASSUME NEW c \in Chunks, NEW k \in DOMAIN queue', c < queue'[k] PROVE Known(c)'
    <3>1. CASE k \in DOMAIN queue
      BY <1>1, <2>1, <2>2, <2>5, <3>1 DEF KnownOK
    <3>2. CASE k = Len(queue) + 1
      BY <2>1, <2>2, <2>4, <2>5, <3>2, QueueTypes DEF MessagesInv
    <3> QED
      BY <2>1, <2>2, <3>1, <3>2
  <2> QED
    BY <2>4, <2>5 DEF KnownOK
<1>3. ASSUME \A k \in DOMAIN queue' : \E j \in DOMAIN queue : queue'[k] = queue[j],
             unpushed' = unpushed \/ unpushed' = 0
      PROVE  KnownOK'
  BY <1>1, <1>3 DEF KnownOK
<1>4. CASE Drop
  <2>1. queue # <<>> /\ queue' = Tail(queue) /\ UNCHANGED unpushed
    BY <1>4 DEF Drop
  <2> QED
    BY <1>3, <2>1, TailKeepsOrder
<1>5. ASSUME NEW w \in Workers, Delete(w) PROVE KnownOK'
  <2>1. CASE holder = w
    <3>1. queue' = Tail(queue) /\ queue # <<>> /\ UNCHANGED unpushed
      BY <1>5, <2>1 DEF Delete, At, MessagesInv, TaskInv, HolderOK
    <3> QED
      BY <1>3, <3>1, TailKeepsOrder
  <2>2. CASE UNCHANGED queue
    BY <1>3, <1>5, <2>2 DEF Delete
  <2> QED
    BY <1>5, <2>1, <2>2 DEF Delete
<1>6. CASE UNCHANGED queue /\ (unpushed' = unpushed \/ unpushed' = 0)
  BY <1>3, <1>6
<1> QED
  BY <1>2, <1>4, <1>5, <1>6 DEF Next, vars, PublisherStops, Expire, Goes, GoesWrong, Receive, Read,
     Start, Skip, Apply, Record, Count, Finish, Clear, Failed, Errored,
     ItemFails, RecordFails, DeleteFails, StepFails, Crash, RecordsError

-----------------------------------------------------------------------------
\* A worker that is at work is the only one, and its message is the first.
LEMMA AtWork ==
    ASSUME OnceInv, losses = 0, NEW w \in Workers, worker[w].pc # "idle"
    PROVE  /\ holder = w /\ holder # Nobody
           /\ queue # <<>> /\ worker[w].chunk = Head(queue)
           /\ Head(queue) \in Chunks /\ Head(queue) \in Nat
           /\ \A v \in Workers \ {w} : worker[v].pc = "idle"
           /\ worker \in [Workers -> WorkerState] /\ worker[w] \in WorkerState
<1>1. holder = w /\ \A v \in Workers \ {w} : worker[v].pc = "idle"
  BY DEF OnceInv, Undisturbed, Alone
<1>2. queue # <<>> /\ worker[w].chunk = Head(queue)
  BY <1>1 DEF OnceInv, MessagesInv, TaskInv, HolderOK
<1> QED
  BY <1>1, <1>2, QueueTypes, TaskAssumption DEF OnceInv, MessagesInv

\* Losses are never undone.
LEMMA LossesStay ==
    ASSUME OnceInv, [Next]_vars, losses' = 0
    PROVE  losses = 0 /\ Undisturbed
<1>1. losses \in Nat
  BY TaskAssumption DEF OnceInv, MessagesInv, TaskInv, TypeOK
<1>2. losses' = losses \/ Loses
  BY DEF Next, vars, Push, PublisherStops, Expire, Drop, Goes, GoesWrong, Receive, Read,
     Start, Skip, Apply, Record, Count, Finish, Clear, Delete, Failed, Errored,
     ItemFails, RecordFails, DeleteFails, StepFails, Crash
<1> QED
  BY <1>1, <1>2 DEF Loses, OnceInv

\* A step of the worker at work, to a state s, that leaves the messages alone.
LEMMA Working ==
    ASSUME OnceInv, losses = 0, NEW w \in Workers, worker[w].pc # "idle",
           NEW s \in WorkerState, worker' = [worker EXCEPT ![w] = s],
           UNCHANGED <<queue, holder, unpushed, dropped>>,
           \/ task'.processed = task.processed /\ (HasCounted(worker[w]) => HasCounted(s))
           \/ task'.processed = task.processed + 1 /\ ~HasCounted(worker[w]) /\ HasCounted(s),
           s.pc \in {"finish", "clear"} => Head(queue) = ChunkOf(ItemCount) /\ AllDone',
           task'.status = "FINISHED" => AllDone',
           \A i \in Items :
              /\ effect'[i] <= 1
              /\ effect'[i] = 1 /\ item'[i] # "FINISHED" =>
                    \/ s.pc = "record" /\ s.at = i
                    \/ s.pc = "delete" /\ unpushed \notin Chunks /\ Len(queue) = 1,
           s.pc \in {"start", "item", "record"} =>
              \A i \in Items : s.at <= i => s.seen[i] = item'[i]
    PROVE  Undisturbed'
<1>1. /\ holder = w /\ worker'[w] = s
      /\ \A v \in Workers \ {w} : worker'[v] = worker[v] /\ worker'[v].pc = "idle"
      /\ \A v \in Workers \ {w} : worker[v].pc = "idle"
  BY AtWork
<1>2. Alone'
  BY <1>1 DEF Alone
<1>3. Counted'
  <2>1. (\E v \in Workers : HasCounted(worker[v])) <=> HasCounted(worker[w])
    BY <1>1 DEF HasCounted
  <2>2. (\E v \in Workers : HasCounted(worker'[v])) <=> HasCounted(s)
    BY <1>1 DEF HasCounted
  <2>3. Gone \in Int /\ Gone' = Gone
    BY AtWork DEF Gone
  <2>4. task.processed \in Nat
    BY DEF OnceInv, MessagesInv, TaskInv, TypeOK
  <2>5. task.processed + (IF dropped = {} THEN 0 ELSE 1)
           <= Gone + (IF HasCounted(worker[w]) THEN 1 ELSE 0)
    BY <2>1 DEF OnceInv, Undisturbed, Counted
  <2>6. task'.processed + (IF dropped = {} THEN 0 ELSE 1)
           <= Gone + (IF HasCounted(s) THEN 1 ELSE 0)
    BY <2>3, <2>4, <2>5
  <2> QED
    BY <2>2, <2>3, <2>6 DEF Counted
<1>4. EndOK'
  BY <1>1 DEF EndOK
<1>5. OnceOK'
  <2> SUFFICES ASSUME NEW i \in Items, effect'[i] = 1, item'[i] # "FINISHED"
               PROVE  Over' \/ (\E v \in Workers : worker'[v].pc = "record" /\ worker'[v].at = i)
    BY DEF OnceOK, Recording
  <2>1. CASE s.pc = "record" /\ s.at = i
    BY <1>1, <2>1
  <2>2. CASE s.pc = "delete" /\ unpushed \notin Chunks /\ Len(queue) = 1
    BY <1>1, <2>2 DEF Over
  <2> QED
    BY <2>1, <2>2
<1>6. SeesOK'
  BY <1>1 DEF SeesOK, SeenOK
<1> QED
  BY <1>2, <1>3, <1>4, <1>5, <1>6 DEF Undisturbed

\* Before it deletes its message, a worker finds that what was done has its row.
LEMMA RowsAgree ==
    ASSUME OnceInv, losses = 0, NEW w \in Workers, worker[w].pc \notin {"idle", "delete"}
    PROVE  /\ \A i \in Items : effect[i] <= 1 /\ effect[i] \in Nat
           /\ \A i \in Items : effect[i] = 1 /\ item[i] # "FINISHED" =>
                 worker[w].pc = "record" /\ worker[w].at = i
           /\ ~HasCounted(worker[w]) \/ worker[w].pc \in {"finish", "clear"}
<1>1. /\ holder = w /\ queue # <<>>
      /\ \A v \in Workers \ {w} : worker[v].pc = "idle"
  BY AtWork
<1>2. ~Over
  BY <1>1 DEF Over
<1>3. \A i \in Items : Recording(i) => worker[w].pc = "record" /\ worker[w].at = i
  BY <1>1 DEF Recording
<1>4. OnceOK /\ \A i \in Items : effect[i] \in Nat
  BY DEF OnceInv, Undisturbed, MessagesInv, TaskInv, TypeOK
<1> QED
  BY <1>2, <1>3, <1>4 DEF OnceOK, HasCounted

\* Steps of the worker that commit nothing and write no row of an item.
LEMMA StepsOn ==
    ASSUME OnceInv, losses = 0, NEW w \in Workers,
           worker[w].pc \notin {"idle", "delete"},
           NEW s \in WorkerState, worker' = [worker EXCEPT ![w] = s],
           s.pc # "record", worker[w].pc # "record",
           UNCHANGED <<queue, holder, unpushed, dropped, item, effect>>,
           \/ task'.processed = task.processed /\ (HasCounted(worker[w]) => HasCounted(s))
           \/ task'.processed = task.processed + 1 /\ ~HasCounted(worker[w]) /\ HasCounted(s),
           s.pc \in {"finish", "clear"} => Head(queue) = ChunkOf(ItemCount) /\ AllDone,
           task'.status = "FINISHED" => AllDone,
           s.pc \in {"start", "item"} =>
              \A i \in Items : s.at <= i => s.seen[i] = item[i]
    PROVE  Undisturbed'
<1>1. \A i \in Items : effect[i] <= 1 /\ ~(effect[i] = 1 /\ item[i] # "FINISHED")
  BY RowsAgree
<1>2. AllDone' <=> AllDone
  BY DEF AllDone
<1> QED
  BY <1>1, <1>2, Working

LEMMA ReadKeepsOnce ==
    ASSUME OnceInv, losses = 0, NEW w \in Workers, Read(w)
    PROVE  Undisturbed'
<1> DEFINE s == [worker[w] EXCEPT !.pc = IF task.status = "QUEUED" /\ task.processed = 0
                                        THEN "start" ELSE "item",
                                  !.seen = item]
<1>1. worker[w].pc = "read" /\ worker[w] \in WorkerState /\ worker \in [Workers -> WorkerState]
  BY AtWork DEF Read, At
<1>2. item \in [Items -> {"none", "FINISHED", "ERRORED"}]
  BY DEF OnceInv, MessagesInv, TaskInv, TypeOK
<1>3. s \in WorkerState /\ s.pc \in {"start", "item"} /\ s.seen = item
  BY <1>1, <1>2 DEF WorkerState
<1>4. worker' = [worker EXCEPT ![w] = s]
  BY <1>1 DEF Read
<1>5. UNCHANGED <<queue, holder, unpushed, dropped, item, effect, task>>
  BY DEF Read
<1>6. task.status = "FINISHED" => AllDone
  BY DEF OnceInv, Undisturbed, EndOK
<1> HIDE DEF s
<1> QED
  BY <1>1, <1>3, <1>4, <1>5, <1>6, StepsOn DEF HasCounted

\* A step that leaves the worker with its item and what it has seen.
LEMMA GoesOnOnce ==
    ASSUME OnceInv, losses = 0, NEW w \in Workers, NEW pc, GoTo(w, pc),
           worker[w].pc \notin {"idle", "delete", "record"},
           pc \in {"item", "finish", "clear", "delete", "errored"},
           UNCHANGED <<queue, holder, unpushed, dropped, item, effect>>,
           \/ task'.processed = task.processed
                /\ (HasCounted(worker[w]) => pc \in {"finish", "clear", "delete"})
           \/ /\ task'.processed = task.processed + 1 /\ ~HasCounted(worker[w])
              /\ pc \in {"finish", "clear", "delete"},
           pc \in {"finish", "clear"} => Head(queue) = ChunkOf(ItemCount) /\ AllDone,
           task'.status = "FINISHED" => AllDone,
           pc = "item" => worker[w].pc = "start"
    PROVE  Undisturbed'
<1> DEFINE s == [worker[w] EXCEPT !.pc = pc]
<1>1. worker[w] \in WorkerState /\ worker \in [Workers -> WorkerState]
  BY AtWork
<1>2. s \in WorkerState /\ s.pc = pc /\ s.seen = worker[w].seen /\ s.at = worker[w].at
  BY <1>1 DEF WorkerState
<1>3. worker' = [worker EXCEPT ![w] = s]
  BY <1>1 DEF GoTo
<1> HIDE DEF s
<1>4. s.pc = "item" => \A i \in Items : s.at <= i => s.seen[i] = item[i]
  BY <1>2 DEF OnceInv, Undisturbed, SeesOK, SeenOK
<1> QED
  BY <1>1, <1>2, <1>3, <1>4, StepsOn DEF HasCounted

LEMMA StartKeepsOnce ==
    ASSUME OnceInv, losses = 0, NEW w \in Workers, Start(w)
    PROVE  Undisturbed'
<1>1. /\ worker[w].pc = "start" /\ GoTo(w, "item")
      /\ task' = [task EXCEPT !.status = "PROCESSING"]
      /\ UNCHANGED <<queue, holder, unpushed, dropped, item, effect>>
  BY DEF Start, At
<1>2. task'.processed = task.processed /\ task'.status = "PROCESSING"
  BY <1>1 DEF OnceInv, MessagesInv, TaskInv, TypeOK
<1> QED
  BY <1>1, <1>2, GoesOnOnce DEF HasCounted

LEMMA SkipKeepsOnce ==
    ASSUME OnceInv, losses = 0, NEW w \in Workers, Skip(w)
    PROVE  Undisturbed'
<1> DEFINE s == [worker[w] EXCEPT !.at = @ + 1]
<1>1. /\ worker[w].pc = "item" /\ worker[w] \in WorkerState /\ worker \in [Workers -> WorkerState]
      /\ worker[w].at + 1 \in 1..ItemCount + 1 /\ worker[w].at \in Nat
  BY AtWork, InChunkItem DEF Skip, At, OnceInv, MessagesInv, Items
<1>2. s \in WorkerState /\ s.pc = "item" /\ s.seen = worker[w].seen /\ s.at = worker[w].at + 1
  BY <1>1 DEF WorkerState
<1>3. /\ worker' = [worker EXCEPT ![w] = s]
      /\ UNCHANGED <<queue, holder, unpushed, dropped, item, effect, task>>
  BY <1>1 DEF Skip
<1> HIDE DEF s
<1>4. \A i \in Items : s.at <= i => s.seen[i] = item[i]
  <2>1. \A i \in Items : worker[w].at <= i => worker[w].seen[i] = item[i]
    BY <1>1 DEF OnceInv, Undisturbed, SeesOK, SeenOK
  <2>2. \A i \in Items : s.at <= i => worker[w].at <= i
    BY <1>1, <1>2 DEF Items
  <2> QED
    BY <1>2, <2>1, <2>2
<1>5. task.status = "FINISHED" => AllDone
  BY DEF OnceInv, Undisturbed, EndOK
<1> QED
  BY <1>1, <1>2, <1>3, <1>4, <1>5, StepsOn DEF HasCounted

\* A callback commits only where none has: the row that the worker looked at is still true.
LEMMA NotYetDone ==
    ASSUME OnceInv, losses = 0, NEW w \in Workers,
           worker[w].pc = "item", InChunk(w), ~IsDone(w)
    PROVE  worker[w].at \in Items /\ effect[worker[w].at] = 0 /\ item[worker[w].at] # "FINISHED"
<1>1. worker[w].at \in Items /\ worker[w].at <= worker[w].at
  BY InChunkItem DEF OnceInv, MessagesInv, Items
<1>2. item[worker[w].at] # "FINISHED"
  BY <1>1 DEF OnceInv, Undisturbed, SeesOK, SeenOK, IsDone
<1>3. effect[worker[w].at] \in Nat /\ effect[worker[w].at] <= 1 /\ effect[worker[w].at] # 1
  BY <1>1, <1>2, RowsAgree
<1> QED
  BY <1>1, <1>2, <1>3

LEMMA ApplyKeepsOnce ==
    ASSUME OnceInv, losses = 0, NEW w \in Workers, Apply(w)
    PROVE  Undisturbed'
<1> DEFINE s == [worker[w] EXCEPT !.pc = "record"]
<1>1. /\ worker[w].pc = "item" /\ worker[w] \in WorkerState /\ worker \in [Workers -> WorkerState]
      /\ InChunk(w) /\ ~IsDone(w)
  BY AtWork DEF Apply, At
<1>2. s \in WorkerState /\ s.pc = "record" /\ s.seen = worker[w].seen /\ s.at = worker[w].at
  BY <1>1 DEF WorkerState
<1>3. /\ worker' = [worker EXCEPT ![w] = s]
      /\ effect' = [effect EXCEPT ![worker[w].at] = @ + 1]
      /\ UNCHANGED <<queue, holder, unpushed, dropped, item, task>>
  BY <1>1 DEF Apply, GoTo
<1> HIDE DEF s
<1>4. worker[w].at \in Items /\ effect[worker[w].at] = 0
  BY <1>1, NotYetDone
<1>5. effect \in [Items -> Nat]
  BY DEF OnceInv, MessagesInv, TaskInv, TypeOK
<1>6. /\ effect'[worker[w].at] = 1
      /\ \A i \in Items : i # worker[w].at => effect'[i] = effect[i]
  BY <1>3, <1>4, <1>5
<1>7. \A i \in Items : /\ effect'[i] <= 1
                       /\ effect'[i] = 1 /\ item'[i] # "FINISHED" => s.at = i
  BY <1>1, <1>2, <1>3, <1>6, RowsAgree
<1>8. \A i \in Items : s.at <= i => s.seen[i] = item'[i]
  BY <1>1, <1>2, <1>3 DEF OnceInv, Undisturbed, SeesOK, SeenOK
<1>9. task'.status = "FINISHED" => AllDone'
  BY <1>3, <1>4, <1>6 DEF OnceInv, Undisturbed, EndOK, AllDone
<1> QED
  BY <1>1, <1>2, <1>3, <1>7, <1>8, <1>9, Working DEF HasCounted

LEMMA RecordKeepsOnce ==
    ASSUME OnceInv, losses = 0, NEW w \in Workers, Record(w)
    PROVE  Undisturbed'
<1> DEFINE d == [worker[w] EXCEPT !.pc = "item"]
           s == [d EXCEPT !.at = @ + 1]
<1>1. /\ worker[w].pc = "record" /\ worker[w] \in WorkerState /\ worker \in [Workers -> WorkerState]
  BY AtWork DEF Record, At
<1>2. InChunk(w)
  BY <1>1, WorkerType DEF WorkerOK, InChunk, OnceInv, MessagesInv
<1>3. worker[w].at \in Items /\ worker[w].at + 1 \in 1..ItemCount + 1 /\ worker[w].at \in Nat
  BY <1>2, InChunkItem DEF OnceInv, MessagesInv, Items
<1>4. s \in WorkerState /\ s.pc = "item" /\ s.seen = worker[w].seen /\ s.at = worker[w].at + 1
  BY <1>1, <1>3 DEF WorkerState
<1>5. /\ worker' = [worker EXCEPT ![w] = s]
      /\ item' = [item EXCEPT ![worker[w].at] = "FINISHED"]
      /\ UNCHANGED <<queue, holder, unpushed, dropped, effect, task>>
  BY <1>1 DEF Record, WorkerState
<1> HIDE DEF s, d
<1>6. item \in [Items -> {"none", "FINISHED", "ERRORED"}]
  BY DEF OnceInv, MessagesInv, TaskInv, TypeOK
<1>7. /\ item'[worker[w].at] = "FINISHED"
      /\ \A i \in Items : i # worker[w].at => item'[i] = item[i]
  BY <1>3, <1>5, <1>6
<1>8. \A i \in Items : s.at <= i => s.seen[i] = item'[i]
  <2>1. \A i \in Items : worker[w].at <= i => worker[w].seen[i] = item[i]
    BY <1>1 DEF OnceInv, Undisturbed, SeesOK, SeenOK
  <2>2. \A i \in Items : s.at <= i => worker[w].at <= i /\ i # worker[w].at
    BY <1>3, <1>4 DEF Items
  <2> QED
    BY <1>4, <1>7, <2>1, <2>2
<1>9. \A i \in Items : effect'[i] <= 1 /\ ~(effect'[i] = 1 /\ item'[i] # "FINISHED")
  BY <1>1, <1>5, <1>7, RowsAgree
<1>10. task'.status = "FINISHED" => AllDone'
  BY <1>5 DEF OnceInv, Undisturbed, EndOK, AllDone
<1> QED
  BY <1>1, <1>4, <1>5, <1>8, <1>9, <1>10, Working DEF HasCounted

LEMMA ItemFailsKeepsOnce ==
    ASSUME OnceInv, losses = 0, NEW w \in Workers, ItemFails(w)
    PROVE  Undisturbed'
<1> DEFINE s == [worker[w] EXCEPT !.pc = "failed"]
<1>1. /\ worker[w].pc = "item" /\ worker[w] \in WorkerState /\ worker \in [Workers -> WorkerState]
      /\ InChunk(w) /\ ~IsDone(w)
  BY AtWork DEF ItemFails, At
<1>2. s \in WorkerState /\ s.pc = "failed"
  BY <1>1 DEF WorkerState
<1>3. /\ worker' = [worker EXCEPT ![w] = s]
      /\ item' = [item EXCEPT ![worker[w].at] = "ERRORED"]
      /\ UNCHANGED <<queue, holder, unpushed, dropped, effect, task>>
  BY <1>1 DEF ItemFails, RecordsError, GoTo
<1> HIDE DEF s
<1>4. worker[w].at \in Items /\ effect[worker[w].at] = 0
  BY <1>1, NotYetDone
<1>5. \A i \in Items : i # worker[w].at => item'[i] = item[i]
  BY <1>3, <1>4 DEF OnceInv, MessagesInv, TaskInv, TypeOK
<1>6. \A i \in Items : effect'[i] <= 1 /\ ~(effect'[i] = 1 /\ item'[i] # "FINISHED")
  BY <1>1, <1>3, <1>4, <1>5, RowsAgree
<1>7. task'.status = "FINISHED" => AllDone'
  BY <1>3 DEF OnceInv, Undisturbed, EndOK, AllDone
<1> QED
  BY <1>1, <1>2, <1>3, <1>6, <1>7, Working DEF HasCounted

\* The last message is counted only when all the others have gone, and none was dropped.
LEMMA LastIsCounted ==
    ASSUME OnceInv, losses = 0, NEW w \in Workers, worker[w].pc = "item", ~InChunk(w),
           task.processed + 1 = ChunkOf(ItemCount)
    PROVE  Head(queue) = ChunkOf(ItemCount) /\ AllDone
<1>1. /\ queue # <<>> /\ worker[w].chunk = Head(queue)
      /\ Head(queue) \in Chunks /\ Head(queue) \in Nat
      /\ \A v \in Workers \ {w} : worker[v].pc = "idle"
  BY AtWork
<1>2. ~\E v \in Workers : HasCounted(worker[v])
  BY <1>1 DEF HasCounted
<1>3. task.processed \in Nat
  BY DEF OnceInv, MessagesInv, TaskInv, TypeOK
<1>4. task.processed + (IF dropped = {} THEN 0 ELSE 1) <= Head(queue) - 1
  BY <1>1, <1>2, <1>3 DEF OnceInv, Undisturbed, Counted, Gone
<1>5. Head(queue) <= ChunkOf(ItemCount)
  BY <1>1 DEF Chunks
<1>6. Head(queue) = ChunkOf(ItemCount) /\ dropped = {}
  BY <1>1, <1>3, <1>4, <1>5, ChunkCount
<1>7. ASSUME NEW i \in Items PROVE effect[i] > 0
  <2> DEFINE c == ChunkOf(i)
  <2>1. /\ c \in Chunks /\ FirstItem(c) <= i /\ i < AfterChunk(c)
        /\ c \in Nat /\ c <= Head(queue)
    BY <1>6, ItemInChunk, ChunkCount DEF Chunks
  <2>2. CASE c = Head(queue)
    <3>1. /\ worker[w].at = AfterChunk(c)
          /\ \A j \in Items : FirstItem(c) <= j /\ j < worker[w].at => effect[j] > 0
      <4>1. /\ worker[w].at <= AfterChunk(c)
            /\ \A j \in Items : FirstItem(c) <= j /\ j < worker[w].at => effect[j] > 0
        BY <1>1, <2>2, WorkerType DEF WorkerOK, OnceInv, MessagesInv
      <4>2. worker[w].at \in Int /\ AfterChunk(c) \in Int /\ ~(worker[w].at < AfterChunk(c))
        <5>1. worker[w].at \in 1..ItemCount + 1 /\ AfterChunk(c) \in 1..ItemCount + 1
          BY <2>1, ChunkBounds, WorkerType DEF OnceInv, MessagesInv
        <5> QED
          BY <1>1, <2>2, <5>1 DEF InChunk
      <4> QED
        BY <4>1, <4>2
    <3> QED
      BY <2>1, <3>1
  <2>3. CASE c < Head(queue)
    <3>1. 1 \in DOMAIN queue /\ Head(queue) = queue[1]
      BY <1>1, QueueTypes DEF OnceInv, MessagesInv
    <3>2. Known(c)
      BY <2>1, <2>3, <3>1 DEF OnceInv, KnownOK
    <3>3. \A k \in DOMAIN queue : queue[k] # c
      <4>1. \A k \in DOMAIN queue : queue[1] <= queue[k] /\ queue[k] \in Nat
        <5>1. /\ \A k \in DOMAIN queue : k = 1 \/ 1 < k
              /\ \A k \in DOMAIN queue : queue[k] \in Nat
          BY QueueTypes DEF OnceInv, MessagesInv
        <5> QED
          BY <3>1, <5>1 DEF OnceInv, MessagesInv, OrderOK
      <4> QED
        BY <1>1, <2>1, <2>3, <3>1, <4>1
    <3>4. Handled(c)
      BY <1>6, <3>2, <3>3 DEF Known, Handled
    <3> QED
      BY <3>4 DEF OnceInv, MessagesInv, TaskInv, NoItemIsLost
  <2> QED
    BY <1>1, <2>1, <2>2, <2>3
<1> QED
  BY <1>6, <1>7 DEF AllDone

LEMMA CountKeepsOnce ==
    ASSUME OnceInv, losses = 0, NEW w \in Workers, Count(w)
    PROVE  Undisturbed'
<1>1. /\ worker[w].pc = "item" /\ ~InChunk(w)
      /\ task' = [task EXCEPT !.processed = @ + 1]
      /\ GoTo(w, IF Finishes(task'.processed) THEN "finish" ELSE "delete")
      /\ UNCHANGED <<queue, holder, unpushed, dropped, item, effect>>
  BY DEF Count, At
<1>2. task'.processed = task.processed + 1 /\ task'.status = task.status
  BY <1>1 DEF OnceInv, MessagesInv, TaskInv, TypeOK
<1>3. task'.status = "FINISHED" => AllDone
  BY <1>2 DEF OnceInv, Undisturbed, EndOK
<1>4. CASE task.processed + 1 = ChunkOf(ItemCount)
  <2>1. GoTo(w, "finish")
    BY <1>1, <1>2, <1>4 DEF Finishes
  <2> QED
    BY <1>1, <1>2, <1>3, <1>4, <2>1, LastIsCounted, GoesOnOnce DEF HasCounted
<1>5. CASE task.processed + 1 # ChunkOf(ItemCount)
  <2>1. GoTo(w, "delete")
    BY <1>1, <1>2, <1>5 DEF Finishes
  <2> QED
    BY <1>1, <1>2, <1>3, <2>1, GoesOnOnce DEF HasCounted
<1> QED
  BY <1>4, <1>5

LEMMA FinishKeepsOnce ==
    ASSUME OnceInv, losses = 0, NEW w \in Workers, Finish(w)
    PROVE  Undisturbed'
<1>1. /\ worker[w].pc = "finish" /\ GoTo(w, "clear")
      /\ task' = [task EXCEPT !.status = "FINISHED"]
      /\ UNCHANGED <<queue, holder, unpushed, dropped, item, effect>>
  BY DEF Finish, At
<1>2. task'.processed = task.processed
  BY <1>1 DEF OnceInv, MessagesInv, TaskInv, TypeOK
<1>3. Head(queue) = ChunkOf(ItemCount) /\ AllDone
  BY <1>1 DEF OnceInv, Undisturbed, EndOK
<1> QED
  BY <1>1, <1>2, <1>3, GoesOnOnce DEF HasCounted

\* With the last message at hand, no other is left, and none will be pushed.
LEMMA NothingAfterLast ==
    ASSUME OnceInv, queue # <<>>, Head(queue) = ChunkOf(ItemCount)
    PROVE  unpushed \notin Chunks /\ Len(queue) = 1
<1>1. /\ 1 \in DOMAIN queue /\ Head(queue) = queue[1] /\ Len(queue) \in Nat
      /\ DOMAIN queue = 1..Len(queue) /\ \A k \in DOMAIN queue : queue[k] \in Chunks
  BY QueueTypes DEF OnceInv, MessagesInv
<1>2. unpushed = 0 \/ ChunkOf(ItemCount) < unpushed
  BY <1>1 DEF OnceInv, MessagesInv, OrderOK, Earlier
<1>3. unpushed \notin Chunks
  BY <1>2, ChunkCount DEF Chunks
<1>4. ASSUME 2 \in DOMAIN queue PROVE FALSE
  <2>1. queue[1] < queue[2]
    BY <1>1, <1>4 DEF OnceInv, MessagesInv, OrderOK
  <2> QED
    BY <1>1, <1>4, <2>1, ChunkCount DEF Chunks
<1> QED
  BY <1>1, <1>3, <1>4

LEMMA ClearKeepsOnce ==
    ASSUME OnceInv, losses = 0, NEW w \in Workers, Clear(w)
    PROVE  Undisturbed'
<1> DEFINE s == [worker[w] EXCEPT !.pc = "delete"]
<1>1. /\ worker[w].pc = "clear" /\ worker[w] \in WorkerState /\ worker \in [Workers -> WorkerState]
      /\ queue # <<>>
  BY AtWork DEF Clear, At
<1>2. s \in WorkerState /\ s.pc = "delete"
  BY <1>1 DEF WorkerState
<1>3. /\ worker' = [worker EXCEPT ![w] = s]
      /\ UNCHANGED <<queue, holder, unpushed, dropped, effect, task>>
  BY <1>1 DEF Clear, GoTo
<1> HIDE DEF s
<1>4. unpushed \notin Chunks /\ Len(queue) = 1
  BY <1>1, NothingAfterLast DEF OnceInv, Undisturbed, EndOK
<1>5. \A i \in Items : effect'[i] <= 1
  BY <1>1, <1>3, RowsAgree
<1>6. task'.status = "FINISHED" => AllDone'
  BY <1>3 DEF OnceInv, Undisturbed, EndOK, AllDone
<1> QED
  BY <1>1, <1>2, <1>3, <1>4, <1>5, <1>6, Working DEF HasCounted

LEMMA CatchKeepsOnce ==
    ASSUME OnceInv, losses = 0, NEW w \in Workers, Failed(w) \/ Errored(w)
    PROVE  Undisturbed'
<1>1. worker[w].pc \in {"failed", "errored"} /\ worker[w] \in WorkerState
        /\ worker \in [Workers -> WorkerState]
  BY AtWork DEF Failed, Errored, At
<1>2. UNCHANGED <<queue, holder, unpushed, dropped, item, effect>>
  BY DEF Failed, Errored
<1>3. task'.processed = task.processed /\ (task'.status = "FINISHED" => task.status = "FINISHED")
  BY DEF Failed, Errored, OnceInv, MessagesInv, TaskInv, TypeOK
<1>4. task'.status = "FINISHED" => AllDone
  BY <1>3 DEF OnceInv, Undisturbed, EndOK
<1>5. PICK s \in WorkerState : s.pc \in {"idle", "errored"} /\ worker' = [worker EXCEPT ![w] = s]
  <2>1. Idle \in WorkerState /\ Idle.pc = "idle"
    BY IdleOK DEF Idle
  <2>2. [worker[w] EXCEPT !.pc = "errored"] \in WorkerState
          /\ [worker[w] EXCEPT !.pc = "errored"].pc = "errored"
    BY <1>1 DEF WorkerState
  <2>3. \/ worker' = [worker EXCEPT ![w] = Idle]
        \/ worker' = [worker EXCEPT ![w] = [worker[w] EXCEPT !.pc = "errored"]]
    BY <1>1 DEF Failed, Errored
  <2> QED
    BY <2>1, <2>2, <2>3
<1> QED
  BY <1>1, <1>2, <1>3, <1>4, <1>5, StepsOn DEF HasCounted

\* The first message goes, and is counted if it was not dropped.
LEMMA FirstGoes ==
    ASSUME OnceInv, losses = 0, queue # <<>>, queue' = Tail(queue), UNCHANGED unpushed
    PROVE  Gone \in Int /\ Gone' \in Int /\ Gone + 1 <= Gone'
<1>1. /\ queue \in Seq(Chunks) /\ Len(queue) \in Nat /\ DOMAIN queue = 1..Len(queue)
      /\ Len(queue) > 0 /\ Head(queue) = queue[1] /\ unpushed \in Nat
      /\ \A k \in DOMAIN queue : queue[k] \in Nat
  BY QueueTypes DEF OnceInv, MessagesInv
<1>2. CASE Len(queue) = 1
  <2>1. queue' = <<>>
    BY <1>1, <1>2
  <2>2. unpushed = 0 \/ Head(queue) < unpushed
    BY <1>1 DEF OnceInv, MessagesInv, OrderOK, Earlier
  <2>3. Head(queue) <= ChunkOf(ItemCount)
    <3>1. Head(queue) \in Chunks
      BY <1>1
    <3> QED
      BY <3>1 DEF Chunks
  <2> QED
    BY <1>1, <2>1, <2>2, <2>3, ChunkCount DEF Gone
<1>3. CASE Len(queue) > 1
  <2>1. queue' # <<>> /\ Head(queue') = queue[2] /\ 2 \in DOMAIN queue
    BY <1>1, <1>3
  <2>2. queue[1] < queue[2]
    BY <1>1, <2>1 DEF OnceInv, MessagesInv, OrderOK
  <2> QED
    BY <1>1, <2>1, <2>2 DEF Gone
<1> QED
  BY <1>1, <1>2, <1>3

LEMMA DeleteKeepsOnce ==
    ASSUME OnceInv, losses = 0, NEW w \in Workers, Delete(w)
    PROVE  Undisturbed'
<1>1. /\ worker[w].pc = "delete" /\ worker' = [worker EXCEPT ![w] = Idle]
      /\ queue' = Tail(queue) /\ queue # <<>> /\ holder = w /\ holder' = Nobody
      /\ worker \in [Workers -> WorkerState]
      /\ \A v \in Workers \ {w} : worker[v].pc = "idle"
      /\ UNCHANGED <<task, item, dropped, effect, unpushed>>
  BY AtWork DEF Delete, At
<1>2. \A v \in Workers : worker'[v].pc = "idle"
  BY <1>1 DEF Idle
<1>3. Alone' /\ SeesOK'
  BY <1>2 DEF Alone, SeesOK, SeenOK
<1>4. Counted'
  <2>1. task.processed \in Nat
    BY DEF OnceInv, MessagesInv, TaskInv, TypeOK
  <2>2. Gone \in Int /\ Gone' \in Int /\ Gone + 1 <= Gone'
    BY <1>1, FirstGoes
  <2>3. ~\E v \in Workers : HasCounted(worker'[v])
    BY <1>2 DEF HasCounted
  <2>4. task.processed + (IF dropped = {} THEN 0 ELSE 1) <= Gone + 1
    BY <2>1, <2>2 DEF OnceInv, Undisturbed, Counted
  <2> QED
    BY <1>1, <2>1, <2>2, <2>3, <2>4 DEF Counted
<1>5. EndOK'
  BY <1>1, <1>2 DEF OnceInv, Undisturbed, EndOK, AllDone
<1>6. OnceOK'
  <2> SUFFICES ASSUME NEW i \in Items
               PROVE  effect[i] <= 1 /\ (effect[i] = 1 => item[i] = "FINISHED" \/ Over')
    BY <1>1 DEF OnceOK
  <2>1. ~Recording(i)
    BY <1>1 DEF Recording
  <2>2. ASSUME Over PROVE Over'
    <3>1. unpushed \notin Chunks /\ Len(queue) = 1
      BY <1>1, <2>2 DEF Over
    <3>2. queue \in Seq(Chunks)
      BY QueueTypes DEF OnceInv, MessagesInv
    <3>3. queue' = <<>>
      BY <1>1, <3>1, <3>2
    <3> QED
      BY <1>1, <3>1, <3>3 DEF Over
  <2> QED
    BY <2>1, <2>2 DEF OnceInv, Undisturbed, OnceOK
<1> QED
  BY <1>3, <1>4, <1>5, <1>6 DEF Undisturbed

\* While nobody holds the first message, nobody is at work.
LEMMA AllIdle ==
    ASSUME OnceInv, losses = 0, holder = Nobody
    PROVE  /\ \A v \in Workers : worker[v].pc = "idle"
           /\ ~\E v \in Workers : HasCounted(worker[v])
           /\ \A i : ~Recording(i)
<1>1. \A v \in Workers : worker[v].pc = "idle"
  BY TaskAssumption DEF OnceInv, Undisturbed, Alone
<1> QED
  BY <1>1 DEF HasCounted, Recording

LEMMA ReceiveKeepsOnce ==
    ASSUME OnceInv, losses = 0, NEW w \in Workers, Receive(w)
    PROVE  Undisturbed'
<1>1. /\ queue # <<>> /\ holder = Nobody /\ holder' = w
      /\ UNCHANGED <<task, item, queue, unpushed, dropped, effect>>
  BY DEF Receive
<1>2. worker'[w].pc = "read" /\ \A v \in Workers \ {w} : worker'[v] = worker[v]
  BY QueueTypes DEF Receive, OnceInv, MessagesInv
<1>3. /\ \A v \in Workers : worker[v].pc = "idle"
      /\ ~\E v \in Workers : HasCounted(worker[v])
      /\ \A i : ~Recording(i)
  BY <1>1, AllIdle
<1>4. \A v \in Workers : worker'[v].pc = "read" \/ worker'[v].pc = "idle"
  BY <1>2, <1>3
<1>5. Alone' /\ SeesOK'
  <2>1. \A v \in Workers : worker'[v].pc # "idle" => holder' = v
    BY <1>1, <1>2, <1>3
  <2> QED
    BY <1>4, <2>1 DEF Alone, SeesOK, SeenOK
<1>6. Counted'
  <2>1. ~\E v \in Workers : HasCounted(worker'[v])
    BY <1>4 DEF HasCounted
  <2>2. Gone' = Gone
    BY <1>1 DEF Gone
  <2> QED
    BY <1>1, <1>3, <2>1, <2>2 DEF OnceInv, Undisturbed, Counted
<1>7. EndOK'
  BY <1>1, <1>4 DEF OnceInv, Undisturbed, EndOK, AllDone
<1>8. OnceOK'
  <2>1. ~Over
    BY <1>1, <1>3 DEF Over
  <2> QED
    BY <1>1, <1>3, <2>1 DEF OnceInv, Undisturbed, OnceOK
<1> QED
  BY <1>5, <1>6, <1>7, <1>8 DEF Undisturbed

\* The publisher changes what may have gone only when it stops with an empty queue.
LEMMA PublisherKeepsOnce ==
    ASSUME OnceInv, losses = 0, Undisturbed, Push \/ PublisherStops
    PROVE  Undisturbed'
<1>1. /\ unpushed \in Chunks /\ unpushed \in Nat /\ unpushed # 0
      /\ UNCHANGED <<task, item, holder, dropped, worker, effect>>
  BY QueueTypes DEF Push, PublisherStops, OnceInv, MessagesInv
<1>2. Alone' /\ SeesOK'
  BY <1>1 DEF Undisturbed, Alone, SeesOK, SeenOK
<1>3. queue # <<>> => queue' # <<>> /\ Head(queue') = Head(queue)
  <2>1. queue \in Seq(Chunks)
    BY QueueTypes DEF OnceInv, MessagesInv
  <2>2. queue' = queue \/ queue' = Append(queue, unpushed)
    BY DEF Push, PublisherStops
  <2> QED
    BY <1>1, <2>1, <2>2
<1>4. Gone \in Int /\ Gone' \in Int /\ Gone <= Gone'
  <2>1. CASE queue # <<>>
    <3>1. Head(queue) \in Nat
      BY <2>1, QueueTypes DEF OnceInv, MessagesInv
    <3> QED
      BY <1>3, <2>1, <3>1 DEF Gone
  <2>2. CASE queue = <<>> /\ Push
    <3>1. queue' # <<>> /\ Head(queue') = unpushed
      BY <2>2 DEF Push
    <3> QED
      BY <1>1, <2>2, <3>1 DEF Gone
  <2>3. CASE queue = <<>> /\ PublisherStops
    BY <1>1, <2>3, ChunkCount DEF Gone, PublisherStops, Chunks
  <2> QED
    BY <2>1, <2>2, <2>3
<1>5. Counted'
  <2>1. task.processed \in Nat
    BY DEF OnceInv, MessagesInv, TaskInv, TypeOK
  <2>2. (\E v \in Workers : HasCounted(worker'[v])) <=> (\E v \in Workers : HasCounted(worker[v]))
    BY <1>1
  <2> QED
    BY <1>1, <1>4, <2>1, <2>2 DEF Undisturbed, Counted
<1>6. EndOK'
  <2>1. ASSUME NEW w \in Workers, worker[w].pc # "idle" PROVE queue # <<>>
    BY <2>1, AtWork
  <2> QED
    BY <1>1, <1>3, <2>1 DEF Undisturbed, EndOK, AllDone
<1>7. OnceOK'
  <2>1. ~Over
    BY <1>1 DEF Over
  <2>2. \A i : Recording(i)' <=> Recording(i)
    BY <1>1 DEF Recording
  <2> QED
    BY <1>1, <2>1, <2>2 DEF Undisturbed, OnceOK
<1> QED
  BY <1>2, <1>5, <1>6, <1>7 DEF Undisturbed

LEMMA DropKeepsOnce ==
    ASSUME OnceInv, losses = 0, Drop
    PROVE  Undisturbed'
<1>1. /\ queue # <<>> /\ queue' = Tail(queue) /\ holder = Nobody
      /\ dropped' = dropped \cup {Head(queue)}
      /\ UNCHANGED <<task, item, holder, unpushed, worker, effect>>
  BY DEF Drop
<1>2. /\ \A v \in Workers : worker[v].pc = "idle"
      /\ ~\E v \in Workers : HasCounted(worker[v])
      /\ \A i : ~Recording(i)
  BY <1>1, AllIdle
<1>3. Alone' /\ SeesOK'
  BY <1>1, <1>2 DEF Alone, SeesOK, SeenOK
<1>4. Counted'
  <2>1. task.processed \in Nat
    BY DEF OnceInv, MessagesInv, TaskInv, TypeOK
  <2>2. Gone \in Int /\ Gone' \in Int /\ Gone + 1 <= Gone'
    BY <1>1, FirstGoes
  <2>3. task.processed <= Gone
    BY <1>2, <2>1, <2>2 DEF OnceInv, Undisturbed, Counted
  <2>4. dropped' # {} /\ ~\E v \in Workers : HasCounted(worker'[v])
    BY <1>1, <1>2
  <2> QED
    BY <1>1, <2>1, <2>2, <2>3, <2>4 DEF Counted
<1>5. EndOK'
  BY <1>1, <1>2 DEF OnceInv, Undisturbed, EndOK, AllDone
<1>6. OnceOK'
  <2>1. ~Over
    BY <1>1, <1>2 DEF Over
  <2> QED
    BY <1>1, <1>2, <2>1 DEF OnceInv, Undisturbed, OnceOK
<1> QED
  BY <1>3, <1>4, <1>5, <1>6 DEF Undisturbed

\* A message comes back from a worker that has stopped.
LEMMA ExpireKeepsOnce ==
    ASSUME OnceInv, losses = 0, losses' = 0, Expire
    PROVE  Undisturbed'
<1>1. /\ UNCHANGED <<task, item, queue, unpushed, dropped, worker, effect>>
      /\ worker[holder].pc = "idle"
  BY DEF Expire, Loses
<1>2. \A v \in Workers : worker[v].pc = "idle"
  BY <1>1 DEF OnceInv, Undisturbed, Alone
<1>3. Alone' /\ SeesOK'
  BY <1>1, <1>2 DEF Alone, SeesOK, SeenOK
<1>4. Counted'
  <2>1. Gone' = Gone
    BY <1>1 DEF Gone
  <2> QED
    BY <1>1, <2>1 DEF OnceInv, Undisturbed, Counted
<1>5. EndOK'
  BY <1>1, <1>2 DEF OnceInv, Undisturbed, EndOK, AllDone
<1>6. OnceOK'
  <2>1. Over => Over'
    BY <1>1, <1>2 DEF Over
  <2>2. \A i : Recording(i)' <=> Recording(i)
    BY <1>1 DEF Recording
  <2> QED
    BY <1>1, <2>1, <2>2 DEF OnceInv, Undisturbed, OnceOK
<1> QED
  BY <1>3, <1>4, <1>5, <1>6 DEF Undisturbed

-----------------------------------------------------------------------------
LEMMA InitOnce == Init => OnceInv
<1> SUFFICES ASSUME Init PROVE OnceInv
  OBVIOUS
<1>1. MessagesInv
  BY InitTask DEF Init, MessagesInv, OrderOK, DroppedOK, ReceivedOK, Idle
<1>2. \A w \in Workers : worker[w].pc = "idle"
  BY DEF Init, Idle
<1>3. KnownOK
  <2>1. queue = <<>> /\ unpushed = 1 /\ \A c \in Chunks : ~(c < 1)
    BY DEF Init, Chunks
  <2> QED
    BY <2>1 DEF KnownOK
<1>4. Alone /\ SeesOK
  BY <1>2 DEF Alone, SeesOK, SeenOK
<1>5. Counted
  <2>1. task.processed = 0 /\ dropped = {} /\ queue = <<>> /\ unpushed = 1
    BY DEF Init
  <2>2. ~\E w \in Workers : HasCounted(worker[w])
    BY <1>2 DEF HasCounted
  <2> QED
    BY <2>1, <2>2 DEF Counted, Gone
<1>6. EndOK /\ OnceOK
  BY <1>2 DEF Init, EndOK, OnceOK
<1> QED
  BY <1>1, <1>3, <1>4, <1>5, <1>6 DEF OnceInv, Undisturbed

LEMMA OnceInvariant == Spec => []OnceInv
<1>1. ASSUME OnceInv, MessagesInv', [Next]_vars PROVE OnceInv'
  <2>1. KnownOK'
    BY <1>1, KnownKept DEF OnceInv
  <2> SUFFICES ASSUME losses' = 0 PROVE Undisturbed'
    BY <1>1, <2>1 DEF OnceInv
  <2>2. losses = 0 /\ Undisturbed
    BY <1>1, LossesStay
  <2>3. CASE UNCHANGED vars
    <3>1. UNCHANGED <<task, item, queue, holder, unpushed, dropped, worker, effect>>
      BY <2>3 DEF vars
    <3> QED
      BY <2>2, <3>1 DEF Undisturbed, Alone, Counted, Gone, EndOK, OnceOK, AllDone, Over,
                        Recording, SeesOK, SeenOK
  <2>4. CASE Push \/ PublisherStops
    BY <1>1, <2>2, <2>4, PublisherKeepsOnce
  <2>5. CASE Expire
    BY <1>1, <2>2, <2>5, ExpireKeepsOnce
  <2>6. CASE Drop
    BY <1>1, <2>2, <2>6, DropKeepsOnce
  <2>7. ASSUME NEW w \in Workers, Goes(w) PROVE Undisturbed'
    BY <1>1, <2>2, <2>7, ReceiveKeepsOnce, ReadKeepsOnce, StartKeepsOnce, SkipKeepsOnce,
       ApplyKeepsOnce, RecordKeepsOnce, CountKeepsOnce, FinishKeepsOnce, ClearKeepsOnce,
       DeleteKeepsOnce, CatchKeepsOnce DEF Goes
  <2>8. ASSUME NEW w \in Workers, GoesWrong(w) PROVE Undisturbed'
    <3>1. ~Loses
      BY <2>2 DEF Loses
    <3>2. ItemFails(w)
      BY <2>8, <3>1 DEF GoesWrong, RecordFails, DeleteFails, StepFails, Crash
    <3> QED
      BY <1>1, <2>2, <3>2, ItemFailsKeepsOnce
  <2> QED
    BY <1>1, <2>3, <2>4, <2>5, <2>6, <2>7, <2>8 DEF Next
<1> QED
  BY InitOnce, <1>1, MessagesInvariant, PTL DEF Spec

\* The callback of an item commits once, through every error and redelivery, as long as
\* nothing is lost: processItems, with the rows of Task_Item.
THEOREM ItemsAreDoneOnce == Spec => []OncePerItem
<1>1. OnceInv => OncePerItem
  BY DEF OnceInv, Undisturbed, OnceOK, OncePerItem
<1> QED
  BY <1>1, OnceInvariant, PTL

\* The count of messages in Task says FINISHED only when all items are processed, as long
\* as nothing is lost: processItems and the last worker.
THEOREM FinishedTasksAreComplete == Spec => []FinishedIsComplete
<1>1. OnceInv => FinishedIsComplete
  BY DEF OnceInv, Undisturbed, EndOK, AllDone, FinishedIsComplete
<1> QED
  BY <1>1, OnceInvariant, PTL

=============================================================================
