----------------------------- MODULE TaskQueue ------------------------------
(***************************************************************************)
(* One task of the workers' queue, from publish to its last message: its   *)
(* row (Task), the rows that say which of its items are done (Task_Item),  *)
(* the messages, one per chunk of items, and the workers that take them.   *)
(*                                                                         *)
(* A worker writes outside of any transaction, one row at a time, except   *)
(* for the callback of an item, which has a transaction of its own.  Every *)
(* such write is a step, because a worker may die, or the queue may hand   *)
(* its message to another worker, before the next one.                     *)
(*                                                                         *)
(* The queue is an SQS FIFO queue and is modelled from its use: the        *)
(* messages of the task are one group, so that only the first is delivered *)
(* and only when nobody holds it; a message that is not deleted in time is *)
(* visible again, and after MaxReceives deliveries it is dropped.          *)
(***************************************************************************)
EXTENDS Integers, Sequences

CONSTANTS
    Workers,      \* processes that run subscribe
    ItemCount,    \* items of the task
    ChunkSize,    \* items of a message
    MaxReceives,  \* deliveries of a message before the queue drops it
    MaxLosses,    \* bound: how often something is lost (see losses)
    Nobody

ASSUME TaskAssumption ==
    /\ ItemCount \in Nat \ {0}
    /\ ChunkSize \in Nat \ {0}
    /\ MaxReceives \in Nat
    /\ MaxLosses \in Nat
    /\ Nobody \notin Workers

Items == 1..ItemCount
ChunkOf(i) == (i - 1) \div ChunkSize + 1
Chunks == 1..ChunkOf(ItemCount)

\* Mutant: a chunk is cut from where it ends.
FirstItemOfNext(c) == c * ChunkSize + 1

FirstItem(c) == (c - 1) * ChunkSize + 1

\* Mutant: the end of the slice is taken for one past it.
SliceEnd(c) == IF c * ChunkSize < ItemCount THEN c * ChunkSize ELSE ItemCount + 1

AfterChunk(c) == IF c * ChunkSize < ItemCount THEN c * ChunkSize + 1 ELSE ItemCount + 1

VARIABLES
    task,      \* Task: status, total_processed_task_count, error_count
    item,      \* Task_Item: the status of each item, "none" without a row
    queue,     \* chunks whose message was pushed and not yet deleted, in order
    received,  \* how often each message was delivered
    holder,    \* who was given the first message and may still delete it
    unpushed,  \* the next chunk to push; 0 when the publisher has stopped
    dropped,   \* chunks whose message the queue gave up
    worker,    \* what each worker is doing
    effect,    \* how often the callback of each item has committed
    losses     \* how often a worker died, a write failed or a message came back
               \* while a worker was still at it

vars == <<task, item, queue, received, holder, unpushed, dropped, worker, effect, losses>>

NotSeen == [i \in Items |-> "none"]
Idle == [pc |-> "idle", chunk |-> 1, at |-> 1, seen |-> NotSeen]

WorkerState ==
    [pc : {"idle", "read", "start", "item", "record", "finish",
           "clear", "delete", "failed", "errored"},
     chunk : Chunks, at : 1..ItemCount + 1,
     seen : [Items -> {"none", "FINISHED", "ERRORED"}]]

TypeOK ==
    /\ task \in [status : {"QUEUED", "PROCESSING", "FINISHED", "ERRORED"},
                 processed : Nat, errors : Nat]
    /\ item \in [Items -> {"none", "FINISHED", "ERRORED"}]
    /\ queue \in Seq(Chunks)
    /\ received \in [Chunks -> Nat]
    /\ holder \in Workers \cup {Nobody}
    /\ unpushed \in 0..ChunkOf(ItemCount) + 1
    /\ dropped \subseteq Chunks
    /\ worker \in [Workers -> WorkerState]
    /\ effect \in [Items -> Nat]
    /\ losses \in 0..MaxLosses

\* publish has created the row; nothing is pushed yet.
Init ==
    /\ task = [status |-> "QUEUED", processed |-> 0, errors |-> 0]
    /\ item = NotSeen
    /\ queue = <<>>
    /\ received = [c \in Chunks |-> 0]
    /\ holder = Nobody
    /\ unpushed = 1
    /\ dropped = {}
    /\ worker = [w \in Workers |-> Idle]
    /\ effect = [i \in Items |-> 0]
    /\ losses = 0

-----------------------------------------------------------------------------
(* publish: the chunks are pushed one after the other.                     *)

Push ==
    /\ unpushed \in Chunks
    /\ queue' = Append(queue, unpushed)
    /\ unpushed' = unpushed + 1
    /\ UNCHANGED <<task, item, received, holder, dropped, worker, effect, losses>>

\* sendTask throws, or the request dies: nobody pushes the rest.
PublisherStops ==
    /\ unpushed \in Chunks
    /\ unpushed' = 0
    /\ UNCHANGED <<task, item, queue, received, holder, dropped, worker, effect, losses>>

AllPushed == unpushed = ChunkOf(ItemCount) + 1

-----------------------------------------------------------------------------
(* The queue.                                                              *)

Loses == losses < MaxLosses /\ losses' = losses + 1

Receive(w) ==
    /\ worker[w].pc = "idle"
    /\ queue # <<>>
    /\ holder = Nobody
    /\ received[Head(queue)] < MaxReceives
    /\ received' = [received EXCEPT ![Head(queue)] = @ + 1]
    /\ holder' = w
    /\ worker' = [worker EXCEPT ![w] =
            [pc |-> "read", chunk |-> Head(queue), at |-> FirstItem(Head(queue)),
             seen |-> NotSeen]]
    /\ UNCHANGED <<task, item, queue, unpushed, dropped, effect, losses>>

\* The message is visible again: its worker has given up or died, or is late.
Expire ==
    /\ holder # Nobody
    /\ holder' = Nobody
    /\ IF worker[holder].pc = "idle" THEN UNCHANGED losses ELSE Loses
    /\ UNCHANGED <<task, item, queue, received, unpushed, dropped, worker, effect>>

Drop ==
    /\ queue # <<>>
    /\ holder = Nobody
    /\ received[Head(queue)] >= MaxReceives
    /\ dropped' = dropped \cup {Head(queue)}
    /\ queue' = Tail(queue)
    /\ UNCHANGED <<task, item, received, holder, unpushed, worker, effect, losses>>

-----------------------------------------------------------------------------
(* subscribe and processItems, one step for each row they read or write.   *)

At(w, pc) == worker[w].pc = pc
GoTo(w, pc) == worker' = [worker EXCEPT ![w].pc = pc]

\* taskInfo: the row and the items of the chunk are read once, and kept.
Read(w) ==
    /\ At(w, "read")
    /\ worker' = [worker EXCEPT
            ![w].pc = IF task.status = "QUEUED" /\ task.processed = 0 THEN "start" ELSE "item",
            ![w].seen = item]
    /\ UNCHANGED <<task, item, queue, received, holder, unpushed, dropped, effect, losses>>

Start(w) ==
    /\ At(w, "start")
    /\ task' = [task EXCEPT !.status = "PROCESSING"]
    /\ GoTo(w, "item")
    /\ UNCHANGED <<item, queue, received, holder, unpushed, dropped, effect, losses>>

InChunk(w) == worker[w].at < AfterChunk(worker[w].chunk)

\* Mutants: a worker does not look whether an item is done, or takes the row of an
\* error for one that says so.
NeverDone(w) == FALSE
HasRow(w) == worker[w].seen[worker[w].at] # "none"

IsDone(w) == worker[w].seen[worker[w].at] = "FINISHED"

Skip(w) ==
    /\ At(w, "item") /\ InChunk(w) /\ IsDone(w)
    /\ worker' = [worker EXCEPT ![w].at = @ + 1]
    /\ UNCHANGED <<task, item, queue, received, holder, unpushed, dropped, effect, losses>>

\* The callback and the commit of its transaction.
Apply(w) ==
    /\ At(w, "item") /\ InChunk(w) /\ ~IsDone(w)
    /\ effect' = [effect EXCEPT ![worker[w].at] = @ + 1]
    /\ GoTo(w, "record")
    /\ UNCHANGED <<task, item, queue, received, holder, unpushed, dropped, losses>>

Record(w) ==
    /\ At(w, "record")
    /\ item' = [item EXCEPT ![worker[w].at] = "FINISHED"]
    /\ worker' = [worker EXCEPT ![w].pc = "item", ![w].at = @ + 1]
    /\ UNCHANGED <<task, queue, received, holder, unpushed, dropped, effect, losses>>

RecordsError(w) ==
    /\ item' = [item EXCEPT ![worker[w].at] = "ERRORED"]
    /\ GoTo(w, "failed")
    /\ UNCHANGED <<task, queue, received, holder, unpushed, dropped, effect>>

\* The callback throws and its transaction is rolled back.
ItemFails(w) ==
    /\ At(w, "item") /\ InChunk(w) /\ ~IsDone(w)
    /\ RecordsError(w)
    /\ UNCHANGED losses

\* The write of Record throws: the same catch takes the item for failed.
RecordFails(w) ==
    /\ At(w, "record")
    /\ RecordsError(w)
    /\ Loses

\* Mutant: the counter is compared as if it had not been incremented yet.
FinishesBefore(processed) == processed + 1 = ChunkOf(ItemCount)

\* The callback has returned.
Finishes(processed) == processed = ChunkOf(ItemCount)

Count(w) ==
    /\ At(w, "item") /\ ~InChunk(w)
    /\ task' = [task EXCEPT !.processed = @ + 1]
    /\ GoTo(w, IF Finishes(task'.processed) THEN "finish" ELSE "delete")
    /\ UNCHANGED <<item, queue, received, holder, unpushed, dropped, effect, losses>>

Finish(w) ==
    /\ At(w, "finish")
    /\ task' = [task EXCEPT !.status = "FINISHED"]
    /\ GoTo(w, "clear")
    /\ UNCHANGED <<item, queue, received, holder, unpushed, dropped, effect, losses>>

Clear(w) ==
    /\ At(w, "clear")
    /\ item' = NotSeen
    /\ GoTo(w, "delete")
    /\ UNCHANGED <<task, queue, received, holder, unpushed, dropped, effect, losses>>

\* deleteMessage: refused when the message is no longer this worker's.
Delete(w) ==
    /\ At(w, "delete")
    /\ IF holder = w
       THEN queue' = Tail(queue) /\ holder' = Nobody
       ELSE UNCHANGED <<queue, holder>>
    /\ worker' = [worker EXCEPT ![w] = Idle]
    /\ UNCHANGED <<task, item, received, unpushed, dropped, effect, losses>>

\* The errors of deleteMessage are only logged.
DeleteFails(w) ==
    /\ At(w, "delete")
    /\ Loses
    /\ worker' = [worker EXCEPT ![w] = Idle]
    /\ UNCHANGED <<task, item, queue, received, holder, unpushed, dropped, effect>>

\* Any other read or write throws.
StepFails(w) ==
    /\ \/ \E pc \in {"read", "start", "finish", "clear"} : At(w, pc)
       \/ At(w, "item") /\ ~InChunk(w)
    /\ Loses
    /\ GoTo(w, "failed")
    /\ UNCHANGED <<task, item, queue, received, holder, unpushed, dropped, effect>>

\* Mutant: one error more than the queue delivers a message.
OneMore(errors) == errors > 3

\* The catch of subscribe; the message is left where it is.
TooMany(errors) == errors > 2

Failed(w) ==
    /\ At(w, "failed")
    /\ task' = [task EXCEPT !.errors = @ + 1]
    /\ worker' = [worker EXCEPT ![w] =
            IF TooMany(task'.errors) THEN [@ EXCEPT !.pc = "errored"] ELSE Idle]
    /\ UNCHANGED <<item, queue, received, holder, unpushed, dropped, effect, losses>>

Errored(w) ==
    /\ At(w, "errored")
    /\ task' = [task EXCEPT !.status = "ERRORED"]
    /\ worker' = [worker EXCEPT ![w] = Idle]
    /\ UNCHANGED <<item, queue, received, holder, unpushed, dropped, effect, losses>>

Crash(w) ==
    /\ worker[w].pc # "idle"
    /\ Loses
    /\ worker' = [worker EXCEPT ![w] = Idle]
    /\ UNCHANGED <<task, item, queue, received, holder, unpushed, dropped, effect>>

-----------------------------------------------------------------------------
Goes(w) ==
    \/ Receive(w) \/ Read(w) \/ Start(w) \/ Skip(w) \/ Apply(w) \/ Record(w)
    \/ Count(w) \/ Finish(w) \/ Clear(w) \/ Delete(w) \/ Failed(w) \/ Errored(w)

GoesWrong(w) ==
    ItemFails(w) \/ RecordFails(w) \/ DeleteFails(w) \/ StepFails(w) \/ Crash(w)

Next ==
    \/ Push \/ PublisherStops \/ Expire \/ Drop
    \/ \E w \in Workers : Goes(w) \/ GoesWrong(w)

Spec == Init /\ [][Next]_vars

\* A worker goes on with its message, an idle one polls for ever, and the queue
\* makes a message visible, or drops it, when its time has come.
FairSpec ==
    /\ Spec
    /\ WF_vars(Expire) /\ WF_vars(Drop)
    /\ \A w \in Workers : WF_vars(Goes(w))

-----------------------------------------------------------------------------
(* Properties.                                                             *)

\* processItems keeps an item's callback from committing again, through every
\* error and redelivery, as long as nothing is lost.
OncePerItem == losses = 0 => \A i \in Items : effect[i] <= 1

\* A chunk whose message the workers deleted has had all its items processed,
\* whatever was lost on the way: no error or crash may skip an item.
Handled(c) ==
    /\ received[c] > 0
    /\ c \notin dropped
    /\ \A k \in DOMAIN queue : queue[k] # c

NoItemIsLost ==
    \A i \in Items : Handled(ChunkOf(i)) => effect[i] > 0

\* A task is called finished once all its items are processed: the counter of
\* chunks agrees with the messages, if none was handled twice.
FinishedIsComplete ==
    task.status = "FINISHED" /\ losses = 0 => \A i \in Items : effect[i] > 0

\* A task that was pushed as a whole gets an end that its owner can see, finished
\* or, when the queue gives up one of its messages, failed.
TaskEnds ==
    [](AllPushed => <>[](task.status \in {"FINISHED", "ERRORED"} \/ losses > 0))

\* What publish and the workers do is at-least-once processing (TaskPromise), and every
\* chunk that was pushed is done with or given up some day, whatever fails, dies or comes
\* back too early: no chunk is settled before its items are processed, none is settled
\* twice, and none stays in the queue for ever.
Promise == INSTANCE TaskPromise WITH
    open <- {queue[k] : k \in DOMAIN queue},
    settled <- {c \in Chunks : Handled(c)},
    lost <- dropped,
    done <- {i \in Items : effect[i] > 0}

KeepsPromise == Promise!FairSpec

=============================================================================
