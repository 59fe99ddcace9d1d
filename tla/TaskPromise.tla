---------------------------- MODULE TaskPromise -----------------------------
(***************************************************************************)
(* What the task queue promises, without workers, rows or deliveries: the  *)
(* items of a task are processed chunk by chunk, at least once each, and a *)
(* chunk is done with when all of its items are processed, or is given up. *)
(* TaskQueue implements it.                                                *)
(***************************************************************************)
EXTENDS FiniteSets

CONSTANTS
    Items,
    Chunks,
    ChunkOf(_)  \* the chunk of an item

VARIABLES
    open,     \* chunks that wait or are being worked on
    settled,  \* chunks that are done with
    lost,     \* chunks that were given up
    done      \* items that were processed

vars == <<open, settled, lost, done>>

Init == open = {} /\ settled = {} /\ lost = {} /\ done = {}

Accept(c) ==
    /\ c \notin open \cup settled \cup lost
    /\ open' = open \cup {c}
    /\ UNCHANGED <<settled, lost, done>>

\* An item may still be processed when its chunk has been given up.
Process(i) ==
    /\ ChunkOf(i) \in open \cup lost
    /\ done' = done \cup {i}
    /\ UNCHANGED <<open, settled, lost>>

Settle(c) ==
    /\ c \in open
    /\ \A i \in Items : ChunkOf(i) = c => i \in done
    /\ open' = open \ {c}
    /\ settled' = settled \cup {c}
    /\ UNCHANGED <<lost, done>>

GiveUp(c) ==
    /\ c \in open
    /\ open' = open \ {c}
    /\ lost' = lost \cup {c}
    /\ UNCHANGED <<settled, done>>

Next ==
    \/ \E c \in Chunks : Accept(c) \/ Settle(c) \/ GiveUp(c)
    \/ \E i \in Items : Process(i)

Spec == Init /\ [][Next]_vars

\* No chunk stays open.
FairSpec == Spec /\ \A c \in Chunks : WF_vars(Settle(c) \/ GiveUp(c))

=============================================================================
