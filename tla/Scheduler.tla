------------------------------ MODULE Scheduler ------------------------------
(***************************************************************************)
(* flux/engine/scheduler.py: the bounded waiting queue and the admission   *)
(* policies, as operators on the queue (a sequence of Seqs, oldest first). *)
(* The actions that use them are those of the workers.                     *)
(***************************************************************************)
EXTENDS SequenceKv

CONSTANTS
    MaxWaiting,     \* capacity of the waiting queue
    MaxBatch,       \* max_batch: sequences that run together
    Policies        \* the policies the server may be started with

ASSUME WaitingAssumption == MaxWaiting \in Nat
ASSUME BatchAssumption   == MaxBatch \in Nat \ {0}
ASSUME PolicyAssumption  == Policies \subseteq {"fcfs", "memory_fit"}

(* submit: RequestTooLarge, and RequestQueue.try_enqueue on a full queue.  *)
TooLarge(kv, s) == BlocksNeeded(NeedTokens(kv, s)) > Cardinality(Blocks)

QueueFull(queue) == Len(queue) >= MaxWaiting

Fits(kv, s) == CanAllocate(kv, NeedTokens(kv, s))

(* The place in the queue of the sequence admit() tries next: the head if  *)
(* it fits, or under memory_fit the first that does.                       *)
Choosable(kv, queue, policy) ==
    {i \in DOMAIN queue :
        /\ Fits(kv, queue[i])
        /\ \A j \in 1 .. (i - 1) : policy = "memory_fit" /\ ~Fits(kv, queue[j])}

Room(running, admitted) == MaxBatch - Cardinality(running) - Len(admitted)

(* RequestQueue.pop_one and remove clear the event of an empty queue.      *)
EventAfterRemoval(event, queue) == event /\ queue # << >>
=============================================================================
