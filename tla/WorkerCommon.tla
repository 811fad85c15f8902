---------------------------- MODULE WorkerCommon -----------------------------
(***************************************************************************)
(* What the two workers of flux/engine/worker.py have in common: the       *)
(* waiting queue with its event, the HTTP handlers that submit and abort   *)
(* requests, the shutdown, Scheduler.admit, the insertion into the prefix  *)
(* cache after a prefill, and what both must guarantee.                    *)
(*                                                                         *)
(* One asyncio loop runs the task run(), the HTTP handlers and the streams.*)
(* run() hands the work on the model to a thread and waits for it, so the  *)
(* task and its thread never run together and one program counter pc is    *)
(* enough for both.  The rest of the loop's tasks run whenever run() is at *)
(* an await: LoopFree.  A step of the thread ends where the thread reads   *)
(* what those tasks may write, the abort flags.                            *)
(***************************************************************************)
EXTENDS Scheduler

VARIABLES
    kv,          \* the pool and the prefix cache, see PrefixCache
    queue,       \* RequestQueue._waiting
    event,       \* RequestQueue._event
    status,      \* Sequence.status; "new" and "rejected" outside of submit
    out,         \* number of tokens in Sequence.output_ids
    abort,       \* Sequence.abort_requested
    running,     \* stats.running
    admitted,    \* the list admit() returns, during one iteration of run()
    cands,       \* candidate lengths PrefixCache.insert has not reached yet
    pc,          \* where run() or its thread is
    stop,        \* _stop
    cancelled,   \* the task was cancelled by the shutdown timeout
    policy       \* Scheduler.policy

reqs   == <<status, out, abort>>
qvars  == <<queue, event>>
life   == <<stop, cancelled, policy>>
common == <<kv, qvars, reqs, running, admitted, cands, pc, life>>

Over == {"finished", "aborted", "error"}
Live == {"waiting", "prefill", "decoding"}

Waiting == {queue[i] : i \in DOMAIN queue}

(* The sequences between their admission and their release.                *)
Active == {s \in Seqs : status[s] \in Live /\ s \notin Waiting}

(* Where run() itself executes, without an await.                          *)
LoopPcs  == {"top", "drop", "admit", "each", "filter", "leftovers"}
LoopFree == pc \notin LoopPcs

InitCommon ==
    /\ kv = InitKv
    /\ queue = << >> /\ event = FALSE
    /\ status = [s \in Seqs |-> "new"]
    /\ out = [s \in Seqs |-> 0]
    /\ abort = [s \in Seqs |-> FALSE]
    /\ running = {} /\ admitted = << >> /\ cands = {}
    /\ pc = "top"
    /\ stop = FALSE /\ cancelled = FALSE
    /\ policy \in Policies

(* _abort_one, and the releasing half of _finish_sequence and of the error *)
(* handlers.  finished_event is set in the same step: Over stands for it.  *)
End(s, final) ==
    /\ status' = [status EXCEPT ![s] = final]
    /\ kv' = ReleaseSeq(kv, s)

Goto(label) == pc' = label

(* Event.set: a task that sleeps in wait() is woken for good, even if the  *)
(* event is cleared again before the loop gets to run it.                  *)
SetEvent == /\ event' = TRUE
            /\ Goto(IF pc = "wait" THEN "woken" ELSE pc)

-----------------------------------------------------------------------------
(* The HTTP handlers and the server.                                       *)

(* Scheduler.submit.  The server takes no request once it shuts down.      *)
SubmitAccepted(s) ==
    /\ LoopFree /\ ~stop /\ status[s] = "new"
    /\ ~TooLarge(kv, s) /\ ~QueueFull(queue)
    /\ status' = [status EXCEPT ![s] = "waiting"]
    /\ queue' = Append(queue, s)
    /\ SetEvent
    /\ UNCHANGED <<kv, out, abort, running, admitted, cands, life>>

SubmitRejected(s) ==
    /\ LoopFree /\ ~stop /\ status[s] = "new"
    /\ TooLarge(kv, s) \/ QueueFull(queue)
    /\ status' = [status EXCEPT ![s] = "rejected"]
    /\ UNCHANGED <<kv, qvars, out, abort, running, admitted, cands, pc, life>>

(* Sequence.request_abort, from a stream whose client is gone, or from     *)
(* admin_abort of a running sequence, which runs in a thread of its own    *)
(* and waits for nobody.  It may come too late, for a sequence that is     *)
(* over and that run() has yet to take out of the batch.                   *)
RequestAbort(s) ==
    /\ LoopFree \/ s \in running
    /\ status[s] \in Live \/ s \in running
    /\ ~abort[s]
    /\ abort' = [abort EXCEPT ![s] = TRUE]
    /\ UNCHANGED <<kv, qvars, status, out, running, admitted, cands, pc, life>>

(* admin_abort of a waiting sequence, taken as one step.                   *)
AdminAbortWaiting(s) ==
    /\ LoopFree
    /\ \E i \in DOMAIN queue :
          /\ queue[i] = s
          /\ queue' = RemoveAt(queue, i)
    /\ event' = EventAfterRemoval(event, queue')
    /\ End(s, "aborted")
    /\ UNCHANGED <<out, abort, running, admitted, cands, pc, life>>

(* request_stop at shutdown, and wait_for(task, 10) running out of time.   *)
RequestStop ==
    /\ LoopFree /\ ~stop
    /\ stop' = TRUE /\ SetEvent
    /\ UNCHANGED <<kv, queue, reqs, running, admitted, cands, cancelled, policy>>

CancelTask ==
    /\ LoopFree /\ stop /\ ~cancelled /\ pc \notin {"stopped", "dead"}
    /\ cancelled' = TRUE
    /\ UNCHANGED <<kv, qvars, reqs, running, admitted, cands, pc, stop, policy>>

Environment ==
    \/ \E s \in Seqs : \/ SubmitAccepted(s) \/ SubmitRejected(s)
                       \/ RequestAbort(s)   \/ AdminAbortWaiting(s)
    \/ RequestStop
    \/ CancelTask

-----------------------------------------------------------------------------
(* Scheduler.admit, when there is still room for "room" sequences.         *)

AdmitOne(room) ==
    /\ pc = "admit" /\ room > 0
    /\ \E i \in Choosable(kv, queue, policy) :
          /\ kv' \in Admitted(kv, queue[i])
          /\ queue' = RemoveAt(queue, i)
          /\ admitted' = Append(admitted, queue[i])
    /\ event' = EventAfterRemoval(event, queue')
    /\ UNCHANGED <<reqs, running, cands, pc, life>>

(* Mutant: the sequence that was not admitted goes to the end of the queue. *)
AdmitRefusedToBack(room) ==
    /\ pc = "admit" /\ room > 0
    /\ \E i \in Choosable(kv, queue, policy) :
          /\ kv' \in Refused(kv, queue[i])
          /\ queue' = Append(RemoveAt(queue, i), queue[i])
    /\ event' = TRUE
    /\ Goto("each")
    /\ UNCHANGED <<reqs, running, admitted, cands, life>>

(* It fits, but the blocks of the prefix left too few: back to the front.  *)
AdmitRefused(room) ==
    /\ pc = "admit" /\ room > 0
    /\ \E i \in Choosable(kv, queue, policy) :
          /\ kv' \in Refused(kv, queue[i])
          /\ queue' = Cons(queue[i], RemoveAt(queue, i))
    /\ event' = TRUE
    /\ Goto("each")
    /\ UNCHANGED <<reqs, running, admitted, cands, life>>

AdmitDone(room) ==
    /\ pc = "admit"
    /\ room <= 0 \/ Choosable(kv, queue, policy) = {}
    /\ Goto("each")
    /\ UNCHANGED <<kv, qvars, reqs, running, admitted, cands, life>>

Admit(room) == AdmitOne(room) \/ AdmitRefused(room) \/ AdmitDone(room)

-----------------------------------------------------------------------------
(* The thread: the end of _prefill_with_reuse, and a token.                *)

(* PrefixCache.insert goes through the candidates from the longest down.   *)
InsertNext(s) ==
    /\ pc = "insert"
    /\ \E n \in cands :
          /\ \A m \in cands : m <= n
          /\ kv' \in Insert(kv, s, n)
          /\ cands' = cands \ {n}
    /\ UNCHANGED <<qvars, reqs, running, admitted, pc, life>>

InsertDone(s) ==
    /\ pc = "insert" /\ cands = {}
    /\ kv' \in Adopt(kv, s)
    /\ Goto("sample")
    /\ UNCHANGED <<qvars, reqs, running, admitted, cands, life>>

(* _note_token: the sequence has its last token when it is a stop token or *)
(* the max_tokens-th.                                                      *)
NoteToken(s) == out' = [out EXCEPT ![s] = @ + 1]

MayBeLast(s, last) == last \in BOOLEAN /\ (out'[s] >= MaxTokensOf[s] => last)

-----------------------------------------------------------------------------
(* The end of run(): _abort_leftovers takes the queue first.               *)
LeftoverWaiting ==
    /\ pc = "leftovers" /\ queue # << >>
    /\ queue' = Tail(queue)
    /\ event' = EventAfterRemoval(event, queue')
    /\ End(Head(queue), "aborted")
    /\ UNCHANGED <<out, abort, running, admitted, cands, pc, life>>

-----------------------------------------------------------------------------
(* The queue keeps to its capacity, also when a sequence that was popped   *)
(* is pushed back, which looks at no capacity.                             *)
TypeCommon ==
    /\ kv \in KvType
    /\ queue \in Seq(Seqs) /\ Len(queue) <= MaxWaiting /\ event \in BOOLEAN
    /\ status \in [Seqs -> Live \cup Over \cup {"new", "rejected"}]
    /\ out \in [Seqs -> Nat]
    /\ abort \in [Seqs -> BOOLEAN]
    /\ running \subseteq Seqs
    /\ admitted \in Seq(Seqs)
    /\ cands \subseteq Nat
    /\ stop \in BOOLEAN /\ cancelled \in BOOLEAN
    /\ policy \in Policies

(* The loop, the thread, aborts, errors and shutdown use the pool and the  *)
(* cache only as KvAccounting allows: every admitted sequence is released  *)
(* exactly once, on whichever path ends it, and only the steps on behalf   *)
(* of a sequence touch its blocks.                                         *)
Accounting == INSTANCE KvAccounting
                 WITH held <- Active, done <- {s \in Seqs : status[s] \in Over}

AccountingSpec == Accounting!Spec

(* What is over stays over: no step gives a finished, aborted or failed    *)
(* sequence another status, another token or blocks, whatever the thread   *)
(* still had in hand when it ended.                                        *)
OverIsFinal ==
    [][\A s \in Seqs : status[s] \in Over =>
          /\ status'[s] = status[s] /\ out'[s] = out[s]
          /\ kv'.alloc[s] = {}]_common

(* Under fcfs nobody overtakes: sequences leave the queue for the batch    *)
(* from its head only, and those that stay keep their order, also when an  *)
(* admission fails and the head is put back.                               *)
Position(q, s) == CHOOSE i \in DOMAIN q : q[i] = s

FirstComeFirstServed ==
    [][/\ \A s \in Waiting : s \in Active' => s = Head(queue)
       /\ \A s, t \in Waiting \cap Waiting' :
             Position(queue, s) < Position(queue, t)
                <=> Position(queue', s) < Position(queue', t)]_common

(* "worker must not die on one request" (worker.py:208): the task ends     *)
(* only when it is told to.                                                *)
WorkerSurvives == pc = "dead" => cancelled

(* Every request that entered the queue ends, if the task does not die.    *)
EveryRequestEnds ==
    \A s \in Seqs : status[s] = "waiting" ~> status[s] \in Over \/ pc = "dead"

(* Shutdown ends every request that was accepted, wherever it is.          *)
ShutdownDrains ==
    stop ~> \/ pc = "dead"
            \/ pc = "stopped" /\ \A s \in Seqs : status[s] \notin Live
=============================================================================
