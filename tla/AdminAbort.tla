----------------------------- MODULE AdminAbort ------------------------------
(***************************************************************************)
(* flux/server/routes_admin.py, admin_abort, against the RequestQueue of   *)
(* flux/engine/scheduler.py.  The handler is a plain function, which       *)
(* FastAPI runs in a pool of threads: it walks over the deque and replaces *)
(* it while the loop appends to it, pops from it and pushes back.          *)
(*                                                                         *)
(* CPython (3.11 and later) lets another thread run at a call or where a   *)
(* for loop goes back to its head, and nowhere else: what the code does    *)
(* between two of those places is one step.  An iterator over a deque that *)
(* was changed since it was made raises RuntimeError at its next item, or  *)
(* at its end; it does not notice that _waiting has become another deque.  *)
(*                                                                         *)
(* Two such places have no step of their own, those after the len() that   *)
(* try_enqueue and run() test: a removal in between might as well have     *)
(* come before, unless operations have crossed on a request.               *)
(*                                                                         *)
(* The pool, the engine and the results are abstracted: a request fits and *)
(* is allocated or not, and a running one may end after any iteration.     *)
(***************************************************************************)
EXTENDS Integers, SequencesExt

CONSTANTS
    Seqs,        \* the sequences the handlers submit
    Admins,      \* calls of admin_abort, each in a thread of its own
    Loop,        \* the thread of the event loop
    MaxWaiting,  \* max_waiting
    MaxBatch     \* max_batch

ASSUME LoopAssumption == Loop \notin Admins
ASSUME WaitingAssumption == MaxWaiting \in Nat \ {0}
ASSUME BatchAssumption == MaxBatch \in Nat \ {0}

Threads == Admins \cup {Loop}

VARIABLES
    policy,      \* Scheduler.policy
    queue,       \* what the deque _waiting holds
    event,       \* RequestQueue._event
    status,      \* Sequence.status, and "new" before it is submitted
    abort,       \* Sequence.abort_requested
    batch,       \* stats.running
    setting,     \* try_enqueue has appended and not yet set the event
    pc,          \* where run() is
    chosen,      \* the sequence an admission is about, in a set
    admitted,    \* the list admit() returns
    walk,        \* the items the iterator of a thread goes over
    iter,        \* its deque: "none", "current", "changed" or "replaced"
    at,          \* where a call of admin_abort is
    target,      \* the sequence a call of admin_abort is about, in a set
    crossed,     \* sequences removed or copied across another's operation
    spurious     \* the last set() of the event came after the queue was emptied

qvars   == <<queue, event>>
reqs    == <<status, abort>>
run     == <<batch, pc, chosen, admitted>>
admin   == <<at, target>>
iters   == <<walk, iter>>
history == <<crossed, spurious>>
vars    == <<policy, qvars, reqs, setting, run, admin, iters, history>>

Over == {"finished", "aborted"}

Waiting == {queue[i] : i \in DOMAIN queue}

Elements(list) == {list[i] : i \in DOMAIN list}

(* What _wants_abort tells.                                                *)
WantsAbort(s) == abort[s] \/ status[s] = "aborted"

(* run() has given the loop to the handlers.                               *)
LoopFree == pc \in {"asleep", "woken", "prefill", "thread"} /\ ~setting

Init ==
    /\ policy \in {"fcfs", "memory_fit"}
    /\ queue = << >> /\ event = FALSE
    /\ status = [s \in Seqs |-> "new"] /\ abort = [s \in Seqs |-> FALSE]
    /\ setting = FALSE
    /\ batch = {} /\ pc = "top" /\ chosen = {} /\ admitted = << >>
    /\ walk = [t \in Threads |-> << >>] /\ iter = [t \in Threads |-> "none"]
    /\ at = [a \in Admins |-> "idle"] /\ target = [a \in Admins |-> {}]
    /\ crossed = {} /\ spurious = FALSE

-----------------------------------------------------------------------------
(* The deque.                                                              *)

(* append, popleft, appendleft: who is iterating over it will notice.      *)
Mutate(new) ==
    /\ queue' = new
    /\ iter' = [t \in Threads |-> IF iter[t] = "current" THEN "changed" ELSE iter[t]]
    /\ walk' = [t \in Threads |-> IF iter'[t] = "changed" THEN << >> ELSE walk[t]]

(* The head of a for loop over the deque.                                  *)
Iterate(t) ==
    /\ walk' = [walk EXCEPT ![t] = queue]
    /\ iter' = [iter EXCEPT ![t] = "current"]

Forget(t) ==
    /\ walk' = [walk EXCEPT ![t] = << >>]
    /\ iter' = [iter EXCEPT ![t] = "none"]

(* self._waiting = kept, at the end of remove(s) by thread t.              *)
Replace(t, s) ==
    /\ queue' = RemoveFirst(walk[t], s)
    /\ iter' = [u \in Threads |-> IF u = t THEN "none"
                                  ELSE IF iter[u] = "current" THEN "replaced" ELSE iter[u]]

(* The sequences other operations have taken out of the queue or put into  *)
(* it since the walk began: the assignment undoes it.                      *)
Undone(t) == (Elements(walk[t]) \ Waiting) \cup (Waiting \ Elements(walk[t]))

-----------------------------------------------------------------------------
(* The handlers of the loop: try_enqueue.                                  *)

Enqueue(s) ==
    /\ LoopFree /\ status[s] = "new"
    /\ Len(queue) < MaxWaiting
    /\ status' = [status EXCEPT ![s] = "waiting"]
    /\ Mutate(Append(queue, s))
    /\ setting' = TRUE
    /\ UNCHANGED <<policy, event, abort, run, admin, history>>

WakeRun == pc' = IF pc = "asleep" THEN "woken" ELSE pc

SetEvent ==
    /\ setting
    /\ setting' = FALSE /\ event' = TRUE
    /\ WakeRun
    /\ spurious' = (queue = << >>)
    /\ UNCHANGED <<policy, queue, reqs, batch, chosen, admitted, admin, iters, crossed>>

-----------------------------------------------------------------------------
(* run(), and Scheduler.admit step by step.                                *)

Top ==
    /\ pc = "top"
    /\ pc' = IF batch = {} /\ queue = << >> /\ ~event THEN "asleep" ELSE "drop"
    /\ admitted' = << >>
    /\ UNCHANGED <<policy, qvars, reqs, setting, batch, chosen, admin, iters, history>>

Woken ==
    /\ pc = "woken" /\ ~setting
    /\ pc' = "drop"
    /\ UNCHANGED <<policy, qvars, reqs, setting, batch, chosen, admitted, admin, iters, history>>

(* _drop_aborted.                                                          *)
DropAborted ==
    /\ pc = "drop"
    /\ status' = [s \in Seqs |-> IF s \in batch /\ WantsAbort(s) THEN "aborted" ELSE status[s]]
    /\ batch' = {s \in batch : ~WantsAbort(s)}
    /\ pc' = "admit"
    /\ UNCHANGED <<policy, qvars, abort, setting, chosen, admitted, admin, iters, history>>

(* Mutant: what this iteration admitted already is not counted.            *)
RoomBeforeAdmission == MaxBatch - Cardinality(batch)

Room == MaxBatch - Cardinality(batch) - Len(admitted)

(* peek_one and _fits, or the walk of memory_fit to the first that fits:   *)
(* that one meets no change, the loop being where it is.                   *)
Choose ==
    /\ pc = "admit" /\ Room > 0 /\ queue # << >>
    /\ \E i \in DOMAIN queue :
          /\ policy = "fcfs" => i = 1
          /\ chosen' = {queue[i]}
    /\ pc' = "chosen"
    /\ UNCHANGED <<policy, qvars, reqs, setting, batch, admitted, admin, iters, history>>

(* fcfs: pop_one takes the head, whoever that is by now, and its result is *)
(* not looked at.                                                          *)
Popped == IF queue = << >> THEN {} ELSE {Head(queue)}

Pop ==
    /\ pc = "chosen" /\ policy = "fcfs"
    /\ IF queue = << >> THEN UNCHANGED <<queue, iters>> ELSE Mutate(Tail(queue))
    /\ crossed' = IF Popped = chosen THEN crossed ELSE crossed \cup Popped \cup chosen
    /\ pc' = IF queue = << >> THEN "allocate" ELSE "popped"
    /\ UNCHANGED <<policy, event, reqs, setting, batch, chosen, admitted, admin, spurious>>

(* It looks at the deque again, which admin_abort may have changed.        *)
AfterPop ==
    /\ pc = "popped"
    /\ pc' = IF queue = << >> THEN "clear" ELSE "allocate"
    /\ UNCHANGED <<policy, qvars, reqs, setting, batch, chosen, admitted, admin, iters, history>>

(* memory_fit: remove(chosen), found or not.                               *)
RemoveWalk ==
    /\ pc = "chosen" /\ policy = "memory_fit"
    /\ Iterate(Loop)
    /\ pc' = "copied"
    /\ UNCHANGED <<policy, qvars, reqs, setting, batch, chosen, admitted, admin, history>>

RemoveChosen ==
    /\ pc = "copied"
    /\ \E s \in chosen : Replace(Loop, s)
    /\ walk' = [walk EXCEPT ![Loop] = << >>]
    /\ crossed' = crossed \cup Undone(Loop) \cup (chosen \ Waiting)
    /\ pc' = IF queue' = << >> THEN "clear" ELSE "allocate"
    /\ UNCHANGED <<policy, event, reqs, setting, batch, chosen, admitted, admin, spurious>>

(* The clear of pop_one and remove, whatever the deque holds by now.       *)
ClearEvent ==
    /\ pc = "clear"
    /\ event' = FALSE
    /\ pc' = "allocate"
    /\ UNCHANGED <<policy, queue, reqs, setting, batch, chosen, admitted, admin, iters, history>>

(* Mutant: the refused sequence is forgotten.                              *)
RefuseDropping ==
    /\ pc = "allocate"
    /\ chosen' = {}
    /\ pc' = "pushing"
    /\ UNCHANGED <<policy, qvars, reqs, setting, batch, admitted, admin, iters, history>>

(* _try_allocate has failed: push_front puts it back,                      *)
Refuse ==
    /\ pc = "allocate"
    /\ \E s \in chosen : Mutate(Cons(s, queue))
    /\ chosen' = {}
    /\ pc' = "pushing"
    /\ UNCHANGED <<policy, event, reqs, setting, batch, admitted, admin, history>>

(* and sets the event, and the admission is over.                          *)
PushEvent ==
    /\ pc = "pushing"
    /\ event' = TRUE
    /\ spurious' = (queue = << >>)
    /\ pc' = "admitted"
    /\ UNCHANGED <<policy, queue, reqs, setting, batch, chosen, admitted, admin, iters, crossed>>

Allocate ==
    /\ pc = "allocate"
    /\ \E s \in chosen : admitted' = Append(admitted, s)
    /\ chosen' = {}
    /\ pc' = "admit"
    /\ UNCHANGED <<policy, qvars, reqs, setting, batch, admin, iters, history>>

(* No room, nobody there, or nobody fits.                                  *)
AdmitDone ==
    /\ pc = "admit"
    /\ pc' = "admitted"
    /\ UNCHANGED <<policy, qvars, reqs, setting, batch, chosen, admitted, admin, iters, history>>

(* The admitted sequences are prefilled one by one, unless an abort was    *)
(* asked for before.  The prefill writes the status, whatever it was; the  *)
(* sequence joins stats.running after it, unless it is over.               *)
Skip ==
    /\ pc = "admitted" /\ admitted # << >> /\ WantsAbort(Head(admitted))
    /\ status' = [status EXCEPT ![Head(admitted)] = "aborted"]
    /\ admitted' = Tail(admitted)
    /\ UNCHANGED <<policy, qvars, abort, setting, batch, pc, chosen, admin, iters, history>>

Prefill ==
    /\ pc = "admitted" /\ admitted # << >> /\ ~WantsAbort(Head(admitted))
    /\ status' = [status EXCEPT ![Head(admitted)] = "running"]
    /\ pc' = "prefill"
    /\ UNCHANGED <<policy, qvars, abort, setting, batch, chosen, admitted, admin, iters, history>>

Prefilled ==
    /\ pc = "prefill" /\ ~setting
    /\ LET s == Head(admitted)
       IN  \E last \in BOOLEAN :
              /\ status' = [status EXCEPT ![s] = IF WantsAbort(s) THEN "aborted"
                                                 ELSE IF last THEN "finished" ELSE @]
              /\ batch' = IF status'[s] \in Over THEN batch ELSE batch \cup {s}
    /\ admitted' = Tail(admitted)
    /\ pc' = "admitted"
    /\ UNCHANGED <<policy, qvars, abort, setting, chosen, admin, iters, history>>

(* The decode step in the thread, or sleep(0) when nothing was admitted.   *)
(* When all that were admitted are over already, the code goes on without  *)
(* an await; the handlers may get a turn here all the same.                *)
Decode ==
    /\ pc = "admitted" /\ admitted = << >>
    /\ pc' = "thread"
    /\ UNCHANGED <<policy, qvars, reqs, setting, batch, chosen, admitted, admin, iters, history>>

(* The thread's part of an iteration: some of the batch have their last    *)
(* token, and the aborts asked for are seen.                               *)
Step ==
    /\ pc = "thread" /\ ~setting
    /\ \E done \in SUBSET batch :
          /\ status' = [s \in Seqs |-> IF s \in batch /\ WantsAbort(s) THEN "aborted"
                                       ELSE IF s \in done THEN "finished" ELSE status[s]]
          /\ batch' = {s \in batch : status'[s] = "running"}
    /\ pc' = "top"
    /\ UNCHANGED <<policy, qvars, abort, setting, chosen, admitted, admin, iters, history>>

-----------------------------------------------------------------------------
(* admin_abort.                                                            *)
Goto(a, label) == at' = [at EXCEPT ![a] = label]

(* _find_sequence looks through the queue and then through stats.running.  *)
(* Its walk leaves nothing behind, so it is one step.                      *)
Find(a, s) ==
    /\ at[a] = "idle"
    /\ s \in Waiting \cup batch
    /\ target' = [target EXCEPT ![a] = {s}]
    /\ Goto(a, "found")
    /\ UNCHANGED <<policy, qvars, reqs, setting, run, iters, history>>

(* remove().  Its iterator is gone with the assignment; walk[a] stays, to  *)
(* tell whether the sequence was found.                                    *)
BeginRemove(a) ==
    /\ at[a] = "found"
    /\ Iterate(a)
    /\ Goto(a, "remove")
    /\ UNCHANGED <<policy, qvars, reqs, setting, run, target, history>>

(* RuntimeError: deque mutated during iteration.  The answer is 500.       *)
Raise(a) ==
    /\ at[a] = "remove" /\ iter[a] = "changed"
    /\ target' = [target EXCEPT ![a] = {}]
    /\ Forget(a)
    /\ Goto(a, "idle")
    /\ UNCHANGED <<policy, qvars, reqs, setting, run, history>>

Removed(a) == target[a] \subseteq Elements(walk[a])

(* Mutants: remove() walks over a list, which raises nothing; the event is *)
(* left as it is.                                                          *)
RemoveFromList(a) ==
    /\ at[a] = "remove"
    /\ \E s \in target[a] : Replace(a, s)
    /\ crossed' = crossed \cup Undone(a)
    /\ Goto(a, IF queue' = << >> THEN "clear" ELSE IF Removed(a) THEN "abort" ELSE "flag")
    /\ UNCHANGED <<policy, event, reqs, setting, run, target, walk, spurious>>

RemoveKeepingEvent(a) ==
    /\ at[a] = "remove" /\ iter[a] # "changed"
    /\ \E s \in target[a] : Replace(a, s)
    /\ crossed' = crossed \cup Undone(a)
    /\ Goto(a, IF Removed(a) THEN "abort" ELSE "flag")
    /\ UNCHANGED <<policy, event, reqs, setting, run, target, walk, spurious>>

RemoveWaiting(a) ==
    /\ at[a] = "remove" /\ iter[a] # "changed"
    /\ \E s \in target[a] : Replace(a, s)
    /\ crossed' = crossed \cup Undone(a)
    /\ Goto(a, IF queue' = << >> THEN "clear" ELSE IF Removed(a) THEN "abort" ELSE "flag")
    /\ UNCHANGED <<policy, event, reqs, setting, run, target, walk, spurious>>

(* The queue was empty after the assignment.                               *)
Clear(a) ==
    /\ at[a] = "clear"
    /\ event' = FALSE
    /\ Goto(a, IF Removed(a) THEN "abort" ELSE "flag")
    /\ UNCHANGED <<policy, queue, reqs, setting, run, target, iters, history>>

(* _abort_one.                                                             *)
AbortWaiting(a) ==
    /\ at[a] = "abort"
    /\ status' = [s \in Seqs |-> IF s \in target[a] THEN "aborted" ELSE status[s]]
    /\ Forget(a)
    /\ Goto(a, "aborted")
    /\ UNCHANGED <<policy, qvars, abort, setting, run, target, history>>

(* Mutant: the request is not told.                                        *)
FlagNobody(a) ==
    /\ at[a] = "flag"
    /\ Forget(a)
    /\ Goto(a, "flagged")
    /\ UNCHANGED <<policy, qvars, reqs, setting, run, target, history>>

(* request_abort, for what is not in the queue.                            *)
FlagRunning(a) ==
    /\ at[a] = "flag"
    /\ abort' = [s \in Seqs |-> abort[s] \/ s \in target[a]]
    /\ Forget(a)
    /\ Goto(a, "flagged")
    /\ UNCHANGED <<policy, qvars, status, setting, run, target, history>>

-----------------------------------------------------------------------------
EventLoop ==
    \/ \E s \in Seqs : Enqueue(s)
    \/ SetEvent
    \/ Top \/ Woken \/ DropAborted \/ Choose
    \/ Pop \/ AfterPop \/ RemoveWalk \/ RemoveChosen \/ ClearEvent
    \/ Refuse \/ PushEvent \/ Allocate \/ AdmitDone \/ Skip \/ Prefill \/ Prefilled \/ Decode \/ Step

AdminThread(a) ==
    \/ \E s \in Seqs : Find(a, s)
    \/ BeginRemove(a) \/ Raise(a) \/ RemoveWaiting(a)
    \/ Clear(a) \/ AbortWaiting(a) \/ FlagRunning(a)

Next == EventLoop \/ \E a \in Admins : AdminThread(a)

Spec == Init /\ [][Next]_vars

-----------------------------------------------------------------------------
(* Where the admission has taken what it is about out of the queue.        *)
InHands == {"popped", "clear", "allocate"}

(* Type correctness.  The room is counted once for all of an iteration's   *)
(* admissions, which are in the batch only after their prefills: at no     *)
(* time are more than MaxBatch sequences between admission and end.        *)
TypeOK ==
    /\ policy \in {"fcfs", "memory_fit"}
    /\ queue \in Seq(Seqs) /\ event \in BOOLEAN
    /\ status \in [Seqs -> {"new", "waiting", "running"} \cup Over]
    /\ abort \in [Seqs -> BOOLEAN]
    /\ setting \in BOOLEAN /\ spurious \in BOOLEAN
    /\ batch \subseteq Seqs /\ crossed \subseteq Seqs
    /\ pc \in {"top", "asleep", "woken", "drop", "admit", "chosen", "copied", "popped",
               "clear", "allocate", "pushing", "admitted", "prefill", "thread"}
    /\ chosen \subseteq Seqs /\ admitted \in Seq(Seqs)
    /\ Cardinality(batch) + Len(admitted) + Cardinality(chosen) <= MaxBatch
    /\ (chosen # {}) = (pc \in {"chosen", "copied"} \cup InHands)
    /\ walk \in [Threads -> Seq(Seqs)]
    /\ iter \in [Threads -> {"none", "current", "changed", "replaced"}]
    /\ at \in [Admins -> {"idle", "found", "remove", "clear", "abort", "flag",
                          "aborted", "flagged"}]
    /\ target \in [Admins -> SUBSET Seqs]

(* However the threads interleave, a waiting request is in one place and   *)
(* once: in the queue, in the hands of the admission, or in those of the   *)
(* admin_abort that has taken it out.  And nothing else is in the queue.   *)
(* Excepted are the requests that two operations crossed on.               *)
TakenOut == UNION {target[a] : a \in {b \in Admins : at[b] \in {"clear", "abort"} /\ Removed(b)}}

Admitting == (IF pc \in InHands THEN chosen ELSE {}) \cup Elements(admitted)

Once(list, s) == \A i, j \in DOMAIN list : list[i] = s /\ list[j] = s => i = j

OnePlace ==
    \A s \in Seqs \ crossed :
        /\ Once(queue, s)
        /\ status[s] = "waiting" => s \in Waiting \cup Admitting \cup TakenOut
        /\ s \in Waiting => status[s] = "waiting"
        /\ ~ (s \in Waiting /\ s \in Admitting)

(* "Cancel in-flight" (IMPLEMENTATION_PLAN.md:486): when admin_abort says  *)
(* that it has aborted a request, the request is over, and stays so, or    *)
(* will see its flag.                                                      *)
AbortIsKept ==
    \A a \in Admins : \A s \in target[a] \ crossed :
        /\ at[a] = "aborted" => status[s] = "aborted"
        /\ at[a] = "flagged" => status[s] \in Over \/ abort[s]

(* run() does not sleep while somebody waits, but for the moment between   *)
(* the append and the set() of try_enqueue, and after operations crossed.  *)
(* An event that is set on an empty queue makes run() spin instead: beside *)
(* the moments in which a removal has emptied the queue and is about to    *)
(* clear the event, that takes a set(), of try_enqueue or of push_front,   *)
(* which came after an admin_abort had taken out what it was for.          *)
EventTellsTheQueue ==
    /\ pc = "asleep" /\ queue # << >> => setting \/ crossed # {}
    /\ event /\ queue = << >> =>
          spurious \/ pc \in {"popped", "clear"} \/ \E a \in Admins : at[a] = "clear"

(* Operations cross in a few places only.  A change of the deque that an   *)
(* admin_abort walks over makes it raise; so under fcfs it takes an abort  *)
(* of the very request that is being admitted, or two aborts at a time.    *)
BegunToRemove == {a \in Admins : at[a] \notin {"idle", "found"}}

CrossingsAreRare ==
    [][crossed' # crossed =>
          \/ pc = "chosen" /\ \E a \in Admins : chosen \subseteq target[a]
          \/ \E a, b \in BegunToRemove : a # b
          \/ policy = "memory_fit"]_vars
=============================================================================
