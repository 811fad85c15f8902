-------------------------- MODULE ContinuousWorker ---------------------------
(***************************************************************************)
(* flux/engine/worker.py, ContinuousWorker: the continuous-batching loop.  *)
(* At each iteration it admits sequences, prefills them one at a time and  *)
(* runs one decode step of the whole batch.  The queue, the handlers and   *)
(* the shutdown are those of WorkerCommon.                                 *)
(*                                                                         *)
(* The for loops of the code take the elements of todo one at a time; the  *)
(* order of a batch is left open.                                          *)
(***************************************************************************)
EXTENDS WorkerCommon

VARIABLES
    next,        \* run()'s position in the list of admitted sequences
    todo         \* elements the current for loop has not reached yet

loop == <<next, todo>>
vars == <<common, loop>>

Pcs == LoopPcs \cup {"wait", "woken", "yield", "stopped", "dead",
                     "prefill", "insert", "sample", "resume",
                     "sweep", "batch", "rows", "fail"}

Init == InitCommon /\ next = 1 /\ todo = {}

-----------------------------------------------------------------------------
(* run(): the head of the loop and _drop_aborted.                          *)

Top ==
    /\ pc = "top"
    /\ \/ stop /\ Goto("leftovers") /\ todo' = running
       \/ /\ ~stop /\ running = {} /\ queue = << >>
          /\ Goto(IF event THEN "woken" ELSE "wait") /\ todo' = {}
       \/ ~stop /\ (running # {} \/ queue # << >>) /\ Goto("drop") /\ todo' = running
    /\ UNCHANGED <<kv, qvars, reqs, running, admitted, next, cands, life>>

(* run() after await wait_not_empty().                                     *)
Wake ==
    /\ pc = "woken" /\ ~cancelled
    /\ Goto(IF stop THEN "leftovers" ELSE "drop")
    /\ todo' = running
    /\ UNCHANGED <<kv, qvars, reqs, running, admitted, next, cands, life>>

Drop(s) ==
    /\ pc = "drop" /\ s \in todo
    /\ todo' = todo \ {s}
    /\ IF abort[s] THEN End(s, "aborted") ELSE UNCHANGED <<kv, status>>
    /\ UNCHANGED <<qvars, out, abort, running, admitted, next, cands, pc, life>>

(* Mutant: the position in the list of the last iteration is kept.         *)
DropDoneKeepingNext ==
    /\ pc = "drop" /\ todo = {}
    /\ running' = {s \in running : status[s] # "aborted"}
    /\ admitted' = << >>
    /\ Goto("admit")
    /\ UNCHANGED <<kv, qvars, reqs, next, cands, todo, life>>

DropDone ==
    /\ pc = "drop" /\ todo = {}
    /\ running' = {s \in running : status[s] # "aborted"}
    /\ admitted' = << >> /\ next' = 1
    /\ Goto("admit")
    /\ UNCHANGED <<kv, qvars, reqs, cands, todo, life>>

Admission == Admit(Room(running, admitted)) /\ UNCHANGED loop

(* run(): the admitted sequences one by one, then a decode step, or a      *)
(* chance for the other tasks when there was nothing to do.                *)
Each ==
    /\ pc = "each" /\ next <= Len(admitted)
    /\ IF abort[admitted[next]]
       THEN /\ End(admitted[next], "aborted")
            /\ next' = next + 1
            /\ UNCHANGED pc
       ELSE /\ Goto("prefill")
            /\ UNCHANGED <<kv, status, next>>
    /\ UNCHANGED <<qvars, out, abort, running, admitted, cands, todo, life>>

EachDone ==
    /\ pc = "each" /\ next > Len(admitted)
    /\ \/ running # {} /\ Goto("sweep") /\ todo' = running
       \/ running = {} /\ admitted = << >> /\ Goto("yield") /\ todo' = {}
       \/ running = {} /\ admitted # << >> /\ Goto("top") /\ todo' = {}
    /\ UNCHANGED <<kv, qvars, reqs, running, admitted, next, cands, life>>

Yield ==
    /\ pc = "yield" /\ ~cancelled
    /\ Goto("top")
    /\ UNCHANGED <<kv, qvars, reqs, running, admitted, cands, loop, life>>

-----------------------------------------------------------------------------
(* The thread: _prefill_one of the sequence run() is at.                   *)

Cur == admitted[next]

PrefillAborted ==
    /\ pc = "prefill" /\ abort[Cur]
    /\ End(Cur, "aborted")
    /\ Goto("resume")
    /\ UNCHANGED <<qvars, out, abort, running, admitted, cands, loop, life>>

(* Up to the forward pass: the late hit of _bind_prefix_at_prefill.        *)
PrefillStart ==
    /\ pc = "prefill" /\ ~abort[Cur]
    /\ status' = [status EXCEPT ![Cur] = "prefill"]
    /\ kv' \in LateBind(kv, Cur)
    /\ cands' = CandidateLengths(Cur)
    /\ Goto("insert")
    /\ UNCHANGED <<qvars, out, abort, running, admitted, next, todo, life>>

Store == (InsertNext(Cur) \/ InsertDone(Cur)) /\ UNCHANGED loop

(* The exception handler of _prefill_one: the forward pass, the copies of  *)
(* the KV or the sampler raised, or, with the token noted already, the     *)
(* detokenizer.                                                            *)
PrefillFails ==
    /\ pc \in {"insert", "sample"}
    /\ End(Cur, "error")
    /\ \/ UNCHANGED out
       \/ pc = "sample" /\ NoteToken(Cur)
    /\ cands' = {}
    /\ Goto("resume")
    /\ UNCHANGED <<qvars, abort, running, admitted, next, todo, life>>

FirstToken ==
    /\ pc = "sample"
    /\ NoteToken(Cur)
    /\ \E last \in BOOLEAN :
          /\ MayBeLast(Cur, last)
          /\ IF abort[Cur] THEN End(Cur, "aborted")
             ELSE IF last THEN End(Cur, "finished")
             ELSE status' = [status EXCEPT ![Cur] = "decoding"] /\ UNCHANGED kv
    /\ Goto("resume")
    /\ UNCHANGED <<qvars, abort, running, admitted, cands, loop, life>>

(* run() after the await: the sequence joins the batch unless it is over.  *)
Resume ==
    /\ pc = "resume" /\ ~cancelled
    /\ running' = IF status[Cur] \in Over THEN running ELSE running \cup {Cur}
    /\ next' = next + 1
    /\ Goto("each")
    /\ UNCHANGED <<kv, qvars, reqs, admitted, cands, todo, life>>

-----------------------------------------------------------------------------
(* The thread: _decode_one_step.                                           *)

Sweep(s) ==
    /\ pc = "sweep" /\ s \in todo
    /\ todo' = todo \ {s}
    /\ IF abort[s] THEN End(s, "aborted") ELSE UNCHANGED <<kv, status>>
    /\ UNCHANGED <<qvars, out, abort, running, admitted, next, cands, pc, life>>

SweepDone ==
    /\ pc = "sweep" /\ todo = {}
    /\ Goto("batch")
    /\ UNCHANGED <<kv, qvars, reqs, running, admitted, cands, loop, life>>

(* live: an abort requested since the sweep takes the sequence out of the  *)
(* step.  An empty batch returns at once.                                  *)
Decodable == {s \in running : status[s] = "decoding" /\ ~abort[s]}

DecodeBatch ==
    /\ pc = "batch"
    /\ todo' = Decodable
    /\ \/ Goto("rows")
       \/ Decodable # {} /\ Goto("fail")
    /\ UNCHANGED <<kv, qvars, reqs, running, admitted, next, cands, life>>

(* Mutant: the error handler forgets to release the sequence.              *)
FailRowUnreleased(s) ==
    /\ pc = "fail" /\ s \in todo
    /\ todo' = todo \ {s}
    /\ status' = [status EXCEPT ![s] = "error"]
    /\ UNCHANGED <<kv, qvars, out, abort, running, admitted, next, cands, pc, life>>

(* decode_batch raised: every sequence of the step is in error.            *)
FailRow(s) ==
    /\ pc = "fail" /\ s \in todo
    /\ todo' = todo \ {s}
    /\ End(s, "error")
    /\ UNCHANGED <<qvars, out, abort, running, admitted, next, cands, pc, life>>

(* Mutant: the row is accepted without a look at the abort flag.           *)
RowUnchecked(s) ==
    /\ pc = "rows" /\ s \in todo
    /\ todo' = todo \ {s}
    /\ NoteToken(s)
    /\ \E last \in BOOLEAN :
          /\ MayBeLast(s, last)
          /\ IF last THEN End(s, "finished") ELSE UNCHANGED <<kv, status>>
    /\ UNCHANGED <<qvars, abort, running, admitted, next, cands, pc, life>>

Row(s) ==
    /\ pc = "rows" /\ s \in todo
    /\ todo' = todo \ {s}
    /\ IF abort[s]
       THEN End(s, "aborted") /\ UNCHANGED out
       ELSE /\ NoteToken(s)
            /\ \E last \in BOOLEAN :
                  /\ MayBeLast(s, last)
                  /\ IF last THEN End(s, "finished") ELSE UNCHANGED <<kv, status>>
    /\ UNCHANGED <<qvars, abort, running, admitted, next, cands, pc, life>>

(* The sampler raised on one row, or the detokenizer after its token was   *)
(* noted.  Nothing catches it: the task run() ends with the exception.     *)
RowRaises ==
    /\ pc = "rows"
    /\ \E s \in todo : ~abort[s] /\ (UNCHANGED out \/ NoteToken(s))
    /\ Goto("dead")
    /\ UNCHANGED <<kv, qvars, status, abort, running, admitted, cands, loop, life>>

(* run() after the await: the filter of stats.running.                     *)
RowsDone ==
    /\ pc \in {"rows", "fail"} /\ todo = {} /\ ~cancelled
    /\ Goto("filter")
    /\ todo' = running
    /\ UNCHANGED <<kv, qvars, reqs, running, admitted, next, cands, life>>

(* Mutant: the filter aborts what has just finished, too.                  *)
FilterUnchecked(s) ==
    /\ pc = "filter" /\ s \in todo
    /\ todo' = todo \ {s}
    /\ IF abort[s] THEN End(s, "aborted") ELSE UNCHANGED <<kv, status>>
    /\ UNCHANGED <<qvars, out, abort, running, admitted, next, cands, pc, life>>

Filter(s) ==
    /\ pc = "filter" /\ s \in todo
    /\ todo' = todo \ {s}
    /\ IF status[s] \notin Over /\ abort[s]
       THEN End(s, "aborted")
       ELSE UNCHANGED <<kv, status>>
    /\ UNCHANGED <<qvars, out, abort, running, admitted, next, cands, pc, life>>

(* Mutant: the flag is read a second time, after the decision to abort.    *)
FilterDoneRereading ==
    /\ pc = "filter" /\ todo = {}
    /\ running' = {s \in running : status[s] \notin Over /\ ~abort[s]}
    /\ Goto("top")
    /\ UNCHANGED <<kv, qvars, reqs, admitted, next, cands, todo, life>>

FilterDone ==
    /\ pc = "filter" /\ todo = {}
    /\ running' = {s \in running : status[s] \notin Over}
    /\ Goto("top")
    /\ UNCHANGED <<kv, qvars, reqs, admitted, next, cands, todo, life>>

-----------------------------------------------------------------------------
(* The end of run(): _abort_leftovers, first the queue and then the batch. *)

LeftoverRunning(s) ==
    /\ pc = "leftovers" /\ queue = << >> /\ s \in todo
    /\ todo' = todo \ {s}
    /\ IF status[s] \notin Over THEN End(s, "aborted") ELSE UNCHANGED <<kv, status>>
    /\ UNCHANGED <<qvars, out, abort, running, admitted, next, cands, pc, life>>

(* Mutant: the batch is aborted and the queue is left as it is.            *)
LeftoversDoneEarly ==
    /\ pc = "leftovers" /\ todo = {}
    /\ running' = {}
    /\ Goto("stopped")
    /\ UNCHANGED <<kv, qvars, reqs, admitted, next, cands, todo, life>>

LeftoversDone ==
    /\ pc = "leftovers" /\ queue = << >> /\ todo = {}
    /\ running' = {}
    /\ Goto("stopped")
    /\ UNCHANGED <<kv, qvars, reqs, admitted, next, cands, todo, life>>

(* A cancelled task ends at its await; a thread it waits for runs on.      *)
CancelledExit ==
    /\ cancelled
    /\ \/ pc \in {"wait", "woken", "yield", "resume"}
       \/ pc \in {"rows", "fail"} /\ todo = {}
    /\ Goto("dead")
    /\ UNCHANGED <<kv, qvars, reqs, running, admitted, cands, loop, life>>

-----------------------------------------------------------------------------
Work ==
    \/ Top \/ Wake \/ DropDone \/ Admission \/ Each \/ EachDone \/ Yield
    \/ PrefillAborted \/ PrefillStart \/ Store \/ FirstToken
    \/ Resume \/ SweepDone \/ DecodeBatch \/ RowsDone \/ FilterDone
    \/ \E s \in Seqs : Drop(s) \/ Sweep(s) \/ FailRow(s) \/ Row(s) \/ Filter(s)
    \/ LeftoverWaiting /\ UNCHANGED loop
    \/ LeftoversDone \/ CancelledExit
    \/ \E s \in Seqs : LeftoverRunning(s)

Failure == PrefillFails \/ RowRaises

(* Nothing is left to run once the task is over.                           *)
Ended == pc \in {"stopped", "dead"} /\ UNCHANGED vars

Next == (Environment /\ UNCHANGED loop) \/ Work \/ Failure \/ Ended

(* The event loop runs its ready tasks in turn and the thread is not       *)
(* starved: run() and its thread make progress whenever they can.          *)
Spec == Init /\ [][Next]_vars /\ WF_vars(Work)

-----------------------------------------------------------------------------
(* Type correctness.  The batch and the admitted sequences that have yet   *)
(* to join it are never more than max_batch.                               *)
Taken == Cardinality(running) + Len(admitted) + 1 - next

TypeOK ==
    /\ TypeCommon
    /\ Taken <= MaxBatch
    /\ pc \in Pcs
    /\ next \in 1 .. Len(admitted) + 1
    /\ todo \subseteq Seqs

(* A live sequence is always somewhere the loop will find it: once in the  *)
(* queue, or among the admitted ones still to be prefilled, or in the      *)
(* batch, and in one of these only.  One that is popped and not put back,  *)
(* or appended twice, would wait for ever or be released twice.            *)
Pending == {admitted[i] : i \in next .. Len(admitted)}

OnePlace ==
    /\ \A s \in Seqs : status[s] \in Live => s \in Waiting \cup Pending \cup running
    /\ \A s \in Waiting : status[s] = "waiting"
    /\ Waiting \cap (Pending \cup running) = {}
    /\ Pending \cap running = {}
    /\ \A i, j \in DOMAIN queue : queue[i] = queue[j] => i = j
    /\ \A i, j \in next .. Len(admitted) : admitted[i] = admitted[j] => i = j

(* After an abort is requested a sequence gets at most the token its       *)
(* prefill was computing: the decode step looks at the flag before it      *)
(* accepts the row.                                                        *)
AbortStopsTokens ==
    [][\A s \in Seqs : abort[s] /\ out'[s] # out[s] => out[s] = 0]_vars

(* A sequence never outgrows its own blocks and those its prefix takes,    *)
(* but for prefixes that were granted without blocks, also when a late     *)
(* bind has freed blocks of its own in the middle of its reservation.      *)
(* This is said of each sequence alone: the blocks of a shared prefix      *)
(* count for every holder, and so does the rest of its last block where a  *)
(* late bind has given a block back for it (worker.py:71), so that         *)
(* num_blocks * block_size >= sum(seq_lens) (IMPLEMENTATION_PLAN.md:288)   *)
(* does not follow once prefixes are shared.  A step starts by adding the  *)
(* KV of the last token: SeqLen is the length then.                        *)
SeqLen(s) == Len(PromptOf[s]) + out[s]

BlocksCoverSequence ==
    \A s \in Active :
        status[s] = "decoding" =>
            SeqLen(s) <= BlockSize * (Cardinality(kv.alloc[s]) + BlocksNeeded(Len(kv.key[s])))
=============================================================================
