---------------------------- MODULE QueuedWorker -----------------------------
(***************************************************************************)
(* flux/engine/worker.py, QueuedWorker: one sequence at a time, from its   *)
(* prefill to its last token, in one call of the thread.  The queue, the   *)
(* handlers and the shutdown are those of WorkerCommon.                    *)
(***************************************************************************)
EXTENDS WorkerCommon

vars == common

Pcs == LoopPcs \cup {"wait", "woken", "yield", "stopped", "dead",
                     "prefill", "insert", "sample", "check", "decode",
                     "resume", "raised"}

Init == InitCommon

-----------------------------------------------------------------------------
(* run(): the head of the loop.                                            *)
Top ==
    /\ pc = "top"
    /\ \/ stop /\ Goto("leftovers") /\ UNCHANGED admitted
       \/ /\ ~stop /\ queue = << >>
          /\ Goto(IF event THEN "woken" ELSE "wait")
          /\ UNCHANGED admitted
       \/ ~stop /\ queue # << >> /\ Goto("admit") /\ admitted' = << >>
    /\ UNCHANGED <<kv, qvars, reqs, running, cands, life>>

(* run() after await wait_not_empty().                                     *)
Wake ==
    /\ pc = "woken" /\ ~cancelled
    /\ Goto(IF stop THEN "leftovers" ELSE "admit")
    /\ admitted' = << >>
    /\ UNCHANGED <<kv, qvars, reqs, running, cands, life>>

(* Mutant: admit() is not told of a hold.                                  *)
RoomOfBatch(list) == MaxBatch - Len(list)

(* admit(hold) with hold = max_batch - 1.                                  *)
RoomOfOne(list) == 1 - Len(list)

Admission == Admit(RoomOfOne(admitted))

Cur == admitted[1]

NothingAdmitted ==
    /\ pc = "each" /\ admitted = << >>
    /\ Goto(IF queue # << >> THEN "yield" ELSE "top")
    /\ UNCHANGED <<kv, qvars, reqs, running, admitted, cands, life>>

Yield ==
    /\ pc = "yield" /\ ~cancelled
    /\ Goto("top")
    /\ UNCHANGED <<kv, qvars, reqs, running, admitted, cands, life>>

AdmittedAborted ==
    /\ pc = "each" /\ admitted # << >> /\ abort[Cur]
    /\ End(Cur, "aborted")
    /\ Goto("top")
    /\ UNCHANGED <<qvars, out, abort, running, admitted, cands, life>>

Start ==
    /\ pc = "each" /\ admitted # << >> /\ ~abort[Cur]
    /\ status' = [status EXCEPT ![Cur] = "decoding"]
    /\ running' = {Cur}
    /\ Goto("prefill")
    /\ UNCHANGED <<kv, qvars, out, abort, admitted, cands, life>>

-----------------------------------------------------------------------------
(* The thread: _run_one.  The abort flag is first read after the prefill.  *)
Prefill ==
    /\ pc = "prefill"
    /\ kv' \in LateBind(kv, Cur)
    /\ cands' = CandidateLengths(Cur)
    /\ Goto("insert")
    /\ UNCHANGED <<qvars, reqs, running, admitted, life>>

Store == InsertNext(Cur) \/ InsertDone(Cur)

FirstToken ==
    /\ pc = "sample"
    /\ NoteToken(Cur)
    /\ \E last \in BOOLEAN :
          /\ MayBeLast(Cur, last)
          /\ \/ abort[Cur] /\ End(Cur, "aborted") /\ Goto("resume")
             \/ ~abort[Cur] /\ last /\ End(Cur, "finished") /\ Goto("resume")
             \/ ~abort[Cur] /\ ~last /\ Goto("check") /\ UNCHANGED <<kv, status>>
    /\ UNCHANGED <<qvars, abort, running, admitted, cands, life>>

(* The head of the loop over the tokens.                                   *)
Check ==
    /\ pc = "check"
    /\ IF abort[Cur]
       THEN End(Cur, "aborted") /\ Goto("resume")
       ELSE Goto("decode") /\ UNCHANGED <<kv, status>>
    /\ UNCHANGED <<qvars, out, abort, running, admitted, cands, life>>

(* A sequence that has its last token finishes, aborted or not.            *)
Decode ==
    /\ pc = "decode"
    /\ NoteToken(Cur)
    /\ \E last \in BOOLEAN :
          /\ MayBeLast(Cur, last)
          /\ IF last
             THEN End(Cur, "finished") /\ Goto("resume")
             ELSE Goto("check") /\ UNCHANGED <<kv, status>>
    /\ UNCHANGED <<qvars, abort, running, admitted, cands, life>>

(* The forward pass or the sampler raised, or the detokenizer after the    *)
(* token was noted: the thread ends, with the insertion half done perhaps. *)
Raise ==
    /\ pc \in {"insert", "sample", "decode"}
    /\ \/ UNCHANGED out
       \/ pc # "insert" /\ NoteToken(Cur)
    /\ cands' = {}
    /\ Goto("raised")
    /\ UNCHANGED <<kv, qvars, status, abort, running, admitted, life>>

-----------------------------------------------------------------------------
(* run() after the await: "finally" forgets the sequence.                  *)
Resume ==
    /\ pc = "resume" /\ ~cancelled
    /\ running' = {}
    /\ Goto("top")
    /\ UNCHANGED <<kv, qvars, reqs, admitted, cands, life>>

(* Mutants: the handler forgets to release the sequence, or there is none. *)
HandleUnreleased ==
    /\ pc = "raised" /\ ~cancelled
    /\ status' = [status EXCEPT ![Cur] = "error"]
    /\ running' = {}
    /\ Goto("top")
    /\ UNCHANGED <<kv, qvars, out, abort, admitted, cands, life>>

Unhandled ==
    /\ pc = "raised" /\ ~cancelled
    /\ running' = {}
    /\ Goto("dead")
    /\ UNCHANGED <<kv, qvars, reqs, admitted, cands, life>>

(* The exception handler of run().                                         *)
Handle ==
    /\ pc = "raised" /\ ~cancelled
    /\ End(Cur, "error")
    /\ running' = {}
    /\ Goto("top")
    /\ UNCHANGED <<qvars, out, abort, admitted, cands, life>>

(* Mutant: run() ends and leaves the queue as it is.                       *)
LeftoversDoneEarly ==
    /\ pc = "leftovers"
    /\ Goto("stopped")
    /\ UNCHANGED <<kv, qvars, reqs, running, admitted, cands, life>>

(* stats.running is empty: _abort_leftovers has the queue only.            *)
LeftoversDone ==
    /\ pc = "leftovers" /\ queue = << >>
    /\ Goto("stopped")
    /\ UNCHANGED <<kv, qvars, reqs, running, admitted, cands, life>>

(* A cancelled task ends at its await, through "finally"; what it raises   *)
(* is no Exception, so the handler is not run.  A thread it waits for runs *)
(* on without it.                                                          *)
CancelledExit ==
    /\ cancelled
    /\ pc \in {"wait", "woken", "yield", "resume", "raised"}
    /\ running' = {}
    /\ Goto("dead")
    /\ UNCHANGED <<kv, qvars, reqs, admitted, cands, life>>

CancelledInThread ==
    /\ cancelled /\ running # {}
    /\ pc \in {"prefill", "insert", "sample", "check", "decode"}
    /\ running' = {}
    /\ UNCHANGED <<kv, qvars, reqs, admitted, cands, pc, life>>

-----------------------------------------------------------------------------
Work ==
    \/ Top \/ Wake \/ Admission \/ NothingAdmitted \/ Yield
    \/ AdmittedAborted \/ Start
    \/ Prefill \/ Store \/ FirstToken \/ Check \/ Decode
    \/ Resume \/ Handle
    \/ LeftoverWaiting \/ LeftoversDone \/ CancelledExit \/ CancelledInThread

(* Nothing is left to run once the task is over.                           *)
Ended == pc \in {"stopped", "dead"} /\ UNCHANGED vars

Next == Environment \/ Work \/ Raise \/ Ended

(* As in ContinuousWorker: run() and its thread make progress.             *)
Spec == Init /\ [][Next]_vars /\ WF_vars(Work)

-----------------------------------------------------------------------------
(* Type correctness.  "Room of 1 even if the scheduler's max_batch is      *)
(* larger" (worker.py:191): admit() returns one sequence at most, of which *)
(* run() looks at the first only, and there are never two sequences        *)
(* between admission and release, also on the paths of an error or an      *)
(* abort, where release and return come in any order.                      *)
TypeOK ==
    /\ TypeCommon /\ pc \in Pcs
    /\ Len(admitted) <= 1 /\ Cardinality(Active) <= 1

(* Every request that entered the queue ends, unless its way is blocked by *)
(* a request that an idle pool refuses although _fits has let it pass: one *)
(* that hits an entry whose blocks leave it too few.  Aborts, failures,    *)
(* lost blocks or wakeups are no excuse: "worker must not die on one       *)
(* request" (worker.py:208).                                               *)
Starving ==
    /\ queue # << >> /\ Active = {}
    /\ Fits(kv, Head(queue)) /\ Refused(kv, Head(queue)) # {}

OnlyHitsStarve ==
    \A s \in Seqs :
        status[s] = "waiting" ~> status[s] \in Over \/ cancelled \/ Starving
=============================================================================
