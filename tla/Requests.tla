------------------------------ MODULE Requests -------------------------------
(***************************************************************************)
(* The handlers of flux/server/routes_openai.py, from the checks of a      *)
(* request to its answer: the refusals, the sequence a request becomes or  *)
(* the generate_lock it waits for, the job records it leaves, and what the *)
(* counters of flux/metrics/prometheus.py are told of it.                  *)
(*                                                                         *)
(* With a worker a request is a Sequence in its queue; without one it is a *)
(* call of engine.generate_ids in a thread, under the lock.  gen stands    *)
(* for either.  The worker is abstracted to what it does to one sequence,  *)
(* the stream to its end, which is where its record is written.            *)
(***************************************************************************)
EXTENDS Integers, SequencesExt

CONSTANTS
    Reqs,        \* the requests
    MaxWaiting   \* capacity of the waiting queue

ASSUME WaitingAssumption == MaxWaiting \in Nat

VARIABLES
    worker,      \* _uses_worker
    kind,        \* body.stream: "stream" or "whole"
    at,          \* where the handler of a request, or its stream, is
    told,        \* the outcome its client has been told
    gen,         \* Sequence.status, or how the call of the engine goes
    abort,       \* Sequence.abort_requested
    holder,      \* who has the generate_lock
    waiters,     \* who waits for it, in order
    record,      \* the job record under the id of the response
    seqRecord,   \* the job record under Sequence.id
    tokens,      \* how often the request's tokens were added to TOKENS
    counted      \* how often the request was counted in REQUESTS

mode    == <<worker, kind>>
handler == <<at, told>>
work    == <<gen, abort>>
lock    == <<holder, waiters>>
jobs    == <<record, seqRecord>>
metrics == <<tokens, counted>>
vars    == <<mode, handler, work, lock, jobs, metrics>>

Over == {"finished", "aborted", "error"}

Init ==
    /\ worker \in BOOLEAN /\ kind \in [Reqs -> {"stream", "whole"}]
    /\ at = [r \in Reqs |-> "new"] /\ told = [r \in Reqs |-> "nothing"]
    /\ gen = [r \in Reqs |-> "none"] /\ abort = [r \in Reqs |-> FALSE]
    /\ holder = {} /\ waiters = << >>
    /\ record = [r \in Reqs |-> "none"] /\ seqRecord = [r \in Reqs |-> "none"]
    /\ tokens = [r \in Reqs |-> 0] /\ counted = [r \in Reqs |-> 0]

-----------------------------------------------------------------------------
Goto(r, label) == at' = [at EXCEPT ![r] = label]

(* The handler is at its end.                                              *)
Tell(r, outcome) == told' = [told EXCEPT ![r] = outcome] /\ Goto(r, "over")

(* _remember_job, observe_request and observe_finished.                    *)
RememberJob(r, status) == record' = [record EXCEPT ![r] = status]

ObserveRequest(r) == counted' = [counted EXCEPT ![r] = @ + 1]

ObserveFinished(r) == tokens' = [tokens EXCEPT ![r] = @ + 1]

-----------------------------------------------------------------------------
(* The checks before the generation: unknown model, rate limit, no engine, *)
(* a prompt of max_seq_len.  Only the rate limit is counted.               *)
Refuse(r) ==
    /\ at[r] = "new"
    /\ \E outcome \in {"404", "429 rate", "503", "400 length"} :
          /\ Tell(r, outcome)
          /\ IF outcome = "429 rate" THEN ObserveRequest(r) ELSE UNCHANGED counted
    /\ UNCHANGED <<mode, work, lock, jobs, tokens>>

-----------------------------------------------------------------------------
(* With a worker.                                                          *)
Waiting == {r \in Reqs : gen[r] = "waiting"}

QueueFull == Cardinality(Waiting) >= MaxWaiting

(* _submit: QueueFull or RequestTooLarge.                                  *)
SubmitRefused(r) ==
    /\ worker /\ at[r] = "new"
    /\ \/ QueueFull /\ Tell(r, "429 full")
       \/ Tell(r, "400 large")
    /\ ObserveRequest(r)
    /\ UNCHANGED <<mode, work, lock, jobs, tokens>>

(* _submit, and for a stream the response and its record.                  *)
Submit(r) ==
    /\ worker /\ at[r] = "new" /\ ~QueueFull
    /\ gen' = [gen EXCEPT ![r] = "waiting"]
    /\ seqRecord' = [seqRecord EXCEPT ![r] = "waiting"]
    /\ IF kind[r] = "stream"
       THEN RememberJob(r, "running") /\ ObserveRequest(r) /\ Goto(r, "streaming")
       ELSE UNCHANGED <<record, counted>> /\ Goto(r, "waiting")
    /\ UNCHANGED <<mode, told, abort, lock, tokens>>

(* The worker: an admission, _finish_sequence, an abort asked for by the   *)
(* client's leaving, by an admin or by the shutdown, or an error.          *)
Work(r, from, to) == gen[r] \in from /\ gen' = [gen EXCEPT ![r] = to]

Start(r) ==
    /\ worker /\ Work(r, {"waiting"}, "running")
    /\ UNCHANGED <<mode, handler, abort, lock, jobs, metrics>>

Finish(r) ==
    /\ worker /\ Work(r, {"running"}, "finished")
    /\ ObserveFinished(r)
    /\ UNCHANGED <<mode, handler, abort, lock, jobs, counted>>

EndEarly(r) ==
    /\ worker
    /\ Work(r, {"waiting", "running"}, "aborted") \/ Work(r, {"running"}, "error")
    /\ UNCHANGED <<mode, handler, abort, lock, jobs, metrics>>

(* Mutant: the handler counts the tokens whoever has generated them.       *)
AnswerObserving(r) ==
    /\ worker /\ at[r] = "waiting" /\ gen[r] = "finished"
    /\ Tell(r, "200") /\ ObserveRequest(r) /\ RememberJob(r, "finished")
    /\ ObserveFinished(r)
    /\ UNCHANGED <<mode, work, lock, seqRecord>>

(* _wait_result returns, and the whole answer goes out; or it raises.      *)
Answer(r) ==
    /\ worker /\ at[r] = "waiting" /\ gen[r] = "finished"
    /\ Tell(r, "200") /\ ObserveRequest(r) /\ RememberJob(r, "finished")
    /\ UNCHANGED <<mode, work, lock, seqRecord, tokens>>

AnswerError(r) ==
    /\ worker /\ at[r] = "waiting" /\ gen[r] \in {"aborted", "error"}
    /\ Tell(r, IF gen[r] = "error" THEN "500" ELSE "499")
    /\ UNCHANGED <<mode, work, lock, jobs, metrics>>

(* Mutant: the record is written before [DONE] is yielded.                 *)
EndStreamRemembering(r) ==
    /\ at[r] = "streaming" /\ gen[r] \in Over
    /\ RememberJob(r, "finished")
    /\ Goto(r, "yielded")
    /\ UNCHANGED <<mode, told, work, lock, seqRecord, metrics>>

(* The stream of a sequence that is over comes to its end and yields       *)
(* [DONE].  Only a client that takes it gets the record written.           *)
EndStream(r) ==
    /\ at[r] = "streaming" /\ gen[r] \in Over
    /\ Goto(r, "yielded")
    /\ UNCHANGED <<mode, told, work, lock, jobs, metrics>>

TakeDone(r) ==
    /\ at[r] = "yielded"
    /\ Tell(r, "[DONE]") /\ RememberJob(r, "finished")
    /\ UNCHANGED <<mode, work, lock, seqRecord, metrics>>

(* The client leaves its stream: request_abort, unless it is over.  One    *)
(* that leaves before the whole answer changes nothing.                    *)
LeaveStream(r) ==
    /\ at[r] \in {"streaming", "yielded"}
    /\ Goto(r, "left")
    /\ abort' = [abort EXCEPT ![r] = gen[r] \notin Over]
    /\ UNCHANGED <<mode, told, gen, lock, jobs, metrics>>

-----------------------------------------------------------------------------
(* Without a worker.                                                       *)

(* Mutant: nobody waits for the lock.                                      *)
AskLockless(r) ==
    /\ ~worker /\ at[r] = "new"
    /\ holder' = holder \cup {r}
    /\ gen' = [gen EXCEPT ![r] = "running"]
    /\ Goto(r, "generating")
    /\ UNCHANGED <<mode, told, abort, waiters, jobs, metrics>>

(* async with lock: nobody has it or waits for it, or the request queues.  *)
AskLock(r) ==
    /\ ~worker /\ at[r] = "new"
    /\ IF holder = {} /\ waiters = << >>
       THEN /\ holder' = {r} /\ UNCHANGED waiters
            /\ gen' = [gen EXCEPT ![r] = "running"]
            /\ Goto(r, "generating")
       ELSE /\ waiters' = Append(waiters, r) /\ UNCHANGED <<holder, gen>>
            /\ Goto(r, "locking")
    /\ UNCHANGED <<mode, told, abort, jobs, metrics>>

TakeLock(r) ==
    /\ holder = {} /\ waiters # << >> /\ Head(waiters) = r
    /\ holder' = {r} /\ waiters' = Tail(waiters)
    /\ gen' = [gen EXCEPT ![r] = "running"]
    /\ Goto(r, "generating")
    /\ UNCHANGED <<mode, told, abort, jobs, metrics>>

(* generate_ids has returned: the lock is given back, and the answer or    *)
(* the stream of the result goes out.                                      *)
Generated(r) ==
    /\ at[r] = "generating"
    /\ holder' = {}
    /\ gen' = [gen EXCEPT ![r] = "finished"]
    /\ ObserveFinished(r) /\ ObserveRequest(r) /\ RememberJob(r, "finished")
    /\ IF kind[r] = "stream" THEN Goto(r, "replaying") /\ UNCHANGED told
                             ELSE Tell(r, "200")
    /\ UNCHANGED <<mode, abort, waiters, seqRecord>>

(* Mutant: an exception leaves the lock as it is.                          *)
GenerateRaisesLocked(r) ==
    /\ at[r] = "generating"
    /\ gen' = [gen EXCEPT ![r] = "error"]
    /\ Tell(r, "500")
    /\ UNCHANGED <<mode, abort, lock, jobs, metrics>>

GenerateRaises(r) ==
    /\ at[r] = "generating"
    /\ holder' = {}
    /\ gen' = [gen EXCEPT ![r] = "error"]
    /\ Tell(r, "500")
    /\ UNCHANGED <<mode, abort, waiters, jobs, metrics>>

(* _stream_from_result, taken to its end or left.                          *)
Replay(r) ==
    /\ at[r] = "replaying"
    /\ Tell(r, "[DONE]") \/ (Goto(r, "left") /\ UNCHANGED told)
    /\ UNCHANGED <<mode, work, lock, jobs, metrics>>

-----------------------------------------------------------------------------
Next ==
    \E r \in Reqs :
        \/ Refuse(r)
        \/ SubmitRefused(r) \/ Submit(r)
        \/ Start(r) \/ Finish(r) \/ EndEarly(r)
        \/ Answer(r) \/ AnswerError(r)
        \/ EndStream(r) \/ TakeDone(r) \/ LeaveStream(r)
        \/ AskLock(r) \/ TakeLock(r)
        \/ Generated(r) \/ GenerateRaises(r) \/ Replay(r)

(* The loop runs a handler that can go on, and generate_ids comes to an    *)
(* end.  A client may read nothing and stay, for ever.                     *)
Fairness ==
    \A r \in Reqs : WF_vars(TakeLock(r)) /\ WF_vars(Generated(r) \/ GenerateRaises(r))

Spec == Init /\ [][Next]_vars /\ Fairness

-----------------------------------------------------------------------------
(* Type correctness; who is in the engine has the lock, one at a time      *)
(* however many ask, fail and stream their result meanwhile, and who is at *)
(* the lock is in its line, once.                                          *)
TypeOK ==
    /\ worker \in BOOLEAN /\ kind \in [Reqs -> {"stream", "whole"}]
    /\ at \in [Reqs -> {"new", "waiting", "streaming", "yielded", "locking",
                        "generating", "replaying", "left", "over"}]
    /\ told \in [Reqs -> {"nothing", "200", "[DONE]", "400 large", "400 length",
                          "404", "429 full", "429 rate", "499", "500", "503"}]
    /\ gen \in [Reqs -> {"none", "waiting", "running"} \cup Over]
    /\ abort \in [Reqs -> BOOLEAN]
    /\ holder = {r \in Reqs : at[r] = "generating"} /\ Cardinality(holder) <= 1
    /\ ToSet(waiters) = {r \in Reqs : at[r] = "locking"} /\ IsInjective(waiters)
    /\ record \in [Reqs -> {"none", "running", "finished"}]
    /\ seqRecord \in [Reqs -> {"none", "waiting"}]
    /\ tokens \in [Reqs -> Nat] /\ counted \in [Reqs -> Nat]

(* "Output tokens generated" and "HTTP generate requests" (prometheus.py:  *)
(* 70-71): the tokens of a request are added once if it finishes, by the   *)
(* worker or by the handler, and never if it does not.  A request is       *)
(* counted once if it is answered, admitted as a stream, limited or        *)
(* refused by the scheduler, and not at all if it fails or is refused by   *)
(* another check.                                                          *)
CountedOnce ==
    \A r \in Reqs :
        /\ tokens[r] = IF gen[r] = "finished" THEN 1 ELSE 0
        /\ counted[r] =
              IF \/ told[r] \in {"200", "429 rate", "429 full", "400 large"}
                 \/ kind[r] = "stream" /\ (IF worker THEN gen[r] # "none" ELSE gen[r] = "finished")
              THEN 1 ELSE 0

(* What GET /v1/requests/{id} tells, which is the record as long as there  *)
(* is one.  Under the id of a response "finished" means that the sequence  *)
(* is over and its client has all of the answer, or can have it without    *)
(* the engine; a client that has all of it finds the record finished; a    *)
(* stream that was left stays "running".  Under the id of a sequence it is *)
(* "waiting" for good.  A refused request leaves nothing.                  *)
Found(r) ==
    IF seqRecord[r] # "none" THEN seqRecord[r]
    ELSE IF gen[r] \in {"waiting", "running"} THEN gen[r] ELSE "404"

RecordTellsTheTruth ==
    \A r \in Reqs :
        /\ record[r] = "finished" =>
              /\ gen[r] \in Over
              /\ worker => told[r] \in {"200", "[DONE]"}
        /\ told[r] \in {"200", "[DONE]"} => record[r] = "finished"
        /\ at[r] = "left" /\ worker => record[r] = "running"
        /\ worker /\ gen[r] # "none" => Found(r) = "waiting"
        /\ gen[r] = "none" => record[r] = "none" /\ seqRecord[r] = "none"

(* Without a worker every request that asks for the lock leaves the        *)
(* engine, although others raise in it, and although the clients of others *)
(* neither read their stream nor leave it.                                 *)
LockIsPassedOn ==
    \A r \in Reqs : at[r] \in {"locking", "generating"} ~> at[r] \in {"replaying", "left", "over"}
=============================================================================
