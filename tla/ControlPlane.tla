----------------------------- MODULE ControlPlane ----------------------------
(***************************************************************************)
(* flux/redis_client.py: the rate limit of one client and the job record   *)
(* of one request.                                                         *)
(*                                                                         *)
(* Without Redis, by the settings or because the server could not connect, *)
(* nothing is counted and the record is in memory alone.                   *)
(*                                                                         *)
(* Every command to Redis may succeed, or raise without an effect, or take *)
(* effect and raise because its reply is lost.  The server may crash       *)
(* between two commands; Redis keeps what it has.  allow() and put_job()   *)
(* are called from handlers in the loop and block it, so there is one call *)
(* of each kind at a time; get_job() is called from a thread.              *)
(*                                                                         *)
(* A job record is the number of the status put_job was called with, in    *)
(* the order of the calls (running, then finished), and 0 for no record.   *)
(*                                                                         *)
(* The names of the specification begin with Control: the proofs stand     *)
(* next to those of the handlers, which call all of this.                  *)
(***************************************************************************)
EXTENDS Integers

CONSTANTS
    Limit,       \* rate_limit_per_min; a limit of 0 is none at all
    MaxCount,    \* bound of the model: the counter grows no further
    MaxStatus    \* how many statuses a record goes through: running, finished

ASSUME LimitAssumption  == Limit \in Nat \ {0}
ASSUME CountAssumption  == MaxCount \in Nat /\ MaxCount > Limit
ASSUME StatusAssumption == MaxStatus \in 1 .. 2

VARIABLES
    enabled,     \* there is a client of Redis
    counter,     \* the value of flux:rl:<client> in Redis, 0 for no key
    expiry,      \* whether the key has a time to live
    call,        \* where allow() is: "idle", "counted", "expiring"
    n,           \* its n
    granted,     \* requests of this window that were counted and let pass
    sticky,      \* the key was created, and its EXPIRE failed or never came
    memory,      \* the record in _jobs
    stored,      \* the record in Redis
    putting,     \* put_job is between its two writes
    status,      \* the last status put_job was called with
    reading,     \* get_job has found nothing in Redis
    seen,        \* the record get_job returned last
    failed       \* a command for the job has failed, or the server crashed

limiter == <<enabled, counter, expiry, call, n, granted, sticky>>
writer  == <<memory, stored, putting, status>>
reader  == <<reading, seen>>
job     == <<writer, reader, failed>>
controlVars == <<limiter, job>>

(* The settings leave Redis out, or it cannot be reached, or it is there.  *)
Attached == BOOLEAN

ControlInit ==
    /\ enabled \in Attached
    /\ counter = 0 /\ expiry = FALSE /\ call = "idle" /\ n = 0
    /\ granted = 0 /\ sticky = FALSE
    /\ memory = 0 /\ stored = 0 /\ putting = FALSE /\ status = 0
    /\ reading = FALSE /\ seen = 0 /\ failed = FALSE

-----------------------------------------------------------------------------
(* allow().  Without Redis it lets every request pass.                     *)

Incr ==
    /\ enabled /\ call = "idle" /\ counter < MaxCount
    /\ counter' = counter + 1
    /\ n' = counter'
    /\ call' = IF n' = 1 THEN "expiring" ELSE "counted"
    /\ UNCHANGED <<enabled, expiry, granted, sticky, job>>

(* The handler of allow() lets the request pass, uncounted perhaps.        *)
IncrRaises ==
    /\ enabled /\ call = "idle" /\ counter < MaxCount
    /\ counter' \in {counter, counter + 1}
    /\ sticky' = (sticky \/ (counter = 0 /\ counter' = 1))
    /\ UNCHANGED <<enabled, expiry, call, n, granted, job>>

(* Mutant: the first request of a window sets none.                        *)
ExpireForgotten ==
    /\ call = "expiring"
    /\ call' = "counted"
    /\ UNCHANGED <<enabled, counter, expiry, n, granted, sticky, job>>

Expire ==
    /\ call = "expiring"
    /\ expiry' = TRUE
    /\ call' = "counted"
    /\ UNCHANGED <<enabled, counter, n, granted, sticky, job>>

ExpireRaises ==
    /\ call = "expiring"
    /\ expiry' \in BOOLEAN
    /\ sticky' = ~expiry'
    /\ call' = "idle"
    /\ UNCHANGED <<enabled, counter, n, granted, job>>

(* Mutant: one request too many.                                           *)
DecideOffByOne ==
    /\ call = "counted"
    /\ granted' = IF n <= Limit + 1 THEN granted + 1 ELSE granted
    /\ call' = "idle"
    /\ UNCHANGED <<enabled, counter, expiry, n, sticky, job>>

Decide ==
    /\ call = "counted"
    /\ granted' = IF n <= Limit THEN granted + 1 ELSE granted
    /\ call' = "idle"
    /\ UNCHANGED <<enabled, counter, expiry, n, sticky, job>>

(* Redis drops the key when its time is over.  A window is longer than a   *)
(* call.                                                                   *)
WindowEnds ==
    /\ call = "idle" /\ expiry
    /\ counter' = 0 /\ expiry' = FALSE /\ granted' = 0
    /\ UNCHANGED <<enabled, call, n, sticky, job>>

-----------------------------------------------------------------------------
(* Mutant: with Redis enabled the memory is left alone.                    *)
PutRedisOnly ==
    /\ ~putting /\ status < MaxStatus
    /\ status' = status + 1
    /\ putting' = TRUE
    /\ UNCHANGED <<limiter, memory, stored, reader, failed>>

(* put_job: the memory first.                                              *)
PutMemory ==
    /\ ~putting /\ status < MaxStatus
    /\ status' = status + 1
    /\ memory' = status'
    /\ putting' = enabled
    /\ UNCHANGED <<limiter, stored, reader, failed>>

PutRedis ==
    /\ putting
    /\ stored' = status
    /\ putting' = FALSE
    /\ UNCHANGED <<limiter, memory, status, reader, failed>>

PutRaises ==
    /\ putting
    /\ stored' \in {stored, status}
    /\ putting' = FALSE /\ failed' = TRUE
    /\ UNCHANGED <<limiter, memory, status, reader>>

(* The record in Redis has a time to live, the one in memory has none.     *)
RecordExpires ==
    /\ stored # 0
    /\ stored' = 0
    /\ UNCHANGED <<limiter, memory, putting, status, reader, failed>>

(* get_job: Redis first, and the memory when Redis has nothing or raises.  *)
(* Nobody polls before the first record is written: the answer that has    *)
(* the id is sent after it.                                                *)
Known == status > 1 \/ (status = 1 /\ ~putting)

GetRedis ==
    /\ Known /\ ~reading
    /\ IF enabled /\ stored # 0
       THEN seen' = stored /\ UNCHANGED reading
       ELSE reading' = TRUE /\ UNCHANGED seen
    /\ UNCHANGED <<limiter, writer, failed>>

GetRaises ==
    /\ enabled /\ Known /\ ~reading
    /\ reading' = TRUE /\ failed' = TRUE
    /\ UNCHANGED <<limiter, writer, seen>>

GetMemory ==
    /\ reading
    /\ seen' = memory
    /\ reading' = FALSE
    /\ UNCHANGED <<limiter, writer, failed>>

-----------------------------------------------------------------------------
(* close(), at the shutdown, in the loop.  A poll may still be in its      *)
(* thread; it goes to the memory then, as after any exception.             *)
Close ==
    /\ enabled /\ call = "idle" /\ ~putting
    /\ enabled' = FALSE
    /\ UNCHANGED <<counter, expiry, call, n, granted, sticky, job>>

(* The server crashes and starts again; its job is lost.                   *)
Crash ==
    /\ enabled' \in Attached
    /\ call' = "idle"
    /\ sticky' = (sticky \/ call = "expiring")
    /\ memory' = 0 /\ putting' = FALSE /\ status' = MaxStatus
    /\ reading' = FALSE /\ failed' = TRUE
    /\ UNCHANGED <<counter, expiry, n, granted, stored, seen>>

ControlNext ==
    \/ Incr \/ IncrRaises \/ Expire \/ ExpireRaises \/ Decide \/ WindowEnds
    \/ PutMemory \/ PutRedis \/ PutRaises \/ RecordExpires
    \/ GetRedis \/ GetRaises \/ GetMemory
    \/ Close \/ Crash

(* A call that was begun goes on, and Redis keeps its time.                *)
ControlSpec ==
    /\ ControlInit /\ [][ControlNext]_controlVars
    /\ WF_controlVars(Expire) /\ WF_controlVars(Decide) /\ SF_controlVars(WindowEnds)

-----------------------------------------------------------------------------
(* Type correctness; the time to live is that of an existing key, and only *)
(* the call that created it sets it.                                       *)
ControlTypeOK ==
    /\ counter \in 0 .. MaxCount /\ n \in 0 .. MaxCount /\ granted \in Nat
    /\ call \in {"idle", "counted", "expiring"}
    /\ enabled \in BOOLEAN /\ expiry \in BOOLEAN /\ sticky \in BOOLEAN
    /\ putting \in BOOLEAN /\ reading \in BOOLEAN /\ failed \in BOOLEAN
    /\ memory \in 0 .. MaxStatus /\ stored \in 0 .. MaxStatus
    /\ status \in 0 .. MaxStatus /\ seen \in 0 .. MaxStatus
    /\ expiry => counter # 0
    /\ call = "expiring" => counter = 1 /\ ~expiry

(* No more than Limit requests are counted and let pass in a window, also  *)
(* when replies are lost, calls raise and the server crashes between the   *)
(* commands.  Requests let pass because Redis raised come on top.          *)
LimitHolds == granted <= Limit

(* A client that used up its limit is served again: the counter is dropped *)
(* at last.  Where the EXPIRE was lost, nothing ever drops it.             *)
LimitIsLifted == counter > Limit ~> counter = 0 \/ sticky

(* Who polls a job never sees it go back to an earlier status, whichever   *)
(* of the two stores answers, however polls and writes interleave and      *)
(* whenever the record in Redis expires, as long as no command for it      *)
(* fails.  That a record has two statuses matters: with a third, a poll    *)
(* that finds Redis empty and is overtaken by two writes would see more    *)
(* than the next one.                                                      *)
JobMovesForward == [][~failed' => seen' >= seen]_controlVars
=============================================================================
