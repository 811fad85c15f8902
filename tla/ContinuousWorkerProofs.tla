----------------------- MODULE ContinuousWorkerProofs -------------------------
(***************************************************************************)
(* Theorems about the continuous-batching worker, for every number of      *)
(* sequences and blocks, every batch size and every queue capacity.        *)
(***************************************************************************)
EXTENDS ContinuousWorker, WorkerCommonProofs, FiniteSetTheorems

-----------------------------------------------------------------------------
(* The inductive invariant: where every sequence is, and what its status   *)
(* says about the place run() has reached.                                 *)

(* Where run() executes with admitted sequences in hand that are not yet   *)
(* in the batch; "dead" is among them because a cancelled task leaves them *)
(* where they are.                                                         *)
InHand == {"admit", "each", "prefill", "insert", "sample", "resume", "dead"}

(* run()'s position in the list of admitted sequences, and the loop it is  *)
(* in, which goes over some of the batch.                                  *)
Control ==
    /\ pc \in Pcs
    /\ next \in 1 .. Len(admitted) + 1
    /\ pc = "admit" => next = 1
    /\ pc \in {"prefill", "insert", "sample", "resume"} => next <= Len(admitted)
    /\ pc \notin InHand => next = Len(admitted) + 1
    /\ todo \subseteq Seqs
    /\ pc \in {"drop", "sweep", "rows", "fail", "filter", "leftovers"} => todo \subseteq running
    /\ pc = "insert" => cands \subseteq CandidateLengths(Cur)

(* The conjuncts of OnePlace that QueueInv does not have.                  *)
Places ==
    /\ \A s \in Seqs : status[s] \in Live => s \in Waiting \cup Pending \cup running
    /\ Waiting \cap (Pending \cup running) = {}
    /\ Pending \cap running = {}
    /\ \A i, j \in next .. Len(admitted) : admitted[i] = admitted[j] => i = j

(* The sequence run() is at has the status its place in the code gives it, *)
(* those behind it are as they left the queue.                             *)
CurStatus ==
    CASE pc \in {"admit", "each", "prefill"} -> {"waiting"}
      [] pc \in {"insert", "sample"} -> {"prefill"}
      [] OTHER -> {"decoding"} \cup Over

(* The sequence run() is at, and those behind it.                          *)
PendingStatus ==
    /\ \A i \in next + 1 .. Len(admitted) : status[admitted[i]] = "waiting"
    /\ next <= Len(admitted) => status[Cur] \in CurStatus

(* Between two decode steps everything in the batch is decoding; in a loop *)
(* that may end a sequence, what the loop has not reached still is.        *)
Between == {"top", "wait", "woken", "yield",
            "admit", "each", "prefill", "insert", "sample", "resume"}

(* The batch, wherever run() is.                                           *)
BatchStatus ==
    /\ \A s \in running : status[s] \in {"decoding"} \cup Over
    /\ pc \in Between => \A s \in running : status[s] = "decoding"
    /\ pc \in {"drop", "sweep", "rows", "fail"} => \A s \in todo : status[s] = "decoding"
    /\ pc = "drop" => \A s \in running : status[s] \in {"decoding", "aborted"}
    /\ pc = "leftovers" => \A s \in running \ todo : status[s] \in Over

(* A sequence that decodes has tokens left to decode; only the exception   *)
(* that kills the task may leave one behind that has not.                  *)
Lengths == \A s \in Seqs :
    status[s] = "decoding" =>
        out[s] <= MaxTokensOf[s] /\ (pc # "dead" => out[s] < MaxTokensOf[s])

(* The inductive invariant.                                                *)
IInv == CommonInv /\ Control /\ Places /\ PendingStatus /\ BatchStatus /\ Lengths

(* What every step does besides keeping the invariant.                     *)
EndIsFinal  == \A s \in Done : status'[s] = status[s] /\ out'[s] = out[s]
(* An aborted sequence gets no token but its first.                        *)
TokensStop  == \A s \in Seqs : abort[s] /\ out'[s] # out[s] => out[s] = 0
(* The accounting changes as KvAccounting allows, or not at all.           *)
Accounted   == Accounting!Next \/ Quiet
(* All of it.                                                              *)
GoodStep    == IInv' /\ Accounted /\ EndIsFinal /\ TokensStop

-----------------------------------------------------------------------------
(* The admitted sequences that run() has not finished with: the one it is  *)
(* at and those behind it.                                                 *)
LEMMA PendingSplits ==
    ASSUME IInv
    PROVE  /\ Pending \subseteq Seqs
           /\ next > Len(admitted) => Pending = {}
           /\ next <= Len(admitted) =>
                 /\ Cur \in Pending /\ Cur \in Seqs
                 /\ \A i \in next + 1 .. Len(admitted) : admitted[i] \in Pending \ {Cur}
                 /\ \A s \in Pending \ {Cur} : status[s] = "waiting"
<1>1. /\ Len(admitted) \in Nat /\ next \in 1 .. Len(admitted) + 1 /\ admitted \in Seq(Seqs)
      /\ \A i \in next + 1 .. Len(admitted) : status[admitted[i]] = "waiting"
      /\ \A i, j \in next .. Len(admitted) : admitted[i] = admitted[j] => i = j
  BY LenProperties DEF IInv, CommonInv, CommonTypes, Control, PendingStatus, Places
<1>2. \A i \in next .. Len(admitted) : admitted[i] \in Seqs
  BY <1>1, ElementOfSeq
<1>3. Pending \subseteq Seqs
  BY <1>2 DEF Pending
<1>4. ASSUME next > Len(admitted)
      PROVE  Pending = {}
  BY <1>1, <1>4 DEF Pending
<1>5. ASSUME next <= Len(admitted)
      PROVE  /\ Cur \in Pending /\ Cur \in Seqs
             /\ \A i \in next + 1 .. Len(admitted) : admitted[i] \in Pending \ {Cur}
             /\ \A s \in Pending \ {Cur} : status[s] = "waiting"
  <2>1. next \in next .. Len(admitted)
    BY <1>1, <1>5
  <2>2. ASSUME NEW i \in next .. Len(admitted), admitted[i] # Cur
        PROVE  i \in next + 1 .. Len(admitted)
    BY <1>1, <2>2 DEF Cur
  <2>3. ASSUME NEW i \in next + 1 .. Len(admitted)
        PROVE  i \in next .. Len(admitted) /\ i # next
    BY <1>1
  <2>4. Cur \in Pending /\ Cur \in Seqs
    BY <1>2, <2>1 DEF Pending, Cur
  <2>5. \A i \in next + 1 .. Len(admitted) : admitted[i] \in Pending \ {Cur}
    BY <1>1, <2>1, <2>3 DEF Pending, Cur
  <2>6. \A s \in Pending \ {Cur} : status[s] = "waiting"
    BY <1>1, <2>2 DEF Pending
  <2> QED BY <2>4, <2>5, <2>6
<1> QED BY <1>3, <1>4, <1>5

(* The worker starts with an empty pool, queue and batch.                  *)
LEMMA InitGood == Init => IInv /\ Accounting!Init
<1> SUFFICES ASSUME Init PROVE IInv /\ Accounting!Init
  OBVIOUS
<1>1. CommonInv
  BY InitCommonInv DEF Init
<1>2. /\ Waiting = {} /\ admitted = << >> /\ Len(admitted) = 0 /\ next = 1 /\ todo = {}
      /\ running = {} /\ pc = "top" /\ status = [s \in Seqs |-> "new"]
  BY DEF Init, InitCommon, Waiting
<1>3. Control
  BY <1>2 DEF Control, Pcs, LoopPcs, InHand
<1>4. Pending = {}
  BY <1>2 DEF Pending
<1>5. Places
  BY <1>2, <1>4 DEF Places, Live
<1>6. PendingStatus /\ BatchStatus /\ Lengths
  BY <1>2 DEF PendingStatus, BatchStatus, Lengths
<1>7. Accounting!Init
  BY <1>2, SameOperators DEF Init, InitCommon, Accounting!Init, Active, Live, Over
<1> QED BY <1>1, <1>3, <1>5, <1>6, <1>7 DEF IInv

(* Steps that move the program counter, a flag or the loop variable only.  *)
LEMMA MoveKeeps ==
    ASSUME IInv, UNCHANGED <<kv, queue, status, out, running, admitted, next>>,
           CommonTypes', Control',
           next <= Len(admitted) => CurStatus' = CurStatus,
           BatchStatus', pc = "dead" => pc' = "dead"
    PROVE  GoodStep
<1>1. Tokenless'
  BY DEF IInv, CommonInv, Tokenless
<1>2. CommonInv' /\ Quiet /\ Waiting' = Waiting
  BY <1>1, FlagsKeep DEF IInv
<1>3. Places' /\ PendingStatus' /\ Lengths'
  BY <1>2 DEF IInv, Places, Pending, PendingStatus, Cur, Lengths
<1>4. EndIsFinal /\ TokensStop
  BY DEF EndIsFinal, TokensStop, Done
<1> QED BY <1>2, <1>3, <1>4 DEF IInv, GoodStep, Accounted

-----------------------------------------------------------------------------
(* The steps of run() that only move on.                                   *)
LEMMA TopKeeps == IInv /\ Top => GoodStep
<1> SUFFICES ASSUME IInv, Top PROVE GoodStep
  OBVIOUS
<1> USE DEF Top, Goto, qvars, reqs, life
<1>1. CommonTypes'
  BY DEF IInv, CommonInv, CommonTypes
<1>2. Control' /\ ~(next <= Len(admitted))
  <2>1. next = Len(admitted) + 1 /\ Len(admitted) \in Nat
    BY LenProperties DEF IInv, Control, InHand, CommonInv, CommonTypes
  <2> QED BY <2>1 DEF IInv, CommonInv, CommonTypes, Control, InHand, Pcs, LoopPcs
<1>3. BatchStatus'
  BY DEF IInv, BatchStatus, Between
<1> QED BY <1>1, <1>2, <1>3, MoveKeeps

(* run() woken by an event.                                                *)
LEMMA WakeKeeps == IInv /\ Wake => GoodStep
<1> SUFFICES ASSUME IInv, Wake PROVE GoodStep
  OBVIOUS
<1> USE DEF Wake, Goto, qvars, reqs, life
<1>1. CommonTypes'
  BY DEF IInv, CommonInv, CommonTypes
<1>2. Control' /\ ~(next <= Len(admitted))
  <2>1. next = Len(admitted) + 1 /\ Len(admitted) \in Nat
    BY LenProperties DEF IInv, Control, InHand, CommonInv, CommonTypes
  <2> QED BY <2>1 DEF IInv, CommonInv, CommonTypes, Control, InHand, Pcs, LoopPcs
<1>3. BatchStatus'
  BY DEF IInv, BatchStatus, Between
<1> QED BY <1>1, <1>2, <1>3, MoveKeeps

(* The end of the prefills, and where run() goes from there.               *)
LEMMA EachDoneKeeps == IInv /\ EachDone => GoodStep
<1> SUFFICES ASSUME IInv, EachDone PROVE GoodStep
  OBVIOUS
<1> USE DEF EachDone, Goto, qvars, reqs, life
<1>1. CommonTypes'
  BY DEF IInv, CommonInv, CommonTypes
<1>2. Control'
  <2>1. next = Len(admitted) + 1
    BY LenProperties DEF IInv, Control, CommonInv, CommonTypes
  <2> QED BY <2>1 DEF IInv, CommonInv, CommonTypes, Control, Pcs, LoopPcs
<1>3. BatchStatus'
  BY DEF IInv, BatchStatus, Between
<1>4. ~(next <= Len(admitted))
  BY LenProperties DEF IInv, Control, CommonInv, CommonTypes
<1> QED BY <1>1, <1>2, <1>3, <1>4, MoveKeeps

(* await asyncio.sleep(0).                                                 *)
LEMMA YieldKeeps == IInv /\ Yield => GoodStep
<1> SUFFICES ASSUME IInv, Yield PROVE GoodStep
  OBVIOUS
<1> USE DEF Yield, Goto, qvars, reqs, life, loop
<1>1. CommonTypes'
  BY DEF IInv, CommonInv, CommonTypes
<1>2. Control' /\ ~(next <= Len(admitted))
  <2>1. next = Len(admitted) + 1 /\ Len(admitted) \in Nat
    BY LenProperties DEF IInv, Control, InHand, CommonInv, CommonTypes
  <2> QED BY <2>1 DEF IInv, Control, InHand, Pcs, LoopPcs
<1>3. BatchStatus'
  BY DEF IInv, BatchStatus, Between
<1> QED BY <1>1, <1>2, <1>3, MoveKeeps

(* The decode step: the end of the sweep, the batch it makes, its end.     *)
LEMMA DecodeKeeps == IInv /\ (SweepDone \/ DecodeBatch \/ RowsDone) => GoodStep
<1> SUFFICES ASSUME IInv, SweepDone \/ DecodeBatch \/ RowsDone PROVE GoodStep
  OBVIOUS
<1> USE DEF SweepDone, DecodeBatch, RowsDone, Decodable, Goto, qvars, reqs, life, loop
<1>1. CommonTypes'
  BY DEF IInv, CommonInv, CommonTypes
<1>2. Control' /\ ~(next <= Len(admitted))
  <2>1. next = Len(admitted) + 1 /\ Len(admitted) \in Nat
    BY LenProperties DEF IInv, Control, InHand, CommonInv, CommonTypes
  <2> QED BY <2>1 DEF IInv, CommonInv, CommonTypes, Control, InHand, Pcs, LoopPcs
<1>3. BatchStatus'
  BY DEF IInv, BatchStatus, Between
<1> QED BY <1>1, <1>2, <1>3, MoveKeeps

(* A cancelled task ends where it waits, and drops nothing it has not got. *)
LEMMA CancelledExitKeeps == IInv /\ CancelledExit => GoodStep
<1> SUFFICES ASSUME IInv, CancelledExit PROVE GoodStep
  OBVIOUS
<1> USE DEF CancelledExit, Goto, qvars, reqs, life, loop
<1>1. CommonTypes'
  BY DEF IInv, CommonInv, CommonTypes
<1>2. Control'
  BY DEF IInv, Control, InHand, Pcs
<1>3. BatchStatus'
  BY DEF IInv, BatchStatus, Between
<1>4. next <= Len(admitted) => CurStatus' = CurStatus
  <2>1. CASE pc = "resume"
    BY <2>1 DEF CurStatus
  <2>2. CASE pc # "resume"
    BY <2>2, LenProperties DEF IInv, Control, InHand, CommonInv, CommonTypes
  <2> QED BY <2>1, <2>2
<1> QED BY <1>1, <1>2, <1>3, <1>4, MoveKeeps

-----------------------------------------------------------------------------
(* The handlers and the shutdown.                                          *)
LEMMA HandlerMovesKeep ==
    ASSUME IInv, UNCHANGED loop,
           (\E s \in Seqs : RequestAbort(s)) \/ RequestStop \/ CancelTask
    PROVE  GoodStep
<1> USE DEF RequestAbort, RequestStop, CancelTask, SetEvent, Goto, qvars, reqs, life, loop
<1>1. CommonTypes'
  BY DEF IInv, CommonInv, CommonTypes
<1>2. Control'
  BY DEF IInv, Control, InHand, Pcs, Cur
<1>3. BatchStatus'
  BY DEF IInv, BatchStatus, Between
<1>4. CurStatus' = CurStatus
  BY DEF CurStatus
<1> QED BY <1>1, <1>2, <1>3, <1>4, MoveKeeps

(* A new sequence enters at the end of the queue, or is turned away.       *)
LEMMA SubmitKeeps ==
    ASSUME IInv, UNCHANGED loop, NEW s \in Seqs, SubmitAccepted(s) \/ SubmitRejected(s)
    PROVE  GoodStep
<1>1. PICK final \in {"waiting", "rejected"} :
          status' = [status EXCEPT ![s] = final] /\ status[s] = "new"
  BY DEF SubmitAccepted, SubmitRejected
<1>2. /\ CommonInv' /\ Quiet
      /\ Waiting' = Waiting \cup (IF final = "waiting" THEN {s} ELSE {})
  <2>1. CASE SubmitAccepted(s)
    <3>1. final = "waiting"
      BY <1>1, <2>1 DEF SubmitAccepted, IInv, CommonInv, CommonTypes
    <3> QED BY <2>1, <3>1, SubmitAcceptedKeeps DEF IInv
  <2>2. CASE SubmitRejected(s)
    <3>1. final = "rejected"
      BY <1>1, <2>2 DEF SubmitRejected, IInv, CommonInv, CommonTypes
    <3> QED BY <2>2, <3>1, SubmitRejectedKeeps DEF IInv
  <2> QED BY <2>1, <2>2
<1>3. /\ UNCHANGED <<kv, out, abort, running, admitted, cands, next, todo>>
      /\ pc' = IF pc = "wait" /\ SubmitAccepted(s) THEN "woken" ELSE pc
  BY DEF SubmitAccepted, SubmitRejected, SetEvent, Goto, loop
<1>4. /\ \A t \in Seqs \ {s} : status'[t] = status[t]
      /\ status'[s] = final
  BY <1>1 DEF IInv, CommonInv, CommonTypes
<1>5. Control'
  BY <1>3 DEF IInv, Control, InHand, Pcs, Cur
<1>6. s \notin Pending /\ s \notin running
  <2>1. s \notin running
    BY <1>1 DEF IInv, BatchStatus, Over
  <2>2. next <= Len(admitted) => s # Cur
    BY <1>1 DEF IInv, PendingStatus, CurStatus, Over
  <2>3. next <= Len(admitted) \/ next > Len(admitted)
    BY LenProperties DEF IInv, Control, CommonInv, CommonTypes
  <2> QED BY <1>1, <2>1, <2>2, <2>3, PendingSplits
<1>7. Places'
  BY <1>2, <1>3, <1>4, <1>6 DEF IInv, Places, Pending, Live
<1>8. PendingStatus'
  <2>1. \A t \in Pending : status'[t] = status[t]
    BY <1>4, <1>6, PendingSplits
  <2>2. CurStatus' = CurStatus
    BY <1>3 DEF CurStatus
  <2>3. \A i \in next + 1 .. Len(admitted) : status'[admitted[i]] = "waiting"
    BY <2>1, PendingSplits DEF IInv, PendingStatus, Control
  <2>4. next <= Len(admitted) => status'[Cur] \in CurStatus
    BY <2>1, PendingSplits DEF IInv, PendingStatus
  <2> QED BY <1>3, <2>2, <2>3, <2>4 DEF PendingStatus, Cur
<1>9. BatchStatus'
  BY <1>3, <1>4, <1>6 DEF IInv, BatchStatus, Between, Control, CommonInv, CommonTypes
<1>10. Lengths'
  BY <1>3, <1>4 DEF IInv, Lengths
<1>11. EndIsFinal /\ TokensStop
  BY <1>1, <1>3, <1>4 DEF EndIsFinal, TokensStop, Done, Over
<1> QED BY <1>2, <1>5, <1>7, <1>8, <1>9, <1>10, <1>11 DEF IInv, GoodStep, Accounted

-----------------------------------------------------------------------------
(* A step on one admitted sequence, which may end it or note a token.      *)
Ends(s, finals) == \E final \in finals : End(s, final)

(* A step that gives one sequence outside the queue a new status, and no   *)
(* token while it has not been prefilled, keeps the common invariant.      *)
LEMMA OneSequenceKeepsCommon ==
    ASSUME CommonInv, NEW s \in Seqs, s \notin Waiting,
           UNCHANGED <<qvars, abort, running, admitted, life>>, cands' \subseteq Nat,
           \/ status' = status
           \/ \E final \in {"prefill", "decoding"} \cup Over :
                 status' = [status EXCEPT ![s] = final],
           UNCHANGED out \/ NoteToken(s),
           status'[s] \in {"new", "rejected", "waiting", "prefill"} => out'[s] = 0
    PROVE  CommonInv' /\ Waiting' = Waiting /\ out' \in [Seqs -> Nat]
<1>1. /\ queue' = queue /\ Waiting' = Waiting
      /\ \A t \in Seqs \ {s} : status'[t] = status[t] /\ out'[t] = out[t]
      /\ status' \in [Seqs -> Live \cup Over \cup {"new", "rejected"}]
      /\ out' \in [Seqs -> Nat]
  <2>1. queue' = queue /\ Waiting' = Waiting
    BY DEF Waiting, qvars
  <2>2. /\ \A t \in Seqs \ {s} : status'[t] = status[t]
        /\ status' \in [Seqs -> Live \cup Over \cup {"new", "rejected"}]
    BY DEF CommonInv, CommonTypes, Live
  <2>3. (\A t \in Seqs \ {s} : out'[t] = out[t]) /\ out' \in [Seqs -> Nat]
    <3>1. out \in [Seqs -> Nat] /\ out[s] + 1 \in Nat
      BY DEF CommonInv, CommonTypes
    <3>2. CASE UNCHANGED out
      BY <3>1, <3>2
    <3>3. CASE out' = [out EXCEPT ![s] = out[s] + 1]
      BY <3>1, <3>3
    <3> QED BY <3>2, <3>3 DEF NoteToken
  <2> QED BY <2>1, <2>2, <2>3
<1>2. CommonTypes'
  BY <1>1 DEF CommonInv, CommonTypes, qvars, life
<1>3. QueueInv'
  BY <1>1, WaitingAreSequences DEF CommonInv, QueueInv
<1>4. Tokenless'
  BY <1>1 DEF CommonInv, Tokenless
<1> QED BY <1>1, <1>2, <1>3, <1>4 DEF CommonInv

(* A release is one of the steps KvAccounting allows.                      *)
LEMMA RetireIsAccounted ==
    ASSUME NEW s \in Seqs, Accounting!Retire(s)
    PROVE  Accounted
BY DEF Accounted, Accounting!Next

(* A loop of run() or of the decode step that takes one sequence of the    *)
(* batch: it ends the sequence or leaves it as it is.                      *)
LEMMA BatchStepKeeps ==
    ASSUME IInv, NEW s \in todo,
           pc \in {"drop", "sweep", "rows", "fail", "filter", "leftovers"},
           todo' = todo \ {s},
           UNCHANGED <<qvars, abort, running, admitted, next, cands, pc, life>>,
           \/ /\ status[s] \notin Over
              /\ Ends(s, IF pc = "drop" THEN {"aborted"} ELSE Over)
           \/ /\ UNCHANGED <<kv, status>>
              /\ pc \in {"fail", "leftovers"} => status[s] \in Over,
           \/ UNCHANGED out
           \/ NoteToken(s) /\ pc = "rows" /\ ~abort[s],
           status'[s] = "decoding" /\ out'[s] # out[s] => out'[s] < MaxTokensOf[s]
    PROVE  GoodStep
<1>1. /\ s \in Seqs /\ s \in running /\ s \notin Waiting /\ s \notin Pending
      /\ status[s] \in {"decoding"} \cup Over
  BY DEF IInv, Control, Places, BatchStatus
<1>2. /\ status \in [Seqs -> Live \cup Over \cup {"new", "rejected"}]
      /\ out \in [Seqs -> Nat] /\ MaxTokensOf[s] \in Nat
  BY <1>1, LengthAssumption DEF IInv, CommonInv, CommonTypes
<1>3. /\ \A t \in Seqs \ {s} : status'[t] = status[t] /\ out'[t] = out[t]
      /\ \/ status' = status
         \/ status[s] = "decoding" /\ status'[s] \in Over
      /\ status'[s] \in {"decoding"} \cup Over
  <2>1. \A t \in Seqs \ {s} : out'[t] = out[t]
    BY <1>2 DEF NoteToken
  <2>2. CASE status' = status
    BY <1>1, <2>1, <2>2
  <2>3. CASE status[s] \notin Over /\ Ends(s, IF pc = "drop" THEN {"aborted"} ELSE Over)
    <3>1. PICK final \in Over : status' = [status EXCEPT ![s] = final]
      BY <2>3 DEF Ends, End, Over
    <3>2. status[s] = "decoding"
      BY <1>1, <2>3
    <3> QED BY <1>1, <1>2, <2>1, <3>1, <3>2
  <2> QED BY <2>2, <2>3
<1>4. CommonInv' /\ Waiting' = Waiting /\ out' \in [Seqs -> Nat]
  <2>1. cands' \subseteq Nat
    BY DEF IInv, CommonInv, CommonTypes
  <2>2. \/ status' = status
        \/ \E final \in {"prefill", "decoding"} \cup Over : status' = [status EXCEPT ![s] = final]
    BY DEF Ends, End, Over
  <2>3. status'[s] \notin {"new", "rejected", "waiting", "prefill"}
    BY <1>3 DEF Over
  <2> QED BY <1>1, <2>1, <2>2, <2>3, OneSequenceKeepsCommon DEF IInv
<1>5. Control'
  BY DEF IInv, Control, Cur
<1>6. Places'
  BY <1>3, <1>4 DEF IInv, Places, Pending, Live, Over
<1>7. PendingStatus'
  <2>1. next = Len(admitted) + 1 /\ Len(admitted) \in Nat
    BY LenProperties DEF IInv, Control, InHand, CommonInv, CommonTypes
  <2> QED BY <2>1 DEF PendingStatus
<1>8. BatchStatus'
  <2>1. running' = running /\ running \subseteq Seqs /\ todo \subseteq running /\ pc' = pc
    BY DEF IInv, Control, CommonInv, CommonTypes
  <2>2. pc \notin Between
    BY DEF Between
  <2>3. ASSUME pc = "drop"
        PROVE  \A t \in running : status'[t] \in {"decoding", "aborted"}
    <3>1. status'[s] \in {"decoding", "aborted"}
      BY <1>1, <1>2, <2>1, <2>3 DEF Ends, End, IInv, BatchStatus
    <3> QED BY <1>3, <2>1, <2>3, <3>1 DEF IInv, BatchStatus
  <2>4. ASSUME pc = "leftovers"
        PROVE  \A t \in running \ todo' : status'[t] \in Over
    <3>1. status'[s] \in Over
      BY <1>1, <1>2, <2>1, <2>4 DEF Ends, End, IInv, BatchStatus
    <3> QED BY <1>3, <2>1, <2>4, <3>1 DEF IInv, BatchStatus
  <2>5. \A t \in running : status'[t] \in {"decoding"} \cup Over
    BY <1>3, <2>1 DEF IInv, BatchStatus
  <2>6. pc \in {"drop", "sweep", "rows", "fail"} => \A t \in todo' : status'[t] = "decoding"
    BY <1>3, <2>1 DEF IInv, BatchStatus
  <2> QED BY <2>1, <2>2, <2>3, <2>4, <2>5, <2>6 DEF BatchStatus
<1>9. Lengths'
  <2>1. pc # "dead" /\ pc' = pc
    OBVIOUS
  <2>2. status'[s] = "decoding" => out'[s] < MaxTokensOf[s]
    BY <1>1, <1>2, <1>3, <2>1 DEF IInv, Lengths, Over
  <2>3. ASSUME NEW t \in Seqs, status'[t] = "decoding"
        PROVE  out'[t] <= MaxTokensOf[t] /\ out'[t] < MaxTokensOf[t]
    <3>1. CASE t = s
      BY <1>1, <1>2, <1>4, <2>2, <2>3, <3>1
    <3>2. CASE t # s
      BY <1>3, <2>1, <2>3, <3>2 DEF IInv, Lengths
    <3> QED BY <3>1, <3>2
  <2> QED BY <2>3 DEF Lengths
<1>10. EndIsFinal /\ TokensStop
  <2>1. ASSUME s \in Done PROVE status'[s] = status[s] /\ out'[s] = out[s]
    <3>1. status[s] \in Over
      BY <2>1 DEF Done
    <3>2. pc # "rows"
      BY <3>1 DEF IInv, BatchStatus, Over
    <3> QED BY <1>3, <3>1, <3>2 DEF Over
  <2> QED BY <1>1, <1>3, <2>1 DEF EndIsFinal, TokensStop, Done
<1>11. Accounted
  <2>1. CASE UNCHANGED <<kv, status>>
    BY <1>4, <2>1 DEF Accounted, Quiet, Active, Done
  <2>2. CASE status[s] \notin Over /\ Ends(s, IF pc = "drop" THEN {"aborted"} ELSE Over)
    <3>1. PICK final \in Over : End(s, final)
      BY <2>2 DEF Ends, Over
    <3>2. status[s] \in Live
      BY <1>1, <2>2 DEF Live
    <3>3. CommonInv /\ UNCHANGED queue
      BY DEF IInv, qvars
    <3>4. Accounting!Retire(s)
      BY <1>1, <1>4, <3>1, <3>2, <3>3, EndRetires
    <3> QED BY <1>1, <3>4, RetireIsAccounted
  <2> QED BY <2>1, <2>2
<1> QED BY <1>4, <1>5, <1>6, <1>7, <1>8, <1>9, <1>10, <1>11 DEF IInv, GoodStep

(* A step on the sequence run() is at, before it joins the batch.          *)
LEMMA PrefillStepKeeps ==
    ASSUME IInv, next <= Len(admitted),
           pc \in {"each", "prefill", "insert", "sample"},
           UNCHANGED <<qvars, abort, running, admitted, todo, life>>,
           pc' \in {"each", "prefill", "insert", "sample", "resume"},
           Control', cands' \subseteq Nat,
           \/ status' = status
           \/ \E final \in {"prefill", "decoding"} \cup Over :
                 status' = [status EXCEPT ![Cur] = final],
           \/ next' = next /\ status'[Cur] \in CurStatus'
           \/ next' = next + 1 /\ status'[Cur] \in Over /\ pc' = "each",
           \/ UNCHANGED out
           \/ /\ NoteToken(Cur) /\ status[Cur] = "prefill"
              /\ status'[Cur] \in {"decoding"} \cup Over,
           status'[Cur] = "prefill" => out[Cur] = 0,
           status'[Cur] = "decoding" => out'[Cur] < MaxTokensOf[Cur],
           \/ Ends(Cur, Over)
           \/ /\ status'[Cur] \in Live
              /\ \/ kv' = kv
                 \/ kv' \in LateBind(kv, Cur)
                 \/ \E n \in CandidateLengths(Cur) : kv' \in Insert(kv, Cur, n)
                 \/ kv' \in Adopt(kv, Cur)
    PROVE  GoodStep
<1>1. PICK s : s = Cur
  OBVIOUS
<1>2. /\ s \in Seqs /\ s \in Pending /\ s \notin running /\ s \notin Waiting
      /\ \A i \in next + 1 .. Len(admitted) : admitted[i] \in Pending \ {s}
      /\ \A t \in Pending \ {s} : status[t] = "waiting"
  BY <1>1, PendingSplits DEF IInv, Places
<1>3. /\ status \in [Seqs -> Live \cup Over \cup {"new", "rejected"}]
      /\ out \in [Seqs -> Nat] /\ MaxTokensOf[s] \in Nat
      /\ Len(admitted) \in Nat /\ next \in 1 .. Len(admitted)
  BY <1>2, LengthAssumption, LenProperties DEF IInv, CommonInv, CommonTypes, Control
<1>4. /\ status[s] \in {"waiting", "prefill"}
      /\ status[s] \in Live /\ out[s] = 0
  <2>1. status[s] \in {"waiting", "prefill"}
    BY <1>1, <1>3 DEF IInv, PendingStatus, CurStatus
  <2> QED BY <1>2, <2>1 DEF Live, IInv, CommonInv, Tokenless
<1>5. \A t \in Seqs \ {s} : status'[t] = status[t] /\ out'[t] = out[t]
  <2>1. \A t \in Seqs \ {s} : status'[t] = status[t]
    BY <1>1, <1>2, <1>3
  <2>2. \A t \in Seqs \ {s} : out'[t] = out[t]
    BY <1>1, <1>2, <1>3 DEF NoteToken
  <2> QED BY <2>1, <2>2
<1>6. CommonInv' /\ Waiting' = Waiting /\ out' \in [Seqs -> Nat]
  <2>1. status'[s] \in {"new", "rejected", "waiting", "prefill"} => out'[s] = 0
    BY <1>1, <1>3, <1>4 DEF Over
  <2>2. UNCHANGED out \/ NoteToken(s)
    BY <1>1
  <2>3. \/ status' = status
        \/ \E final \in {"prefill", "decoding"} \cup Over : status' = [status EXCEPT ![s] = final]
    BY <1>1
  <2>4. CommonInv
    BY DEF IInv
  <2> QED BY <1>2, <2>1, <2>2, <2>3, <2>4, OneSequenceKeepsCommon
<1>7. /\ Pending' \subseteq Pending
      /\ s \in Pending' \/ status'[s] \in Over
      /\ \A t \in Pending \ {s} : t \in Pending'
  <2>1. CASE next' = next
    BY <1>2, <2>1 DEF Pending
  <2>2. CASE next' = next + 1 /\ status'[s] \in Over
    <3>1. \A i \in next' .. Len(admitted') : i \in next .. Len(admitted)
      BY <1>3, <2>2
    <3>2. \A i \in next .. Len(admitted) : i = next \/ i \in next' .. Len(admitted')
      BY <1>3, <2>2
    <3> QED BY <1>1, <2>2, <3>1, <3>2 DEF Pending, Cur
  <2> QED BY <1>1, <2>1, <2>2
<1>8. Places'
  <2>1. \A t \in Seqs : status'[t] \in Live => t \in Waiting \cup Pending' \cup running
    BY <1>2, <1>5, <1>7 DEF IInv, Places, Live, Over
  <2>2. \A i, j \in next' .. Len(admitted) : admitted[i] = admitted[j] => i = j
    <3>1. \A i \in next' .. Len(admitted) : i \in next .. Len(admitted)
      BY <1>3
    <3> QED BY <3>1 DEF IInv, Places
  <2> QED BY <1>6, <1>7, <2>1, <2>2 DEF IInv, Places
<1>9. PendingStatus'
  <2>1. \A t \in Pending \ {s} : status'[t] = "waiting"
    BY <1>2, <1>5, PendingSplits
  <2>2. CASE next' = next
    <3>1. status'[Cur] \in CurStatus'
      BY <1>3, <2>2
    <3> QED BY <1>1, <1>2, <2>1, <2>2, <3>1 DEF PendingStatus, Cur
  <2>3. CASE next' = next + 1 /\ pc' = "each"
    <3>1. \A i \in next' .. Len(admitted) : status'[admitted[i]] = "waiting"
      BY <1>2, <2>1, <2>3
    <3>2. \A i \in next' + 1 .. Len(admitted) : i \in next' .. Len(admitted)
      BY <1>3, <2>3
    <3>3. next' <= Len(admitted) => next' \in next' .. Len(admitted)
      BY <1>3, <2>3
    <3> QED BY <2>3, <3>1, <3>2, <3>3 DEF PendingStatus, Cur, CurStatus
  <2> QED BY <2>2, <2>3
<1>10. BatchStatus'
  <2>1. \A t \in running : status[t] = "decoding" /\ status'[t] = "decoding" /\ t \in Seqs
    BY <1>2, <1>5 DEF IInv, BatchStatus, Between, CommonInv, CommonTypes
  <2> QED BY <2>1 DEF BatchStatus
<1>11. Lengths'
  <2>1. \A t \in Seqs \ {s} : status'[t] = "decoding" =>
            out'[t] <= MaxTokensOf[t] /\ out'[t] < MaxTokensOf[t]
    BY <1>5 DEF IInv, Lengths
  <2>2. status'[s] = "decoding" => out'[s] < MaxTokensOf[s] /\ out'[s] <= MaxTokensOf[s]
    BY <1>1, <1>2, <1>3, <1>6
  <2> QED BY <2>1, <2>2 DEF Lengths
<1>12. EndIsFinal /\ TokensStop
  <2>1. s \notin Done
    BY <1>4 DEF Done, Live, Over
  <2> QED BY <1>4, <1>5, <2>1 DEF EndIsFinal, TokensStop, Done
<1>13. Accounted
  <2>1. CASE Ends(s, Over)
    <3>1. PICK final \in Over : End(s, final)
      BY <2>1 DEF Ends
    <3>2. CommonInv /\ UNCHANGED queue
      BY DEF IInv, qvars
    <3>3. Accounting!Retire(s)
      BY <1>2, <1>4, <1>6, <3>1, <3>2, EndRetires
    <3> QED BY <1>2, <3>3, RetireIsAccounted
  <2>2. CASE /\ status'[s] \in Live
             /\ \/ kv' = kv
                \/ kv' \in LateBind(kv, s)
                \/ \E n \in CandidateLengths(s) : kv' \in Insert(kv, s, n)
                \/ kv' \in Adopt(kv, s)
    <3>1. Active' = Active /\ Done' = Done /\ s \in Active
      BY <1>2, <1>4, <1>5, <1>6, <2>2 DEF Active, Done, Live, Over
    <3>2. \/ Quiet \/ Accounting!Bind(s) \/ Accounting!Store(s) \/ Accounting!AdoptEntry(s)
      BY <2>2, <3>1, SameOperators
      DEF Quiet, Accounting!Bind, Accounting!Store, Accounting!AdoptEntry, Done
    <3> QED BY <1>2, <3>2 DEF Accounted, Accounting!Next
  <2> QED BY <1>1, <2>1, <2>2
<1> QED BY <1>6, <1>8, <1>9, <1>10, <1>11, <1>12, <1>13 DEF IInv, GoodStep

-----------------------------------------------------------------------------
(* The steps of run() and of _prefill_one on the sequence in hand.         *)
LEMMA EachKeeps == IInv /\ Each => GoodStep
<1> SUFFICES ASSUME IInv, Each PROVE GoodStep
  OBVIOUS
<1>1. /\ pc = "each" /\ next <= Len(admitted) /\ next \in Nat /\ Len(admitted) \in Nat
      /\ UNCHANGED <<qvars, out, abort, running, admitted, cands, todo, life>>
      /\ cands' \subseteq Nat
  BY LenProperties DEF Each, IInv, Control, CommonInv, CommonTypes
<1>2. CASE abort[Cur]
  <2>1. End(Cur, "aborted") /\ next' = next + 1 /\ pc' = pc
    BY <1>2 DEF Each, Cur
  <2>2. Control'
    BY <1>1, <2>1 DEF IInv, Control, InHand, Pcs
  <2>3. status' = [status EXCEPT ![Cur] = "aborted"] /\ status'[Cur] = "aborted"
    BY <2>1, <1>1, PendingSplits DEF End, IInv, CommonInv, CommonTypes
  <2>4. Ends(Cur, Over) /\ "aborted" \in Over
    BY <2>1 DEF Ends, Over
  <2> QED BY <1>1, <2>1, <2>2, <2>3, <2>4, PrefillStepKeeps
<1>3. CASE ~abort[Cur]
  <2>1. UNCHANGED <<kv, status, next>> /\ pc' = "prefill"
    BY <1>3 DEF Each, Cur, Goto
  <2>2. Control'
    BY <1>1, <2>1 DEF IInv, Control, InHand, Pcs
  <2>3. CommonTypes'
    BY <1>1, <2>1 DEF IInv, CommonInv, CommonTypes, qvars, life
  <2>4. CurStatus' = CurStatus
    BY <1>1, <2>1 DEF CurStatus
  <2>5. BatchStatus'
    BY <1>1, <2>1 DEF IInv, BatchStatus, Between
  <2> QED BY <1>1, <2>1, <2>2, <2>3, <2>4, <2>5, MoveKeeps DEF qvars
<1> QED BY <1>2, <1>3

(* The abort flag is up before the prefill starts.                         *)
LEMMA PrefillAbortedKeeps == IInv /\ PrefillAborted => GoodStep
<1> SUFFICES ASSUME IInv, PrefillAborted PROVE GoodStep
  OBVIOUS
<1>1. /\ pc = "prefill" /\ next <= Len(admitted) /\ pc' = "resume"
      /\ UNCHANGED <<qvars, out, abort, running, admitted, cands, next, todo, life>>
      /\ End(Cur, "aborted") /\ cands' \subseteq Nat
  BY DEF PrefillAborted, Goto, loop, IInv, Control, CommonInv, CommonTypes
<1>2. Control'
  BY <1>1 DEF IInv, Control, InHand, Pcs
<1>3. status' = [status EXCEPT ![Cur] = "aborted"] /\ status'[Cur] = "aborted"
  BY <1>1, PendingSplits DEF End, IInv, CommonInv, CommonTypes
<1>4. Ends(Cur, Over) /\ "aborted" \in Over /\ "aborted" \in CurStatus'
  BY <1>1 DEF Ends, Over, CurStatus
<1> QED BY <1>1, <1>2, <1>3, <1>4, PrefillStepKeeps

(* The prefill starts, with a late hit perhaps.                            *)
LEMMA PrefillStartKeeps == IInv /\ PrefillStart => GoodStep
<1> SUFFICES ASSUME IInv, PrefillStart PROVE GoodStep
  OBVIOUS
<1>1. /\ pc = "prefill" /\ next <= Len(admitted) /\ pc' = "insert"
      /\ UNCHANGED <<qvars, out, abort, running, admitted, next, todo, life>>
      /\ status' = [status EXCEPT ![Cur] = "prefill"]
      /\ kv' \in LateBind(kv, Cur) /\ cands' = CandidateLengths(Cur)
  BY DEF PrefillStart, Goto, IInv, Control
<1>2. Control'
  BY <1>1 DEF IInv, Control, InHand, Pcs, Cur
<1>3. cands' \subseteq Nat
  BY <1>1, MinAssumption DEF CandidateLengths
<1>4. status'[Cur] = "prefill" /\ out[Cur] = 0
  <2>1. status[Cur] = "waiting" /\ Cur \in Seqs
    BY <1>1, PendingSplits DEF IInv, PendingStatus, CurStatus
  <2> QED BY <1>1, <2>1 DEF IInv, CommonInv, CommonTypes, Tokenless
<1>5. "prefill" \in Live /\ "prefill" \in CurStatus'
  BY <1>1 DEF Live, CurStatus
<1> QED BY <1>1, <1>2, <1>3, <1>4, <1>5, PrefillStepKeeps

(* The prefixes of the prompt are stored, and the prompt's entry is        *)
(* adopted.                                                                *)
LEMMA StoreKeeps == IInv /\ Store => GoodStep
<1> SUFFICES ASSUME IInv, Store PROVE GoodStep
  OBVIOUS
<1>1. /\ pc = "insert" /\ next <= Len(admitted) /\ pc' \in {"insert", "sample"}
      /\ UNCHANGED <<qvars, status, out, abort, running, admitted, next, todo, life>>
      /\ cands' \subseteq cands
      /\ \/ \E n \in cands : kv' \in Insert(kv, Cur, n)
         \/ kv' \in Adopt(kv, Cur)
  BY DEF Store, InsertNext, InsertDone, Goto, loop, reqs, IInv, Control
<1>2. Control' /\ cands \subseteq CandidateLengths(Cur) /\ cands' \subseteq Nat
  BY <1>1 DEF IInv, Control, InHand, Pcs, Cur, CommonInv, CommonTypes
<1>3. status[Cur] = "prefill" /\ out[Cur] = 0
  <2>1. status[Cur] = "prefill" /\ Cur \in Seqs
    BY <1>1, PendingSplits DEF IInv, PendingStatus, CurStatus
  <2> QED BY <2>1 DEF IInv, CommonInv, Tokenless
<1>4. "prefill" \in Live /\ "prefill" \in CurStatus'
  BY <1>1 DEF Live, CurStatus
<1>5. status'[Cur] = "prefill"
  BY <1>1, <1>3
<1> QED BY <1>1, <1>2, <1>3, <1>4, <1>5, PrefillStepKeeps

(* The exception handler of _prefill_one releases the sequence.            *)
LEMMA PrefillFailsKeeps == IInv /\ PrefillFails => GoodStep
<1> SUFFICES ASSUME IInv, PrefillFails PROVE GoodStep
  OBVIOUS
<1>1. /\ pc \in {"insert", "sample"} /\ next <= Len(admitted) /\ pc' = "resume"
      /\ UNCHANGED <<qvars, abort, running, admitted, next, todo, life>>
      /\ End(Cur, "error") /\ cands' = {}
      /\ UNCHANGED out \/ NoteToken(Cur)
  BY DEF PrefillFails, Goto, IInv, Control
<1>2. Control' /\ cands' \subseteq Nat
  BY <1>1 DEF IInv, Control, InHand, Pcs
<1>3. /\ status' = [status EXCEPT ![Cur] = "error"] /\ status'[Cur] = "error"
      /\ status[Cur] = "prefill"
  BY <1>1, PendingSplits DEF End, IInv, CommonInv, CommonTypes, PendingStatus, CurStatus
<1>4. Ends(Cur, Over) /\ "error" \in Over /\ "error" \in CurStatus'
  BY <1>1 DEF Ends, Over, CurStatus
<1> QED BY <1>1, <1>2, <1>3, <1>4, PrefillStepKeeps

(* The first token, and what follows from it: an abort, an end, or a place *)
(* in the batch.                                                           *)
LEMMA FirstTokenKeeps == IInv /\ FirstToken => GoodStep
<1> SUFFICES ASSUME IInv, FirstToken PROVE GoodStep
  OBVIOUS
<1>1. /\ pc = "sample" /\ next <= Len(admitted) /\ pc' = "resume"
      /\ UNCHANGED <<qvars, abort, running, admitted, cands, next, todo, life>>
      /\ NoteToken(Cur) /\ cands' \subseteq Nat
  BY DEF FirstToken, Goto, loop, IInv, Control, CommonInv, CommonTypes
<1>2. Control'
  BY <1>1 DEF IInv, Control, InHand, Pcs
<1>3. /\ status[Cur] = "prefill" /\ Cur \in Seqs /\ status \in [Seqs -> Live \cup Over \cup {"new", "rejected"}]
      /\ out \in [Seqs -> Nat] /\ MaxTokensOf[Cur] \in Nat
  BY <1>1, PendingSplits, LengthAssumption
  DEF IInv, CommonInv, CommonTypes, PendingStatus, CurStatus
<1>4. \/ Ends(Cur, {"aborted", "finished"})
      \/ /\ status' = [status EXCEPT ![Cur] = "decoding"] /\ UNCHANGED kv
         /\ ~(out'[Cur] >= MaxTokensOf[Cur])
  BY DEF FirstToken, MayBeLast, Ends
<1>5. CASE Ends(Cur, {"aborted", "finished"})
  <2>1. PICK final \in {"aborted", "finished"} : End(Cur, final)
    BY <1>5 DEF Ends
  <2>2. status' = [status EXCEPT ![Cur] = final] /\ status'[Cur] = final
    BY <1>3, <2>1 DEF End
  <2>3. Ends(Cur, Over) /\ final \in Over /\ final \in CurStatus'
    BY <1>1, <2>1 DEF Ends, Over, CurStatus
  <2>4. final # "prefill" /\ final # "decoding"
    OBVIOUS
  <2> QED BY <1>1, <1>2, <1>3, <2>2, <2>3, <2>4, PrefillStepKeeps
<1>6. CASE /\ status' = [status EXCEPT ![Cur] = "decoding"] /\ UNCHANGED kv
           /\ ~(out'[Cur] >= MaxTokensOf[Cur])
  <2>1. status'[Cur] = "decoding" /\ out'[Cur] < MaxTokensOf[Cur]
    BY <1>1, <1>3, <1>6 DEF NoteToken
  <2>2. "decoding" \in Live /\ "decoding" \in CurStatus'
    BY <1>1 DEF Live, CurStatus
  <2> QED BY <1>1, <1>2, <1>3, <1>6, <2>1, <2>2, PrefillStepKeeps
<1> QED BY <1>4, <1>5, <1>6

(* run() after the await: what is not over joins the batch.                *)
LEMMA ResumeKeeps == IInv /\ Resume => GoodStep
<1> SUFFICES ASSUME IInv, Resume PROVE GoodStep
  OBVIOUS
<1>1. /\ pc = "resume" /\ next \in 1 .. Len(admitted) /\ Len(admitted) \in Nat
      /\ pc' = "each" /\ next' = next + 1
      /\ running' = IF status[Cur] \in Over THEN running ELSE running \cup {Cur}
      /\ UNCHANGED <<kv, queue, event, status, out, abort, admitted, cands, todo, life>>
  BY LenProperties DEF Resume, Goto, qvars, reqs, IInv, Control, CommonInv, CommonTypes
<1>2. PICK s : s = Cur
  OBVIOUS
<1>3. /\ s \in Pending /\ s \in Seqs /\ Pending \subseteq Seqs
      /\ \A i \in next + 1 .. Len(admitted) : admitted[i] \in Pending \ {s}
      /\ \A t \in Pending \ {s} : status[t] = "waiting"
      /\ s \notin running /\ s \notin Waiting
  BY <1>1, <1>2, PendingSplits DEF IInv, Places
<1>4. status[s] \in {"decoding"} \cup Over
  BY <1>1, <1>2 DEF IInv, PendingStatus, CurStatus
<1>5. CommonInv' /\ Quiet /\ Waiting' = Waiting
  <2>1. CommonTypes' /\ Tokenless'
    BY <1>1, <1>2, <1>3 DEF IInv, CommonInv, CommonTypes, Tokenless, life
  <2> QED BY <1>1, <2>1, FlagsKeep DEF IInv
<1>6. Control'
  BY <1>1 DEF IInv, Control, InHand, Pcs, LoopPcs
<1>7. Pending' = Pending \ {s}
  <2>1. \A i \in next' .. Len(admitted') : i \in next + 1 .. Len(admitted) /\ i \in next .. Len(admitted)
    BY <1>1
  <2>2. \A i \in next .. Len(admitted) : i = next \/ i \in next' .. Len(admitted')
    BY <1>1
  <2>3. Pending' \subseteq Pending \ {s}
    BY <1>1, <1>3, <2>1 DEF Pending
  <2>4. Pending \ {s} \subseteq Pending'
    BY <1>1, <1>2, <2>2 DEF Pending, Cur
  <2> QED BY <2>3, <2>4
<1>8. Places'
  <2>1. \A t \in Seqs : status'[t] \in Live => t \in Waiting \cup Pending' \cup running'
    BY <1>1, <1>2, <1>4, <1>7 DEF IInv, Places, Live, Over
  <2>2. \A i, j \in next' .. Len(admitted) : admitted[i] = admitted[j] => i = j
    <3>1. \A i \in next' .. Len(admitted) : i \in next .. Len(admitted)
      BY <1>1
    <3> QED BY <3>1 DEF IInv, Places
  <2>3. Waiting' \cap (Pending' \cup running') = {} /\ Pending' \cap running' = {}
    BY <1>1, <1>2, <1>3, <1>5, <1>7 DEF IInv, Places
  <2> QED BY <1>1, <1>5, <2>1, <2>2, <2>3 DEF Places
<1>9. PendingStatus'
  <2>1. \A i \in next' .. Len(admitted) : status[admitted[i]] = "waiting"
    BY <1>1, <1>3
  <2>2. \A i \in next' + 1 .. Len(admitted) : i \in next' .. Len(admitted)
    BY <1>1
  <2>3. next' <= Len(admitted) => next' \in next' .. Len(admitted)
    BY <1>1
  <2> QED BY <1>1, <2>1, <2>2, <2>3 DEF PendingStatus, Cur, CurStatus
<1>10. BatchStatus' /\ Lengths'
  <2>1. \A t \in running' : status[t] = "decoding"
    BY <1>1, <1>2, <1>4 DEF IInv, BatchStatus, Between
  <2> QED BY <1>1, <2>1 DEF IInv, BatchStatus, Lengths
<1>11. EndIsFinal /\ TokensStop
  BY <1>1 DEF EndIsFinal, TokensStop
<1> QED BY <1>5, <1>6, <1>8, <1>9, <1>10, <1>11 DEF IInv, GoodStep, Accounted

-----------------------------------------------------------------------------
(* The steps that take out of the batch what is over.                      *)
LEMMA BatchShrinks ==
    ASSUME IInv, pc \in {"drop", "filter", "leftovers"}, todo = {},
           UNCHANGED <<kv, queue, event, status, out, abort, cands, todo, life>>,
           running' \subseteq running,
           \A s \in running \ running' : status[s] \in Over,
           \A s \in running' : status[s] = "decoding",
           \/ pc' \in {"top", "stopped"} /\ UNCHANGED <<admitted, next>>
           \/ pc' = "admit" /\ admitted' = << >> /\ next' = 1
    PROVE  GoodStep
<1>1. /\ next = Len(admitted) + 1 /\ Len(admitted) \in Nat
      /\ next' = Len(admitted') + 1 /\ Len(admitted') \in Nat /\ admitted' \in Seq(Seqs)
  <2>1. next = Len(admitted) + 1 /\ Len(admitted) \in Nat /\ admitted \in Seq(Seqs)
    BY LenProperties DEF IInv, Control, InHand, CommonInv, CommonTypes
  <2>2. CASE UNCHANGED <<admitted, next>>
    BY <2>1, <2>2
  <2>3. CASE admitted' = << >> /\ next' = 1
    <3>1. << >> \in Seq(Seqs) /\ Len(<< >>) = 0
      OBVIOUS
    <3>2. Len(admitted') = 0 /\ admitted' \in Seq(Seqs)
      BY <2>3, <3>1
    <3> QED BY <2>1, <2>3, <3>2
  <2> QED BY <2>2, <2>3
<1>2. Pending = {} /\ Pending' = {}
  BY <1>1 DEF Pending
<1>3. CommonInv' /\ Quiet /\ Waiting' = Waiting
  <2>1. CommonTypes' /\ Tokenless'
    BY <1>1 DEF IInv, CommonInv, CommonTypes, Tokenless, life
  <2> QED BY <2>1, FlagsKeep DEF IInv
<1>4. Control'
  BY <1>1 DEF IInv, Control, InHand, Pcs, LoopPcs
<1>5. Places'
  <2>1. \A s \in Seqs : status[s] \in Live => s \in Waiting \cup running'
    BY <1>2 DEF IInv, Places, Live, Over
  <2>2. \A i, j \in next' .. Len(admitted') : admitted'[i] = admitted'[j] => i = j
    BY <1>1
  <2> QED BY <1>2, <1>3, <2>1, <2>2 DEF IInv, Places
<1>6. PendingStatus' /\ BatchStatus' /\ Lengths'
  BY <1>1 DEF IInv, PendingStatus, BatchStatus, Lengths
<1>7. EndIsFinal /\ TokensStop
  BY DEF EndIsFinal, TokensStop
<1> QED BY <1>3, <1>4, <1>5, <1>6, <1>7 DEF IInv, GoodStep, Accounted

(* _drop_aborted leaves out what it has just aborted, and only that.       *)
LEMMA DropDoneKeeps == IInv /\ DropDone => GoodStep
<1> SUFFICES ASSUME IInv, DropDone PROVE GoodStep
  OBVIOUS
<1>1. /\ pc = "drop" /\ todo = {} /\ pc' = "admit" /\ admitted' = << >> /\ next' = 1
      /\ running' = {s \in running : status[s] # "aborted"}
      /\ UNCHANGED <<kv, queue, event, status, out, abort, cands, todo, life>>
  BY DEF DropDone, Goto, qvars, reqs
<1>2. \A s \in running : status[s] \in {"decoding", "aborted"}
  BY <1>1 DEF IInv, BatchStatus
<1>3. "aborted" \in Over
  BY DEF Over
<1> QED BY <1>1, <1>2, <1>3, BatchShrinks

(* The filter leaves out what is over, and only that.                      *)
LEMMA FilterDoneKeeps == IInv /\ FilterDone => GoodStep
<1> SUFFICES ASSUME IInv, FilterDone PROVE GoodStep
  OBVIOUS
<1>1. /\ pc = "filter" /\ todo = {} /\ pc' = "top"
      /\ running' = {s \in running : status[s] \notin Over}
      /\ UNCHANGED <<kv, queue, event, status, out, abort, admitted, cands, next, todo, life>>
  BY DEF FilterDone, Goto, qvars, reqs
<1>2. \A s \in running : status[s] \in {"decoding"} \cup Over
  BY DEF IInv, BatchStatus
<1> QED BY <1>1, <1>2, BatchShrinks

(* Nothing live is left when run() ends.                                   *)
LEMMA LeftoversDoneKeeps == IInv /\ LeftoversDone => GoodStep
<1> SUFFICES ASSUME IInv, LeftoversDone PROVE GoodStep
  OBVIOUS
<1>1. /\ pc = "leftovers" /\ todo = {} /\ pc' = "stopped" /\ running' = {}
      /\ UNCHANGED <<kv, queue, event, status, out, abort, admitted, cands, next, todo, life>>
  BY DEF LeftoversDone, Goto, qvars, reqs
<1>2. \A s \in running : status[s] \in Over
  BY <1>1 DEF IInv, BatchStatus
<1> QED BY <1>1, <1>2, BatchShrinks

(* The exception that kills the task, with a token noted or without.       *)
LEMMA RowRaisesKeeps == IInv /\ RowRaises => GoodStep
<1> SUFFICES ASSUME IInv, RowRaises PROVE GoodStep
  OBVIOUS
<1>1. PICK s \in todo : ~abort[s] /\ (UNCHANGED out \/ NoteToken(s))
  BY DEF RowRaises
<1>2. /\ pc = "rows" /\ pc' = "dead"
      /\ UNCHANGED <<kv, queue, event, status, abort, running, admitted, cands, next, todo, life>>
  BY DEF RowRaises, Goto, qvars, loop
<1>3. /\ s \in Seqs /\ s \in running /\ status[s] = "decoding" /\ s \notin Waiting
      /\ out \in [Seqs -> Nat] /\ MaxTokensOf[s] \in Nat /\ out[s] < MaxTokensOf[s]
  BY <1>1, <1>2, LengthAssumption
  DEF IInv, Control, Places, BatchStatus, Lengths, CommonInv, CommonTypes
<1>4. \A t \in Seqs \ {s} : out'[t] = out[t]
  BY <1>1, <1>3 DEF NoteToken
<1>5. CommonInv' /\ Waiting' = Waiting /\ out' \in [Seqs -> Nat]
  <2>1. cands' \subseteq Nat /\ CommonInv
    BY <1>2 DEF IInv, CommonInv, CommonTypes
  <2>2. status'[s] = "decoding" /\ UNCHANGED <<qvars, abort, running, admitted, life>>
    BY <1>2, <1>3 DEF qvars
  <2> QED BY <1>1, <1>2, <1>3, <2>1, <2>2, OneSequenceKeepsCommon
<1>6. Quiet
  BY <1>2, <1>5 DEF Quiet, Active, Done
<1>7. next = Len(admitted) + 1 /\ Len(admitted) \in Nat
  BY <1>2, LenProperties DEF IInv, Control, InHand, CommonInv, CommonTypes
<1>8. Control'
  BY <1>2 DEF IInv, Control, InHand, Pcs
<1>9. Places'
  BY <1>2, <1>5 DEF IInv, Places, Pending
<1>10. PendingStatus' /\ BatchStatus'
  BY <1>2, <1>7 DEF IInv, PendingStatus, BatchStatus, Between
<1>11. Lengths'
  <2>1. out'[s] <= MaxTokensOf[s]
    BY <1>1, <1>3 DEF NoteToken
  <2>2. \A t \in Seqs : status'[t] = "decoding" => out'[t] <= MaxTokensOf[t]
    BY <1>2, <1>4, <2>1 DEF IInv, Lengths
  <2> QED BY <1>2, <2>2 DEF Lengths
<1>12. EndIsFinal /\ TokensStop
  BY <1>1, <1>2, <1>3, <1>4 DEF EndIsFinal, TokensStop, Done, Over
<1> QED BY <1>5, <1>6, <1>8, <1>9, <1>10, <1>11, <1>12 DEF IInv, GoodStep, Accounted

-----------------------------------------------------------------------------
(* The loops over the batch.                                               *)
LEMMA DropKeeps == ASSUME IInv, NEW s \in Seqs, Drop(s) PROVE GoodStep
<1>1. /\ pc = "drop" /\ s \in todo /\ todo' = todo \ {s}
      /\ UNCHANGED <<qvars, out, abort, running, admitted, next, cands, pc, life>>
  BY DEF Drop
<1>2. status[s] \notin Over
  BY <1>1 DEF IInv, BatchStatus, Over
<1>3. Ends(s, {"aborted"}) \/ UNCHANGED <<kv, status>>
  BY DEF Drop, Ends
<1> QED BY <1>1, <1>2, <1>3, BatchStepKeeps

(* _decode_one_step aborts a sequence before the step.                     *)
LEMMA SweepKeeps == ASSUME IInv, NEW s \in Seqs, Sweep(s) PROVE GoodStep
<1>1. /\ pc = "sweep" /\ s \in todo /\ todo' = todo \ {s}
      /\ UNCHANGED <<qvars, out, abort, running, admitted, next, cands, pc, life>>
  BY DEF Sweep
<1>2. status[s] \notin Over
  BY <1>1 DEF IInv, BatchStatus, Over
<1>3. Ends(s, Over) \/ UNCHANGED <<kv, status>>
  BY DEF Sweep, Ends, Over
<1> QED BY <1>1, <1>2, <1>3, BatchStepKeeps

(* decode_batch raised: the sequences of the step are released.            *)
LEMMA FailRowKeeps == ASSUME IInv, NEW s \in Seqs, FailRow(s) PROVE GoodStep
<1>1. /\ pc = "fail" /\ s \in todo /\ todo' = todo \ {s}
      /\ UNCHANGED <<qvars, out, abort, running, admitted, next, cands, pc, life>>
  BY DEF FailRow
<1>2. status[s] \notin Over
  BY <1>1 DEF IInv, BatchStatus, Over
<1>3. Ends(s, Over)
  BY DEF FailRow, Ends, Over
<1> QED BY <1>1, <1>2, <1>3, BatchStepKeeps

(* One row of the step: the token is noted unless an abort came first.     *)
LEMMA RowKeeps == ASSUME IInv, NEW s \in Seqs, Row(s) PROVE GoodStep
<1>1. /\ pc = "rows" /\ s \in todo /\ todo' = todo \ {s}
      /\ UNCHANGED <<qvars, abort, running, admitted, next, cands, pc, life>>
  BY DEF Row
<1>2. /\ status[s] = "decoding" /\ status[s] \notin Over
      /\ status \in [Seqs -> Live \cup Over \cup {"new", "rejected"}]
      /\ out \in [Seqs -> Nat] /\ MaxTokensOf[s] \in Nat
  BY <1>1, LengthAssumption DEF IInv, BatchStatus, Over, CommonInv, CommonTypes
<1>3. \/ Ends(s, Over) /\ UNCHANGED out
      \/ Ends(s, Over) /\ NoteToken(s) /\ ~abort[s]
      \/ /\ UNCHANGED <<kv, status>> /\ NoteToken(s) /\ ~abort[s]
         /\ ~(out'[s] >= MaxTokensOf[s])
  BY DEF Row, MayBeLast, Ends, Over
<1>4. Ends(s, Over) => status'[s] # "decoding"
  BY <1>2 DEF Ends, End, Over
<1>5. NoteToken(s) => out'[s] \in Nat
  BY <1>2 DEF NoteToken
<1>6. status'[s] = "decoding" /\ out'[s] # out[s] => out'[s] < MaxTokensOf[s]
  BY <1>2, <1>3, <1>4, <1>5
<1> QED BY <1>1, <1>2, <1>3, <1>6, BatchStepKeeps

(* The filter aborts what is flagged and not over yet.                     *)
LEMMA FilterKeeps == ASSUME IInv, NEW s \in Seqs, Filter(s) PROVE GoodStep
<1>1. /\ pc = "filter" /\ s \in todo /\ todo' = todo \ {s}
      /\ UNCHANGED <<qvars, out, abort, running, admitted, next, cands, pc, life>>
  BY DEF Filter
<1>2. \/ status[s] \notin Over /\ Ends(s, Over)
      \/ UNCHANGED <<kv, status>>
  BY DEF Filter, Ends, Over
<1> QED BY <1>1, <1>2, BatchStepKeeps

(* _abort_leftovers ends a sequence of the batch that is not over.         *)
LEMMA LeftoverRunningKeeps == ASSUME IInv, NEW s \in Seqs, LeftoverRunning(s) PROVE GoodStep
<1>1. /\ pc = "leftovers" /\ s \in todo /\ todo' = todo \ {s}
      /\ UNCHANGED <<qvars, out, abort, running, admitted, next, cands, pc, life>>
  BY DEF LeftoverRunning
<1>2. \/ status[s] \notin Over /\ Ends(s, Over)
      \/ UNCHANGED <<kv, status>> /\ status[s] \in Over
  BY DEF LeftoverRunning, Ends, Over
<1> QED BY <1>1, <1>2, BatchStepKeeps

-----------------------------------------------------------------------------
(* A waiting sequence is ended, by admin_abort or at the shutdown.         *)
LEMMA WaitingEndKeeps ==
    ASSUME IInv, UNCHANGED loop, (\E s \in Seqs : AdminAbortWaiting(s)) \/ LeftoverWaiting
    PROVE  GoodStep
<1>1. PICK s \in Seqs : /\ s \in Waiting /\ CommonInv' /\ Accounting!Retire(s)
                        /\ Waiting' = Waiting \ {s}
                        /\ status' = [status EXCEPT ![s] = "aborted"]
  <2>1. ASSUME NEW s \in Seqs, AdminAbortWaiting(s)
        PROVE  /\ s \in Waiting /\ CommonInv' /\ Accounting!Retire(s)
               /\ Waiting' = Waiting \ {s}
               /\ status' = [status EXCEPT ![s] = "aborted"]
    BY <2>1, AdminAbortKeeps DEF IInv, AdminAbortWaiting, End
  <2>2. ASSUME LeftoverWaiting
        PROVE  \E s \in Seqs : /\ s \in Waiting /\ CommonInv' /\ Accounting!Retire(s)
                               /\ Waiting' = Waiting \ {s}
                               /\ status' = [status EXCEPT ![s] = "aborted"]
    BY <2>2, LeftoverWaitingKeeps DEF IInv, LeftoverWaiting, End
  <2> QED BY <2>1, <2>2
<1>2. UNCHANGED <<out, abort, running, admitted, cands, pc, stop, cancelled, policy, next, todo>>
  BY DEF AdminAbortWaiting, LeftoverWaiting, loop, life
<1>3. /\ \A t \in Seqs \ {s} : status'[t] = status[t]
      /\ status'[s] = "aborted" /\ status[s] = "waiting"
  BY <1>1 DEF IInv, CommonInv, CommonTypes, QueueInv
<1>4. s \notin Pending /\ s \notin running
  BY <1>1 DEF IInv, Places
<1>5. Control'
  BY <1>2 DEF IInv, Control, Cur
<1>6. Places'
  BY <1>1, <1>2, <1>3 DEF IInv, Places, Pending, Live
<1>7. PendingStatus'
  <2>1. \A t \in Pending : status'[t] = status[t]
    BY <1>3, <1>4, PendingSplits
  <2>2. CurStatus' = CurStatus
    BY <1>2 DEF CurStatus
  <2>3. \A i \in next + 1 .. Len(admitted) : status'[admitted[i]] = "waiting"
    BY <2>1, PendingSplits DEF IInv, PendingStatus, Control
  <2>4. next <= Len(admitted) => status'[Cur] \in CurStatus
    BY <2>1, PendingSplits DEF IInv, PendingStatus
  <2> QED BY <1>2, <2>2, <2>3, <2>4 DEF PendingStatus, Cur
<1>8. BatchStatus'
  <2>1. /\ running' = running /\ todo' = todo /\ pc' = pc
        /\ \A t \in running : status'[t] = status[t]
        /\ pc \in {"drop", "sweep", "rows", "fail"} => todo \subseteq running
    BY <1>2, <1>3, <1>4 DEF IInv, CommonInv, CommonTypes, Control
  <2> QED BY <2>1 DEF IInv, BatchStatus
<1>9. Lengths'
  BY <1>2, <1>3 DEF IInv, Lengths
<1>10. EndIsFinal /\ TokensStop
  BY <1>2, <1>3 DEF EndIsFinal, TokensStop, Done, Over
<1>11. Accounted
  BY <1>1, RetireIsAccounted
<1> QED BY <1>1, <1>5, <1>6, <1>7, <1>8, <1>9, <1>10, <1>11 DEF IInv, GoodStep

(* Scheduler.admit moves sequences from the queue to the admitted ones.    *)
LEMMA AdmissionKeeps == IInv /\ Admission => GoodStep
<1> SUFFICES ASSUME IInv, Admission PROVE GoodStep
  OBVIOUS
<1>1. PICK room : AdmitOne(room) \/ AdmitRefused(room) \/ AdmitDone(room)
  BY DEF Admission, Admit
<1>2. /\ pc = "admit" /\ next = 1 /\ UNCHANGED loop /\ CommonInv
      /\ admitted \in Seq(Seqs) /\ Len(admitted) \in Nat
  BY <1>1, LenProperties
  DEF AdmitOne, AdmitRefused, AdmitDone, Admission, IInv, Control, CommonInv, CommonTypes
<1>3. CASE AdmitOne(room)
  <2>1. PICK s \in Waiting : /\ CommonInv' /\ Accounting!Admit(s) /\ s \in Seqs
                             /\ Waiting' = Waiting \ {s} /\ admitted' = Append(admitted, s)
    BY <1>2, <1>3, AdmitOneKeeps
  <2>2. UNCHANGED <<status, out, abort, running, cands, pc, next, todo>>
    BY <1>2, <1>3 DEF AdmitOne, reqs, loop
  <2>3. /\ Len(admitted') = Len(admitted) + 1 /\ admitted'[Len(admitted) + 1] = s
        /\ \A i \in 1 .. Len(admitted) : admitted'[i] = admitted[i]
    BY <1>2, <2>1, AppendProperties
  <2>4. status[s] = "waiting" /\ s \notin Pending
    BY <2>1 DEF IInv, CommonInv, QueueInv, Places
  <2>5. Pending' = Pending \cup {s}
    <3>1. \A i \in 1 .. Len(admitted') : i \in 1 .. Len(admitted) \/ i = Len(admitted) + 1
      BY <1>2, <2>3
    <3>2. \A i \in 1 .. Len(admitted) : i \in 1 .. Len(admitted')
      BY <1>2, <2>3
    <3>3. Len(admitted) + 1 \in 1 .. Len(admitted')
      BY <1>2, <2>3
    <3>4. next' = 1 /\ next = 1
      BY <1>2, <2>2
    <3>5. Pending = {admitted[i] : i \in 1 .. Len(admitted)}
      BY <3>4 DEF Pending
    <3>6. Pending' = {admitted'[i] : i \in 1 .. Len(admitted')}
      BY <3>4 DEF Pending
    <3> QED BY <2>3, <3>1, <3>2, <3>3, <3>5, <3>6
  <2>6. Control'
    BY <1>2, <2>2, <2>3 DEF IInv, Control, InHand
  <2>7. Places'
    <3>1. ASSUME NEW i \in next' .. Len(admitted'), NEW j \in next' .. Len(admitted'),
                 admitted'[i] = admitted'[j]
          PROVE  i = j
      <4>1. \A k \in 1 .. Len(admitted) : admitted'[k] \in Pending /\ k \in next .. Len(admitted)
        BY <1>2, <2>3 DEF Pending
      <4>2. /\ i \in 1 .. Len(admitted) \/ i = Len(admitted) + 1
            /\ j \in 1 .. Len(admitted) \/ j = Len(admitted) + 1
        BY <1>2, <2>2, <2>3
      <4> QED BY <2>3, <2>4, <3>1, <4>1, <4>2 DEF IInv, Places
    <3>2. /\ \A t \in Seqs : status'[t] \in Live => t \in Waiting' \cup Pending' \cup running'
          /\ Waiting' \cap (Pending' \cup running') = {}
          /\ Pending' \cap running' = {}
      BY <2>1, <2>2, <2>5 DEF IInv, Places
    <3> QED BY <3>1, <3>2 DEF Places
  <2>8. PendingStatus'
    <3>1. \A i \in 1 .. Len(admitted) : status[admitted[i]] = "waiting"
      <4>1. \A i \in 1 .. Len(admitted) : i = next \/ i \in next + 1 .. Len(admitted)
        BY <1>2
      <4>2. next <= Len(admitted) => status[admitted[next]] = "waiting"
        BY <1>2 DEF IInv, PendingStatus, CurStatus, Cur
      <4> QED BY <1>2, <4>1, <4>2 DEF IInv, PendingStatus
    <3>2. \A i \in 1 .. Len(admitted') : status'[admitted'[i]] = "waiting"
      <4>1. \A i \in 1 .. Len(admitted') : i \in 1 .. Len(admitted) \/ i = Len(admitted) + 1
        BY <1>2, <2>3
      <4> QED BY <2>2, <2>3, <2>4, <3>1, <4>1
    <3>3. \A i \in next' + 1 .. Len(admitted') : i \in 1 .. Len(admitted')
      BY <1>2, <2>2, <2>3
    <3>4. next' \in 1 .. Len(admitted')
      BY <1>2, <2>2, <2>3
    <3> QED BY <1>2, <2>2, <3>2, <3>3, <3>4 DEF PendingStatus, CurStatus, Cur
  <2>9. BatchStatus' /\ Lengths' /\ EndIsFinal /\ TokensStop
    BY <2>2 DEF IInv, BatchStatus, Lengths, EndIsFinal, TokensStop
  <2>10. Accounted
    BY <2>1 DEF Accounted, Accounting!Next
  <2> QED BY <2>1, <2>6, <2>7, <2>8, <2>9, <2>10 DEF IInv, GoodStep
<1>4. CASE AdmitRefused(room)
  <2>1. PICK s \in Seqs : CommonInv' /\ Accounting!Refuse(s) /\ Waiting' = Waiting
    BY <1>2, <1>4, AdmitRefusedKeeps
  <2>2. UNCHANGED <<status, out, abort, running, admitted, cands, next, todo>> /\ pc' = "each"
    BY <1>2, <1>4 DEF AdmitRefused, reqs, loop, Goto
  <2>3. Control'
    BY <1>2, <2>2 DEF IInv, Control, InHand, Pcs, LoopPcs
  <2>4. CurStatus' = CurStatus
    BY <1>2, <2>2 DEF CurStatus
  <2>5. Places' /\ PendingStatus'
    BY <2>1, <2>2, <2>4 DEF IInv, Places, Pending, PendingStatus, Cur
  <2>6. BatchStatus' /\ Lengths' /\ EndIsFinal /\ TokensStop
    BY <1>2, <2>2 DEF IInv, BatchStatus, Between, Lengths, EndIsFinal, TokensStop
  <2>7. Accounted
    BY <2>1 DEF Accounted, Accounting!Next
  <2> QED BY <2>1, <2>3, <2>5, <2>6, <2>7 DEF IInv, GoodStep
<1>5. CASE AdmitDone(room)
  <2>1. UNCHANGED <<kv, queue, event, status, out, abort, running, admitted, cands, next, todo, life>>
        /\ pc' = "each"
    BY <1>2, <1>5 DEF AdmitDone, qvars, reqs, loop, Goto
  <2>2. Control'
    BY <1>2, <2>1 DEF IInv, Control, InHand, Pcs, LoopPcs
  <2>3. CurStatus' = CurStatus
    BY <1>2, <2>1 DEF CurStatus
  <2>4. BatchStatus' /\ CommonTypes'
    BY <1>2, <2>1 DEF IInv, BatchStatus, Between, CommonInv, CommonTypes, life
  <2> QED BY <1>2, <2>1, <2>2, <2>3, <2>4, MoveKeeps
<1> QED BY <1>1, <1>3, <1>4, <1>5

-----------------------------------------------------------------------------
(* Every step keeps the invariant and uses the pool and the cache as       *)
(* KvAccounting allows.                                                    *)
LEMMA StepKeeps == IInv /\ [Next]_vars => GoodStep
<1> SUFFICES ASSUME IInv, [Next]_vars PROVE GoodStep
  OBVIOUS
<1>1. CASE Environment /\ UNCHANGED loop
  <2>1. CASE \E s \in Seqs : SubmitAccepted(s) \/ SubmitRejected(s)
    BY <1>1, <2>1, SubmitKeeps
  <2>2. CASE (\E s \in Seqs : RequestAbort(s)) \/ RequestStop \/ CancelTask
    BY <1>1, <2>2, HandlerMovesKeep
  <2>3. CASE \E s \in Seqs : AdminAbortWaiting(s)
    BY <1>1, <2>3, WaitingEndKeeps
  <2> QED BY <1>1, <2>1, <2>2, <2>3 DEF Environment
<1>2. CASE Work
  <2>1. CASE Top \/ Wake \/ EachDone \/ Yield \/ SweepDone \/ DecodeBatch \/ RowsDone \/ CancelledExit
    BY <2>1, TopKeeps, WakeKeeps, EachDoneKeeps, YieldKeeps, DecodeKeeps, CancelledExitKeeps
  <2>2. CASE DropDone \/ FilterDone \/ LeftoversDone \/ Admission
    BY <2>2, DropDoneKeeps, FilterDoneKeeps, LeftoversDoneKeeps, AdmissionKeeps
  <2>3. CASE Each \/ PrefillAborted \/ PrefillStart \/ Store \/ FirstToken \/ Resume
    BY <2>3, EachKeeps, PrefillAbortedKeeps, PrefillStartKeeps, StoreKeeps,
       FirstTokenKeeps, ResumeKeeps
  <2>4. CASE \E s \in Seqs : Drop(s) \/ Sweep(s) \/ FailRow(s) \/ Row(s) \/ Filter(s)
    BY <2>4, DropKeeps, SweepKeeps, FailRowKeeps, RowKeeps, FilterKeeps
  <2>5. CASE LeftoverWaiting /\ UNCHANGED loop
    BY <2>5, WaitingEndKeeps
  <2>6. CASE \E s \in Seqs : LeftoverRunning(s)
    BY <2>6, LeftoverRunningKeeps
  <2> QED BY <1>2, <2>1, <2>2, <2>3, <2>4, <2>5, <2>6 DEF Work
<1>3. CASE Failure
  BY <1>3, PrefillFailsKeeps, RowRaisesKeeps DEF Failure
<1>4. CASE UNCHANGED vars
  <2>1. UNCHANGED <<kv, queue, event, status, out, abort, running, admitted, cands, pc,
                    stop, cancelled, policy, next, todo>>
    BY <1>4 DEF vars, common, loop, qvars, reqs, life
  <2>2. CommonTypes' /\ Control' /\ CurStatus' = CurStatus /\ BatchStatus'
    BY <2>1 DEF IInv, CommonInv, CommonTypes, Control, Cur, CurStatus, BatchStatus
  <2> QED BY <2>1, <2>2, MoveKeeps
<1> QED BY <1>1, <1>2, <1>3, <1>4 DEF Next, Ended

(* The inductive invariant holds in every state: the loop knows where      *)
(* every sequence is and in which status, at each of its steps.            *)
THEOREM InvariantHolds == Spec => []IInv
<1>1. IInv /\ [Next]_vars => IInv'
  BY StepKeeps DEF GoodStep
<1> QED BY <1>1, InitGood, PTL DEF Spec

(* The worker uses the pool and the cache only as KvAccounting allows,     *)
(* whatever aborts, errors and shutdown interrupt: every admitted sequence *)
(* is released exactly once.                                               *)
THEOREM ImplementsAccounting == Spec => AccountingSpec
<1>1. Init => Accounting!Init
  BY InitGood
<1>2. IInv /\ [Next]_vars => [Accounting!Next]_Accounting!vars
  BY StepKeeps DEF GoodStep, Accounted, Quiet, Accounting!vars, Done
<1> QED BY <1>1, <1>2, InvariantHolds, PTL DEF Spec, AccountingSpec, Accounting!Spec

(* So the worker's accounting is good in every state.                      *)
LEMMA AccountingHolds == Spec => []Acc!Inv
BY ImplementsAccounting, AccountingIsGood

-----------------------------------------------------------------------------
(* max_batch.                                                              *)

(* The batch is finite, and with the admitted sequences that have yet to   *)
(* join it never larger than max_batch.                                    *)
BatchInv == IsFiniteSet(running) /\ Taken <= MaxBatch

(* A batch that has lost some of its sequences, or none.                   *)
LEMMA SmallerBatch ==
    ASSUME BatchInv, NEW S, S \subseteq running
    PROVE  IsFiniteSet(S) /\ Cardinality(S) \in Nat /\ Cardinality(S) <= Cardinality(running)
           /\ Cardinality(running) \in Nat
  BY FS_Subset, FS_CardinalityType DEF BatchInv

(* Every step keeps it: admit() takes one only where there is room, and    *)
(* from there a sequence moves into the batch or is over.                  *)
LEMMA BatchKept == IInv /\ BatchInv /\ [Next]_vars => BatchInv'
<1> SUFFICES ASSUME IInv, BatchInv, [Next]_vars PROVE BatchInv'
  OBVIOUS
<1>0. /\ Len(admitted) \in Nat /\ next \in Nat /\ MaxBatch \in Nat /\ Cardinality(running) \in Nat
      /\ next <= Len(admitted) + 1 /\ admitted \in Seq(Seqs)
  BY SmallerBatch, BatchAssumption, LenProperties DEF IInv, CommonInv, CommonTypes, Control
<1>1. ASSUME UNCHANGED <<running, admitted, next>>
      PROVE  BatchInv'
  BY <1>1 DEF BatchInv, Taken
<1>2. CASE Environment /\ UNCHANGED loop
  BY <1>1, <1>2 DEF Environment, SubmitAccepted, SubmitRejected, RequestAbort, AdminAbortWaiting,
                    RequestStop, CancelTask, loop
<1>3. CASE Admission
  <2>1. CASE UNCHANGED admitted
    BY <1>1, <1>3, <2>1 DEF Admission, Admit, AdmitOne, AdmitRefused, AdmitDone, loop
  <2>2. CASE admitted' # admitted
    <3>1. PICK s \in Seqs : /\ admitted' = Append(admitted, s) /\ UNCHANGED <<running, next>>
                            /\ pc = "admit" /\ Room(running, admitted) > 0
      BY <1>3, <2>2, LenProperties
      DEF Admission, Admit, AdmitOne, AdmitRefused, AdmitDone, loop, Choosable, IInv, CommonInv, CommonTypes
    <3>2. Len(admitted') = Len(admitted) + 1 /\ next = 1
      BY <3>1, <1>0 DEF IInv, Control
    <3> QED BY <1>0, <3>1, <3>2 DEF BatchInv, Taken, Room
  <2> QED BY <2>1, <2>2
<1>4. CASE Each
  <2>1. UNCHANGED <<running, admitted>> /\ next' \in {next, next + 1}
    BY <1>4 DEF Each
  <2> QED BY <1>0, <2>1 DEF BatchInv, Taken
<1>5. CASE Resume
  <2>1. UNCHANGED admitted /\ next' = next + 1 /\ running' \in {running, running \cup {Cur}}
    BY <1>5 DEF Resume
  <2>2. IsFiniteSet(running') /\ Cardinality(running') <= Cardinality(running) + 1
        /\ Cardinality(running') \in Nat
    <3> DEFINE more == running \cup {Cur}
    <3>1. IsFiniteSet(running)
      BY DEF BatchInv
    <3>2. /\ IsFiniteSet(more)
          /\ Cardinality(more) = Cardinality(running) \/ Cardinality(more) = Cardinality(running) + 1
      BY <3>1, FS_AddElement
    <3> HIDE DEF more
    <3>3. running' = running \/ running' = more
      BY <2>1 DEF more
    <3> QED BY <1>0, <3>1, <3>2, <3>3
  <2> QED BY <1>0, <2>1, <2>2 DEF BatchInv, Taken
<1>6. CASE DropDone
  <2>1. running' \subseteq running /\ Len(admitted') = 0 /\ next' = 1
    BY <1>6 DEF DropDone
  <2>2. /\ IsFiniteSet(running') /\ Cardinality(running') \in Nat
        /\ Cardinality(running') <= Cardinality(running)
    BY <2>1, SmallerBatch
  <2>3. Cardinality(running) <= MaxBatch
    BY <1>0 DEF BatchInv, Taken
  <2> QED BY <1>0, <2>1, <2>2, <2>3 DEF BatchInv, Taken
<1>7. CASE FilterDone \/ LeftoversDone
  <2>1. running' \subseteq running /\ UNCHANGED <<admitted, next>>
    BY <1>7 DEF FilterDone, LeftoversDone
  <2> QED BY <1>0, <2>1, SmallerBatch DEF BatchInv, Taken
<1>8. CASE Top \/ Wake \/ EachDone \/ Yield \/ SweepDone \/ DecodeBatch \/ RowsDone \/ CancelledExit
  BY <1>1, <1>8 DEF Top, Wake, EachDone, Yield, SweepDone, DecodeBatch, RowsDone, CancelledExit, loop
<1>9. CASE PrefillAborted \/ PrefillStart \/ Store \/ FirstToken \/ Failure
  BY <1>1, <1>9 DEF PrefillAborted, PrefillStart, Store, InsertNext, InsertDone, FirstToken,
                    Failure, PrefillFails, RowRaises, loop
<1>10. CASE \E s \in Seqs : \/ Drop(s) \/ Sweep(s) \/ FailRow(s) \/ Row(s) \/ Filter(s)
                            \/ LeftoverRunning(s)
  BY <1>1, <1>10 DEF Drop, Sweep, FailRow, Row, Filter, LeftoverRunning
<1>11. CASE LeftoverWaiting /\ UNCHANGED loop
  BY <1>1, <1>11 DEF LeftoverWaiting, loop
<1>12. CASE UNCHANGED vars
  BY <1>1, <1>12 DEF vars, common, loop
<1> QED BY <1>2, <1>3, <1>4, <1>5, <1>6, <1>7, <1>8, <1>9, <1>10, <1>11, <1>12 DEF Next, Work, Ended

(* It holds in every state.                                                *)
LEMMA BatchHolds == Spec => []BatchInv
<1>1. Init => BatchInv
  <2> SUFFICES ASSUME Init PROVE BatchInv
    OBVIOUS
  <2>1. IsFiniteSet(running) /\ Cardinality(running) = 0
    BY FS_EmptySet DEF Init, InitCommon
  <2>2. Len(admitted) = 0 /\ next = 1
    BY DEF Init, InitCommon
  <2> QED BY <2>1, <2>2, BatchAssumption DEF BatchInv, Taken
<1> QED BY <1>1, BatchKept, InvariantHolds, PTL DEF Spec

(* Every variable keeps its type, the queue its capacity, and the batch,   *)
(* with what was admitted for it, the size max_batch.                      *)
THEOREM TypeCorrect == Spec => []TypeOK
<1>1. IInv /\ Acc!Inv /\ BatchInv => TypeOK
  <2> SUFFICES ASSUME IInv, Acc!Inv, BatchInv PROVE TypeOK
    OBVIOUS
  <2>1. kv \in KvType
    BY SameKvType DEF Acc!Inv, Acc!Good
  <2> QED BY <2>1 DEF IInv, CommonInv, CommonTypes, Control, BatchInv, TypeOK, TypeCommon
<1> QED BY <1>1, InvariantHolds, AccountingHolds, BatchHolds, PTL

(* A live sequence is in the queue, among the admitted, or in the batch,   *)
(* in one of them only and once.                                           *)
THEOREM AlwaysInOnePlace == Spec => []OnePlace
<1>1. IInv => OnePlace
  BY DEF IInv, CommonInv, QueueInv, Places, OnePlace, IsInjective
<1> QED BY <1>1, InvariantHolds, PTL

(* What is over stays over: no step of the loop, the thread or the         *)
(* handlers gives it another status, a token or blocks.                    *)
THEOREM EndedStaysEnded == Spec => OverIsFinal
<1>1. IInv /\ Acc!Inv /\ Acc!Inv' /\ [Next]_vars
        => [\A s \in Seqs : status[s] \in Over =>
              /\ status'[s] = status[s] /\ out'[s] = out[s]
              /\ kv'.alloc[s] = {}]_common
  <2> SUFFICES ASSUME IInv, Acc!Inv', [Next]_vars, NEW s \in Seqs, status[s] \in Over
               PROVE  status'[s] = status[s] /\ out'[s] = out[s] /\ kv'.alloc[s] = {}
    OBVIOUS
  <2>1. status'[s] = status[s] /\ out'[s] = out[s]
    BY StepKeeps DEF GoodStep, EndIsFinal, Done
  <2>2. s \notin Active'
    BY <2>1 DEF Active, Live, Over
  <2>3. \A b \in kv'.alloc[s] : s \in Active'
    BY DEF Acc!Inv, Acc!Good, Acc!Owners
  <2> QED BY <2>1, <2>2, <2>3
<1> QED BY <1>1, InvariantHolds, AccountingHolds, PTL DEF Spec, OverIsFinal

(* After the request to abort a sequence gets at most the token its        *)
(* prefill was computing.                                                  *)
THEOREM AbortedGetNoTokens == Spec => AbortStopsTokens
<1>1. IInv /\ [Next]_vars => [\A s \in Seqs : abort[s] /\ out'[s] # out[s] => out[s] = 0]_vars
  BY StepKeeps DEF GoodStep, TokensStop
<1> QED BY <1>1, InvariantHolds, PTL DEF Spec, AbortStopsTokens

(* The blocks of a sequence in the batch cover its prompt and the tokens   *)
(* it has, whatever prefix it took late and whatever it has adopted.       *)
THEOREM BlocksAlwaysCover == Spec => []BlocksCoverSequence
<1>1. Spec => [](\A s \in Active : Covers(s))
  BY ImplementsAccounting, ReservationsCover
<1>2. IInv /\ (\A s \in Active : Covers(s)) => BlocksCoverSequence
  <2> SUFFICES ASSUME IInv, NEW s \in Active, Covers(s), status[s] = "decoding"
               PROVE  SeqLen(s) <= RoomOf(s)
    BY DEF BlocksCoverSequence, RoomOf
  <2>1. s \in Seqs /\ out[s] <= MaxTokensOf[s]
    BY DEF Active, IInv, Lengths
  <2>2. out[s] \in Nat /\ MaxTokensOf[s] \in Nat /\ Len(PromptOf[s]) \in Nat
    BY <2>1, LengthAssumption, PromptAssumption DEF IInv, CommonInv, CommonTypes
  <2> QED BY <2>1, <2>2 DEF Covers, ReservationTokens, SeqLen
<1> QED BY <1>1, <1>2, InvariantHolds, PTL

(* The worker keeps the promise of BlockLedger to every request it serves. *)
THEOREM ImplementsLedger == Spec => Acc!LedgerSpec
BY ImplementsAccounting, AccountingIsLedger

(* When no request is being served the whole pool is free, after any       *)
(* finishes, aborts, errors, hits and evictions.                           *)
THEOREM IdlePoolIsFree == Spec => [](Active = {} => kv.free = Blocks)
<1>1. Spec => []Acc!NoLeak
  BY ImplementsAccounting, TheoremsApply, Acc!NothingLeaks,
     BlocksAssumption, BlockSizeAssumption, SeqsAssumption, PromptAssumption,
     LengthAssumption, MinAssumption, EntriesAssumption, CacheAssumption
  DEF IsFiniteSet, Acc!IsFiniteSet
<1>2. Acc!NoLeak => (Active = {} => kv.free = Blocks)
  BY DEF Acc!NoLeak
<1> QED BY <1>1, <1>2, PTL

-----------------------------------------------------------------------------
(* Where run() sleeps or has ended.                                        *)

(* The batch is empty there, too.                                          *)
RestInv == LoopInv /\ (pc \in {"wait", "stopped"} => running = {})

(* Every step keeps it.                                                    *)
LEMMA RestKept == IInv /\ RestInv /\ [Next]_vars => RestInv'
<1> SUFFICES ASSUME IInv, RestInv, [Next]_vars PROVE RestInv'
  OBVIOUS
<1>0. CommonInv /\ LoopInv
  BY DEF IInv, RestInv
<1>1. ASSUME UNCHANGED <<queue, event, stop, running>>, pc' = pc \/ pc' \notin {"wait", "leftovers", "stopped"}
      PROVE  RestInv'
  BY <1>1 DEF RestInv, LoopInv, EventTells
<1>2. CASE Environment \/ Admission \/ LeftoverWaiting
  <2>1. LoopInv'
    BY <1>0, <1>2, QueueStepsKeepLoopInv DEF Admission
  <2>2. running' = running /\ (pc' \in {"wait", "stopped"} => pc' = pc)
    BY <1>2 DEF Environment, SubmitAccepted, SubmitRejected, RequestAbort, AdminAbortWaiting,
                RequestStop, CancelTask, Admission, Admit, AdmitOne, AdmitRefused, AdmitDone,
                LeftoverWaiting, SetEvent, Goto
  <2> QED BY <2>1, <2>2 DEF RestInv
<1>3. CASE Top \/ Wake
  BY <1>3 DEF Top, Wake, Goto, qvars, life, RestInv, LoopInv, EventTells
<1>4. CASE DropDone \/ FilterDone \/ LeftoversDone \/ Resume
  BY <1>4 DEF DropDone, FilterDone, LeftoversDone, Resume, Goto, qvars, life,
              RestInv, LoopInv, EventTells
<1>5. CASE Each \/ EachDone \/ Yield \/ SweepDone \/ DecodeBatch \/ RowsDone \/ CancelledExit
  BY <1>1, <1>5 DEF Each, EachDone, Yield, SweepDone, DecodeBatch, RowsDone, CancelledExit,
                    Goto, qvars, life
<1>6. CASE PrefillAborted \/ PrefillStart \/ Store \/ FirstToken \/ Failure
  BY <1>1, <1>6 DEF PrefillAborted, PrefillStart, Store, InsertNext, InsertDone, FirstToken,
                    Failure, PrefillFails, RowRaises, Goto, qvars, life
<1>7. CASE \E s \in Seqs : \/ Drop(s) \/ Sweep(s) \/ FailRow(s) \/ Row(s) \/ Filter(s)
                           \/ LeftoverRunning(s)
  BY <1>1, <1>7 DEF Drop, Sweep, FailRow, Row, Filter, LeftoverRunning, qvars, life
<1>8. CASE UNCHANGED vars
  BY <1>1, <1>8 DEF vars, common, qvars, life
<1> QED BY <1>2, <1>3, <1>4, <1>5, <1>6, <1>7, <1>8 DEF Next, Work, Ended

(* It holds in every state.                                                *)
LEMMA RestHolds == Spec => []RestInv
<1>1. Init => RestInv
  BY DEF Init, InitCommon, RestInv, LoopInv, EventTells
<1> QED BY <1>1, RestKept, InvariantHolds, PTL DEF Spec

(* At rest nobody is being served.                                         *)
LEMMA AtRestNobody ==
    ASSUME IInv, RestInv, pc \in {"wait", "stopped"}
    PROVE  queue = << >> /\ \A s \in Seqs : status[s] \notin Live
<1>1. queue = << >> /\ running = {}
  BY DEF RestInv, LoopInv
<1>2. Waiting = {}
  BY <1>1 DEF Waiting
<1>3. Pending = {}
  <2>1. next = Len(admitted) + 1 /\ Len(admitted) \in Nat
    BY LenProperties DEF IInv, Control, InHand, CommonInv, CommonTypes
  <2> QED BY <2>1, PendingSplits
<1> QED BY <1>1, <1>2, <1>3 DEF IInv, Places

(* No wakeup is lost: run() sleeps only while nobody waits and no stop is  *)
(* asked for, and it sleeps with nobody in hand and the whole pool free.   *)
THEOREM AsleepIsIdle ==
    Spec => [](pc = "wait" => /\ queue = << >> /\ ~event /\ ~stop
                              /\ \A s \in Seqs : status[s] \notin Live
                              /\ kv.free = Blocks)
<1>1. IInv /\ RestInv /\ (Active = {} => kv.free = Blocks)
        => (pc = "wait" => /\ queue = << >> /\ ~event /\ ~stop
                           /\ \A s \in Seqs : status[s] \notin Live
                           /\ kv.free = Blocks)
  BY AtRestNobody DEF RestInv, LoopInv, Active
<1> QED BY <1>1, InvariantHolds, RestHolds, IdlePoolIsFree, PTL

(* When run() has ended on a stop, not by cancellation, every request that *)
(* was accepted is over and every block is back: the safety half of        *)
(* ShutdownDrains.                                                         *)
THEOREM StoppedIsDrained ==
    Spec => [](pc = "stopped" => /\ stop /\ queue = << >>
                                 /\ \A s \in Seqs : status[s] \notin Live
                                 /\ kv.free = Blocks)
<1>1. IInv /\ RestInv /\ (Active = {} => kv.free = Blocks)
        => (pc = "stopped" => /\ stop /\ queue = << >>
                              /\ \A s \in Seqs : status[s] \notin Live
                              /\ kv.free = Blocks)
  BY AtRestNobody DEF RestInv, LoopInv, Active
<1> QED BY <1>1, InvariantHolds, RestHolds, IdlePoolIsFree, PTL
=============================================================================
