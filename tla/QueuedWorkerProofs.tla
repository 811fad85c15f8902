------------------------- MODULE QueuedWorkerProofs --------------------------
(***************************************************************************)
(* Proofs about QueuedWorker: it never has two sequences in hand, it uses  *)
(* the pool and the cache as KvAccounting allows, what is over stays over, *)
(* under fcfs nobody overtakes, it sleeps only when there is nothing to    *)
(* do, and no failing request ends it.                                     *)
(*                                                                         *)
(* All follow from the inductive invariant IInv, which says whom the loop  *)
(* has in hand at each of its places.  A step keeps it, and is a step of   *)
(* KvAccounting or none: GoodStep.                                         *)
(***************************************************************************)
EXTENDS QueuedWorker, WorkerCommonProofs, FiniteSetTheorems

(* The thread has a sequence, or run() is to handle its exception.         *)
Holding == {"prefill", "insert", "sample", "check", "decode", "raised"}

(* Whom run() has in hand.  A task that dies at its await may leave the    *)
(* sequence behind.                                                        *)
InHand ==
    /\ Len(admitted) <= 1
    /\ pc \in {"admit", "each"} => /\ Active = ToSet(admitted)
                                   /\ \A s \in Active : status[s] = "waiting"
    /\ pc \in Holding => admitted # << >> /\ Active = {Cur} /\ status[Cur] = "decoding"
    /\ pc = "dead" => Active = {} \/ (admitted # << >> /\ Active = {Cur})
    /\ pc \notin Holding \cup {"admit", "each", "dead"} => Active = {}

Control == pc \in Pcs /\ (pc = "insert" => cands \subseteq CandidateLengths(Cur))

(* The inductive invariant.                                                *)
IInv == CommonInv /\ Control /\ InHand

(* What every step does besides keeping the invariant: the accounting      *)
(* changes as KvAccounting allows, and nothing that is over changes.       *)
Accounted  == Accounting!Next \/ Quiet
EndIsFinal == \A s \in Done : status'[s] = status[s] /\ out'[s] = out[s]
GoodStep   == IInv' /\ Accounted /\ EndIsFinal

-----------------------------------------------------------------------------
(* The one sequence in hand.                                               *)
LEMMA CurIsActive ==
    ASSUME IInv, pc \in Holding \/ (pc = "each" /\ admitted # << >>)
    PROVE  /\ Cur \in Seqs /\ Cur \notin Waiting /\ status[Cur] \in Live
           /\ admitted = <<Cur>> /\ Active = {Cur}
<1>1. admitted \in Seq(Seqs) /\ Len(admitted) <= 1 /\ admitted # << >>
  BY DEF IInv, InHand, CommonInv, CommonTypes, Holding
<1>2. Len(admitted) = 1
  <2>1. Len(admitted) \in Nat /\ Len(admitted) # 0
    <3>1. Len(admitted) \in Nat
      BY <1>1, LenProperties
    <3>2. Len(admitted) = 0 => admitted = << >>
      BY <1>1, EmptySeq
    <3> QED BY <1>1, <3>1, <3>2
  <2> QED BY <1>1, <2>1
<1>3. admitted = <<Cur>>
  <2>1. DOMAIN admitted = 1 .. 1 /\ DOMAIN <<Cur>> = 1 .. 1
    BY <1>1, <1>2, LenProperties
  <2> QED BY <1>1, <1>2, <2>1 DEF Cur
<1>4. ToSet(admitted) = {Cur}
  BY <1>3 DEF ToSet
<1>5. Active = {Cur}
  BY <1>4 DEF IInv, InHand
<1> QED BY <1>3, <1>5 DEF Active

(* The initial state.                                                      *)
LEMMA InitGood == Init => IInv /\ Accounting!Init
<1> SUFFICES ASSUME Init PROVE IInv /\ Accounting!Init
  OBVIOUS
<1>1. CommonInv
  BY InitCommonInv DEF Init
<1>2. Active = {} /\ Done = {}
  BY DEF Init, InitCommon, Active, Done, Live, Over
<1>3. Control /\ InHand
  BY <1>2 DEF Init, InitCommon, Control, InHand, Pcs, LoopPcs, Holding
<1>4. Accounting!Init
  BY <1>2, SameOperators DEF Init, InitCommon, Accounting!Init, Done
<1> QED BY <1>1, <1>3, <1>4 DEF IInv

(* A step that changes neither a sequence nor the accounting: only where   *)
(* run() is, and the list it has in hand.                                  *)
LEMMA MoveKeeps ==
    ASSUME IInv, UNCHANGED <<kv, queue, status, out>>, CommonTypes', Control', InHand'
    PROVE  GoodStep
<1>1. Tokenless'
  BY DEF IInv, CommonInv, Tokenless
<1>2. CommonInv' /\ Quiet
  BY <1>1, FlagsKeep DEF IInv
<1>3. EndIsFinal
  BY DEF EndIsFinal
<1> QED BY <1>2, <1>3 DEF GoodStep, IInv, Accounted

(* run() between two sequences, where nobody is in hand.                   *)
LEMMA EmptyHandedKeeps ==
    ASSUME IInv, UNCHANGED <<kv, queue, event, status, out, abort, stop, policy>>,
           cancelled' \in BOOLEAN, cands' = cands, running' \subseteq Seqs,
           Active = {}, pc' \in Pcs \ (Holding \cup {"admit", "each"}), admitted' = admitted
    PROVE  GoodStep
<1>1. CommonTypes'
  BY DEF IInv, CommonInv, CommonTypes
<1>2. Active' = {}
  BY DEF Active, Waiting
<1>3. Control' /\ InHand'
  BY <1>2 DEF IInv, Control, InHand, Holding
<1> QED BY <1>1, <1>3, MoveKeeps

(* The loop of run() without a sequence in hand.                           *)
LEMMA LoopKeeps ==
    ASSUME IInv,
           \/ Top \/ Wake \/ NothingAdmitted \/ Yield \/ Resume \/ LeftoversDone
    PROVE  GoodStep
<1>0. admitted \in Seq(Seqs) /\ cancelled \in BOOLEAN /\ running \subseteq Seqs
  BY DEF IInv, CommonInv, CommonTypes
<1> USE DEF Goto, qvars, reqs, life
<1>1. ASSUME pc \in {"top", "woken"}, pc' = "admit", admitted' = << >>,
             UNCHANGED <<kv, queue, event, status, out, abort, running, cands, stop, cancelled, policy>>
      PROVE  GoodStep
  <2>1. CommonTypes'
    BY <1>1, EmptySeq DEF IInv, CommonInv, CommonTypes
  <2>2. Active' = {} /\ ToSet(admitted') = {}
    BY <1>1 DEF Active, Waiting, IInv, InHand, Holding, ToSet
  <2>3. Control' /\ InHand'
    BY <1>1, <2>2 DEF IInv, Control, InHand, Holding, Pcs, LoopPcs
  <2> QED BY <1>1, <2>1, <2>3, MoveKeeps
<1>2. CASE Top
  <2>1. Active = {}
    BY <1>2 DEF Top, IInv, InHand, Holding
  <2>2. CASE pc' = "admit"
    BY <1>1, <1>2, <2>2 DEF Top
  <2>3. CASE pc' \in {"leftovers", "woken", "wait"} /\ admitted' = admitted
    BY <1>0, <1>2, <2>1, <2>3, EmptyHandedKeeps DEF Top, Pcs, LoopPcs, Holding
  <2> QED BY <1>2, <2>2, <2>3 DEF Top
<1>3. CASE Wake
  <2>1. CASE pc' = "admit"
    BY <1>1, <1>3, <2>1 DEF Wake
  <2>2. CASE pc' = "leftovers"
    <3>1. CommonTypes'
      BY <1>3, EmptySeq DEF Wake, IInv, CommonInv, CommonTypes
    <3>2. Active' = {}
      BY <1>3 DEF Wake, Active, Waiting, IInv, InHand, Holding
    <3>3. Control' /\ InHand'
      BY <1>3, <2>2, <3>2 DEF Wake, IInv, Control, InHand, Holding, Pcs, LoopPcs
    <3> QED BY <1>3, <3>1, <3>3, MoveKeeps DEF Wake
  <2> QED BY <1>3, <2>1, <2>2 DEF Wake
<1>4. CASE NothingAdmitted
  <2>1. Active = {}
    BY <1>4 DEF NothingAdmitted, IInv, InHand, ToSet
  <2> QED BY <1>0, <1>4, <2>1, EmptyHandedKeeps DEF NothingAdmitted, Pcs, LoopPcs, Holding
<1>5. CASE Yield \/ Resume \/ LeftoversDone
  <2>1. Active = {}
    BY <1>5 DEF Yield, Resume, LeftoversDone, IInv, InHand, Holding
  <2> QED BY <1>0, <1>5, <2>1, EmptyHandedKeeps
          DEF Yield, Resume, LeftoversDone, Pcs, LoopPcs, Holding
<1> QED BY <1>2, <1>3, <1>4, <1>5

-----------------------------------------------------------------------------
(* Scheduler.admit with room for one.                                      *)
LEMMA AdmissionKeeps == IInv /\ Admission => GoodStep
<1> SUFFICES ASSUME IInv, Admission PROVE GoodStep
  OBVIOUS
<1>0. /\ CommonInv /\ pc = "admit" /\ Active = ToSet(admitted)
      /\ \A s \in Active : status[s] = "waiting"
      /\ admitted \in Seq(Seqs) /\ Len(admitted) <= 1 /\ Len(admitted) \in Nat
  BY LenProperties
  DEF IInv, InHand, CommonInv, CommonTypes, Admission, Admit, AdmitOne, AdmitRefused, AdmitDone
<1>1. PICK room : room = RoomOfOne(admitted)
  OBVIOUS
<1>2. CASE AdmitOne(room)
  <2>1. PICK s \in Waiting : /\ CommonInv' /\ Accounting!Admit(s) /\ s \in Seqs
                             /\ Waiting' = Waiting \ {s} /\ admitted' = Append(admitted, s)
    BY <1>0, <1>2, AdmitOneKeeps
  <2>2. Len(admitted) = 0 /\ admitted = << >>
    BY <1>0, <1>1, <1>2, EmptySeq DEF AdmitOne, RoomOfOne
  <2>3. admitted' = <<s>>
    BY <2>1, <2>2
  <2>4. ToSet(admitted') = {s} /\ Len(admitted') = 1
    BY <2>3 DEF ToSet
  <2>5. status' = status /\ out' = out /\ pc' = pc
    BY <1>2 DEF AdmitOne, reqs
  <2>6. Active = {} /\ status[s] = "waiting"
    BY <1>0, <2>1, <2>2 DEF ToSet, CommonInv, QueueInv
  <2>7. Active' = {s}
    BY <2>1, <2>5, <2>6 DEF Active, Live
  <2>8. InHand' /\ Control' /\ EndIsFinal
    BY <1>0, <2>4, <2>5, <2>6, <2>7 DEF IInv, InHand, Control, Holding, EndIsFinal, Pcs, LoopPcs
  <2>9. Accounted
    BY <2>1 DEF Accounted, Accounting!Next
  <2> QED BY <2>1, <2>8, <2>9 DEF GoodStep, IInv
<1>3. CASE AdmitRefused(room)
  <2>1. PICK s \in Seqs : CommonInv' /\ Accounting!Refuse(s) /\ Waiting' = Waiting
    BY <1>0, <1>3, AdmitRefusedKeeps
  <2>2. UNCHANGED <<status, out, admitted>> /\ pc' = "each"
    BY <1>3 DEF AdmitRefused, reqs, Goto
  <2>3. Active' = Active
    BY <2>1, <2>2 DEF Active
  <2>4. InHand' /\ Control' /\ EndIsFinal
    BY <1>0, <2>2, <2>3 DEF IInv, InHand, Control, Holding, EndIsFinal, Pcs, LoopPcs
  <2>5. Accounted
    BY <2>1 DEF Accounted, Accounting!Next
  <2> QED BY <2>1, <2>4, <2>5 DEF GoodStep, IInv
<1>4. CASE AdmitDone(room)
  <2>1. CommonInv' /\ Quiet /\ Waiting' = Waiting
    BY <1>0, <1>4, AdmitDoneKeeps
  <2>2. UNCHANGED <<status, out, admitted>> /\ pc' = "each"
    BY <1>4 DEF AdmitDone, reqs, Goto
  <2>3. Active' = Active
    BY <2>1, <2>2 DEF Active
  <2>4. InHand' /\ Control' /\ EndIsFinal
    BY <1>0, <2>2, <2>3 DEF IInv, InHand, Control, Holding, EndIsFinal, Pcs, LoopPcs
  <2> QED BY <2>1, <2>4 DEF GoodStep, IInv, Accounted
<1> QED BY <1>1, <1>2, <1>3, <1>4 DEF Admission, Admit

-----------------------------------------------------------------------------
(* A step that ends the sequence in hand: it is released once, and run()   *)
(* has nobody in hand when it is back at its loop.                         *)
LEMMA EndCurKeeps ==
    ASSUME IInv, pc \in Holding \/ (pc = "each" /\ admitted # << >>),
           \E final \in Over : status' = [status EXCEPT ![Cur] = final],
           kv' = ReleaseSeq(kv, Cur), UNCHANGED out \/ NoteToken(Cur),
           UNCHANGED <<qvars, abort, admitted, cands, life>>, running' \subseteq Seqs,
           pc' \in {"top", "resume"}
    PROVE  GoodStep
<1>0. PICK s : s = Cur
  OBVIOUS
<1>1. /\ s \in Seqs /\ s \notin Waiting /\ status[s] \in Live
      /\ Active = {s}
  BY <1>0, CurIsActive
<1>2. PICK final \in Over : status' = [status EXCEPT ![s] = final]
  BY <1>0
<1>3. /\ queue' = queue /\ Waiting' = Waiting /\ kv' = ReleaseSeq(kv, s)
      /\ status \in [Seqs -> Live \cup Over \cup {"new", "rejected"}]
      /\ out \in [Seqs -> Nat] /\ CommonInv
      /\ UNCHANGED out \/ NoteToken(s)
  BY <1>0 DEF qvars, Waiting, IInv, CommonInv, CommonTypes
<1>4. out' \in [Seqs -> Nat] /\ \A t \in Seqs \ {s} : out'[t] = out[t]
  BY <1>1, <1>3 DEF NoteToken
<1>5. End(s, final)
  BY <1>2, <1>3 DEF End
<1>6. Accounting!Retire(s) /\ Active' = Active \ {s}
  BY <1>1, <1>3, <1>4, <1>5, EndRetires
<1>7. CommonTypes'
  BY <1>2, <1>3, <1>4 DEF IInv, CommonInv, CommonTypes, qvars, life, Over
<1>8. QueueInv'
  <2>1. \A t \in Waiting : t # s /\ status'[t] = status[t]
    BY <1>1, <1>2, <1>3, WaitingAreSequences DEF CommonInv
  <2> QED BY <1>3, <2>1 DEF CommonInv, QueueInv
<1>9. Tokenless'
  <2>1. status'[s] = final /\ \A t \in Seqs \ {s} : status'[t] = status[t]
    BY <1>1, <1>2, <1>3
  <2> QED BY <1>2, <1>3, <1>4, <2>1 DEF CommonInv, Tokenless, Over
<1>10. Control' /\ InHand'
  <2>1. Active' = {}
    BY <1>1, <1>6
  <2> QED BY <2>1 DEF IInv, Control, InHand, Holding, Pcs, LoopPcs
<1>11. EndIsFinal
  BY <1>1, <1>2, <1>3, <1>4 DEF EndIsFinal, Done, Live, Over
<1>12. Accounted
  BY <1>1, <1>6 DEF Accounted, Accounting!Next
<1> QED BY <1>7, <1>8, <1>9, <1>10, <1>11, <1>12 DEF GoodStep, IInv, CommonInv

(* A step of the thread that goes on with the sequence in hand, noting a   *)
(* token perhaps, or using the pool on its behalf.                         *)
LEMMA GoOnKeeps ==
    ASSUME IInv, pc \in Holding, pc' \in Holding,
           UNCHANGED <<qvars, status, abort, admitted, life>>,
           running' \subseteq Seqs, UNCHANGED out \/ NoteToken(Cur),
           cands' \subseteq Nat, pc' = "insert" => cands' \subseteq CandidateLengths(Cur),
           \/ UNCHANGED kv
           \/ kv' \in LateBind(kv, Cur)
           \/ \E n \in CandidateLengths(Cur) : kv' \in Insert(kv, Cur, n)
           \/ kv' \in Adopt(kv, Cur)
    PROVE  GoodStep
<1>0. PICK s : s = Cur
  OBVIOUS
<1>1. /\ s \in Seqs /\ s \notin Waiting /\ Active = {s} /\ status[s] = "decoding"
      /\ s \in Active
  BY <1>0, CurIsActive DEF IInv, InHand
<1>2. /\ queue' = queue /\ Waiting' = Waiting /\ Active' = Active /\ Done' = Done
      /\ out \in [Seqs -> Nat] /\ CommonInv
  BY DEF qvars, Waiting, Active, Done, IInv, CommonInv, CommonTypes
<1>3. out' \in [Seqs -> Nat] /\ \A t \in Seqs \ {s} : out'[t] = out[t]
  BY <1>0, <1>1, <1>2 DEF NoteToken
<1>4. CommonTypes' /\ QueueInv'
  BY <1>2, <1>3 DEF CommonInv, CommonTypes, QueueInv, qvars, life
<1>5. Tokenless'
  BY <1>1, <1>2, <1>3 DEF CommonInv, Tokenless
<1>6. Cur' = Cur
  BY DEF Cur
<1>7. Control' /\ InHand'
  BY <1>0, <1>1, <1>2, <1>6 DEF IInv, Control, InHand, Holding, Pcs, CandidateLengths
<1>8. EndIsFinal
  BY <1>1, <1>3 DEF EndIsFinal, Done, Over
<1>9. Accounted
  <2>1. CASE UNCHANGED kv
    BY <1>2, <2>1 DEF Accounted, Quiet
  <2>2. CASE kv' \in LateBind(kv, Cur)
    <3>1. Accounting!Bind(s)
      BY <1>0, <1>1, <1>2, <2>2, SameOperators DEF Accounting!Bind, Done
    <3> QED BY <1>1, <3>1 DEF Accounted, Accounting!Next
  <2>3. CASE \E n \in CandidateLengths(Cur) : kv' \in Insert(kv, Cur, n)
    <3>1. Accounting!Store(s)
      BY <1>0, <1>1, <1>2, <2>3, SameOperators DEF Accounting!Store, Done
    <3> QED BY <1>1, <3>1 DEF Accounted, Accounting!Next
  <2>4. CASE kv' \in Adopt(kv, Cur)
    <3>1. Accounting!AdoptEntry(s)
      BY <1>0, <1>1, <1>2, <2>4, SameOperators DEF Accounting!AdoptEntry, Done
    <3> QED BY <1>1, <3>1 DEF Accounted, Accounting!Next
  <2> QED BY <2>1, <2>2, <2>3, <2>4
<1> QED BY <1>4, <1>5, <1>7, <1>8, <1>9 DEF GoodStep, IInv, CommonInv

(* The head of _run_one, or of an aborted sequence's end.                  *)
LEMMA StartKeeps ==
    ASSUME IInv, Start \/ AdmittedAborted
    PROVE  GoodStep
<1>0. running \subseteq Seqs
  BY DEF IInv, CommonInv, CommonTypes
<1>1. CASE AdmittedAborted
  BY <1>0, <1>1, EndCurKeeps DEF AdmittedAborted, Goto, End, Over
<1>2. CASE Start
  <2>1. /\ Cur \in Seqs /\ Cur \notin Waiting /\ Active = {Cur} /\ Cur \in Active
        /\ admitted # << >> /\ pc = "each"
    BY <1>2, CurIsActive DEF Start
  <2>2. /\ status' = [status EXCEPT ![Cur] = "decoding"] /\ status[Cur] = "waiting"
        /\ status \in [Seqs -> Live \cup Over \cup {"new", "rejected"}]
        /\ UNCHANGED <<kv, queue, event, out, abort, admitted, cands, stop, cancelled, policy>>
        /\ running' = {Cur} /\ pc' = "prefill" /\ Waiting' = Waiting
    BY <1>2, <2>1 DEF Start, Goto, IInv, InHand, CommonInv, CommonTypes, qvars, life, Waiting
  <2>3. CommonTypes'
    BY <2>1, <2>2 DEF IInv, CommonInv, CommonTypes, Live
  <2>4. QueueInv'
    <3>1. \A s \in Waiting : s # Cur /\ status'[s] = status[s]
      BY <2>1, <2>2, WaitingAreSequences DEF IInv, CommonInv
    <3> QED BY <2>2, <3>1 DEF IInv, CommonInv, QueueInv
  <2>5. Tokenless'
    BY <2>1, <2>2 DEF IInv, CommonInv, Tokenless
  <2>6. Active' = {Cur} /\ Done' = Done
    BY <2>1, <2>2 DEF Active, Done, Live, Over
  <2>7. status'[Cur] = "decoding" /\ Cur' = Cur
    BY <2>1, <2>2 DEF Cur
  <2>8. Control' /\ InHand'
    BY <2>1, <2>2, <2>6, <2>7 DEF IInv, Control, InHand, Holding, Pcs
  <2>9. EndIsFinal
    BY <2>1, <2>2 DEF EndIsFinal, Done, Over
  <2> QED BY <2>1, <2>2, <2>3, <2>4, <2>5, <2>6, <2>8, <2>9
          DEF GoodStep, IInv, CommonInv, Accounted, Quiet
<1> QED BY <1>1, <1>2

(* The thread: _run_one to its end, and the exception handler of run().    *)
LEMMA ThreadKeeps ==
    ASSUME IInv, Prefill \/ Store \/ FirstToken \/ Check \/ Decode \/ Raise \/ Handle
    PROVE  GoodStep
<1>0. running \subseteq Seqs /\ cands \subseteq Nat
  BY DEF IInv, CommonInv, CommonTypes
<1>1. \A n \in CandidateLengths(Cur) : n \in Nat
  BY MinAssumption DEF CandidateLengths
<1> USE DEF Goto, reqs, Holding
<1>2. CASE Prefill
  BY <1>0, <1>1, <1>2, GoOnKeeps DEF Prefill
<1>3. CASE InsertNext(Cur)
  <2>1. pc = "insert" /\ cands \subseteq CandidateLengths(Cur)
    BY <1>3 DEF InsertNext, IInv, Control
  <2>2. /\ cands' \subseteq cands
        /\ \E n \in CandidateLengths(Cur) : kv' \in Insert(kv, Cur, n)
    BY <1>3, <2>1 DEF InsertNext
  <2> QED BY <1>0, <1>3, <2>1, <2>2, GoOnKeeps DEF InsertNext
<1>4. CASE InsertDone(Cur)
  BY <1>0, <1>4, GoOnKeeps DEF InsertDone
<1>5. CASE FirstToken
  <2>2. CASE pc' = "resume"
    BY <1>0, <1>5, <2>2, EndCurKeeps DEF FirstToken, End, Over
  <2>3. CASE pc' = "check" /\ UNCHANGED <<kv, status>>
    BY <1>0, <1>5, <2>3, GoOnKeeps DEF FirstToken
  <2> QED BY <1>5, <2>2, <2>3 DEF FirstToken
<1>6. CASE Check
  <2>2. CASE abort[Cur]
    BY <1>0, <1>6, <2>2, EndCurKeeps DEF Check, End, Over
  <2>3. CASE ~abort[Cur]
    BY <1>0, <1>6, <2>3, GoOnKeeps DEF Check
  <2> QED BY <2>2, <2>3
<1>7. CASE Decode
  <2>2. CASE pc' = "resume" /\ End(Cur, "finished")
    BY <1>0, <1>7, <2>2, EndCurKeeps DEF Decode, End, Over
  <2>3. CASE pc' = "check" /\ UNCHANGED <<kv, status>>
    BY <1>0, <1>7, <2>3, GoOnKeeps DEF Decode
  <2> QED BY <1>7, <2>2, <2>3 DEF Decode
<1>8. CASE Raise
  BY <1>0, <1>8, GoOnKeeps DEF Raise
<1>9. CASE Handle
  BY <1>9, EndCurKeeps DEF Handle, End, Over
<1> QED BY <1>2, <1>3, <1>4, <1>5, <1>6, <1>7, <1>8, <1>9 DEF Store

(* A task that is cancelled ends where it waits, and the thread runs on.   *)
LEMMA CancelledKeeps ==
    ASSUME IInv, CancelledExit \/ CancelledInThread
    PROVE  GoodStep
<1>1. /\ UNCHANGED <<kv, queue, event, status, out, abort, admitted, cands, stop, cancelled, policy>>
      /\ running' = {}
  BY DEF CancelledExit, CancelledInThread, qvars, reqs, life
<1>2. CommonTypes'
  BY <1>1 DEF IInv, CommonInv, CommonTypes
<1>3. Active' = Active /\ Cur' = Cur
  BY <1>1 DEF Active, Waiting, Cur
<1>4. Control' /\ InHand'
  <2>1. CASE CancelledExit
    <3>1. pc' = "dead" /\ pc \in {"wait", "woken", "yield", "resume", "raised"}
      BY <2>1 DEF CancelledExit, Goto
    <3>2. Active = {} \/ (admitted # << >> /\ Active = {Cur})
      BY <3>1 DEF IInv, InHand, Holding
    <3> QED BY <1>1, <1>3, <3>1, <3>2 DEF IInv, Control, InHand, Pcs, Holding
  <2>2. CASE CancelledInThread
    BY <1>1, <1>3, <2>2 DEF CancelledInThread, IInv, Control, InHand
  <2> QED BY <2>1, <2>2
<1> QED BY <1>1, <1>2, <1>4, MoveKeeps

-----------------------------------------------------------------------------
(* The handlers run while run() waits: they change the queue and flags,    *)
(* never the sequence in hand.                                             *)
LEMMA HandlersKeep ==
    ASSUME IInv, Environment \/ LeftoverWaiting
    PROVE  GoodStep
<1>0. CommonInv /\ status \in [Seqs -> Live \cup Over \cup {"new", "rejected"}]
  BY DEF IInv, CommonInv, CommonTypes
(* What they have in common.                                               *)
<1>1. ASSUME CommonInv', UNCHANGED <<admitted, cands>>, Active' = Active,
             pc' = pc \/ (pc = "wait" /\ pc' = "woken"),
             \A s \in Active : status'[s] = status[s]
      PROVE  IInv'
  <2>1. Cur' = Cur
    BY <1>1 DEF Cur
  <2>2. Control'
    BY <1>1, <2>1 DEF IInv, Control, Pcs, CandidateLengths
  <2>3. InHand'
    <3>1. CASE pc' = pc
      <4>1. pc \in Holding => Cur \in Active
        BY DEF IInv, InHand
      <4> QED BY <1>1, <2>1, <3>1, <4>1 DEF IInv, InHand
    <3>2. CASE pc = "wait" /\ pc' = "woken"
      BY <1>1, <2>1, <3>2 DEF IInv, InHand, Holding
    <3> QED BY <1>1, <3>1, <3>2
  <2> QED BY <1>1, <2>2, <2>3 DEF IInv
<1> USE DEF SetEvent, Goto, qvars, reqs, life
<1>2. ASSUME NEW s \in Seqs, SubmitAccepted(s)
      PROVE  GoodStep
  <2>1. CommonInv' /\ Quiet
    BY <1>0, <1>2, SubmitAcceptedKeeps
  <2>2. /\ status' = [status EXCEPT ![s] = "waiting"] /\ status[s] = "new"
        /\ UNCHANGED <<out, admitted, cands>>
        /\ pc' = pc \/ (pc = "wait" /\ pc' = "woken")
    BY <1>2 DEF SubmitAccepted
  <2>3. s \notin Active /\ s \notin Done
    BY <2>2 DEF Active, Done, Live, Over
  <2>4. \A t \in Active \cup Done : status'[t] = status[t]
    BY <2>2, <2>3 DEF Active, Done
  <2>5. IInv'
    BY <1>1, <2>1, <2>2, <2>4 DEF Quiet
  <2> QED BY <2>1, <2>2, <2>4, <2>5 DEF GoodStep, Accounted, EndIsFinal
<1>3. ASSUME NEW s \in Seqs, SubmitRejected(s)
      PROVE  GoodStep
  <2>1. CommonInv' /\ Quiet
    BY <1>0, <1>3, SubmitRejectedKeeps
  <2>2. /\ status' = [status EXCEPT ![s] = "rejected"] /\ status[s] = "new"
        /\ UNCHANGED <<out, admitted, cands, pc>>
    BY <1>3 DEF SubmitRejected
  <2>3. s \notin Active /\ s \notin Done
    BY <2>2 DEF Active, Done, Live, Over
  <2>4. \A t \in Active \cup Done : status'[t] = status[t]
    BY <2>2, <2>3 DEF Active, Done
  <2>5. IInv'
    BY <1>1, <2>1, <2>2, <2>4 DEF Quiet
  <2> QED BY <2>1, <2>2, <2>4, <2>5 DEF GoodStep, Accounted, EndIsFinal
<1>4. ASSUME (\E s \in Seqs : RequestAbort(s)) \/ RequestStop \/ CancelTask
      PROVE  GoodStep
  <2>1. CommonInv' /\ Quiet
    BY <1>0, <1>4, RequestAbortKeeps, ShutdownKeeps
  <2>2. /\ UNCHANGED <<status, out, admitted, cands>>
        /\ pc' = pc \/ (pc = "wait" /\ pc' = "woken")
    BY <1>4 DEF RequestAbort, RequestStop, CancelTask
  <2>3. IInv'
    BY <1>1, <2>1, <2>2 DEF Quiet
  <2> QED BY <2>1, <2>2, <2>3 DEF GoodStep, Accounted, EndIsFinal
<1>5. ASSUME NEW s \in Seqs, CommonInv', Accounting!Retire(s), s \in Waiting, Waiting' = Waiting \ {s},
             End(s, "aborted"), UNCHANGED <<out, admitted, cands, pc>>
      PROVE  GoodStep
  <2>1. status' = [status EXCEPT ![s] = "aborted"] /\ status[s] = "waiting"
    BY <1>0, <1>5 DEF End, CommonInv, QueueInv
  <2>2. s \notin Active /\ s \notin Done
    BY <1>5, <2>1 DEF Active, Done, Over
  <2>3. \A t \in Active \cup Done : status'[t] = status[t]
    BY <2>1, <2>2 DEF Active, Done
  <2>4. Active' = Active
    BY <1>0, <1>5, <2>1, <2>2 DEF Active, Live
  <2>5. IInv'
    BY <1>1, <1>5, <2>3, <2>4
  <2>6. Accounted
    BY <1>5 DEF Accounted, Accounting!Next
  <2> QED BY <1>5, <2>3, <2>5, <2>6 DEF GoodStep, EndIsFinal
<1>6. ASSUME NEW s \in Seqs, AdminAbortWaiting(s)
      PROVE  GoodStep
  <2>1. CommonInv' /\ Accounting!Retire(s) /\ s \in Waiting /\ Waiting' = Waiting \ {s}
    BY <1>0, <1>6, AdminAbortKeeps
  <2> QED BY <1>5, <1>6, <2>1 DEF AdminAbortWaiting
<1>7. ASSUME LeftoverWaiting
      PROVE  GoodStep
  <2>1. PICK s \in Waiting : /\ CommonInv' /\ Accounting!Retire(s) /\ s = Head(queue)
                             /\ s \in Seqs /\ Waiting' = Waiting \ {s}
    BY <1>0, <1>7, LeftoverWaitingKeeps
  <2> QED BY <1>5, <1>7, <2>1 DEF LeftoverWaiting
<1> QED BY <1>2, <1>3, <1>4, <1>6, <1>7 DEF Environment

(* Every step keeps the invariant and uses the pool and the cache as       *)
(* KvAccounting allows.                                                    *)
LEMMA StepKeeps == IInv /\ [Next]_vars => GoodStep
<1> SUFFICES ASSUME IInv, [Next]_vars PROVE GoodStep
  OBVIOUS
<1>1. CASE Work
  <2>1. CASE Top \/ Wake \/ NothingAdmitted \/ Yield \/ Resume \/ LeftoversDone
    BY <2>1, LoopKeeps
  <2>2. CASE Admission \/ LeftoverWaiting
    BY <2>2, AdmissionKeeps, HandlersKeep
  <2>3. CASE AdmittedAborted \/ Start
    BY <2>3, StartKeeps
  <2>4. CASE Prefill \/ Store \/ FirstToken \/ Check \/ Decode \/ Handle
    BY <2>4, ThreadKeeps
  <2>5. CASE CancelledExit \/ CancelledInThread
    BY <2>5, CancelledKeeps
  <2> QED BY <1>1, <2>1, <2>2, <2>3, <2>4, <2>5 DEF Work
<1>2. CASE UNCHANGED vars
  <2>1. UNCHANGED <<kv, queue, event, status, out, abort, running, admitted, cands, pc,
                    stop, cancelled, policy>>
    BY <1>2 DEF vars, common, qvars, reqs, life
  <2>2. CommonTypes' /\ Control' /\ InHand'
    BY <2>1 DEF IInv, CommonInv, CommonTypes, Control, InHand, Cur, Active, Waiting,
                CandidateLengths
  <2> QED BY <2>1, <2>2, MoveKeeps
<1> QED BY <1>1, <1>2, HandlersKeep, ThreadKeeps DEF Next, Ended

(* The inductive invariant holds in every state: run() knows whom it has   *)
(* in hand at each of its places, through aborts, errors and cancellation. *)
THEOREM InvariantHolds == Spec => []IInv
<1>1. IInv /\ [Next]_vars => IInv'
  BY StepKeeps DEF GoodStep
<1> QED BY <1>1, InitGood, PTL DEF Spec

(* The worker uses the pool and the cache only as KvAccounting allows:     *)
(* every admitted sequence is released exactly once.                       *)
THEOREM ImplementsAccounting == Spec => AccountingSpec
<1>1. Init => Accounting!Init
  BY InitGood
<1>2. IInv /\ [Next]_vars => [Accounting!Next]_Accounting!vars
  BY StepKeeps DEF GoodStep, Accounted, Quiet, Accounting!vars, Done
<1> QED BY <1>1, <1>2, InvariantHolds, PTL DEF Spec, AccountingSpec, Accounting!Spec

(* So the worker's accounting is good in every state.                      *)
LEMMA AccountingHolds == Spec => []Acc!Inv
BY ImplementsAccounting, AccountingIsGood

(* "Room of 1 even if the scheduler's max_batch is larger": one sequence   *)
(* at most is between its admission and its release.                       *)
THEOREM TypeCorrect == Spec => []TypeOK
<1>1. IInv /\ Acc!Inv => TypeOK
  <2> SUFFICES ASSUME IInv, Acc!Inv PROVE TypeOK
    OBVIOUS
  <2>1. kv \in KvType
    BY SameKvType DEF Acc!Inv, Acc!Good
  <2>2. Active = {} \/ Active = {Cur} \/ Active = ToSet(admitted)
    BY DEF IInv, InHand
  <2>3. ToSet(admitted) = {} \/ ToSet(admitted) = {Cur}
    <3>1. admitted \in Seq(Seqs) /\ Len(admitted) <= 1
      BY DEF IInv, InHand, CommonInv, CommonTypes
    <3>2. DOMAIN admitted = 1 .. Len(admitted) /\ Len(admitted) \in Nat
      BY <3>1, LenProperties
    <3>3. CASE Len(admitted) = 0
      BY <3>2, <3>3 DEF ToSet
    <3>4. CASE Len(admitted) = 1
      BY <3>2, <3>4 DEF ToSet, Cur
    <3> QED BY <3>1, <3>2, <3>3, <3>4
  <2>4. Cardinality(Active) <= 1
    <3>1. Active = {} \/ Active = {Cur}
      BY <2>2, <2>3
    <3>2. Cardinality({}) = 0 /\ Cardinality({Cur}) = 1
      BY FS_EmptySet, FS_Singleton
    <3> QED BY <3>1, <3>2
  <2> QED BY <2>1, <2>4 DEF IInv, CommonInv, CommonTypes, Control, InHand, TypeOK, TypeCommon
<1> QED BY <1>1, InvariantHolds, AccountingHolds, PTL

(* What is over stays over: no step gives it another status, a token or    *)
(* blocks.                                                                 *)
THEOREM EndedStaysEnded == Spec => OverIsFinal
<1>1. IInv /\ Acc!Inv' /\ [Next]_vars
        => [\A s \in Seqs : status[s] \in Over =>
              /\ status'[s] = status[s] /\ out'[s] = out[s]
              /\ kv'.alloc[s] = {}]_common
  <2> SUFFICES ASSUME IInv, Acc!Inv', [Next]_vars, NEW s \in Seqs, status[s] \in Over
               PROVE  status'[s] = status[s] /\ out'[s] = out[s] /\ kv'.alloc[s] = {}
    OBVIOUS
  <2>1. status'[s] = status[s] /\ out'[s] = out[s]
    BY StepKeeps DEF GoodStep, EndIsFinal, Done
  <2>2. s \notin Active'
    BY <2>1 DEF Active, Live, Over
  <2>3. \A b \in kv'.alloc[s] : s \in Active'
    BY DEF Acc!Inv, Acc!Good, Acc!Owners
  <2> QED BY <2>1, <2>2, <2>3
<1> QED BY <1>1, InvariantHolds, AccountingHolds, PTL DEF Spec, OverIsFinal

(* Under fcfs nobody overtakes, also when an admission fails and the head  *)
(* is put back.                                                            *)
THEOREM NobodyOvertakes ==
    ASSUME Policies = {"fcfs"}
    PROVE  Spec => FirstComeFirstServed
<1>1. IInv /\ IInv' /\ [Next]_vars => [OrderKept]_common
  <2> SUFFICES ASSUME IInv, IInv', [Next]_vars
               PROVE  OrderKept
    OBVIOUS
  <2>1. QueueStep
    BY DEF Next, Environment, Work, Ended, Admission, Admit, QueueStep, vars, common, qvars,
           SubmitRejected, RequestAbort, RequestStop, CancelTask, Top, Wake, AdmitDone,
           NothingAdmitted, Yield, AdmittedAborted, Start, Prefill, Store, InsertNext, InsertDone,
           FirstToken, Check, Decode, Resume, Handle, LeftoversDone, CancelledExit,
           CancelledInThread, Raise
  <2> QED BY <2>1, QueueStepKeepsOrder DEF IInv
<1>2. [OrderKept]_common => [/\ \A s \in Waiting : s \in Active' => s = Head(queue)
                             /\ \A s, t \in Waiting \cap Waiting' :
                                   Position(queue, s) < Position(queue, t)
                                      <=> Position(queue', s) < Position(queue', t)]_common
  BY DEF OrderKept
<1> QED BY <1>1, <1>2, InvariantHolds, PTL DEF Spec, FirstComeFirstServed

(* The worker keeps the promise of BlockLedger to every request it serves. *)
THEOREM ImplementsLedger == Spec => Acc!LedgerSpec
BY ImplementsAccounting, AccountingIsLedger

(* When no request is being served the whole pool is free.                 *)
THEOREM IdlePoolIsFree == Spec => [](Active = {} => kv.free = Blocks)
<1>1. Spec => []Acc!NoLeak
  BY ImplementsAccounting, TheoremsApply, Acc!NothingLeaks,
     BlocksAssumption, BlockSizeAssumption, SeqsAssumption, PromptAssumption,
     LengthAssumption, MinAssumption, EntriesAssumption, CacheAssumption
  DEF IsFiniteSet, Acc!IsFiniteSet
<1>2. Acc!NoLeak => (Active = {} => kv.free = Blocks)
  BY DEF Acc!NoLeak
<1> QED BY <1>1, <1>2, PTL

-----------------------------------------------------------------------------
(* Where run() sleeps or has ended.                                        *)

(* Every step keeps LoopInv.                                               *)
LEMMA RestKept == IInv /\ LoopInv /\ [Next]_vars => LoopInv'
<1> SUFFICES ASSUME IInv, LoopInv, [Next]_vars PROVE LoopInv'
  OBVIOUS
<1>1. ASSUME UNCHANGED <<queue, event, stop>>, pc' = pc \/ pc' \notin {"wait", "leftovers", "stopped"}
      PROVE  LoopInv'
  BY <1>1 DEF LoopInv, EventTells
<1>2. CASE Environment \/ Admission \/ LeftoverWaiting
  BY <1>2, QueueStepsKeepLoopInv DEF Admission, IInv
<1>3. CASE Top \/ Wake \/ LeftoversDone
  BY <1>3 DEF Top, Wake, LeftoversDone, Goto, qvars, life, LoopInv, EventTells
<1>4. CASE NothingAdmitted \/ Yield \/ AdmittedAborted \/ Start \/ Resume \/ Handle \/ Raise
  BY <1>1, <1>4 DEF NothingAdmitted, Yield, AdmittedAborted, Start, Resume, Handle, Raise,
                    Goto, qvars, life
<1>5. CASE Prefill \/ Store \/ FirstToken \/ Check \/ Decode \/ CancelledExit \/ CancelledInThread
  BY <1>1, <1>5 DEF Prefill, Store, InsertNext, InsertDone, FirstToken, Check, Decode,
                    CancelledExit, CancelledInThread, Goto, qvars, life
<1>6. CASE UNCHANGED vars
  BY <1>1, <1>6 DEF vars, common, qvars, life
<1> QED BY <1>2, <1>3, <1>4, <1>5, <1>6 DEF Next, Work, Ended

(* It holds in every state.                                                *)
LEMMA RestHolds == Spec => []LoopInv
<1>1. Init => LoopInv
  BY DEF Init, InitCommon, LoopInv, EventTells
<1> QED BY <1>1, RestKept, InvariantHolds, PTL DEF Spec

(* At rest nobody is being served.                                         *)
LEMMA AtRestNobody ==
    ASSUME IInv, LoopInv, pc \in {"wait", "stopped"}
    PROVE  queue = << >> /\ Active = {} /\ \A s \in Seqs : status[s] \notin Live
<1>1. queue = << >> /\ Waiting = {}
  BY DEF LoopInv, Waiting
<1>2. Active = {}
  BY DEF IInv, InHand, Holding
<1> QED BY <1>1, <1>2 DEF Active

(* No wakeup is lost: run() sleeps only while nobody waits and no stop is  *)
(* asked for, and it sleeps with nobody in hand and the whole pool free.   *)
THEOREM AsleepIsIdle ==
    Spec => [](pc = "wait" => /\ queue = << >> /\ ~event /\ ~stop
                              /\ \A s \in Seqs : status[s] \notin Live
                              /\ kv.free = Blocks)
<1>1. IInv /\ LoopInv /\ (Active = {} => kv.free = Blocks)
        => (pc = "wait" => /\ queue = << >> /\ ~event /\ ~stop
                           /\ \A s \in Seqs : status[s] \notin Live
                           /\ kv.free = Blocks)
  BY AtRestNobody DEF LoopInv
<1> QED BY <1>1, InvariantHolds, RestHolds, IdlePoolIsFree, PTL

(* When run() has ended on a stop, not by cancellation, every request that *)
(* was accepted is over and every block is back.                           *)
THEOREM StoppedIsDrained ==
    Spec => [](pc = "stopped" => /\ stop /\ queue = << >>
                                 /\ \A s \in Seqs : status[s] \notin Live
                                 /\ kv.free = Blocks)
<1>1. IInv /\ LoopInv /\ (Active = {} => kv.free = Blocks)
        => (pc = "stopped" => /\ stop /\ queue = << >>
                              /\ \A s \in Seqs : status[s] \notin Live
                              /\ kv.free = Blocks)
  BY AtRestNobody DEF LoopInv
<1> QED BY <1>1, InvariantHolds, RestHolds, IdlePoolIsFree, PTL

(* "worker must not die on one request" (worker.py:208): whatever the      *)
(* thread raises, run() ends only on a stop or when it is cancelled.       *)
THEOREM SurvivesItsRequests == Spec => []WorkerSurvives
<1>1. Init => WorkerSurvives
  BY DEF Init, InitCommon, WorkerSurvives
<1>2. WorkerSurvives /\ [Next]_vars => WorkerSurvives'
  <2> SUFFICES ASSUME WorkerSurvives, [Next]_vars PROVE WorkerSurvives'
    OBVIOUS
  <2> USE DEF WorkerSurvives, Goto, life
  <2>1. CASE Environment
    BY <2>1 DEF Environment, SubmitAccepted, SubmitRejected, RequestAbort, AdminAbortWaiting,
                RequestStop, CancelTask, SetEvent
  <2>2. CASE Top \/ Wake \/ Admission \/ NothingAdmitted \/ Yield \/ AdmittedAborted \/ Start
    BY <2>2 DEF Top, Wake, Admission, Admit, AdmitOne, AdmitRefused, AdmitDone, NothingAdmitted,
                Yield, AdmittedAborted, Start
  <2>3. CASE Prefill \/ Store \/ FirstToken \/ Check \/ Decode \/ Resume \/ Handle \/ Raise
    BY <2>3 DEF Prefill, Store, InsertNext, InsertDone, FirstToken, Check, Decode, Resume,
                Handle, Raise
  <2>4. CASE LeftoverWaiting \/ LeftoversDone \/ CancelledExit \/ CancelledInThread
    BY <2>4 DEF LeftoverWaiting, LeftoversDone, CancelledExit, CancelledInThread
  <2>5. CASE UNCHANGED vars
    BY <2>5 DEF vars, common
  <2> QED BY <2>1, <2>2, <2>3, <2>4, <2>5 DEF Next, Work, Ended
<1> QED BY <1>1, <1>2, PTL DEF Spec
=============================================================================
