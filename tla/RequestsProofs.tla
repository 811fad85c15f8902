--------------------------- MODULE RequestsProofs ----------------------------
(***************************************************************************)
(* What the handlers of routes_openai.py keep, for every number of         *)
(* requests, every capacity of the queue and both kinds of engine; and, at *)
(* the end, what the control plane keeps that they ask and write to.  The  *)
(* two modules have no variable in common.                                 *)
(***************************************************************************)
EXTENDS Requests, ControlPlane, FiniteSetTheorems, TLAPS

(* The answers to a request: those that have the text, and those that      *)
(* refuse it.                                                              *)
Answers  == {"200", "[DONE]"}
Refusals == {"400 large", "400 length", "404", "429 full", "429 rate", "503"}

(* The parts of the inductive invariant. The types of what is not counted. *)
Types ==
    /\ worker \in BOOLEAN /\ kind \in [Reqs -> {"stream", "whole"}]
    /\ at \in [Reqs -> {"new", "waiting", "streaming", "yielded", "locking",
                        "generating", "replaying", "left", "over"}]
    /\ told \in [Reqs -> {"nothing", "499", "500"} \cup Answers \cup Refusals]
    /\ gen \in [Reqs -> {"none", "waiting", "running"} \cup Over]
    /\ abort \in [Reqs -> BOOLEAN]
    /\ record \in [Reqs -> {"none", "running", "finished"}]
    /\ seqRecord \in [Reqs -> {"none", "waiting"}]

(* The types of the counters.                                              *)
CountTypes == tokens \in [Reqs -> Nat] /\ counted \in [Reqs -> Nat]

(* The lock is where the handlers are: one is in the engine, the others    *)
(* wait in a line in which everyone is once.                               *)
Lock ==
    /\ holder = {r \in Reqs : at[r] = "generating"}
    /\ \A p, q \in holder : p = q
    /\ waiters \in Seq(Reqs)
    /\ ToSet(waiters) = {r \in Reqs : at[r] = "locking"}
    /\ IsInjective(waiters)

(* Nothing has been made of the request.                                   *)
Unstarted(r) == gen[r] = "none" /\ record[r] = "none"

(* Where the handler of a request is, what it needs to be there, and what  *)
(* it has left behind on the way.                                          *)
Place(r) ==
    /\ at[r] = "new" => Unstarted(r)
    /\ at[r] = "waiting" =>
          worker /\ kind[r] = "whole" /\ gen[r] # "none" /\ record[r] = "none"
    /\ at[r] \in {"streaming", "yielded"} =>
          worker /\ kind[r] = "stream" /\ gen[r] # "none" /\ record[r] = "running"
    /\ at[r] = "yielded" => gen[r] \in Over
    /\ at[r] = "locking" => ~worker /\ Unstarted(r)
    /\ at[r] = "generating" => ~worker /\ gen[r] = "running" /\ record[r] = "none"
    /\ at[r] = "replaying" =>
          ~worker /\ kind[r] = "stream" /\ gen[r] = "finished" /\ record[r] = "finished"
    /\ at[r] = "left" =>
          /\ kind[r] = "stream"
          /\ IF worker THEN gen[r] # "none" /\ record[r] = "running"
                       ELSE gen[r] = "finished" /\ record[r] = "finished"

(* What a client has been told, and what has become of its request then.   *)
Outcome(r) ==
    /\ at[r] = "over" <=> told[r] # "nothing"
    /\ told[r] \in Refusals => Unstarted(r)
    /\ told[r] = "200" =>
          kind[r] = "whole" /\ gen[r] = "finished" /\ record[r] = "finished"
    /\ told[r] = "[DONE]" =>
          /\ kind[r] = "stream" /\ gen[r] \in Over /\ record[r] = "finished"
          /\ worker \/ gen[r] = "finished"
    /\ told[r] = "499" =>
          worker /\ kind[r] = "whole" /\ gen[r] = "aborted" /\ record[r] = "none"
    /\ told[r] = "500" =>
          gen[r] = "error" /\ record[r] = "none" /\ (worker => kind[r] = "whole")

(* The record under the id of a sequence is written by its submission.     *)
Submitted(r) == seqRecord[r] = IF worker /\ gen[r] # "none" THEN "waiting" ELSE "none"

(* The counts of one request.                                              *)
Counts(r) ==
    /\ tokens[r] = IF gen[r] = "finished" THEN 1 ELSE 0
    /\ counted[r] =
          IF \/ told[r] \in {"200", "429 rate", "429 full", "400 large"}
             \/ kind[r] = "stream" /\ (IF worker THEN gen[r] # "none" ELSE gen[r] = "finished")
          THEN 1 ELSE 0

(* All of it but the counts.                                               *)
Consistent(r) == Place(r) /\ Outcome(r) /\ Submitted(r)

(* The inductive invariant.                                                *)
IInv ==
    /\ Types /\ CountTypes /\ Lock
    /\ \A r \in Reqs : Consistent(r) /\ Counts(r)

-----------------------------------------------------------------------------
(* A step of the request r.                                                *)
Step(r) ==
    \/ Refuse(r)
    \/ SubmitRefused(r) \/ Submit(r)
    \/ Start(r) \/ Finish(r) \/ EndEarly(r)
    \/ Answer(r) \/ AnswerError(r)
    \/ EndStream(r) \/ TakeDone(r) \/ LeaveStream(r)
    \/ AskLock(r) \/ TakeLock(r)
    \/ Generated(r) \/ GenerateRaises(r) \/ Replay(r)

(* Everything the invariant says of the request q is as it was.            *)
Untouched(q) ==
    /\ at'[q] = at[q] /\ told'[q] = told[q] /\ gen'[q] = gen[q]
    /\ record'[q] = record[q] /\ seqRecord'[q] = seqRecord[q]
    /\ tokens'[q] = tokens[q] /\ counted'[q] = counted[q]

(* One more in one place of an array of numbers.                           *)
LEMMA Counting ==
  ASSUME NEW f \in [Reqs -> Nat], NEW r \in Reqs, NEW g, g = [f EXCEPT ![r] = @ + 1]
  PROVE  /\ g \in [Reqs -> Nat] /\ g[r] = f[r] + 1
         /\ \A q \in Reqs \ {r} : g[q] = f[q]
<1>1. f[r] + 1 \in Nat
  OBVIOUS
<1> QED BY <1>1, Zenon

(* From none to one.                                                       *)
LEMMA FirstCount == \A a, b : a = 0 /\ b = a + 1 => b = 1
OBVIOUS

(* observe_request and observe_finished count one request once.            *)
LEMMA Observing ==
  ASSUME CountTypes, NEW r \in Reqs
  PROVE  /\ ObserveRequest(r) =>
               /\ counted' \in [Reqs -> Nat] /\ counted'[r] = counted[r] + 1
               /\ \A q \in Reqs \ {r} : counted'[q] = counted[q]
         /\ ObserveFinished(r) =>
               /\ tokens' \in [Reqs -> Nat] /\ tokens'[r] = tokens[r] + 1
               /\ \A q \in Reqs \ {r} : tokens'[q] = tokens[q]
BY Counting DEF CountTypes, ObserveRequest, ObserveFinished

(* A handler, the worker and the client of one request change nothing of   *)
(* another.                                                                *)
LEMMA StepOfOne ==
  ASSUME Types, CountTypes, NEW r \in Reqs, Step(r)
  PROVE  mode' = mode /\ \A q \in Reqs \ {r} : Untouched(q)
<1> USE DEF Types, CountTypes, Untouched, mode, handler, work, lock, jobs, metrics, Tell, Goto
<1>1. CASE Refuse(r)
  BY <1>1, Observing, ZenonT(60) DEF Refuse
<1>2. CASE SubmitRefused(r)
  BY <1>2, Observing, ZenonT(60) DEF SubmitRefused
<1>3. CASE Submit(r)
  BY <1>3, Observing DEF Submit, RememberJob
<1>4. CASE Start(r)
  BY <1>4 DEF Start, Work
<1>5. CASE Finish(r)
  BY <1>5, Observing DEF Finish, Work
<1>6. CASE EndEarly(r)
  BY <1>6 DEF EndEarly, Work
<1>7. CASE Answer(r)
  BY <1>7, Observing DEF Answer, RememberJob
<1>8. CASE AnswerError(r)
  BY <1>8 DEF AnswerError
<1>9. CASE EndStream(r)
  BY <1>9 DEF EndStream
<1>10. CASE TakeDone(r)
  BY <1>10 DEF TakeDone, RememberJob
<1>11. CASE LeaveStream(r)
  BY <1>11 DEF LeaveStream
<1>12. CASE AskLock(r)
  BY <1>12 DEF AskLock
<1>13. CASE TakeLock(r)
  BY <1>13 DEF TakeLock
<1>14. CASE Generated(r)
  BY <1>14, Observing DEF Generated, RememberJob
<1>15. CASE GenerateRaises(r)
  BY <1>15 DEF GenerateRaises
<1>16. CASE Replay(r)
  BY <1>16 DEF Replay
<1> QED BY <1>1, <1>2, <1>3, <1>4, <1>5, <1>6, <1>7, <1>8, <1>9, <1>10, <1>11, <1>12, <1>13, <1>14, <1>15, <1>16 DEF Step

(* Every action keeps the types.                                           *)
LEMMA StepKeepsTypes ==
  ASSUME Types, NEW r \in Reqs, Step(r)
  PROVE  Types'
<1> USE DEF Types, mode, handler, work, lock, jobs, metrics, Tell, Goto, Over, Answers, Refusals
<1>1. CASE Refuse(r)
  <2>1. PICK outcome \in {"404", "429 rate", "503", "400 length"} : Tell(r, outcome)
    BY <1>1, Zenon DEF Refuse
  <2> QED BY <1>1, <2>1 DEF Refuse
<1>2. CASE SubmitRefused(r)
  BY <1>2 DEF SubmitRefused
<1>3. CASE Submit(r)
  BY <1>3, ZenonT(60) DEF Submit, RememberJob
<1>4. CASE Start(r)
  BY <1>4 DEF Start, Work
<1>5. CASE Finish(r)
  BY <1>5 DEF Finish, Work
<1>6. CASE EndEarly(r)
  BY <1>6 DEF EndEarly, Work
<1>7. CASE Answer(r)
  BY <1>7 DEF Answer, RememberJob
<1>8. CASE AnswerError(r)
  BY <1>8 DEF AnswerError
<1>9. CASE EndStream(r)
  BY <1>9 DEF EndStream
<1>10. CASE TakeDone(r)
  BY <1>10 DEF TakeDone, RememberJob
<1>11. CASE LeaveStream(r)
  BY <1>11 DEF LeaveStream
<1>12. CASE AskLock(r)
  <2>1. CASE holder = {} /\ waiters = << >>
    BY <1>12, <2>1, ZenonT(60) DEF AskLock
  <2>2. CASE ~(holder = {} /\ waiters = << >>)
    BY <1>12, <2>2 DEF AskLock
  <2> QED BY <2>1, <2>2
<1>13. CASE TakeLock(r)
  BY <1>13 DEF TakeLock
<1>14. CASE Generated(r)
  <2>1. CASE kind[r] = "stream"
    BY <1>14, <2>1 DEF Generated, RememberJob
  <2>2. CASE kind[r] = "whole"
    BY <1>14, <2>2, ZenonT(60) DEF Generated, RememberJob
  <2> QED BY <2>1, <2>2
<1>15. CASE GenerateRaises(r)
  BY <1>15 DEF GenerateRaises
<1>16. CASE Replay(r)
  BY <1>16 DEF Replay
<1> QED BY <1>1, <1>2, <1>3, <1>4, <1>5, <1>6, <1>7, <1>8, <1>9, <1>10, <1>11, <1>12, <1>13, <1>14, <1>15, <1>16 DEF Step

(* And those of the counters.                                              *)
LEMMA StepKeepsCountTypes ==
  ASSUME CountTypes, NEW r \in Reqs, Step(r)
  PROVE  CountTypes'
<1> USE DEF CountTypes, metrics
<1>1. CASE Refuse(r)
  BY <1>1, Observing DEF Refuse
<1>2. CASE SubmitRefused(r)
  BY <1>2, Observing DEF SubmitRefused
<1>3. CASE Submit(r)
  BY <1>3, Observing DEF Submit
<1>4. CASE Start(r)
  BY <1>4 DEF Start
<1>5. CASE Finish(r)
  BY <1>5, Observing DEF Finish
<1>6. CASE EndEarly(r)
  BY <1>6 DEF EndEarly
<1>7. CASE Answer(r)
  BY <1>7, Observing DEF Answer
<1>8. CASE AnswerError(r)
  BY <1>8 DEF AnswerError
<1>9. CASE EndStream(r)
  BY <1>9 DEF EndStream
<1>10. CASE TakeDone(r)
  BY <1>10 DEF TakeDone
<1>11. CASE LeaveStream(r)
  BY <1>11 DEF LeaveStream
<1>12. CASE AskLock(r)
  BY <1>12 DEF AskLock
<1>13. CASE TakeLock(r)
  BY <1>13 DEF TakeLock
<1>14. CASE Generated(r)
  BY <1>14, Observing DEF Generated
<1>15. CASE GenerateRaises(r)
  BY <1>15 DEF GenerateRaises
<1>16. CASE Replay(r)
  BY <1>16 DEF Replay
<1> QED BY <1>1, <1>2, <1>3, <1>4, <1>5, <1>6, <1>7, <1>8, <1>9, <1>10, <1>11, <1>12, <1>13, <1>14, <1>15, <1>16 DEF Step

(* Every action of a request takes its handler, its sequence and its       *)
(* records from one consistent combination to another.                     *)
LEMMA StepKeepsConsistent ==
  ASSUME Types, NEW r \in Reqs, Consistent(r), Step(r),
         TakeLock(r) => at[r] = "locking"
  PROVE  Consistent(r)'
<1> USE DEF Types, Consistent, Place, Outcome, Submitted, Unstarted,
            mode, handler, work, lock, jobs, Tell, Goto, Over, Answers, Refusals
<1>1. CASE Refuse(r)
  BY <1>1 DEF Refuse
<1>2. CASE SubmitRefused(r)
  BY <1>2, ZenonT(60) DEF SubmitRefused
<1>3. CASE Submit(r)
  BY <1>3, ZenonT(60) DEF Submit, RememberJob
<1>4. CASE Start(r)
  BY <1>4 DEF Start, Work
<1>5. CASE Finish(r)
  BY <1>5 DEF Finish, Work
<1>6. CASE EndEarly(r)
  BY <1>6 DEF EndEarly, Work
<1>7. CASE Answer(r)
  BY <1>7 DEF Answer, RememberJob
<1>8. CASE AnswerError(r)
  BY <1>8 DEF AnswerError
<1>9. CASE EndStream(r)
  BY <1>9 DEF EndStream
<1>10. CASE TakeDone(r)
  BY <1>10 DEF TakeDone, RememberJob
<1>11. CASE LeaveStream(r)
  BY <1>11 DEF LeaveStream
<1>12. CASE AskLock(r)
  BY <1>12, ZenonT(60) DEF AskLock
<1>13. CASE TakeLock(r)
  BY <1>13 DEF TakeLock
<1>14. CASE Generated(r)
  <2>1. CASE kind[r] = "stream"
    BY <1>14, <2>1 DEF Generated, RememberJob
  <2>2. CASE kind[r] = "whole"
    BY <1>14, <2>2, ZenonT(60) DEF Generated, RememberJob
  <2> QED BY <2>1, <2>2
<1>15. CASE GenerateRaises(r)
  BY <1>15 DEF GenerateRaises
<1>16. CASE Replay(r)
  BY <1>16 DEF Replay
<1> QED BY <1>1, <1>2, <1>3, <1>4, <1>5, <1>6, <1>7, <1>8, <1>9, <1>10, <1>11, <1>12, <1>13, <1>14, <1>15, <1>16 DEF Step

(* A request is counted where the code says so, and on no way a second     *)
(* time.                                                                   *)
LEMMA StepKeepsCounts ==
  ASSUME Types, CountTypes, NEW r \in Reqs, Consistent(r), Counts(r), Step(r),
         TakeLock(r) => at[r] = "locking"
  PROVE  Counts(r)'
<1>o. /\ ObserveRequest(r) => counted'[r] = counted[r] + 1
      /\ ObserveFinished(r) => tokens'[r] = tokens[r] + 1
  BY Observing
<1>c. Counts(r)
  OBVIOUS
<1>p. /\ at[r] # "over" => told[r] = "nothing"
      /\ at[r] = "new" => gen[r] = "none"
      /\ at[r] = "waiting" => worker /\ kind[r] = "whole"
      /\ at[r] = "locking" => ~worker /\ gen[r] = "none"
      /\ at[r] = "generating" => ~worker /\ gen[r] = "running"
  BY DEF Types, Consistent, Place, Outcome, Unstarted
<1> USE DEF Types, mode, handler, work, lock, jobs, metrics, Tell, Goto, Over
<1>1. CASE Refuse(r)
  <2>1. PICK outcome \in {"404", "429 rate", "503", "400 length"} :
          /\ Tell(r, outcome)
          /\ IF outcome = "429 rate" THEN ObserveRequest(r) ELSE UNCHANGED counted
    BY <1>1, Zenon DEF Refuse
  <2>2. /\ gen' = gen /\ tokens' = tokens /\ worker' = worker /\ kind' = kind
        /\ at[r] = "new" /\ told'[r] = outcome
    BY <1>1, <2>1 DEF Refuse
  <2>3. tokens[r] = 0 /\ counted[r] = 0
    BY <1>c, <1>p, <2>2 DEF Counts
  <2>4. counted'[r] = IF outcome = "429 rate" THEN 1 ELSE 0
    <3>1. CASE outcome = "429 rate"
      <4>1. counted'[r] = counted[r] + 1
        BY <2>1, <3>1, <1>o
      <4>2. counted'[r] = 1
        BY <4>1, <2>3, FirstCount, Zenon
      <4> QED BY <4>2, <3>1, Zenon
    <3>2. CASE outcome # "429 rate"
      BY <2>1, <2>3, <3>2
    <3> QED BY <3>1, <3>2
  <2> QED BY <1>p, <2>1, <2>2, <2>3, <2>4 DEF Counts
<1>2. CASE SubmitRefused(r)
  <2>1. /\ gen' = gen /\ tokens' = tokens /\ worker' = worker /\ kind' = kind
        /\ at[r] = "new" /\ told'[r] \in {"429 full", "400 large"}
        /\ counted'[r] = counted[r] + 1
    BY <1>2, <1>p, <1>o DEF SubmitRefused
  <2>2. tokens[r] = 0 /\ counted[r] = 0
    BY <1>c, <1>p, <2>1 DEF Counts
  <2>3. counted'[r] = 1
    BY <2>1, <2>2, FirstCount, Zenon
  <2>4. tokens'[r] = 0 /\ gen'[r] = "none"
    BY <1>p, <2>1, <2>2, Zenon
  <2> QED BY <2>1, <2>3, <2>4 DEF Counts
<1>3. CASE Submit(r)
  <2>1. /\ tokens' = tokens /\ worker' = worker /\ kind' = kind /\ told' = told
        /\ worker /\ at[r] = "new" /\ gen'[r] = "waiting"
    BY <1>3 DEF Submit
  <2>2. counted'[r] = IF kind[r] = "stream" THEN counted[r] + 1 ELSE counted[r]
    BY <1>3, <1>o DEF Submit
  <2> QED BY <1>c, <1>p, <2>1, <2>2 DEF Counts
<1>4. CASE Start(r)
  BY <1>4, <1>c, <1>p DEF Start, Work, Counts
<1>5. CASE Finish(r)
  <2>1. /\ worker' = worker /\ kind' = kind /\ told' = told /\ counted' = counted
        /\ worker /\ gen[r] = "running" /\ gen'[r] = "finished"
        /\ tokens'[r] = tokens[r] + 1
    BY <1>5, <1>p, <1>o DEF Finish, Work
  <2>2. tokens[r] = 0
    BY <1>c, <2>1 DEF Counts
  <2>3. tokens'[r] = IF gen'[r] = "finished" THEN 1 ELSE 0
    BY <2>1, <2>2
  <2> QED BY <1>c, <2>1, <2>3 DEF Counts
<1>6. CASE EndEarly(r)
  BY <1>6, <1>c, <1>p DEF EndEarly, Work, Counts
<1>7. CASE Answer(r)
  <2>1. /\ worker' = worker /\ kind' = kind /\ gen' = gen /\ tokens' = tokens
        /\ at[r] = "waiting" /\ told'[r] = "200"
        /\ counted'[r] = counted[r] + 1
    BY <1>7, <1>p, <1>o DEF Answer, RememberJob
  <2> QED BY <1>c, <2>1, <1>p DEF Counts
<1>8. CASE AnswerError(r)
  BY <1>8, <1>c, <1>p DEF AnswerError, Counts
<1>9. CASE EndStream(r)
  BY <1>9, <1>c, <1>p DEF EndStream, Counts
<1>10. CASE TakeDone(r)
  BY <1>10, <1>c, <1>p DEF TakeDone, RememberJob, Counts
<1>11. CASE LeaveStream(r)
  BY <1>11, <1>c, <1>p DEF LeaveStream, Counts
<1>12. CASE AskLock(r)
  BY <1>12, <1>c, <1>p DEF AskLock, Counts
<1>13. CASE TakeLock(r)
  BY <1>13, <1>c, <1>p DEF TakeLock, Counts
<1>14. CASE Generated(r)
  <2>1. /\ worker' = worker /\ kind' = kind
        /\ at[r] = "generating" /\ gen'[r] = "finished"
        /\ tokens'[r] = tokens[r] + 1 /\ counted'[r] = counted[r] + 1
    BY <1>14, <1>o DEF Generated
  <2>2. told'[r] = IF kind[r] = "stream" THEN told[r] ELSE "200"
    BY <1>14 DEF Generated
  <2>3. tokens'[r] = 1 /\ tokens[r] = 0
    BY <1>c, <1>p, <2>1 DEF Counts
  <2>4. counted'[r] = 1 /\ counted[r] = 0
    BY <1>c, <1>p, <2>1 DEF Counts
  <2> QED BY <1>p, <2>1, <2>2, <2>3, <2>4 DEF Counts
<1>15. CASE GenerateRaises(r)
  BY <1>15, <1>c, <1>p DEF GenerateRaises, Counts
<1>16. CASE Replay(r)
  BY <1>16, <1>c, <1>p DEF Replay, Counts
<1> QED BY <1>1, <1>2, <1>3, <1>4, <1>5, <1>6, <1>7, <1>8, <1>9, <1>10, <1>11, <1>12, <1>13, <1>14, <1>15, <1>16 DEF Step

-----------------------------------------------------------------------------
(* Who takes the lock was waiting for it.                                  *)
LEMMA HeadOfTheLine ==
  ASSUME Lock, NEW r \in Reqs, TakeLock(r)
  PROVE  at[r] = "locking"
<1>1. waiters # << >> /\ Head(waiters) = r
  BY DEF TakeLock
<1>2. 1 \in DOMAIN waiters /\ waiters[1] = r
  BY <1>1 DEF Lock
<1>3. r \in ToSet(waiters)
  BY <1>2 DEF ToSet
<1> QED BY <1>3 DEF Lock

(* A request joins a line it is not in yet.                                *)
LEMMA LineGrows ==
  ASSUME NEW s \in Seq(Reqs), IsInjective(s), NEW r \in Reqs, r \notin ToSet(s)
  PROVE  /\ Append(s, r) \in Seq(Reqs)
         /\ ToSet(Append(s, r)) = ToSet(s) \cup {r}
         /\ IsInjective(Append(s, r))
<1> DEFINE t == Append(s, r)
<1>1. /\ t \in Seq(Reqs) /\ Len(t) = Len(s) + 1 /\ t[Len(s) + 1] = r
      /\ \A i \in 1 .. Len(s) : t[i] = s[i]
      /\ DOMAIN t = 1 .. Len(s) + 1 /\ DOMAIN s = 1 .. Len(s) /\ Len(s) \in Nat
  OBVIOUS
<1>2. \A i \in DOMAIN t : IF i = Len(s) + 1 THEN t[i] = r
                          ELSE i \in DOMAIN s /\ t[i] = s[i]
  BY <1>1
<1>3. \A i \in DOMAIN s : i \in DOMAIN t /\ t[i] = s[i]
  BY <1>1
<1>4. Len(s) + 1 \in DOMAIN t /\ t[Len(s) + 1] = r
  BY <1>1
<1> HIDE DEF t
<1>5. ToSet(t) = ToSet(s) \cup {r}
  <2>1. ASSUME NEW x \in ToSet(t)
        PROVE  x \in ToSet(s) \cup {r}
    BY <2>1, <1>2 DEF ToSet
  <2>2. ASSUME NEW x \in ToSet(s)
        PROVE  x \in ToSet(t)
    BY <2>2, <1>3 DEF ToSet
  <2>3. r \in ToSet(t)
    BY <1>4 DEF ToSet
  <2> QED BY <2>1, <2>2, <2>3
<1>6. \A i \in DOMAIN s : s[i] # r
  BY DEF ToSet
<1>7. IsInjective(t)
  BY <1>2, <1>6 DEF IsInjective
<1> QED BY <1>1, <1>5, <1>7 DEF t

(* The head leaves the line.                                               *)
LEMMA LineMovesUp ==
  ASSUME NEW s \in Seq(Reqs), s # << >>, IsInjective(s)
  PROVE  /\ Tail(s) \in Seq(Reqs)
         /\ ToSet(Tail(s)) = ToSet(s) \ {Head(s)}
         /\ IsInjective(Tail(s))
<1> DEFINE t == Tail(s)
<1>1. /\ t \in Seq(Reqs) /\ Len(t) = Len(s) - 1 /\ Len(s) \in Nat /\ Len(s) >= 1
      /\ \A i \in 1 .. Len(s) - 1 : t[i] = s[i + 1]
      /\ DOMAIN t = 1 .. Len(s) - 1 /\ DOMAIN s = 1 .. Len(s) /\ Head(s) = s[1]
  OBVIOUS
<1>2. \A i \in DOMAIN t : i + 1 \in DOMAIN s /\ t[i] = s[i + 1] /\ i + 1 # 1
  BY <1>1
<1>3. \A i \in DOMAIN s : i = 1 \/ (i - 1 \in DOMAIN t /\ t[i - 1] = s[i])
  BY <1>1
<1>4. 1 \in DOMAIN s /\ Head(s) = s[1]
  BY <1>1
<1>5. \A i, j \in DOMAIN t : i + 1 = j + 1 => i = j
  BY <1>1
<1> HIDE DEF t
<1>6. ToSet(t) = ToSet(s) \ {Head(s)}
  <2>1. ASSUME NEW x \in ToSet(t)
        PROVE  x \in ToSet(s) /\ x # Head(s)
    <3>1. PICK i \in DOMAIN t : x = t[i]
      BY DEF ToSet
    <3>2. i + 1 \in DOMAIN s /\ x = s[i + 1] /\ i + 1 # 1
      BY <3>1, <1>2
    <3> QED BY <3>2, <1>4 DEF ToSet, IsInjective
  <2>2. ASSUME NEW x \in ToSet(s), x # Head(s)
        PROVE  x \in ToSet(t)
    <3>1. PICK i \in DOMAIN s : x = s[i]
      BY DEF ToSet
    <3>2. i - 1 \in DOMAIN t /\ x = t[i - 1]
      BY <3>1, <2>2, <1>3, <1>4
    <3> QED BY <3>2 DEF ToSet
  <2> QED BY <2>1, <2>2
<1>7. IsInjective(t)
  BY <1>2, <1>5 DEF IsInjective
<1> QED BY <1>1, <1>6, <1>7 DEF t

(* Whoever comes, takes the lock, returns or raises: the lock is held by   *)
(* one at most, and it is held by who is in the engine.                    *)
LEMMA StepKeepsLock ==
  ASSUME Types, Lock, NEW r \in Reqs, Step(r)
  PROVE  Lock'
<1> DEFINE Generating == {q \in Reqs : at[q] = "generating"}
           Locking    == {q \in Reqs : at[q] = "locking"}
<1>a. \A label : Goto(r, label) => at' \in [Reqs -> {at'[q] : q \in Reqs}]
                                /\ at'[r] = label
                                /\ \A q \in Reqs \ {r} : at'[q] = at[q]
  BY DEF Types, Goto
<1>1. ASSUME lock' = lock, \A q \in Reqs : at'[q] = at[q] \/
                (at[q] \notin {"generating", "locking"} /\ at'[q] \notin {"generating", "locking"})
      PROVE  Lock'
  BY <1>1 DEF Lock, lock
<1>2. CASE Start(r) \/ Finish(r) \/ EndEarly(r)
  BY <1>2, <1>1 DEF Start, Finish, EndEarly, lock, handler
<1>3. CASE Refuse(r) \/ SubmitRefused(r) \/ Submit(r)
  <2>1. at[r] = "new" /\ lock' = lock
    BY <1>3 DEF Refuse, SubmitRefused, Submit
  <2>2. \E label \in {"over", "streaming", "waiting"} : Goto(r, label)
    BY <1>3 DEF Refuse, SubmitRefused, Submit, Tell
  <2> QED BY <2>1, <2>2, <1>a, <1>1
<1>4. CASE Answer(r) \/ AnswerError(r) \/ EndStream(r) \/ TakeDone(r) \/ LeaveStream(r) \/ Replay(r)
  <2>1. at[r] \in {"waiting", "streaming", "yielded", "replaying"} /\ lock' = lock
    BY <1>4 DEF Answer, AnswerError, EndStream, TakeDone, LeaveStream, Replay, work
  <2>2. \E label \in {"over", "yielded", "left"} : Goto(r, label)
    BY <1>4 DEF Answer, AnswerError, EndStream, TakeDone, LeaveStream, Replay, Tell
  <2> QED BY <2>1, <2>2, <1>a, <1>1
<1>5. CASE AskLock(r)
  <2>1. CASE holder = {} /\ waiters = << >>
    <3>1. Goto(r, "generating") /\ holder' = {r} /\ waiters' = waiters /\ at[r] = "new"
      BY <1>5, <2>1 DEF AskLock
    <3> QED BY <3>1, <2>1, <1>a DEF Lock
  <2>2. CASE ~(holder = {} /\ waiters = << >>)
    <3>1. /\ Goto(r, "locking") /\ holder' = holder /\ waiters' = Append(waiters, r)
          /\ at[r] = "new"
      BY <1>5, <2>2 DEF AskLock
    <3>2. r \notin ToSet(waiters)
      BY <3>1 DEF Lock
    <3>3. /\ waiters' \in Seq(Reqs) /\ ToSet(waiters') = ToSet(waiters) \cup {r}
          /\ IsInjective(waiters')
      BY <3>1, <3>2, LineGrows DEF Lock
    <3> QED BY <3>1, <3>3, <1>a DEF Lock
  <2> QED BY <2>1, <2>2
<1>6. CASE TakeLock(r)
  <2>1. /\ Goto(r, "generating") /\ holder = {} /\ holder' = {r}
        /\ waiters # << >> /\ Head(waiters) = r /\ waiters' = Tail(waiters)
    BY <1>6 DEF TakeLock
  <2>2. /\ waiters' \in Seq(Reqs) /\ ToSet(waiters') = ToSet(waiters) \ {r}
        /\ IsInjective(waiters')
    BY <2>1, LineMovesUp DEF Lock
  <2>3. at[r] = "locking"
    BY <1>6, HeadOfTheLine
  <2>4. holder' = {q \in Reqs : at'[q] = "generating"} /\ \A p, q \in holder' : p = q
    BY <2>1, <2>3, <1>a, ZenonT(60) DEF Lock
  <2>5. ToSet(waiters') = {q \in Reqs : at'[q] = "locking"}
    BY <2>1, <2>2, <2>3, <1>a DEF Lock
  <2> QED BY <2>2, <2>4, <2>5 DEF Lock
<1>7. CASE Generated(r) \/ GenerateRaises(r)
  <2>1. at[r] = "generating" /\ holder' = {} /\ waiters' = waiters
    BY <1>7 DEF Generated, GenerateRaises
  <2>2. \E label \in {"over", "replaying"} : Goto(r, label)
    BY <1>7 DEF Generated, GenerateRaises, Tell
  <2>3. \A q \in Reqs \ {r} : at[q] # "generating"
    BY <2>1 DEF Lock
  <2> QED BY <2>1, <2>2, <2>3, <1>a DEF Lock
<1> QED BY <1>2, <1>3, <1>4, <1>5, <1>6, <1>7 DEF Step

(* The invariant holds at the start.                                       *)
LEMMA InitInvariant == Init => IInv
<1> SUFFICES ASSUME Init
             PROVE  IInv
  OBVIOUS
<1>1. Types
  BY DEF Init, Types
<1>2. CountTypes
  BY DEF Init, CountTypes
<1>3. Lock
  <2>1. ToSet(waiters) = {} /\ IsInjective(waiters) /\ waiters \in Seq(Reqs)
    BY DEF Init, ToSet, IsInjective
  <2> QED BY <2>1 DEF Init, Lock
<1>4. \A r \in Reqs : Consistent(r)
  BY DEF Init, Consistent, Place, Outcome, Submitted, Unstarted, Refusals
<1>5. \A r \in Reqs : Counts(r)
  BY DEF Init, Counts
<1> QED BY <1>1, <1>2, <1>3, <1>4, <1>5 DEF IInv

(* Every step keeps it: one request moves, the others stay as they are.    *)
LEMMA NextInvariant == IInv /\ [Next]_vars => IInv'
<1> SUFFICES ASSUME IInv, [Next]_vars
             PROVE  IInv'
  OBVIOUS
<1>1. CASE UNCHANGED vars
  <2> USE <1>1 DEF vars, mode, handler, work, lock, jobs, metrics, IInv
  <2>1. Types' /\ CountTypes' /\ Lock'
    BY DEF Types, CountTypes, Lock
  <2>2. \A r \in Reqs : Consistent(r)'
    BY DEF Consistent, Place, Outcome, Submitted, Unstarted
  <2>3. \A r \in Reqs : Counts(r)'
    BY DEF Counts
  <2> QED BY <2>1, <2>2, <2>3
<1>2. CASE Next
  <2>1. PICK r \in Reqs : Step(r)
    BY <1>2, Zenon DEF Next, Step
  <2>2. TakeLock(r) => at[r] = "locking"
    BY HeadOfTheLine DEF IInv
  <2>3. Types' /\ CountTypes' /\ Lock'
    BY <2>1, StepKeepsTypes, StepKeepsCountTypes, StepKeepsLock DEF IInv
  <2>4. Consistent(r)' /\ Counts(r)'
    BY <2>1, <2>2, StepKeepsConsistent, StepKeepsCounts DEF IInv
  <2>5. ASSUME NEW q \in Reqs \ {r}
        PROVE  Consistent(q)' /\ Counts(q)'
    <3>1. mode' = mode /\ Untouched(q)
      BY <2>1, StepOfOne DEF IInv
    <3>2. Consistent(q) /\ Counts(q)
      BY DEF IInv
    <3>3. Consistent(q)'
      BY <3>1, <3>2 DEF mode, Untouched, Consistent, Place, Outcome, Submitted, Unstarted
    <3>4. Counts(q)'
      <4>1. worker' = worker /\ kind' = kind
        BY <3>1 DEF mode
      <4> QED BY <4>1, <3>1, <3>2, Zenon DEF Untouched, Counts
    <3> QED BY <3>3, <3>4
  <2> QED BY <2>3, <2>4, <2>5 DEF IInv
<1> QED BY <1>1, <1>2

(* The inductive invariant holds in every state.                           *)
THEOREM InvariantHolds == Spec => []IInv
BY InitInvariant, NextInvariant, PTL DEF Spec

(* At most one holder, counted.                                            *)
LEMMA LockIsOnes == Lock => Cardinality(holder) <= 1
<1> SUFFICES ASSUME Lock
             PROVE  Cardinality(holder) <= 1
  OBVIOUS
<1>1. CASE holder = {}
  BY <1>1, FS_EmptySet
<1>2. CASE holder # {}
  <2>1. PICK r : r \in holder
    BY <1>2
  <2>2. holder = {r}
    BY <2>1 DEF Lock
  <2>3. Cardinality(holder) = 1
    BY <2>2, FS_Singleton, Zenon
  <2> QED BY <2>3
<1> QED BY <1>1, <1>2

(* Type correctness, and with it the mutual exclusion of generate_lock,    *)
(* for any number of requests.                                             *)
THEOREM TypeCorrect == Spec => []TypeOK
<1>1. IInv => TypeOK
  BY LockIsOnes DEF IInv, Types, CountTypes, Lock, TypeOK, Answers, Refusals
<1> QED BY <1>1, InvariantHolds, PTL

(* The counters of prometheus.py: the tokens of a finished request are     *)
(* added once, and a request is counted at most once, however its handler, *)
(* its stream and the worker interleave.                                   *)
THEOREM EveryRequestCountedOnce == Spec => []CountedOnce
<1>1. IInv => CountedOnce
  BY DEF IInv, Counts, CountedOnce
<1> QED BY <1>1, InvariantHolds, PTL

(* A job record never says more than is so: "finished" means over and      *)
(* delivered, and a refused request leaves no record.                      *)
THEOREM RecordsAreTrue == Spec => []RecordTellsTheTruth
<1>1. IInv => RecordTellsTheTruth
  <2> SUFFICES ASSUME IInv, NEW r \in Reqs
               PROVE  /\ record[r] = "finished" =>
                           /\ gen[r] \in Over
                           /\ worker => told[r] \in {"200", "[DONE]"}
                      /\ told[r] \in {"200", "[DONE]"} => record[r] = "finished"
                      /\ at[r] = "left" /\ worker => record[r] = "running"
                      /\ worker /\ gen[r] # "none" => Found(r) = "waiting"
                      /\ gen[r] = "none" => record[r] = "none" /\ seqRecord[r] = "none"
    BY DEF RecordTellsTheTruth
  <2>1. Consistent(r) /\ Types
    BY DEF IInv
  <2> QED BY <2>1 DEF Consistent, Place, Outcome, Submitted, Unstarted, Found, Types, Over,
                      Answers, Refusals
<1> QED BY <1>1, InvariantHolds, PTL

-----------------------------------------------------------------------------
(* The control plane: the rate limit holds for every limit, and a job      *)
(* record moves forward.  Its two halves share nothing but the client of   *)
(* Redis and the crash, so each has an invariant of its own.               *)

(* What makes LimitHolds inductive: a request that waits for its decision  *)
(* has the highest number of the window, and those let pass before it have *)
(* lower ones.                                                             *)
LimitInv ==
    /\ granted <= counter /\ granted <= Limit
    /\ call = "expiring" => granted = 0 /\ n = 1
    /\ call = "counted" => n = counter /\ granted < n

(* What makes JobMovesForward hold in the next step: memory is up to date, *)
(* Redis is at most one write behind, and no poll has seen more than a     *)
(* record of Redis that the next poll may find.                            *)
JobInv ==
    /\ memory = status /\ seen <= status
    /\ putting => enabled /\ 1 <= status /\ stored < status
    /\ enabled /\ ~putting => stored \in {0, status}
    /\ enabled /\ stored # 0 => seen <= stored
    /\ reading => Known
    /\ reading /\ enabled => stored # 1

-----------------------------------------------------------------------------
(* The assumptions on the constants, in the form the steps use.            *)
LEMMA Bounds ==
    /\ Limit \in Nat /\ 1 <= Limit
    /\ MaxCount \in Nat /\ Limit < MaxCount
    /\ MaxStatus \in {1, 2}
BY LimitAssumption, CountAssumption, StatusAssumption

-----------------------------------------------------------------------------
(* The parts of ControlTypeOK.                                             *)
Numbers ==
    /\ counter \in 0 .. MaxCount /\ n \in 0 .. MaxCount /\ granted \in Nat
    /\ memory \in 0 .. MaxStatus /\ stored \in 0 .. MaxStatus
    /\ status \in 0 .. MaxStatus /\ seen \in 0 .. MaxStatus

Flags ==
    /\ enabled \in BOOLEAN /\ expiry \in BOOLEAN /\ sticky \in BOOLEAN
    /\ putting \in BOOLEAN /\ reading \in BOOLEAN /\ failed \in BOOLEAN

Window ==
    /\ call \in {"idle", "counted", "expiring"}
    /\ expiry => counter # 0
    /\ call = "expiring" => counter = 1 /\ ~expiry

(* They make up ControlTypeOK.                                             *)
LEMMA ControlTypeParts == ControlTypeOK <=> Numbers /\ Flags /\ Window
BY DEF ControlTypeOK, Numbers, Flags, Window

(* Every step keeps each of them; the numbers need the bounds.             *)
LEMMA NumbersNext ==
    ASSUME ControlTypeOK, [ControlNext]_controlVars
    PROVE  Numbers'
<1> USE Bounds DEF ControlTypeOK, Numbers, limiter, writer, reader, job
<1>1. CASE Incr \/ IncrRaises
  BY <1>1 DEF Incr, IncrRaises
<1>2. CASE Expire \/ ExpireRaises
  BY <1>2 DEF Expire, ExpireRaises
<1>3. CASE Decide
  BY <1>3 DEF Decide
<1>4. CASE WindowEnds
  BY <1>4 DEF WindowEnds
<1>5. CASE PutMemory
  BY <1>5 DEF PutMemory
<1>6. CASE PutRedis \/ PutRaises
  BY <1>6 DEF PutRedis, PutRaises
<1>7. CASE RecordExpires
  BY <1>7 DEF RecordExpires
<1>8. CASE GetRedis
  BY <1>8 DEF GetRedis
<1>9. CASE GetRaises \/ GetMemory
  BY <1>9 DEF GetRaises, GetMemory
<1>10. CASE Close
  BY <1>10 DEF Close
<1>11. CASE Crash
  BY <1>11 DEF Crash, Attached
<1>12. CASE UNCHANGED controlVars
  BY <1>12 DEF controlVars
<1> QED BY <1>1, <1>2, <1>3, <1>4, <1>5, <1>6, <1>7, <1>8, <1>9, <1>10, <1>11, <1>12 DEF ControlNext

(* The flags are Boolean.                                                  *)
LEMMA FlagsNext ==
    ASSUME ControlTypeOK, [ControlNext]_controlVars
    PROVE  Flags'
<1> USE DEF ControlTypeOK, Flags, limiter, writer, reader, job
<1>1. CASE Incr \/ IncrRaises
  BY <1>1 DEF Incr, IncrRaises
<1>2. CASE Expire \/ ExpireRaises
  BY <1>2 DEF Expire, ExpireRaises
<1>3. CASE Decide
  BY <1>3 DEF Decide
<1>4. CASE WindowEnds
  BY <1>4 DEF WindowEnds
<1>5. CASE PutMemory
  BY <1>5 DEF PutMemory
<1>6. CASE PutRedis \/ PutRaises
  BY <1>6 DEF PutRedis, PutRaises
<1>7. CASE RecordExpires
  BY <1>7 DEF RecordExpires
<1>8. CASE GetRedis
  BY <1>8 DEF GetRedis
<1>9. CASE GetRaises \/ GetMemory
  BY <1>9 DEF GetRaises, GetMemory
<1>10. CASE Close
  BY <1>10 DEF Close
<1>11. CASE Crash
  BY <1>11 DEF Crash, Attached
<1>12. CASE UNCHANGED controlVars
  BY <1>12 DEF controlVars
<1> QED BY <1>1, <1>2, <1>3, <1>4, <1>5, <1>6, <1>7, <1>8, <1>9, <1>10, <1>11, <1>12 DEF ControlNext

(* The EXPIRE belongs to a key that was created and has no time to live.   *)
LEMMA WindowNext ==
    ASSUME ControlTypeOK, [ControlNext]_controlVars
    PROVE  Window'
<1> USE DEF ControlTypeOK, Window, limiter, writer, reader, job
<1>1. CASE Incr \/ IncrRaises
  BY <1>1 DEF Incr, IncrRaises
<1>2. CASE Expire \/ ExpireRaises
  BY <1>2 DEF Expire, ExpireRaises
<1>3. CASE Decide
  BY <1>3 DEF Decide
<1>4. CASE WindowEnds
  BY <1>4 DEF WindowEnds
<1>5. CASE PutMemory
  BY <1>5 DEF PutMemory
<1>6. CASE PutRedis \/ PutRaises
  BY <1>6 DEF PutRedis, PutRaises
<1>7. CASE RecordExpires
  BY <1>7 DEF RecordExpires
<1>8. CASE GetRedis
  BY <1>8 DEF GetRedis
<1>9. CASE GetRaises \/ GetMemory
  BY <1>9 DEF GetRaises, GetMemory
<1>10. CASE Close
  BY <1>10 DEF Close
<1>11. CASE Crash
  BY <1>11 DEF Crash, Attached
<1>12. CASE UNCHANGED controlVars
  BY <1>12 DEF controlVars
<1> QED BY <1>1, <1>2, <1>3, <1>4, <1>5, <1>6, <1>7, <1>8, <1>9, <1>10, <1>11, <1>12 DEF ControlNext

(* Hence every step keeps ControlTypeOK.                                   *)
LEMMA ControlTypeNext == ControlTypeOK /\ [ControlNext]_controlVars => ControlTypeOK'
BY NumbersNext, FlagsNext, WindowNext DEF ControlTypeOK, Numbers, Flags, Window

(* ControlSpec => []ControlTypeOK: the time to live is set by the call     *)
(* that created the key, before any other call counts.                     *)
THEOREM ControlTypeCorrect == ControlSpec => []ControlTypeOK
<1>1. ControlInit => Numbers
  BY Bounds DEF ControlInit, Numbers
<1>2. ControlInit => Flags
  BY DEF ControlInit, Flags, Attached
<1>3. ControlInit => Window
  BY DEF ControlInit, Window
<1>4. ControlInit => ControlTypeOK
  BY <1>1, <1>2, <1>3, ControlTypeParts
<1> QED BY <1>4, ControlTypeNext, PTL DEF ControlSpec

-----------------------------------------------------------------------------
(* Only the steps of allow() and the end of a window disturb LimitInv.     *)
LEMMA LimitNext == ControlTypeOK /\ LimitInv /\ [ControlNext]_controlVars => LimitInv'
<1> SUFFICES ASSUME ControlTypeOK, LimitInv, [ControlNext]_controlVars PROVE LimitInv'
  OBVIOUS
<1> USE Bounds DEF ControlTypeOK, LimitInv
<1>1. CASE Incr
  BY <1>1 DEF Incr
<1>2. CASE IncrRaises
  BY <1>2 DEF IncrRaises
<1>3. CASE Expire
  BY <1>3 DEF Expire
<1>4. CASE ExpireRaises
  BY <1>4 DEF ExpireRaises
<1>5. CASE Decide
  BY <1>5 DEF Decide
<1>6. CASE WindowEnds
  BY <1>6 DEF WindowEnds
<1>7. CASE Close \/ Crash
  BY <1>7 DEF Close, Crash
<1>8. CASE UNCHANGED limiter
  BY <1>8 DEF limiter
<1>9. CASE \/ PutMemory \/ PutRedis \/ PutRaises \/ RecordExpires
           \/ GetRedis \/ GetRaises \/ GetMemory
  BY <1>8, <1>9 DEF PutMemory, PutRedis, PutRaises, RecordExpires, GetRedis, GetRaises, GetMemory
<1> QED BY <1>1, <1>2, <1>3, <1>4, <1>5, <1>6, <1>7, <1>8, <1>9 DEF ControlNext, controlVars

(* ControlSpec => []LimitHolds: at most Limit requests of a window are     *)
(* counted and let pass, for every limit, whatever fails between the       *)
(* commands.                                                               *)
THEOREM RateLimited == ControlSpec => []LimitHolds
<1>1. ControlInit => LimitInv
  BY Bounds DEF ControlInit, LimitInv
<1>2. LimitInv => LimitHolds
  BY DEF LimitInv, LimitHolds
<1> QED BY <1>1, <1>2, ControlTypeCorrect, LimitNext, PTL DEF ControlSpec

-----------------------------------------------------------------------------
(* A failure is remembered, so a step that leaves none behind has none     *)
(* before it and is none of those that fail.                               *)
LEMMA JobNext ==
    ASSUME ControlTypeOK, ~failed => JobInv, [ControlNext]_controlVars, ~failed'
    PROVE  JobInv' /\ seen' >= seen
<1> USE Bounds DEF ControlTypeOK, JobInv, Known
<1>1. JobInv /\ ~failed
  BY DEF ControlNext, controlVars, limiter, writer, reader, job, Incr, IncrRaises, Expire, ExpireRaises, Decide,
         WindowEnds, PutMemory, PutRedis, PutRaises, RecordExpires, GetRedis, GetRaises,
         GetMemory, Close, Crash
<1>2. CASE PutMemory
  BY <1>1, <1>2 DEF PutMemory, limiter, reader
<1>3. CASE PutRedis
  BY <1>1, <1>3 DEF PutRedis, limiter, reader
<1>4. CASE RecordExpires
  BY <1>1, <1>4 DEF RecordExpires, limiter, reader
<1>5. CASE GetRedis
  BY <1>1, <1>5 DEF GetRedis, limiter, writer
<1>6. CASE GetMemory
  BY <1>1, <1>6 DEF GetMemory, limiter, writer
<1>7. CASE Close
  BY <1>1, <1>7 DEF Close, job, writer, reader
<1>8. CASE UNCHANGED <<enabled, job>>
  BY <1>1, <1>8 DEF job, writer, reader
<1>9. CASE Incr \/ IncrRaises \/ Expire \/ ExpireRaises \/ Decide \/ WindowEnds \/ UNCHANGED controlVars
  BY <1>8, <1>9 DEF Incr, IncrRaises, Expire, ExpireRaises, Decide, WindowEnds, controlVars, limiter
<1>10. CASE PutRaises \/ GetRaises \/ Crash
  BY <1>10 DEF PutRaises, GetRaises, Crash
<1> QED BY <1>2, <1>3, <1>4, <1>5, <1>6, <1>7, <1>9, <1>10 DEF ControlNext

(* ControlSpec => JobMovesForward: no poll answers with an earlier status  *)
(* than the poll before it, as long as no command for the record failed.   *)
THEOREM PollsMoveForward == ControlSpec => JobMovesForward
<1> DEFINE Forward == ~failed => JobInv
<1>1. ControlInit => Forward
  BY Bounds DEF ControlInit, JobInv, Known
<1>2. ControlTypeOK /\ Forward /\ [ControlNext]_controlVars => Forward'
  BY JobNext
<1>3. ControlTypeOK /\ Forward /\ [ControlNext]_controlVars => [~failed' => seen' >= seen]_controlVars
  BY JobNext
<1> QED BY <1>1, <1>2, <1>3, ControlTypeCorrect, PTL DEF ControlSpec, JobMovesForward
=============================================================================
