------------------------------ MODULE Delivery -------------------------------
(***************************************************************************)
(* How the tokens and the outcome of one request reach its client:         *)
(* flux/engine/worker.py (_queue_put, _signal_end, _note_token and what    *)
(* ends a sequence), flux/server/sse.py and the handlers of                *)
(* flux/server/routes_openai.py.                                           *)
(*                                                                         *)
(* The producer is the worker, on its thread, or admin_abort, on a thread  *)
(* of its own.  It writes the sequence as it goes; the token queue is      *)
(* filled by callbacks it sends to the loop, the event is set by itself.   *)
(* The client is a coroutine of the loop: a stream, or a handler that      *)
(* waits for the whole answer.  Between two of its awaits no other code of *)
(* the loop runs, and the threads still do.                                *)
(*                                                                         *)
(* A text is a sequence of characters, and a character is the position of  *)
(* the last of its tokens.  A token is a whole character, or the first or  *)
(* the second half of one, or the stop token, which has no text.  Half a   *)
(* character decodes to the replacement character.                         *)
(***************************************************************************)
EXTENDS Integers, SequencesExt

CONSTANT
    MaxTokens    \* sampling.max_tokens

ASSUME MaxTokensAssumption == MaxTokens \in Nat \ {0}

VARIABLES
    out,         \* Sequence.output_ids
    reason,      \* Sequence.finish_reason
    status,      \* Sequence.status; "live" for those that are not over
    result,      \* Sequence.result is there
    abort,       \* Sequence.abort_requested
    sched,       \* callbacks sent to the loop that have not run yet
    items,       \* Sequence.token_queue
    finished,    \* the flag of finished_event
    waiter,      \* "none", "waiting" or "woken": the future of its waiter
    prod,        \* where the producer is
    byAdmin,     \* the producer is admin_abort
    dead,        \* run() has ended without aborting its leftovers
    kind,        \* "stream" or "wait"
    client,      \* where the client's coroutine is
    ending,      \* iter_text_deltas has left its loop
    prev,        \* its prev: the text it has made into deltas
    sent,        \* the text the client has received
    told         \* the outcome the client has been told

seq      == <<out, reason, status, result>>
channel  == <<sched, items, finished, waiter>>
producer == <<prod, byAdmin, dead>>
consumer == <<kind, client, ending, prev, sent, told>>
vars     == <<seq, abort, channel, producer, consumer>>

Init ==
    /\ out = << >> /\ reason = "none" /\ status = "live" /\ result = FALSE
    /\ abort = FALSE
    /\ sched = << >> /\ items = << >> /\ finished = FALSE /\ waiter = "none"
    /\ prod = "queued" /\ byAdmin = FALSE /\ dead = FALSE
    /\ \/ kind = "stream" /\ client = "start"
       \/ kind = "wait" /\ client = "submit"
    /\ ending = FALSE /\ prev = << >> /\ sent = << >> /\ told = "nothing"

-----------------------------------------------------------------------------
(* The tokenizer.                                                          *)

Kinds(ids) == IF ids # << >> /\ Last(ids) = "first"
              THEN {"second"}
              ELSE {"whole", "first", "stop"}

Replacement == 0

(* decode_tokens of all ids, and of the last one alone.                    *)
Text(ids) ==
    FlattenSeq([i \in 1 .. Len(ids) |->
        CASE ids[i] \in {"whole", "second"} -> <<i>>
          [] ids[i] = "first" -> IF i = Len(ids) THEN <<Replacement>> ELSE << >>
          [] ids[i] = "stop" -> << >>])

LastText(ids) ==
    CASE Last(ids) = "whole" -> <<Len(ids)>>
      [] Last(ids) = "stop"  -> << >>
      [] OTHER               -> <<Replacement>>

-----------------------------------------------------------------------------
(* The producer.                                                           *)

(* The client is at an await: the loop runs callbacks and run().           *)
LoopFree == client \notin {"submit", "register", "look", "decode", "piece", "end", "answer"}

(* The worker has admitted the sequence.                                   *)
StartWork ==
    /\ prod = "queued" /\ LoopFree /\ ~dead
    /\ prod' = "run"
    /\ UNCHANGED <<seq, abort, channel, byAdmin, dead, consumer>>

(* Mutant: a token more after the last one.                                *)
AppendTokenUnchecked ==
    /\ prod = "run"
    /\ \E k \in Kinds(out) : out' = Append(out, k)
    /\ prod' = "note"
    /\ UNCHANGED <<reason, status, result, abort, channel, byAdmin, dead, consumer>>

(* _note_token, first half: the token is in output_ids.                    *)
AppendToken ==
    /\ prod = "run" /\ reason = "none"
    /\ \E k \in Kinds(out) : out' = Append(out, k)
    /\ prod' = "note"
    /\ UNCHANGED <<reason, status, result, abort, channel, byAdmin, dead, consumer>>

(* _note_token, second half: the callback is sent and the reason written,  *)
(* which no client reads before the end.                                   *)
QueueToken ==
    /\ prod = "note"
    /\ sched' = Append(sched, "token")
    /\ reason' = IF Last(out) = "stop" THEN "stop"
                 ELSE IF Len(out) >= MaxTokens THEN "length" ELSE "none"
    /\ prod' = "run"
    /\ UNCHANGED <<out, status, result, abort, items, finished, waiter, byAdmin, dead, consumer>>

(* Mutant: the sequence is signalled without its result.                   *)
FinishWithoutResult ==
    /\ prod = "run" /\ reason # "none"
    /\ status' = "finished"
    /\ prod' = "signal"
    /\ UNCHANGED <<out, reason, result, abort, channel, byAdmin, dead, consumer>>

(* _finish_sequence up to the signal.                                      *)
Finish ==
    /\ prod = "run" /\ reason # "none"
    /\ result' = TRUE
    /\ status' = "finished"
    /\ prod' = "signal"
    /\ UNCHANGED <<out, reason, abort, channel, byAdmin, dead, consumer>>

(* _abort_one of a running sequence.  Only after the first token is the    *)
(* flag looked at before the reason.                                       *)
AbortRunning ==
    /\ prod = "run" /\ abort
    /\ reason = "none" \/ Len(out) = 1
    /\ status' = "aborted"
    /\ prod' = "signal"
    /\ UNCHANGED <<out, reason, result, abort, channel, byAdmin, dead, consumer>>

(* The failures that are handled: the sequence is marked and signalled.    *)
(* An error of _finish_sequence may come after it has stored the result.   *)
Fail ==
    /\ prod = "run"
    /\ status' = "error"
    /\ result' \in IF reason = "none" THEN {FALSE} ELSE BOOLEAN
    /\ prod' = "signal"
    /\ UNCHANGED <<out, reason, abort, channel, byAdmin, dead, consumer>>

(* run() ends with no handler and no _abort_leftovers: a row of the        *)
(* decoded batch, of this sequence or another, raises, or the task is      *)
(* cancelled.  A thread whose task is cancelled may go on with its step,   *)
(* that of the queued worker with the whole sequence; one that raised does *)
(* not.                                                                    *)
WorkerDies ==
    /\ ~dead
    /\ dead' = TRUE
    /\ UNCHANGED <<seq, abort, channel, prod, byAdmin, consumer>>

(* Where nobody need ever signal the sequence: in the queue, between two   *)
(* steps of its decoding, or at an observe_finished that has raised.       *)
Stranded ==
    /\ dead
    /\ \/ prod \in {"queued", "run"}
       \/ prod = "signal" /\ status = "finished"

(* _abort_one of a leftover at shutdown, in the loop.                      *)
AbortLeftover ==
    /\ prod \in {"queued", "run"} /\ reason = "none" /\ LoopFree /\ ~dead
    /\ status' = "aborted"
    /\ prod' = "signal"
    /\ UNCHANGED <<out, reason, result, abort, channel, byAdmin, dead, consumer>>

(* admin_abort has removed the sequence from the queue; its thread waits   *)
(* for nobody.                                                             *)
AdminAbort ==
    /\ prod = "queued"
    /\ byAdmin' = TRUE
    /\ status' = "aborted"
    /\ prod' = "signal"
    /\ UNCHANGED <<out, reason, result, abort, channel, dead, consumer>>

(* _signal_end: None for the token queue, then finished_event.set(), which *)
(* first sets the flag and then looks for waiters.                         *)
SignalEnd ==
    /\ prod = "signal"
    /\ sched' = Append(sched, "end")
    /\ prod' = "set"
    /\ UNCHANGED <<seq, abort, items, finished, waiter, byAdmin, dead, consumer>>

SetFinished ==
    /\ prod = "set"
    /\ finished' = TRUE
    /\ prod' = "wake"
    /\ UNCHANGED <<seq, abort, sched, items, waiter, byAdmin, dead, consumer>>

(* Mutant: the event is set and its waiter left asleep.                    *)
WakeNobody ==
    /\ prod = "wake"
    /\ prod' = "done"
    /\ UNCHANGED <<seq, abort, channel, byAdmin, dead, consumer>>

WakeWaiter ==
    /\ prod = "wake"
    /\ waiter' = IF waiter = "waiting" THEN "woken" ELSE waiter
    /\ prod' = "done"
    /\ UNCHANGED <<seq, abort, sched, items, finished, byAdmin, dead, consumer>>

(* request_abort by admin_abort of a running sequence.                     *)
RaiseFlag ==
    /\ prod \in {"run", "note"} /\ ~abort
    /\ abort' = TRUE
    /\ UNCHANGED <<seq, channel, producer, consumer>>

-----------------------------------------------------------------------------
(* The loop runs the oldest callback: _put.                                *)
Deliver ==
    /\ sched # << >> /\ LoopFree
    /\ items' = Append(items, Head(sched))
    /\ sched' = Tail(sched)
    /\ UNCHANGED <<seq, abort, finished, waiter, producer, consumer>>

-----------------------------------------------------------------------------
(* The stream.                                                             *)
At(from, to) == client = from /\ client' = to

StartStream ==
    /\ At("start", "look")
    /\ UNCHANGED <<seq, abort, channel, producer, kind, ending, prev, sent, told>>

(* Mutant: the end without a last look at the output.                      *)
LookEndingAtOnce ==
    /\ client = "look"
    /\ ending' = (finished /\ items = << >>)
    /\ client' = IF ending' THEN "end" ELSE "get"
    /\ UNCHANGED <<seq, abort, channel, producer, kind, prev, sent, told>>

(* _next_token: over when the event is set and the queue is empty.         *)
Look ==
    /\ client = "look"
    /\ ending' = (finished /\ items = << >>)
    /\ client' = IF ending' THEN "decode" ELSE "get"
    /\ UNCHANGED <<seq, abort, channel, producer, kind, prev, sent, told>>

(* token_queue.get(), or its timeout.                                      *)
Take ==
    /\ At("get", "decode") /\ items # << >>
    /\ ending' = (Head(items) = "end")
    /\ items' = Tail(items)
    /\ UNCHANGED <<seq, abort, sched, finished, waiter, producer, kind, prev, sent, told>>

Timeout ==
    /\ At("get", "look") /\ items = << >>
    /\ UNCHANGED <<seq, abort, channel, producer, kind, ending, prev, sent, told>>

NextPlace == IF ending THEN "end" ELSE "look"

(* A delta is sent if there is one.                                        *)
Emit(text) ==
    /\ prev' = text
    /\ client' = IF text = prev THEN NextPlace ELSE "check"

(* decode_delta: what the whole text has more than prev, or else the text  *)
(* of the last token.  The producer may have added tokens between the two  *)
(* readings, as it may have before the first.                              *)
Decode ==
    /\ client = "decode"
    /\ IF IsPrefix(prev, Text(out))
       THEN Emit(Text(out))
       ELSE client' = "piece" /\ UNCHANGED prev
    /\ UNCHANGED <<seq, abort, channel, producer, kind, ending, sent, told>>

DecodePiece ==
    /\ client = "piece"
    /\ Emit(prev \o LastText(out))
    /\ UNCHANGED <<seq, abort, channel, producer, kind, ending, sent, told>>

(* await request.is_disconnected(), then the chunk.                        *)
Connected ==
    /\ At("check", "send")
    /\ UNCHANGED <<seq, abort, channel, producer, kind, ending, prev, sent, told>>

Send ==
    /\ At("send", NextPlace)
    /\ sent' = prev
    /\ UNCHANGED <<seq, abort, channel, producer, kind, ending, prev, told>>

(* The reason and, unless the sequence was aborted, the last chunk; then   *)
(* [DONE].                                                                 *)
EndReason == IF reason # "none" THEN reason ELSE IF abort THEN "abort" ELSE "length"

End ==
    /\ At("end", "closing")
    /\ told' = IF status = "aborted" THEN "done" ELSE EndReason
    /\ UNCHANGED <<seq, abort, channel, producer, kind, ending, prev, sent>>

(* The client leaves: is_disconnected says so, or the stream is cancelled  *)
(* at an await of its own: request_abort.  Where it has yielded a chunk,   *)
(* the role of a chat at its start or a delta, it is only closed, as it is *)
(* after its end.  A stream that is left before its first step is not      *)
(* modelled: nothing of it would run.                                      *)
Leave ==
    /\ client \in {"get", "check"}
    /\ client' = "gone" /\ abort' = TRUE
    /\ UNCHANGED <<seq, channel, producer, kind, ending, prev, sent, told>>

Abandon ==
    /\ client \in {"start", "send"}
    /\ client' = "closing"
    /\ UNCHANGED <<seq, abort, channel, producer, kind, ending, prev, sent, told>>

(* Mutant: there is no "finally".                                          *)
CloseSilently ==
    /\ client = "closing"
    /\ client' = IF told = "nothing" THEN "gone" ELSE "ended"
    /\ UNCHANGED <<seq, abort, channel, producer, kind, ending, prev, sent, told>>

(* The "finally" of the generator.                                         *)
Close ==
    /\ client = "closing"
    /\ client' = IF told = "nothing" THEN "gone" ELSE "ended"
    /\ abort' = (abort \/ ~finished)
    /\ UNCHANGED <<seq, channel, producer, kind, ending, prev, sent, told>>

-----------------------------------------------------------------------------
(* _wait_result, up to the await in the same step of the loop as _submit:  *)
(* finished_event.wait() looks at the flag and then enters its future.     *)
LookAtEvent ==
    /\ client = "submit"
    /\ client' = IF finished THEN "answer" ELSE "register"
    /\ UNCHANGED <<seq, abort, channel, producer, kind, ending, prev, sent, told>>

Register ==
    /\ At("register", "blocked")
    /\ waiter' = "waiting"
    /\ UNCHANGED <<seq, abort, sched, items, finished, producer, kind, ending, prev, sent, told>>

Wake ==
    /\ At("blocked", "answer") /\ waiter = "woken"
    /\ UNCHANGED <<seq, abort, channel, producer, kind, ending, prev, sent, told>>

Answer ==
    /\ At("answer", "ended")
    /\ told' = CASE status = "error"   -> "500 error"
                 [] status = "aborted" -> "499 aborted"
                 [] OTHER -> IF result THEN "200 result" ELSE "500 no result"
    /\ UNCHANGED <<seq, abort, channel, producer, kind, ending, prev, sent>>

-----------------------------------------------------------------------------
Produce ==
    \/ StartWork \/ AppendToken \/ QueueToken \/ Finish \/ AbortRunning
    \/ SignalEnd \/ SetFinished \/ WakeWaiter

Consume ==
    \/ StartStream \/ Look \/ Take \/ Timeout \/ Decode \/ DecodePiece
    \/ Connected \/ Send \/ End \/ Close
    \/ LookAtEvent \/ Register \/ Wake \/ Answer

Trouble == Fail \/ WorkerDies \/ AbortLeftover \/ AdminAbort \/ RaiseFlag \/ Leave \/ Abandon

Next == Produce \/ Deliver \/ Consume \/ Trouble

(* Neither the thread nor the client is starved, but nothing is asked for  *)
(* a sequence that is stranded.  A client that sleeps in                   *)
(* get() and looks again leaves the loop its turn each time: callbacks and *)
(* the admission need strong fairness.  A waiter that was woken from a     *)
(* thread runs at the latest when the thread returns, which wakes the      *)
(* loop.                                                                   *)
Fairness ==
    /\ WF_vars(~Stranded /\ Produce) /\ SF_vars(StartWork)
    /\ SF_vars(Deliver)
    /\ WF_vars(Consume)

Spec == Init /\ [][Next]_vars /\ Fairness

-----------------------------------------------------------------------------
(* Type correctness, with never more than MaxTokens tokens.                *)
TypeOK ==
    /\ out \in Seq({"whole", "first", "second", "stop"}) /\ Len(out) <= MaxTokens
    /\ reason \in {"none", "stop", "length"}
    /\ status \in {"live", "finished", "aborted", "error"}
    /\ {result, abort, finished, byAdmin, dead, ending} \subseteq BOOLEAN
    /\ sched \in Seq({"token", "end"}) /\ items \in Seq({"token", "end"})
    /\ waiter \in {"none", "waiting", "woken"}
    /\ prod \in {"queued", "run", "note", "signal", "set", "wake", "done"}
    /\ kind \in {"stream", "wait"}
    /\ prev \in Seq(0 .. MaxTokens) /\ sent \in Seq(0 .. MaxTokens)

(* A stream that comes to its end has delivered all of the text, nothing   *)
(* twice and in order, however the sequence ended and whichever of event,  *)
(* None and tokens was seen first, and although a delta may hold tokens    *)
(* whose items are still in the queue.  decode_delta promises it for every *)
(* text: it is to "return (full_text, new_suffix)" (tokenizer.py:47).      *)
EveryTextDelivered == kind = "stream" /\ client = "ended" => sent = Text(out)

(* It holds as long as no character has two tokens.                        *)
WholeCharacters == \A i \in DOMAIN out : out[i] # "first"

TextDelivered == WholeCharacters => EveryTextDelivered

(* A client is told an outcome only when the sequence has one, and which:  *)
(* the thread has written all of it before it signals the end.  A handler  *)
(* that waits tells the three outcomes apart.  A stream does not: it is    *)
(* told the reason, with the result, of a sequence that finished, and      *)
(* [DONE] alone of one that was aborted; but one that failed ends with its *)
(* reason if it had one, or else with "length" or "abort", as if it had    *)
(* ended so.                                                               *)
ToldTheOutcome ==
    /\ told # "nothing" => status # "live"
    /\ kind = "stream" /\ told # "nothing" =>
          CASE status = "finished" -> told = reason /\ result
            [] status = "aborted"  -> told = "done"
            [] status = "error"    -> IF reason = "none" THEN told \in {"length", "abort"}
                                                        ELSE told = reason
    /\ kind = "wait" /\ told # "nothing" =>
          told = CASE status = "finished" -> "200 result"
                   [] status = "aborted"  -> "499 aborted"
                   [] status = "error"    -> "500 error"

(* "Client disconnect -> ABORTED" (IMPLEMENTATION_PLAN.md:748): when a     *)
(* stream is left, at whichever await, the flag is up or the sequence is   *)
(* over.                                                                   *)
AbandonedIsAborted == client = "gone" => abort \/ finished

(* A stream ends, or is left, and a handler that waits gets its answer,    *)
(* unless the worker has died and the sequence stays stranded.  For the    *)
(* handler admin_abort is excepted, too: its thread may set the event      *)
(* between the handler's look at the flag and the entering of its future,  *)
(* and then nobody wakes it.                                               *)
ClientIsServed ==
    /\ kind = "stream" ~> client \in {"ended", "gone"} \/ []Stranded
    /\ kind = "wait" ~> client = "ended" \/ byAdmin \/ []Stranded
=============================================================================
