--------------------------- MODULE DeliveryWorker ---------------------------
(***************************************************************************)
(* packages/python/src/dolshoe: the queue and the background thread of     *)
(* worker.py, with the part of client.py that decides what reaches them    *)
(* (_capture, capture_log, _finish_span, flush, close).                    *)
(*                                                                         *)
(* Application threads and delivery threads interleave wherever CPython    *)
(* may switch: between calls, never inside an `x += 1` or an assignment.   *)
(* fork() is followed into the child: what the parent still has to send is *)
(* marked "parent" and must not be sent again.                             *)
(***************************************************************************)
EXTENDS Integers, Sequences, FiniteSets

CONSTANTS
  Threads,     \* application threads
  Applications, \* what an application does with its client
  Workers,     \* bound: delivery threads that may be started
  Errors,      \* the events that will be captured: error reports,
  Logs,        \* log records
  Spans,       \* and finished spans
  Flushes,     \* bound: the FlushRequest objects
  Senders,     \* kinds of batch that have somewhere to go
  MaxBatch,    \* MAX_LOG_BATCH_SIZE and MAX_SPAN_BATCH_SIZE
  Stop,        \* the None that ends a delivery thread
  Null

Items == Errors \cup Logs \cup Spans
Kinds == {"log", "span"}

ASSUME DeliveryAssumption ==
  /\ Applications \subseteq [closers : SUBSET Threads, forkers : SUBSET Threads,
                             events : SUBSET Items, flushes : SUBSET Flushes,
                             maxQueueSize : Nat \ {0}]
  /\ Senders \subseteq Kinds
  /\ MaxBatch \in Nat \ {0}
  /\ Null \notin Workers \cup Flushes \cup Nat /\ Stop \notin Items \cup Flushes
  /\ Items \cap Flushes = {}
  /\ Errors \cap Logs = {} /\ Errors \cap Spans = {} /\ Logs \cap Spans = {}

VARIABLES
  application, \* which of its threads may close() and fork(), what it captures, its flushes, its options
  closed,      \* DolshoeClient._closed
  stopped,     \* DeliveryWorker._stopped
  queue,       \* _queue
  thread,      \* _thread
  batch,       \* _log_batch and _span_batch
  failures,    \* _failures
  acked,       \* _acknowledged_failures
  worker,      \* each delivery thread
  caller,      \* each application thread
  answer,      \* FlushRequest.failures, Null until the event is set
  fate,        \* history: what became of each event
  countedAs,   \* history: the value of _failures that counts its loss
  flushed      \* history: what each flush had to wait for, saw and returned

shared  == <<application, closed, stopped, queue, thread, batch, failures, acked>>
history == <<fate, countedAs, flushed>>
vars    == <<shared, worker, caller, answer, history>>

Unborn     == [at |-> "unborn", agenda |-> <<>>, sending |-> {}, request |-> Null]
IdleCaller == [at |-> "idle", item |-> Null, request |-> Null, handle |-> Null,
               closing |-> FALSE]
Unused     == [before |-> {}, observed |-> 0, returned |-> "unused"]

Init ==
  /\ application \in Applications
  /\ closed = FALSE /\ stopped = FALSE
  /\ queue = <<>>
  /\ thread = Null
  /\ batch = [k \in Kinds |-> {}]
  /\ failures = 0 /\ acked = 0
  /\ worker = [w \in Workers |-> Unborn]
  /\ caller = [t \in Threads |-> IdleCaller]
  /\ answer = [f \in Flushes |-> Null]
  /\ fate = [i \in Items |-> "new"]
  /\ countedAs = [i \in Items |-> 0]
  /\ flushed = [f \in Flushes |-> Unused]

KindOf(i) == IF i \in Logs THEN "log" ELSE "span"

\* A thread has ended once it left its loop with nothing more to send.
Ended(w) == worker[w].at = "stopping" /\ worker[w].agenda = <<>> /\ worker[w].sending = {}

\* Thread.is_alive().
Alive(w) == w # Null /\ worker[w].at # "unborn" /\ ~Ended(w)

Goto(t, at) == caller' = [caller EXCEPT ![t].at = at]

Return(t) == caller' = [caller EXCEPT ![t] = IdleCaller]

-----------------------------------------------------------------------------
(* Capturing *)

\* A client that is closed gives no id.
CaptureRefused(t, i) ==
  /\ caller[t].at = "idle"
  /\ fate[i] = "new"
  /\ closed
  /\ fate' = [fate EXCEPT ![i] = "refused"]
  /\ UNCHANGED <<shared, worker, caller, answer, countedAs, flushed>>

\* Past the check of _closed the event has its id, and submit_* is called.
Capture(t, i) ==
  /\ caller[t].at = "idle"
  /\ fate[i] = "new"
  /\ ~closed
  /\ fate' = [fate EXCEPT ![i] = "given"]
  /\ caller' = [caller EXCEPT ![t] = [IdleCaller EXCEPT !.at = "submit", !.item = i]]
  /\ UNCHANGED <<shared, worker, answer, countedAs, flushed>>

\* _put returns without a word once _stopped is set.
PutIgnored(t) ==
  /\ caller[t].at = "submit"
  /\ stopped
  /\ fate' = [fate EXCEPT ![caller[t].item] = "ignored"]
  /\ Return(t)
  /\ UNCHANGED <<shared, worker, answer, countedAs, flushed>>

PutAccepted(t) ==
  /\ caller[t].at = "submit"
  /\ ~stopped
  /\ Goto(t, "ensure")
  /\ UNCHANGED <<shared, worker, answer, history>>

ThreadRuns(t) ==
  /\ caller[t].at = "ensure"
  /\ Alive(thread)
  /\ Goto(t, "put")
  /\ UNCHANGED <<shared, worker, answer, history>>

\* Under the lock: a new Thread is assigned to _thread, and not yet running.
CreateThread(t) ==
  /\ caller[t].at = "ensure"
  /\ ~Alive(thread)
  /\ \A other \in Threads : caller[other].at # "start"
  /\ \E w \in Workers :
       /\ worker[w].at = "unborn"
       /\ thread' = w
       /\ caller' = [caller EXCEPT ![t].at = "start", ![t].handle = w]
  /\ UNCHANGED <<application, closed, stopped, queue, batch, failures, acked, worker, answer, history>>

\* It runs, even if close() has forgotten it since.
StartThread(t) ==
  /\ caller[t].at = "start"
  /\ worker' = [worker EXCEPT ![caller[t].handle].at = "get"]
  /\ Goto(t, "put")
  /\ UNCHANGED <<shared, answer, history>>

\* A queue that was given no maximum.
NeverFull == FALSE

Full == Len(queue) >= application.maxQueueSize

Enqueue(t) ==
  /\ caller[t].at = "put"
  /\ ~Full
  /\ queue' = Append(queue, caller[t].item)
  /\ fate' = [fate EXCEPT ![caller[t].item] = "queued"]
  /\ Return(t)
  /\ UNCHANGED <<application, closed, stopped, thread, batch, failures, acked, worker, answer,
                 countedAs, flushed>>

\* queue.Full: capturing never blocks, so the event is dropped and counted.
Drop(t) ==
  /\ caller[t].at = "put"
  /\ Full
  /\ failures' = failures + 1
  /\ fate' = [fate EXCEPT ![caller[t].item] = "lost"]
  /\ countedAs' = [countedAs EXCEPT ![caller[t].item] = failures + 1]
  /\ Return(t)
  /\ UNCHANGED <<application, closed, stopped, queue, thread, batch, acked, worker, answer, flushed>>

-----------------------------------------------------------------------------
(* The delivery thread.  `agenda` is what it has begun and not finished:     *)
(* batches to send and a flush to answer; `sending` is the request under way. *)

Ready(w, at) == worker[w].at = at /\ worker[w].agenda = <<>> /\ worker[w].sending = {}

SendBatches == <<"log", "span">>

\* A marker answered as soon as it is met, before the partial batches.
AnswerFirst == <<"answer", "log", "span">>

AnswerLast == Append(SendBatches, "answer")

\* _handle for the head of the queue.
Handle(w, x) ==
  \/ /\ x \in Errors
     /\ worker' = [worker EXCEPT ![w].at = "drain", ![w].sending = {x}]
     /\ fate' = [fate EXCEPT ![x] = "sending"]
     /\ UNCHANGED batch
  \/ /\ x \in Logs \cup Spans
     /\ batch' = [batch EXCEPT ![KindOf(x)] = @ \cup {x}]
     /\ worker' = [worker EXCEPT ![w].at = "drain", ![w].agenda =
          IF Cardinality(batch[KindOf(x)]) + 1 >= MaxBatch THEN <<KindOf(x)>> ELSE <<>>]
     /\ UNCHANGED fate
  \/ /\ x \in Flushes
     /\ worker' = [worker EXCEPT ![w].at = "drain", ![w].request = x,
                                 ![w].agenda = AnswerLast]
     /\ UNCHANGED <<batch, fate>>

\* The head is None: send what is in the batches (nothing, when it is the first
\* thing get() returned) and leave the loop.
Leave(w, agenda) ==
  /\ Head(queue) = Stop
  /\ worker' = [worker EXCEPT ![w].at = "stopping", ![w].agenda = agenda]
  /\ UNCHANGED <<batch, fate>>

\* queue.get() and then get_nowait(), until None or an empty queue.
GetNext(w) ==
  /\ queue # <<>>
  /\ queue' = Tail(queue)
  /\ \/ (Ready(w, "get") \/ Ready(w, "drain")) /\ Handle(w, Head(queue))
     \/ Ready(w, "get") /\ Leave(w, <<>>)
     \/ Ready(w, "drain") /\ Leave(w, SendBatches)
  /\ UNCHANGED <<application, closed, stopped, thread, failures, acked, caller, answer,
                 countedAs, flushed>>

\* The queue is found empty and the partial batches stay where they are.
DrainEmptyKeeps(w) ==
  /\ Ready(w, "drain")
  /\ queue = <<>>
  /\ worker' = [worker EXCEPT ![w].at = "get"]
  /\ UNCHANGED <<shared, caller, answer, history>>

\* The queue is found empty: the partial batches go out before the next get().
DrainEmpty(w) ==
  /\ Ready(w, "drain")
  /\ queue = <<>>
  /\ worker' = [worker EXCEPT ![w].at = "get", ![w].agenda = SendBatches]
  /\ UNCHANGED <<shared, caller, answer, history>>

Due(w, step) ==
  /\ worker[w].sending = {}
  /\ worker[w].agenda # <<>>
  /\ Head(worker[w].agenda) = step

\* A batch that is sent and left in place.
TakeBatchKeeps(w, k) ==
  /\ Due(w, k)
  /\ worker' = [worker EXCEPT ![w].agenda = Tail(@), ![w].sending = batch[k]]
  /\ fate' = [i \in Items |-> IF i \in batch[k] THEN "sending" ELSE fate[i]]
  /\ UNCHANGED <<shared, caller, answer, countedAs, flushed>>

\* A batch is taken whole and replaced by an empty one, or discarded when it has
\* nowhere to go.
TakeBatch(w, k) ==
  LET sent == IF k \in Senders THEN batch[k] ELSE {} IN
  /\ Due(w, k)
  /\ worker' = [worker EXCEPT ![w].agenda = Tail(@), ![w].sending = sent]
  /\ batch' = [batch EXCEPT ![k] = {}]
  /\ fate' = [i \in Items |-> IF i \in sent THEN "sending"
                              ELSE IF i \in batch[k] THEN "discarded" ELSE fate[i]]
  /\ UNCHANGED <<application, closed, stopped, queue, thread, failures, acked, caller, answer,
                 countedAs, flushed>>

\* The sender returns: sent, or filtered out by a before_send hook.
SendReturns(w) ==
  /\ worker[w].sending # {}
  /\ worker' = [worker EXCEPT ![w].sending = {}]
  /\ fate' = [i \in Items |-> IF i \in worker[w].sending THEN "landed" ELSE fate[i]]
  /\ UNCHANGED <<shared, caller, answer, countedAs, flushed>>

\* An exception of the sender that escapes the thread.
SendEscapes(w) ==
  /\ worker[w].sending # {}
  /\ failures' = failures + 1
  /\ worker' = [worker EXCEPT ![w] = [Unborn EXCEPT !.at = "stopping"]]
  /\ fate' = [i \in Items |-> IF i \in worker[w].sending THEN "lost" ELSE fate[i]]
  /\ UNCHANGED <<application, closed, stopped, queue, thread, batch, acked, caller, answer,
                 countedAs, flushed>>

\* The sender raises: one failure for the whole request, which is not repeated.
SendRaises(w) ==
  LET lost == worker[w].sending IN
  /\ lost # {}
  /\ failures' = failures + 1
  /\ worker' = [worker EXCEPT ![w].sending = {}]
  /\ fate' = [i \in Items |-> IF i \in lost THEN "lost" ELSE fate[i]]
  /\ countedAs' = [i \in Items |-> IF i \in lost THEN failures + 1 ELSE countedAs[i]]
  /\ UNCHANGED <<application, closed, stopped, queue, thread, batch, acked, caller, answer, flushed>>

Answer(w) ==
  /\ Due(w, "answer")
  /\ answer' = [answer EXCEPT ![worker[w].request] = failures]
  /\ worker' = [worker EXCEPT ![w].agenda = Tail(@), ![w].request = Null]
  /\ UNCHANGED <<shared, caller, history>>

-----------------------------------------------------------------------------
(* Flushing *)

\* What a flush that begins now has to wait for: everything queued so far.
QueuedSoFar == {i \in Items : fate[i] \notin {"new", "refused", "given", "ignored"}}

\* flush() begins: with no live thread there is nothing to wait for.
FlushFrom(t, f, closing) ==
  /\ flushed[f].returned = "unused"
  /\ flushed' = [flushed EXCEPT ![f].returned = "pending", ![f].before = QueuedSoFar]
  /\ caller' = [caller EXCEPT ![t] = [IdleCaller EXCEPT
       !.at = IF Alive(thread) THEN "mark" ELSE "acknowledge",
       !.request = f, !.closing = closing]]
  /\ UNCHANGED <<worker, answer, fate, countedAs>>

Flush(t, f) ==
  /\ caller[t].at = "idle"
  /\ FlushFrom(t, f, FALSE)
  /\ UNCHANGED shared

\* flush() returns; close() goes on.
FlushReturns(t, result) ==
  /\ flushed' = [flushed EXCEPT ![caller[t].request].returned = result]
  /\ caller' = [caller EXCEPT ![t] =
       IF @.closing THEN [@ EXCEPT !.at = "stop", !.request = Null] ELSE IdleCaller]

PutMarker(t) ==
  /\ caller[t].at = "mark"
  /\ ~Full
  /\ queue' = Append(queue, caller[t].request)
  /\ Goto(t, "wait")
  /\ UNCHANGED <<application, closed, stopped, thread, batch, failures, acked, worker, answer, history>>

MarkerFull(t) ==
  /\ caller[t].at = "mark"
  /\ Full
  /\ FlushReturns(t, "timeout")
  /\ UNCHANGED <<shared, worker, answer, fate, countedAs>>

WaitEnds(t) ==
  /\ caller[t].at = "wait"
  /\ answer[caller[t].request] # Null
  /\ Goto(t, "acknowledge")
  /\ UNCHANGED <<shared, worker, answer, history>>

\* The timeout passes first.  The failures are not consumed.
WaitTimesOut(t) ==
  /\ caller[t].at = "wait"
  /\ answer[caller[t].request] = Null
  /\ FlushReturns(t, "timeout")
  /\ UNCHANGED <<shared, worker, answer, fate, countedAs>>

Observed(f) == IF answer[f] = Null THEN failures ELSE answer[f]

\* _acknowledge.
Acknowledge(t) ==
  LET f == caller[t].request
      observed == Observed(f)
      result == IF observed = acked THEN "true" ELSE "false" IN
  /\ caller[t].at = "acknowledge"
  /\ acked' = observed
  /\ flushed' = [flushed EXCEPT ![f].returned = result, ![f].observed = observed]
  /\ caller' = [caller EXCEPT ![t] =
       IF @.closing THEN [@ EXCEPT !.at = "stop", !.request = Null] ELSE IdleCaller]
  /\ UNCHANGED <<application, closed, stopped, queue, thread, batch, failures, worker, answer,
                 fate, countedAs>>

-----------------------------------------------------------------------------
(* Closing *)

\* client.close(): no capture gets an id from here on; then flush() begins.
Close(t, f) ==
  /\ caller[t].at = "idle"
  /\ closed' = TRUE
  /\ FlushFrom(t, f, TRUE)
  /\ UNCHANGED <<application, stopped, queue, thread, batch, failures, acked>>

\* _stopped is set; without a live thread there is none to end.
StopAccepting(t) ==
  /\ caller[t].at = "stop"
  /\ stopped' = TRUE
  /\ caller' = [caller EXCEPT ![t].at = IF Alive(thread) THEN "sentinel" ELSE "forget",
                             ![t].handle = thread]
  /\ UNCHANGED <<application, closed, queue, thread, batch, failures, acked, worker, answer, history>>

\* queue.put(None) waits for room, however long that takes.
PutSentinel(t) ==
  /\ caller[t].at = "sentinel"
  /\ ~Full
  /\ queue' = Append(queue, Stop)
  /\ Goto(t, "join")
  /\ UNCHANGED <<application, closed, stopped, thread, batch, failures, acked, worker, answer, history>>

\* thread.join(timeout) returns, whether the thread has ended or not.
Join(t) ==
  /\ caller[t].at = "join"
  /\ Goto(t, "forget")
  /\ UNCHANGED <<shared, worker, answer, history>>

ForgetThread(t) ==
  /\ caller[t].at = "forget"
  /\ thread' = Null
  /\ Return(t)
  /\ UNCHANGED <<application, closed, stopped, queue, batch, failures, acked, worker, answer, history>>

-----------------------------------------------------------------------------
(* fork() *)

\* The events the parent will deliver, or is in the middle of capturing.
ParentHas == {i \in Items : fate[i] \in {"queued", "sending", "given"}}

\* The child without _after_fork_in_child.
ForkInherits(t) ==
  /\ caller[t].at = "idle"
  /\ \A w \in Workers : worker[w].at # "forked"
  /\ worker' = [w \in Workers |->
       IF worker[w].at = "unborn" THEN Unborn ELSE [Unborn EXCEPT !.at = "forked"]]
  /\ thread' = Null
  /\ caller' = [other \in Threads |-> IdleCaller]
  /\ fate' = [i \in Items |-> IF i \in ParentHas THEN "parent" ELSE fate[i]]
  /\ UNCHANGED <<application, closed, stopped, queue, batch, failures, acked, answer, countedAs, flushed>>

\* Only the forking thread is left in the child, with a queue, a lock and
\* batches of its own.  Bound: one fork that finds a delivery thread.
Fork(t) ==
  /\ caller[t].at = "idle"
  /\ \A w \in Workers : worker[w].at # "forked"
  /\ worker' = [w \in Workers |->
       IF worker[w].at = "unborn" THEN Unborn ELSE [Unborn EXCEPT !.at = "forked"]]
  /\ queue' = <<>>
  /\ thread' = Null
  /\ batch' = [k \in Kinds |-> {}]
  /\ caller' = [other \in Threads |-> IdleCaller]
  /\ fate' = [i \in Items |-> IF i \in ParentHas THEN "parent" ELSE fate[i]]
  /\ UNCHANGED <<application, closed, stopped, failures, acked, answer, countedAs, flushed>>

-----------------------------------------------------------------------------

Submit(t) ==
  \/ PutIgnored(t) \/ PutAccepted(t) \/ ThreadRuns(t)
  \/ CreateThread(t) \/ StartThread(t)
  \/ Enqueue(t) \/ Drop(t)

FinishFlush(t) ==
  PutMarker(t) \/ MarkerFull(t) \/ WaitEnds(t) \/ WaitTimesOut(t) \/ Acknowledge(t)

FinishClose(t) == StopAccepting(t) \/ PutSentinel(t) \/ Join(t) \/ ForgetThread(t)

Deliver(w) ==
  \/ GetNext(w) \/ DrainEmpty(w)
  \/ \E k \in Kinds : TakeBatch(w, k)
  \/ SendReturns(w) \/ SendRaises(w)
  \/ Answer(w)

Next ==
  \/ \E t \in Threads, i \in application.events : CaptureRefused(t, i) \/ Capture(t, i)
  \/ \E t \in Threads : Submit(t) \/ FinishFlush(t) \/ FinishClose(t)
  \/ \E t \in Threads, f \in application.flushes : Flush(t, f)
  \/ \E t \in application.closers, f \in application.flushes : Close(t, f)
  \/ \E t \in application.forkers : Fork(t)
  \/ \E w \in Workers : Deliver(w)

Spec == Init /\ [][Next]_vars

(* Threads are scheduled, a request ends (the transport has a timeout), and a *)
(* call that began goes on.  Nobody has to call anything.                     *)

Fairness ==
  /\ \A w \in Workers : WF_vars(Deliver(w))
  /\ \A t \in Threads : WF_vars(Submit(t) \/ FinishFlush(t) \/ FinishClose(t))

FairSpec == Spec /\ Fairness
-----------------------------------------------------------------------------
(* Properties *)

Fates == {"new", "refused", "given", "ignored", "queued", "sending", "landed",
          "lost", "discarded", "parent"}

Worker == [at : {"unborn", "get", "drain", "stopping", "forked"},
           agenda : Seq(Kinds \cup {"answer"}),
           sending : SUBSET Items, request : Flushes \cup {Null}]
Caller == [at : {"idle", "submit", "ensure", "start", "put", "mark", "wait", "acknowledge",
                 "stop", "sentinel", "join", "forget"},
           item : Items \cup {Null}, request : Flushes \cup {Null},
           handle : Workers \cup {Null}, closing : BOOLEAN]
FlushRecord == [before : SUBSET Items, observed : Nat,
                returned : {"unused", "pending", "timeout", "true", "false"}]

\* Every variable has its type, and the queue its maximum.
TypeOK ==
  /\ application \in Applications
  /\ closed \in BOOLEAN /\ stopped \in BOOLEAN
  /\ queue \in Seq(Items \cup Flushes \cup {Stop}) /\ Len(queue) <= application.maxQueueSize
  /\ thread \in Workers \cup {Null}
  /\ batch \in [Kinds -> SUBSET Items]
  /\ failures \in Nat /\ acked \in Nat
  /\ worker \in [Workers -> Worker]
  /\ caller \in [Threads -> Caller]
  /\ answer \in [Flushes -> Nat \cup {Null}]
  /\ fate \in [Items -> Fates]
  /\ countedAs \in [Items -> Nat]
  /\ flushed \in [Flushes -> FlushRecord]

Reported(i) ==
  /\ fate[i] = "lost"
  /\ \E g \in Flushes : flushed[g].returned = "false" /\ flushed[g].observed >= countedAs[i]

Settled(i) == fate[i] \in {"landed", "discarded", "parent"} \/ Reported(i)

AllSettled(f) == \A i \in flushed[f].before : Settled(i)

\* A flush that returns True before the worker is stopped tells the truth:
\* everything queued before it began landed, or its loss was already told to
\* somebody by a flush that returned False, whatever the order in which
\* concurrent flushes acknowledge, also while another thread is closing.
FlushTruth ==
  [][\A f \in Flushes :
       flushed[f].returned # "true" /\ flushed'[f].returned = "true" /\ ~stopped => AllSettled(f)]_vars

\* No event is handed to a transport twice: neither by the same process nor by
\* a child that was forked while the parent was delivering it.
SentOnce ==
  [][\A i \in Items : fate'[i] = "sending" /\ fate[i] # "sending" => fate[i] = "queued"]_vars

\* In the end what was queued is sent, or counted as lost, unless the worker is
\* stopped: no event waits for the next one to push it out.
QueuedIsDelivered == <>[](stopped \/ \A i \in Items : fate[i] \notin {"queued", "sending"})

\* Another thread's close() ended the delivery thread after this one had seen it
\* alive and before it found room for its own None.
Overtaken(t) ==
  /\ caller[t].at = "sentinel"
  /\ Ended(caller[t].handle)
  /\ application.closers # {t}

\* Capturing, flushing and closing come back, although close() waits without a
\* timeout for room in the queue.  The exception is a close() that was overtaken
\* by another: nobody makes room for its None any more (worker.close checks
\* is_alive() first and calls queue.put(None) afterwards).
CallsReturn == <>[](\A t \in Threads : caller[t].at = "idle" \/ Overtaken(t))

=============================================================================
