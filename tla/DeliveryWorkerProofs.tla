------------------------ MODULE DeliveryWorkerProofs ------------------------
(***************************************************************************)
(* Proofs about DeliveryWorker, for any number of application threads,     *)
(* delivery threads, events and flushes: an event is sent once at most,    *)
(* and a flush() that answers True while the client is open has let go of  *)
(* nothing it waited for without a flush having told of it.                *)
(***************************************************************************)
EXTENDS DeliveryWorker, TLAPS

Submitting(t) == caller[t].at \in {"submit", "ensure", "start", "put"}
Flushing(t)   == caller[t].at \in {"mark", "wait", "acknowledge"}

\* Nothing more happens to an event that has one of these.
Final(i) == fate[i] \in {"landed", "lost", "discarded", "parent"}

\* A call that submits has an event of its own, and one that flushes a request.
CallersHold ==
  \A t \in Threads :
    /\ Submitting(t) =>
         /\ caller[t].item \in Items /\ fate[caller[t].item] = "given"
         /\ \A o \in Threads : Submitting(o) /\ caller[o].item = caller[t].item => o = t
    /\ Flushing(t) =>
         /\ caller[t].request \in Flushes /\ flushed[caller[t].request].returned = "pending"
         /\ \A o \in Threads : Flushing(o) /\ caller[o].request = caller[t].request => o = t
    /\ caller[t].at = "start" =>
         /\ caller[t].handle \in Workers /\ worker[caller[t].handle].at = "unborn"
         /\ \A o \in Threads : caller[o].at = "start" => o = t

\* An event is in one place: at one position of the queue, in its batch, or in
\* the request of one delivery thread.
ItemsHeld ==
  /\ \A n \in DOMAIN queue : queue[n] \in Items =>
       /\ fate[queue[n]] = "queued"
       /\ \A k \in Kinds : queue[n] \notin batch[k]
       /\ \A m \in DOMAIN queue : queue[m] = queue[n] => m = n
  /\ \A k \in Kinds : \A i \in batch[k] : fate[i] = "queued" /\ KindOf(i) = k
  /\ \A w \in Workers : \A i \in worker[w].sending :
       /\ fate[i] = "sending"
       /\ \A v \in Workers : i \in worker[v].sending => v = w
  /\ \A w \in Workers : worker[w].at \in {"unborn", "forked"} =>
       worker[w].agenda = <<>> /\ worker[w].sending = {} /\ worker[w].request = Null

\* A loss is counted once, and told of by the flush that acknowledges its count.
LossesTold ==
  /\ acked <= failures
  /\ \A f \in Flushes : answer[f] # Null => answer[f] <= failures
  /\ \A i \in Items : countedAs[i] <= failures
  /\ \A i \in Items : fate[i] = "lost" /\ countedAs[i] <= acked => Reported(i)

\* A flush that has not begun is nowhere, and one that has waits for events
\* that were queued.
FlushesBegin ==
  \A f \in Flushes :
    /\ flushed[f].returned = "unused" =>
         /\ flushed[f].before = {} /\ answer[f] = Null
         /\ \A n \in DOMAIN queue : queue[n] # f
         /\ \A w \in Workers : worker[w].request # f
    /\ \A i \in flushed[f].before : fate[i] \notin {"new", "refused", "given", "ignored"}

\* Until the worker is stopped there is one delivery thread at most, `thread`,
\* and what it has still to send is in the queue, a batch or its request.
OneThread ==
  /\ \A n \in DOMAIN queue : queue[n] # Stop
  /\ \A t \in Threads : caller[t].at \notin {"sentinel", "join", "forget"}
  /\ \A w \in Workers : worker[w].at # "stopping"
  /\ \A w \in Workers : worker[w].at \in {"get", "drain"} => thread = w
  /\ \A t \in Threads : caller[t].at = "start" => caller[t].handle = thread
  /\ thread # Null => worker[thread].at # "forked"
  /\ \A t \in Threads : caller[t].at \in {"put", "mark"} => Alive(thread)
  /\ ~Alive(thread) => queue = <<>> /\ \A k \in Kinds : batch[k] = {}
  /\ \A i \in Items : fate[i] = "queued" =>
       (\E n \in DOMAIN queue : queue[n] = i) \/ (\E k \in Kinds : i \in batch[k])
  /\ \A i \in Items : fate[i] = "sending" => \E w \in Workers : i \in worker[w].sending

\* What a flush waits for is before its marker in the queue, or in what the
\* thread sends before it answers, or over.
Remains(w, i) ==
  \/ Final(i)
  \/ i \in worker[w].sending
  \/ i \in batch["log"] /\ worker[w].agenda = <<"log", "span", "answer">>
  \/ i \in batch["span"] /\ worker[w].agenda # <<"answer">>

FlushesWait ==
  /\ \A n, m \in DOMAIN queue :
       queue[n] \in Flushes /\ n < m => queue[m] \notin flushed[queue[n]].before
  /\ \A w \in Workers : worker[w].request # Null =>
       /\ worker[w].agenda \in
            {<<"log", "span", "answer">>, <<"span", "answer">>, <<"answer">>}
       /\ \A i \in flushed[worker[w].request].before : Remains(w, i)
  /\ \A f \in Flushes : answer[f] # Null =>
       \A i \in flushed[f].before :
         Final(i) /\ (fate[i] = "lost" => countedAs[i] <= answer[f])
  /\ \A t \in Threads : caller[t].at = "acknowledge" =>
       \A i \in flushed[caller[t].request].before : Final(i)

DeliveryInv ==
  /\ TypeOK
  /\ CallersHold
  /\ ItemsHeld
  /\ LossesTold
  /\ FlushesBegin
  /\ ~stopped => OneThread /\ FlushesWait

-----------------------------------------------------------------------------
(* What the steps have in common.                                           *)

\* The records that calls and delivery threads begin and end with.
LEMMA RestTyped ==
  /\ Unborn \in Worker /\ IdleCaller \in Caller
  /\ IdleCaller.at = "idle"
  /\ Unborn.at = "unborn" /\ Unborn.agenda = <<>> /\ Unborn.sending = {} /\ Unborn.request = Null
  BY DEF Unborn, IdleCaller, Worker, Caller

\* A step of one call leaves the others alone,
LEMMA CallerMoves ==
  ASSUME TypeOK, NEW t \in Threads, NEW new \in Caller, caller' = [caller EXCEPT ![t] = new]
  PROVE  /\ caller' \in [Threads -> Caller] /\ caller'[t] = new
         /\ \A o \in Threads : o # t => caller'[o] = caller[o]
  BY DEF TypeOK

\* and so does a step of one delivery thread.
LEMMA WorkerMoves ==
  ASSUME TypeOK, NEW w \in Workers, NEW new \in Worker, worker' = [worker EXCEPT ![w] = new]
  PROVE  /\ worker' \in [Workers -> Worker] /\ worker'[w] = new
         /\ \A v \in Workers : v # w => worker'[v] = worker[v]
  BY DEF TypeOK

\* One that goes on to another statement keeps what it holds.
LEMMA GotoMoves ==
  ASSUME TypeOK, NEW t \in Threads,
         NEW at \in {"ensure", "put", "wait", "acknowledge", "sentinel", "join", "forget"},
         Goto(t, at)
  PROVE  \E new \in Caller :
           /\ caller' = [caller EXCEPT ![t] = new]
           /\ new.at = at /\ new.item = caller[t].item /\ new.request = caller[t].request
           /\ new.handle = caller[t].handle /\ new.closing = caller[t].closing
<1> DEFINE new == [caller[t] EXCEPT !.at = at]
<1>1. caller[t] \in Caller
  BY DEF TypeOK
<1>2. /\ new \in Caller /\ new.at = at /\ new.item = caller[t].item
      /\ new.request = caller[t].request
      /\ new.handle = caller[t].handle /\ new.closing = caller[t].closing
  BY ONLY <1>1, at \in {"ensure", "put", "wait", "acknowledge", "sentinel", "join", "forget"}
     DEF Caller
<1>3. caller' = [caller EXCEPT ![t] = new]
  BY DEF Goto
<1> QED  BY <1>2, <1>3

\* A flush that returns, in whichever way, ends its call or goes on closing.
LEMMA ReturnMoves ==
  ASSUME TypeOK, NEW t \in Threads,
         caller' = [caller EXCEPT ![t] =
           IF @.closing THEN [@ EXCEPT !.at = "stop", !.request = Null] ELSE IdleCaller]
  PROVE  \E new \in Caller : caller' = [caller EXCEPT ![t] = new] /\ new.at \in {"stop", "idle"}
<1> DEFINE stop == [caller[t] EXCEPT !.at = "stop", !.request = Null]
<1>1. caller[t] \in Caller
  BY DEF TypeOK
<1>2. stop \in Caller /\ stop.at = "stop"
  BY ONLY <1>1 DEF Caller
<1>3. caller' = [caller EXCEPT ![t] = IF caller[t].closing THEN stop ELSE IdleCaller]
  OBVIOUS
<1> QED  BY <1>2, <1>3, RestTyped

\* A thread that is there while nothing was stopped has not ended.
LEMMA LiveThread ==
  ASSUME TypeOK, OneThread
  PROVE  /\ Alive(thread) <=> thread \in Workers /\ worker[thread].at \in {"get", "drain"}
         /\ \A w \in Workers : worker[w].at \in {"get", "drain"} => Alive(thread)
  BY DeliveryAssumption DEF TypeOK, OneThread, Alive, Ended, Worker, DeliveryAssumption

\* A step of one call between two of its statements: it takes nothing new, and
\* nothing is queued, sent or answered.
LEMMA CallerStepKeeps ==
  ASSUME DeliveryInv, NEW t \in Threads, NEW new \in Caller,
         caller' = [caller EXCEPT ![t] = new],
         UNCHANGED <<application, queue, batch, failures, acked, worker, answer, history>>,
         closed' \in BOOLEAN, stopped' \in BOOLEAN, stopped => stopped',
         thread' \in Workers \cup {Null}, thread' = thread \/ stopped',
         new.at \in {"submit", "ensure", "start", "put"} =>
           Submitting(t) /\ new.item = caller[t].item,
         new.at \in {"mark", "wait", "acknowledge"} =>
           Flushing(t) /\ new.request = caller[t].request,
         new.at # "start",
         new.at \in {"sentinel", "join", "forget"} => stopped',
         new.at \in {"put", "mark"} /\ ~stopped => Alive(thread),
         new.at = "acknowledge" /\ ~stopped =>
           \A i \in flushed[new.request].before : Final(i)
  PROVE  DeliveryInv'
<1> USE DEF DeliveryInv
<1>1. /\ caller' \in [Threads -> Caller] /\ caller'[t] = new
      /\ \A o \in Threads : o # t => caller'[o] = caller[o]
  BY CallerMoves
<1>2. UNCHANGED <<fate, countedAs, flushed>>
  BY DEF history
<1>3. TypeOK'
  BY <1>1, <1>2 DEF TypeOK
<1>4. CallersHold'
  BY <1>1, <1>2 DEF CallersHold, Submitting, Flushing
<1>5. ItemsHeld'
  BY <1>2 DEF ItemsHeld
<1>6. LossesTold'
  BY <1>2 DEF LossesTold, Reported
<1>7. FlushesBegin'
  BY <1>2 DEF FlushesBegin
<1>8. ASSUME ~stopped' PROVE OneThread' /\ FlushesWait'
  <2>1. ~stopped /\ thread' = thread
    BY <1>8
  <2>2. OneThread'
    BY <1>1, <1>2, <1>8, <2>1 DEF OneThread, Alive, Ended
  <2>3. FlushesWait'
    BY <1>1, <1>2, <2>1 DEF FlushesWait, Remains, Final
  <2> QED  BY <2>2, <2>3
<1> QED  BY <1>3, <1>4, <1>5, <1>6, <1>7, <1>8

LEMMA PutAcceptedKeeps ==
  ASSUME DeliveryInv, NEW t \in Threads, PutAccepted(t) PROVE DeliveryInv'
<1>1. PICK new \in Caller :
        /\ caller' = [caller EXCEPT ![t] = new]
        /\ new.at = "ensure" /\ new.item = caller[t].item
  BY GotoMoves DEF PutAccepted, DeliveryInv
<1>2. UNCHANGED <<shared, worker, answer, history>> /\ Submitting(t)
  BY DEF PutAccepted, Submitting
<1> QED  BY <1>1, <1>2, CallerStepKeeps DEF shared, DeliveryInv, TypeOK

LEMMA ThreadRunsKeeps ==
  ASSUME DeliveryInv, NEW t \in Threads, ThreadRuns(t) PROVE DeliveryInv'
<1>1. PICK new \in Caller :
        /\ caller' = [caller EXCEPT ![t] = new]
        /\ new.at = "put" /\ new.item = caller[t].item
  BY GotoMoves DEF ThreadRuns, DeliveryInv
<1>2. UNCHANGED <<shared, worker, answer, history>> /\ Submitting(t) /\ Alive(thread)
  BY DEF ThreadRuns, Submitting
<1> QED  BY <1>1, <1>2, CallerStepKeeps DEF shared, DeliveryInv, TypeOK

\* The answer that ends the wait was given to a flush whose events are over.
LEMMA WaitEndsKeeps ==
  ASSUME DeliveryInv, NEW t \in Threads, WaitEnds(t) PROVE DeliveryInv'
<1>1. PICK new \in Caller :
        /\ caller' = [caller EXCEPT ![t] = new]
        /\ new.at = "acknowledge" /\ new.request = caller[t].request
  BY GotoMoves DEF WaitEnds, DeliveryInv
<1>2. UNCHANGED <<shared, worker, answer, history>> /\ Flushing(t)
      /\ answer[caller[t].request] # Null
  BY DEF WaitEnds, Flushing
<1>3. caller[t].request \in Flushes
  BY <1>2 DEF DeliveryInv, CallersHold
<1>4. ~stopped => \A i \in flushed[new.request].before : Final(i)
  BY <1>1, <1>2, <1>3 DEF DeliveryInv, FlushesWait
<1> QED  BY <1>1, <1>2, <1>4, CallerStepKeeps DEF shared, DeliveryInv, TypeOK

LEMMA StopAcceptingKeeps ==
  ASSUME DeliveryInv, NEW t \in Threads, StopAccepting(t) PROVE DeliveryInv'
<1>1. PICK new \in Caller :
        caller' = [caller EXCEPT ![t] = new] /\ new.at \in {"sentinel", "forget"}
  <2> DEFINE at == IF Alive(thread) THEN "sentinel" ELSE "forget"
             new == [caller[t] EXCEPT !.at = at, !.handle = thread]
  <2>1. caller[t] \in Caller /\ thread \in Workers \cup {Null} /\ at \in {"sentinel", "forget"}
    BY DEF DeliveryInv, TypeOK
  <2>2. new \in Caller /\ new.at = at
    BY ONLY <2>1 DEF Caller
  <2>3. caller' = [caller EXCEPT ![t] = new]
    BY DEF StopAccepting
  <2> HIDE DEF at, new
  <2> QED  BY <2>1, <2>2, <2>3
<1>2. /\ UNCHANGED <<application, closed, queue, thread, batch, failures, acked, worker, answer, history>>
      /\ stopped'
  BY DEF StopAccepting
<1> QED  BY <1>1, <1>2, CallerStepKeeps DEF DeliveryInv, TypeOK

LEMMA JoinKeeps ==
  ASSUME DeliveryInv, NEW t \in Threads, Join(t) PROVE DeliveryInv'
<1>1. PICK new \in Caller :
        caller' = [caller EXCEPT ![t] = new] /\ new.at = "forget"
  BY GotoMoves DEF Join, DeliveryInv
<1>2. UNCHANGED <<shared, worker, answer, history>> /\ stopped
  BY DEF Join, DeliveryInv, OneThread
<1> QED  BY <1>1, <1>2, CallerStepKeeps DEF shared, DeliveryInv, TypeOK

LEMMA ForgetThreadKeeps ==
  ASSUME DeliveryInv, NEW t \in Threads, ForgetThread(t) PROVE DeliveryInv'
<1>1. caller' = [caller EXCEPT ![t] = IdleCaller]
  BY DEF ForgetThread, Return
<1>2. /\ UNCHANGED <<application, closed, stopped, queue, batch, failures, acked, worker, answer, history>>
      /\ thread' = Null /\ stopped
  BY DEF ForgetThread, DeliveryInv, OneThread
<1> QED  BY <1>1, <1>2, RestTyped, CallerStepKeeps DEF DeliveryInv, TypeOK

-----------------------------------------------------------------------------
(* Capturing an event and putting it into the queue.                        *)

\* One event changes its fate among those that nothing holds and no flush
\* waits for.
LEMMA UnheldKeeps ==
  ASSUME DeliveryInv, NEW t \in Threads, NEW new \in Caller, NEW i \in Items,
         NEW what \in {"refused", "given", "ignored"},
         caller' = [caller EXCEPT ![t] = new], fate' = [fate EXCEPT ![i] = what],
         UNCHANGED <<shared, worker, answer, countedAs, flushed>>,
         \/ fate[i] = "new" /\ ~Submitting(t)
         \/ Submitting(t) /\ i = caller[t].item,
         (new.at = "submit" /\ new.item = i /\ what = "given") \/ new.at = "idle"
  PROVE  DeliveryInv'
<1> USE DEF DeliveryInv
<1>1. /\ caller' \in [Threads -> Caller] /\ caller'[t] = new
      /\ \A o \in Threads : o # t => caller'[o] = caller[o]
  BY CallerMoves
<1>2. /\ UNCHANGED <<application, closed, stopped, queue, thread, batch, failures, acked>>
      /\ UNCHANGED <<worker, answer, countedAs, flushed>>
  BY DEF shared
<1>3. /\ fate[i] \in {"new", "given"} /\ fate'[i] = what
      /\ \A j \in Items : j # i => fate'[j] = fate[j]
  BY DEF CallersHold, TypeOK
<1>4. TypeOK'
  BY <1>1, <1>2 DEF TypeOK, Fates
<1>5. CallersHold'
  <2>1. \A o \in Threads : o # t /\ Submitting(o) => caller[o].item # i
    BY DEF CallersHold
  <2> QED  BY <1>1, <1>2, <1>3, <2>1 DEF CallersHold, Submitting, Flushing
<1>6. ItemsHeld'
  BY <1>2, <1>3 DEF ItemsHeld, TypeOK, Worker
<1>7. LossesTold'
  BY <1>2, <1>3 DEF LossesTold, Reported
<1>8. FlushesBegin'
  BY <1>2, <1>3 DEF FlushesBegin, TypeOK, FlushRecord
<1>9. ASSUME ~stopped' PROVE OneThread' /\ FlushesWait'
  <2>1. ~stopped
    BY <1>2, <1>9
  <2>2. OneThread'
    BY <1>1, <1>2, <1>3, <2>1 DEF OneThread, Alive, Ended
  <2>3. \A f \in Flushes : \A j \in flushed[f].before : fate'[j] = fate[j]
    <3>1. \A f \in Flushes : \A j \in flushed[f].before : j \in Items /\ j # i
      BY <1>3 DEF FlushesBegin, TypeOK, FlushRecord
    <3> QED  BY <1>3, <3>1
  <2>4. /\ \A w \in Workers : worker[w].request # Null => worker[w].request \in Flushes
        /\ \A o \in Threads : caller[o].at = "acknowledge" => caller[o].request \in Flushes
    BY DEF TypeOK, Worker, CallersHold, Flushing
  <2>5. FlushesWait'
    BY <1>1, <1>2, <2>1, <2>3, <2>4 DEF FlushesWait, Remains, Final
  <2> QED  BY <2>2, <2>5
<1> QED  BY <1>4, <1>5, <1>6, <1>7, <1>8, <1>9

LEMMA CaptureRefusedKeeps ==
  ASSUME DeliveryInv, NEW t \in Threads, NEW i \in Items, CaptureRefused(t, i)
  PROVE  DeliveryInv'
<1>1. caller[t] \in Caller /\ caller' = [caller EXCEPT ![t] = caller[t]] /\ caller[t].at = "idle"
  BY DEF CaptureRefused, DeliveryInv, TypeOK
<1>2. fate' = [fate EXCEPT ![i] = "refused"] /\ fate[i] = "new" /\ ~Submitting(t)
      /\ UNCHANGED <<shared, worker, answer, countedAs, flushed>>
  BY DEF CaptureRefused, Submitting
<1> QED  BY <1>1, <1>2, UnheldKeeps

LEMMA CaptureKeeps ==
  ASSUME DeliveryInv, NEW t \in Threads, NEW i \in Items, Capture(t, i)
  PROVE  DeliveryInv'
<1> DEFINE new == [IdleCaller EXCEPT !.at = "submit", !.item = i]
<1>1. new \in Caller /\ new.at = "submit" /\ new.item = i
  BY DEF IdleCaller, Caller
<1>2. /\ fate' = [fate EXCEPT ![i] = "given"] /\ fate[i] = "new" /\ ~Submitting(t)
      /\ caller' = [caller EXCEPT ![t] = new]
      /\ UNCHANGED <<shared, worker, answer, countedAs, flushed>>
  BY DEF Capture, Submitting
<1> QED  BY <1>1, <1>2, UnheldKeeps

LEMMA PutIgnoredKeeps ==
  ASSUME DeliveryInv, NEW t \in Threads, PutIgnored(t)
  PROVE  DeliveryInv'
<1>1. PICK i \in Items : i = caller[t].item /\ Submitting(t)
  BY DEF PutIgnored, DeliveryInv, CallersHold, Submitting
<1>2. /\ fate' = [fate EXCEPT ![i] = "ignored"]
      /\ caller' = [caller EXCEPT ![t] = IdleCaller]
      /\ UNCHANGED <<shared, worker, answer, countedAs, flushed>>
  BY <1>1 DEF PutIgnored, Return
<1> QED  BY <1>1, <1>2, RestTyped, UnheldKeeps

\* A thread is created only where none lives, and is the one that is started.
LEMMA CreateThreadKeeps ==
  ASSUME DeliveryInv, NEW t \in Threads, CreateThread(t)
  PROVE  DeliveryInv'
<1> USE DEF DeliveryInv
<1>1. PICK w \in Workers :
        /\ worker[w].at = "unborn" /\ thread' = w
        /\ caller' = [caller EXCEPT ![t].at = "start", ![t].handle = w]
  BY DEF CreateThread
<1>2. /\ UNCHANGED <<application, closed, stopped, queue, batch, failures, acked, worker, answer>>
      /\ UNCHANGED <<fate, countedAs, flushed>>
      /\ caller[t].at = "ensure" /\ ~Alive(thread)
      /\ \A o \in Threads : caller[o].at # "start"
  BY DEF CreateThread, history
<1>3. PICK new \in Caller :
        /\ caller' = [caller EXCEPT ![t] = new]
        /\ new.at = "start" /\ new.handle = w /\ new.item = caller[t].item
  <2> DEFINE new == [caller[t] EXCEPT !.at = "start", !.handle = w]
  <2>1. caller[t] \in Caller
    BY DEF TypeOK
  <2>2. new \in Caller /\ new.at = "start" /\ new.handle = w /\ new.item = caller[t].item
    BY <2>1 DEF Caller
  <2>3. caller' = [caller EXCEPT ![t] = new]
    BY <1>1
  <2> QED  BY <2>2, <2>3
<1>4. /\ caller' \in [Threads -> Caller] /\ caller'[t] = new
      /\ \A o \in Threads : o # t => caller'[o] = caller[o]
  BY <1>3, CallerMoves
<1>5. TypeOK'
  BY <1>1, <1>2, <1>4 DEF TypeOK
<1>6. CallersHold'
  BY <1>1, <1>2, <1>3, <1>4 DEF CallersHold, Submitting, Flushing
<1>7. ItemsHeld' /\ LossesTold' /\ FlushesBegin'
  BY <1>2 DEF ItemsHeld, LossesTold, Reported, FlushesBegin
<1>8. ASSUME ~stopped' PROVE OneThread' /\ FlushesWait'
  <2>1. ~stopped /\ OneThread /\ FlushesWait
    BY <1>2, <1>8
  <2>2. \A v \in Workers : worker[v].at \notin {"get", "drain"}
    BY <1>2, <2>1, LiveThread
  <2>3. ~Alive(thread)'
    BY <1>1, <1>2 DEF Alive
  <2>4. \A o \in Threads : caller[o].at \notin {"put", "mark"}
    BY <1>2, <2>1 DEF OneThread
  <2>5. queue = <<>> /\ \A k \in Kinds : batch[k] = {}
    BY <1>2, <2>1 DEF OneThread
  <2>6. OneThread'
    BY <1>1, <1>2, <1>3, <1>4, <2>1, <2>2, <2>3, <2>4, <2>5 DEF OneThread
  <2>7. FlushesWait'
    BY <1>2, <1>3, <1>4, <2>1 DEF FlushesWait, Remains, Final
  <2> QED  BY <2>6, <2>7
<1> QED  BY <1>5, <1>6, <1>7, <1>8

LEMMA StartThreadKeeps ==
  ASSUME DeliveryInv, NEW t \in Threads, StartThread(t)
  PROVE  DeliveryInv'
<1> USE DEF DeliveryInv
<1>1. PICK w \in Workers : /\ w = caller[t].handle /\ worker[w].at = "unborn"
                           /\ \A o \in Threads : caller[o].at = "start" => o = t
  BY DEF StartThread, CallersHold
<1>2. /\ UNCHANGED <<application, closed, stopped, queue, thread, batch, failures, acked, answer>>
      /\ UNCHANGED <<fate, countedAs, flushed>>
      /\ caller[t].at = "start"
  BY DEF StartThread, shared, history
<1>3. PICK new \in Caller :
        /\ caller' = [caller EXCEPT ![t] = new]
        /\ new.at = "put" /\ new.item = caller[t].item
  BY GotoMoves DEF StartThread
<1>4. /\ caller' \in [Threads -> Caller] /\ caller'[t] = new
      /\ \A o \in Threads : o # t => caller'[o] = caller[o]
  BY <1>3, CallerMoves
<1>5. PICK begun \in Worker :
        /\ worker' = [worker EXCEPT ![w] = begun]
        /\ begun.at = "get" /\ begun.agenda = worker[w].agenda
        /\ begun.sending = worker[w].sending /\ begun.request = worker[w].request
  <2> DEFINE begun == [worker[w] EXCEPT !.at = "get"]
  <2>1. worker[w] \in Worker
    BY DEF TypeOK
  <2>2. begun \in Worker /\ begun.at = "get" /\ begun.agenda = worker[w].agenda
        /\ begun.sending = worker[w].sending /\ begun.request = worker[w].request
    BY <2>1 DEF Worker
  <2>3. worker' = [worker EXCEPT ![w] = begun]
    BY <1>1 DEF StartThread
  <2> QED  BY <2>2, <2>3
<1>6. /\ worker' \in [Workers -> Worker] /\ worker'[w] = begun
      /\ \A v \in Workers : v # w => worker'[v] = worker[v]
  BY <1>5, WorkerMoves
<1>7. TypeOK'
  BY <1>2, <1>4, <1>6 DEF TypeOK
<1>8. CallersHold'
  BY <1>1, <1>2, <1>3, <1>4, <1>6 DEF CallersHold, Submitting, Flushing
<1>9. \A v \in Workers : /\ worker'[v].sending = worker[v].sending
                         /\ worker'[v].agenda = worker[v].agenda
                         /\ worker'[v].request = worker[v].request
  BY <1>5, <1>6
<1>10. ItemsHeld'
  BY <1>2, <1>5, <1>6, <1>9 DEF ItemsHeld
<1>11. LossesTold' /\ FlushesBegin'
  BY <1>2, <1>9 DEF LossesTold, Reported, FlushesBegin
<1>12. ASSUME ~stopped' PROVE OneThread' /\ FlushesWait'
  <2>1. ~stopped /\ OneThread /\ FlushesWait
    BY <1>2, <1>12
  <2>2. w = thread /\ w # Null
    BY <1>1, <1>2, <2>1, DeliveryAssumption DEF OneThread, DeliveryAssumption
  <2>3. Alive(thread)'
    BY <1>2, <1>5, <1>6, <2>2 DEF Alive, Ended
  <2>4. OneThread'
    BY <1>2, <1>3, <1>4, <1>5, <1>6, <1>9, <2>1, <2>2, <2>3 DEF OneThread
  <2>5. FlushesWait'
    BY <1>2, <1>3, <1>4, <1>9, <2>1 DEF FlushesWait, Remains, Final
  <2> QED  BY <2>4, <2>5
<1> QED  BY <1>7, <1>8, <1>10, <1>11, <1>12

\* What is put into the queue comes behind what was there.
LEMMA PutMoves ==
  ASSUME TypeOK, ~Full, NEW x \in Items \cup Flushes \cup {Stop}, queue' = Append(queue, x),
         UNCHANGED application
  PROVE  /\ queue' \in Seq(Items \cup Flushes \cup {Stop})
         /\ Len(queue') <= application.maxQueueSize
         /\ Len(queue) \in Nat
         /\ DOMAIN queue = 1 .. Len(queue) /\ DOMAIN queue' = 1 .. Len(queue) + 1
         /\ queue'[Len(queue) + 1] = x /\ queue' # <<>>
         /\ \A n \in DOMAIN queue : queue'[n] = queue[n]
<1>1. queue \in Seq(Items \cup Flushes \cup {Stop}) /\ application \in Applications
  BY DEF TypeOK
<1>2. application.maxQueueSize \in Nat
  BY <1>1, DeliveryAssumption DEF DeliveryAssumption
<1> QED  BY <1>1, <1>2 DEF Full

LEMMA EnqueueKeeps ==
  ASSUME DeliveryInv, NEW t \in Threads, Enqueue(t)
  PROVE  DeliveryInv'
<1> USE DEF DeliveryInv
<1>1. PICK i \in Items :
        /\ i = caller[t].item /\ fate[i] = "given"
        /\ \A o \in Threads : Submitting(o) /\ caller[o].item = i => o = t
  BY DEF Enqueue, CallersHold, Submitting
<1>2. /\ UNCHANGED <<application, closed, stopped, thread, batch, failures, acked, worker, answer>>
      /\ UNCHANGED <<countedAs, flushed>>
      /\ caller[t].at = "put" /\ ~Full
      /\ queue' = Append(queue, i) /\ fate' = [fate EXCEPT ![i] = "queued"]
      /\ caller' = [caller EXCEPT ![t] = IdleCaller]
  BY <1>1 DEF Enqueue, Return
<1>3. /\ caller' \in [Threads -> Caller] /\ caller'[t].at = "idle"
      /\ \A o \in Threads : o # t => caller'[o] = caller[o]
  BY <1>2, RestTyped, CallerMoves
<1>4. /\ queue' \in Seq(Items \cup Flushes \cup {Stop})
      /\ Len(queue') <= application.maxQueueSize
      /\ Len(queue) \in Nat
      /\ DOMAIN queue = 1 .. Len(queue) /\ DOMAIN queue' = 1 .. Len(queue) + 1
      /\ queue'[Len(queue) + 1] = i /\ queue' # <<>>
      /\ \A n \in DOMAIN queue : queue'[n] = queue[n]
  BY <1>1, <1>2, PutMoves
<1>5. /\ fate' \in [Items -> Fates] /\ fate'[i] = "queued"
      /\ \A j \in Items : j # i => fate'[j] = fate[j]
  BY <1>2 DEF TypeOK, Fates
<1>6. TypeOK'
  BY <1>2, <1>3, <1>4, <1>5 DEF TypeOK
<1>7. CallersHold'
  BY <1>1, <1>2, <1>3, <1>5 DEF CallersHold, Submitting, Flushing
<1>8. ItemsHeld'
  <2>1. \A n \in DOMAIN queue : queue[n] # i
    BY <1>1 DEF ItemsHeld
  <2>2. \A k \in Kinds : i \notin batch[k]
    BY <1>1 DEF ItemsHeld
  <2>3. \A n \in DOMAIN queue' : queue'[n] \in Items =>
          /\ fate'[queue'[n]] = "queued"
          /\ \A k \in Kinds : queue'[n] \notin batch[k]
          /\ \A m \in DOMAIN queue' : queue'[m] = queue'[n] => m = n
    BY <1>4, <1>5, <2>1, <2>2 DEF ItemsHeld
  <2>4. \A k \in Kinds : \A j \in batch[k] : fate'[j] = "queued" /\ KindOf(j) = k
    BY <1>5, <2>2 DEF ItemsHeld, TypeOK
  <2>5. \A w \in Workers : \A j \in worker[w].sending :
          /\ fate'[j] = "sending"
          /\ \A v \in Workers : j \in worker[v].sending => v = w
    BY <1>1, <1>5 DEF ItemsHeld, TypeOK, Worker
  <2> QED  BY <1>2, <2>3, <2>4, <2>5 DEF ItemsHeld
<1>9. LossesTold'
  BY <1>2, <1>5 DEF LossesTold, Reported
<1>10. \A f \in Flushes : \A j \in flushed[f].before : j \in Items /\ j # i /\ fate'[j] = fate[j]
  BY <1>1, <1>5 DEF FlushesBegin, TypeOK, FlushRecord
<1>11. FlushesBegin'
  BY <1>2, <1>4, <1>10, DeliveryAssumption DEF FlushesBegin, DeliveryAssumption
<1>12. ASSUME ~stopped' PROVE OneThread' /\ FlushesWait'
  <2>1. ~stopped /\ OneThread /\ FlushesWait
    BY <1>2, <1>12
  <2>2. Alive(thread) /\ Alive(thread)'
    BY <1>2, <2>1 DEF OneThread, Alive, Ended
  <2>3. \A n \in DOMAIN queue' : queue'[n] # Stop
    BY <1>4, <2>1, DeliveryAssumption DEF OneThread, DeliveryAssumption
  <2>4. \A j \in Items : fate'[j] = "queued" =>
          (\E n \in DOMAIN queue' : queue'[n] = j) \/ (\E k \in Kinds : j \in batch[k])
    <3>1. Len(queue) + 1 \in DOMAIN queue' /\ \A n \in DOMAIN queue : n \in DOMAIN queue'
      BY <1>4
    <3> QED  BY <1>4, <1>5, <2>1, <3>1 DEF OneThread
  <2>5. \A j \in Items : fate'[j] = "sending" => \E w \in Workers : j \in worker[w].sending
    BY <1>5, <2>1 DEF OneThread
  <2>6. OneThread'
    BY <1>2, <1>3, <2>1, <2>2, <2>3, <2>4, <2>5 DEF OneThread
  <2>7. /\ \A w \in Workers : worker[w].request # Null => worker[w].request \in Flushes
        /\ \A o \in Threads : caller[o].at = "acknowledge" => caller[o].request \in Flushes
    BY DEF TypeOK, Worker, CallersHold, Flushing
  <2>8. \A n, m \in DOMAIN queue' :
          queue'[n] \in Flushes /\ n < m => queue'[m] \notin flushed[queue'[n]].before
    BY <1>4, <1>10, <2>1, DeliveryAssumption DEF FlushesWait, DeliveryAssumption
  <2>9. FlushesWait'
    BY <1>2, <1>3, <1>10, <2>1, <2>7, <2>8 DEF FlushesWait, Remains, Final
  <2> QED  BY <2>6, <2>9
<1> QED  BY <1>6, <1>7, <1>8, <1>9, <1>11, <1>12

\* An event for which there is no room is lost, and counted as one nobody has
\* been told of.
LEMMA DropKeeps ==
  ASSUME DeliveryInv, NEW t \in Threads, Drop(t)
  PROVE  DeliveryInv'
<1> USE DEF DeliveryInv
<1>1. PICK i \in Items :
        /\ i = caller[t].item /\ fate[i] = "given"
        /\ \A o \in Threads : Submitting(o) /\ caller[o].item = i => o = t
  BY DEF Drop, CallersHold, Submitting
<1>2. /\ UNCHANGED <<application, closed, stopped, queue, thread, batch, acked, worker, answer, flushed>>
      /\ failures' = failures + 1
      /\ countedAs' = [countedAs EXCEPT ![i] = failures + 1]
      /\ fate' = [fate EXCEPT ![i] = "lost"]
      /\ caller' = [caller EXCEPT ![t] = IdleCaller]
  BY <1>1 DEF Drop, Return
<1>3. /\ caller' \in [Threads -> Caller] /\ caller'[t].at = "idle"
      /\ \A o \in Threads : o # t => caller'[o] = caller[o]
  BY <1>2, RestTyped, CallerMoves
<1>4. failures \in Nat /\ failures' \in Nat /\ acked \in Nat
  BY <1>2 DEF TypeOK
<1>5. /\ fate' \in [Items -> Fates] /\ fate'[i] = "lost"
      /\ countedAs' \in [Items -> Nat] /\ countedAs'[i] = failures'
      /\ \A j \in Items : j # i => fate'[j] = fate[j] /\ countedAs'[j] = countedAs[j]
  BY <1>2, <1>4 DEF TypeOK, Fates
<1>6. TypeOK'
  BY <1>2, <1>3, <1>4, <1>5 DEF TypeOK
<1>7. CallersHold'
  BY <1>1, <1>2, <1>3, <1>5 DEF CallersHold, Submitting, Flushing
<1>8. ItemsHeld'
  <2>1. \A n \in DOMAIN queue : queue[n] # i
    BY <1>1 DEF ItemsHeld
  <2>2. \A k \in Kinds : i \notin batch[k] /\ batch[k] \subseteq Items
    BY <1>1 DEF ItemsHeld, TypeOK
  <2>3. \A w \in Workers : i \notin worker[w].sending /\ worker[w].sending \subseteq Items
    BY <1>1 DEF ItemsHeld, TypeOK, Worker
  <2> QED  BY <1>2, <1>5, <2>1, <2>2, <2>3 DEF ItemsHeld
<1>9. LossesTold'
  <2>1. \A j \in Items : countedAs[j] \in Nat /\ countedAs[j] <= failures
    BY DEF LossesTold, TypeOK
  <2>2. \A j \in Items : j # i /\ Reported(j) => Reported(j)'
    BY <1>2, <1>5 DEF Reported
  <2>3. \A f \in Flushes : answer[f] # Null => answer[f] \in Nat /\ answer[f] <= failures
    BY DEF LossesTold, TypeOK
  <2>4. acked <= failures
    BY DEF LossesTold
  <2>5. acked' <= failures' /\ \A f \in Flushes : answer'[f] # Null => answer'[f] <= failures'
    BY <1>2, <1>4, <2>3, <2>4
  <2>6. \A j \in Items : countedAs'[j] <= failures'
    BY <1>2, <1>4, <1>5, <2>1
  <2>7. ASSUME NEW j \in Items, fate'[j] = "lost", countedAs'[j] <= acked'
        PROVE  Reported(j)'
    <3>1. j # i
      BY <1>2, <1>4, <1>5, <2>4, <2>7
    <3>2. fate[j] = "lost" /\ countedAs[j] <= acked
      BY <1>2, <1>5, <2>7, <3>1
    <3> QED  BY <2>2, <3>1, <3>2 DEF LossesTold
  <2> QED  BY <2>5, <2>6, <2>7 DEF LossesTold
<1>10. \A f \in Flushes : \A j \in flushed[f].before :
         j \in Items /\ j # i /\ fate'[j] = fate[j] /\ countedAs'[j] = countedAs[j]
  BY <1>1, <1>5 DEF FlushesBegin, TypeOK, FlushRecord
<1>11. FlushesBegin'
  BY <1>2, <1>10 DEF FlushesBegin
<1>12. ASSUME ~stopped' PROVE OneThread' /\ FlushesWait'
  <2>1. ~stopped /\ OneThread /\ FlushesWait
    BY <1>2, <1>12
  <2>2. Alive(thread)' <=> Alive(thread)
    BY <1>2 DEF Alive, Ended
  <2>3. OneThread'
    BY <1>2, <1>3, <1>5, <2>1, <2>2 DEF OneThread
  <2>4. /\ \A w \in Workers : worker[w].request # Null => worker[w].request \in Flushes
        /\ \A o \in Threads : caller[o].at = "acknowledge" => caller[o].request \in Flushes
    BY DEF TypeOK, Worker, CallersHold, Flushing
  <2>5. FlushesWait'
    BY <1>2, <1>3, <1>10, <2>1, <2>4 DEF FlushesWait, Remains, Final
  <2> QED  BY <2>3, <2>5
<1> QED  BY <1>6, <1>7, <1>8, <1>9, <1>11, <1>12

-----------------------------------------------------------------------------
(* Flushing and closing.                                                    *)

\* The marker comes behind everything the flush waits for.
LEMMA PutMarkerKeeps ==
  ASSUME DeliveryInv, NEW t \in Threads, PutMarker(t)
  PROVE  DeliveryInv'
<1> USE DEF DeliveryInv
<1>1. PICK f \in Flushes : f = caller[t].request /\ flushed[f].returned = "pending"
  BY DEF PutMarker, CallersHold, Flushing
<1>2. /\ UNCHANGED <<application, closed, stopped, thread, batch, failures, acked, worker, answer>>
      /\ UNCHANGED <<fate, countedAs, flushed>>
      /\ caller[t].at = "mark" /\ ~Full
      /\ queue' = Append(queue, f)
  BY <1>1 DEF PutMarker, history
<1>3. PICK new \in Caller :
        /\ caller' = [caller EXCEPT ![t] = new]
        /\ new.at = "wait" /\ new.request = caller[t].request
  BY GotoMoves DEF PutMarker
<1>4. /\ caller' \in [Threads -> Caller] /\ caller'[t] = new
      /\ \A o \in Threads : o # t => caller'[o] = caller[o]
  BY <1>3, CallerMoves
<1>5. /\ queue' \in Seq(Items \cup Flushes \cup {Stop})
      /\ Len(queue') <= application.maxQueueSize
      /\ Len(queue) \in Nat
      /\ DOMAIN queue = 1 .. Len(queue) /\ DOMAIN queue' = 1 .. Len(queue) + 1
      /\ queue'[Len(queue) + 1] = f /\ queue' # <<>>
      /\ \A n \in DOMAIN queue : queue'[n] = queue[n]
  BY <1>2, PutMoves
<1>6. TypeOK'
  BY <1>2, <1>4, <1>5 DEF TypeOK
<1>7. CallersHold'
  BY <1>2, <1>3, <1>4 DEF CallersHold, Submitting, Flushing
<1>8. f \notin Items /\ f # Stop
  BY DeliveryAssumption DEF DeliveryAssumption
<1>9. ItemsHeld'
  BY <1>2, <1>5, <1>8 DEF ItemsHeld
<1>10. LossesTold'
  BY <1>2 DEF LossesTold, Reported
<1>11. FlushesBegin'
  BY <1>1, <1>2, <1>5 DEF FlushesBegin
<1>12. ASSUME ~stopped' PROVE OneThread' /\ FlushesWait'
  <2>1. ~stopped /\ OneThread /\ FlushesWait
    BY <1>2, <1>12
  <2>2. Alive(thread) /\ Alive(thread)'
    BY <1>2, <2>1 DEF OneThread, Alive, Ended
  <2>3. \A n \in DOMAIN queue' : queue'[n] # Stop
    BY <1>5, <1>8, <2>1 DEF OneThread
  <2>4. \A j \in Items : fate[j] = "queued" =>
          (\E n \in DOMAIN queue' : queue'[n] = j) \/ (\E k \in Kinds : j \in batch[k])
    <3>1. \A n \in DOMAIN queue : n \in DOMAIN queue'
      BY <1>5
    <3> QED  BY <1>5, <2>1, <3>1 DEF OneThread
  <2>5. OneThread'
    BY <1>2, <1>3, <1>4, <2>1, <2>2, <2>3, <2>4 DEF OneThread
  <2>6. \A n, m \in DOMAIN queue' :
          queue'[n] \in Flushes /\ n < m => queue'[m] \notin flushed[queue'[n]].before
    <3>1. \A g \in Flushes : f \notin flushed[g].before
      BY <1>8 DEF TypeOK, FlushRecord
    <3> QED  BY <1>5, <2>1, <3>1 DEF FlushesWait
  <2>7. FlushesWait'
    BY <1>2, <1>3, <1>4, <2>1, <2>6 DEF FlushesWait, Remains, Final
  <2> QED  BY <2>5, <2>7
<1> QED  BY <1>6, <1>7, <1>9, <1>10, <1>11, <1>12

LEMMA PutSentinelKeeps ==
  ASSUME DeliveryInv, NEW t \in Threads, PutSentinel(t)
  PROVE  DeliveryInv'
<1> USE DEF DeliveryInv
<1>1. /\ UNCHANGED <<application, closed, stopped, thread, batch, failures, acked, worker, answer>>
      /\ UNCHANGED <<fate, countedAs, flushed>>
      /\ ~Full /\ stopped
      /\ queue' = Append(queue, Stop)
  BY DEF PutSentinel, OneThread, history
<1>2. PICK new \in Caller :
        caller' = [caller EXCEPT ![t] = new] /\ new.at = "join"
  BY GotoMoves DEF PutSentinel
<1>3. /\ caller' \in [Threads -> Caller] /\ caller'[t] = new
      /\ \A o \in Threads : o # t => caller'[o] = caller[o]
  BY <1>2, CallerMoves
<1>4. /\ queue' \in Seq(Items \cup Flushes \cup {Stop})
      /\ Len(queue') <= application.maxQueueSize
      /\ Len(queue) \in Nat
      /\ DOMAIN queue = 1 .. Len(queue) /\ DOMAIN queue' = 1 .. Len(queue) + 1
      /\ queue'[Len(queue) + 1] = Stop /\ queue' # <<>>
      /\ \A n \in DOMAIN queue : queue'[n] = queue[n]
  BY <1>1, PutMoves
<1>5. TypeOK'
  BY <1>1, <1>3, <1>4 DEF TypeOK
<1>6. CallersHold'
  BY <1>1, <1>2, <1>3 DEF CallersHold, Submitting, Flushing
<1>7. Stop \notin Items /\ Stop \notin Flushes
  BY DeliveryAssumption DEF DeliveryAssumption
<1>8. ItemsHeld'
  BY <1>1, <1>4, <1>7 DEF ItemsHeld
<1>9. LossesTold'
  BY <1>1 DEF LossesTold, Reported
<1>10. FlushesBegin'
  BY <1>1, <1>4, <1>7 DEF FlushesBegin
<1> QED  BY <1>1, <1>5, <1>6, <1>8, <1>9, <1>10

\* The end of a flush, whatever it answers.
LEMMA FlushEndsKeeps ==
  ASSUME DeliveryInv, NEW t \in Threads, Flushing(t),
         UNCHANGED <<application, closed, stopped, queue, thread, batch, failures, worker, answer,
                     fate, countedAs>>,
         NEW new \in Caller, new.at \in {"stop", "idle"}, caller' = [caller EXCEPT ![t] = new],
         acked' \in Nat, LossesTold',
         flushed' \in [Flushes -> FlushRecord],
         \A g \in Flushes : flushed'[g].before = flushed[g].before,
         \A g \in Flushes : g # caller[t].request => flushed'[g] = flushed[g],
         flushed'[caller[t].request].returned # "unused"
  PROVE  DeliveryInv'
<1> USE DEF DeliveryInv
<1>1. /\ caller' \in [Threads -> Caller] /\ caller'[t] = new
      /\ \A o \in Threads : o # t => caller'[o] = caller[o]
  BY CallerMoves
<1>2. /\ caller[t].request \in Flushes /\ flushed[caller[t].request].returned = "pending"
      /\ \A o \in Threads : Flushing(o) /\ caller[o].request = caller[t].request => o = t
  BY DEF CallersHold
<1>3. TypeOK'
  BY <1>1 DEF TypeOK
<1>4. CallersHold'
  BY <1>1, <1>2 DEF CallersHold, Submitting, Flushing
<1>5. ItemsHeld'
  BY DEF ItemsHeld
<1>6. FlushesBegin'
  BY <1>2 DEF FlushesBegin
<1>7. ASSUME ~stopped' PROVE OneThread' /\ FlushesWait'
  <2>1. ~stopped /\ OneThread /\ FlushesWait
    BY <1>7
  <2>2. OneThread'
    BY <1>1, <2>1 DEF OneThread, Alive, Ended
  <2>3. /\ \A w \in Workers : worker[w].request # Null => worker[w].request \in Flushes
        /\ \A o \in Threads : caller[o].at = "acknowledge" => caller[o].request \in Flushes
    BY DEF TypeOK, Worker, CallersHold, Flushing
  <2>4. FlushesWait'
    BY <1>1, <2>1, <2>3 DEF FlushesWait, Remains, Final
  <2> QED  BY <2>2, <2>4
<1> QED  BY <1>3, <1>4, <1>5, <1>6, <1>7

LEMMA TimeoutKeeps ==
  ASSUME DeliveryInv, NEW t \in Threads, MarkerFull(t) \/ WaitTimesOut(t)
  PROVE  DeliveryInv'
<1> USE DEF DeliveryInv
<1>1. /\ Flushing(t) /\ UNCHANGED <<worker, answer, fate, countedAs>>
      /\ UNCHANGED <<application, closed, stopped, queue, thread, batch, failures, acked>>
      /\ FlushReturns(t, "timeout")
  BY DEF MarkerFull, WaitTimesOut, Flushing, shared
<1>2. PICK f \in Flushes : f = caller[t].request /\ flushed[f].returned = "pending"
  BY <1>1 DEF CallersHold
<1>3. PICK new \in Caller : caller' = [caller EXCEPT ![t] = new] /\ new.at \in {"stop", "idle"}
  BY <1>1, ReturnMoves DEF FlushReturns
<1>4. flushed' = [flushed EXCEPT ![f] = [flushed[f] EXCEPT !.returned = "timeout"]]
  BY <1>1, <1>2 DEF FlushReturns
<1>5. /\ flushed' \in [Flushes -> FlushRecord]
      /\ flushed'[f].before = flushed[f].before /\ flushed'[f].returned = "timeout"
      /\ \A g \in Flushes : g # f => flushed'[g] = flushed[g]
  BY <1>4 DEF TypeOK, FlushRecord
<1>6. LossesTold'
  BY <1>1, <1>2, <1>5 DEF LossesTold, Reported
<1> QED  BY <1>1, <1>2, <1>3, <1>5, <1>6, FlushEndsKeeps DEF TypeOK

\* What a flush acknowledges it has told of, unless an earlier one had.
LEMMA AcknowledgeKeeps ==
  ASSUME DeliveryInv, NEW t \in Threads, Acknowledge(t)
  PROVE  DeliveryInv'
<1> USE DEF DeliveryInv
<1>1. PICK f \in Flushes : f = caller[t].request /\ flushed[f].returned = "pending"
  BY DEF Acknowledge, CallersHold, Flushing
<1> DEFINE observed == Observed(f)
           result == IF observed = acked THEN "true" ELSE "false"
<1>2. /\ Flushing(t) /\ acked' = observed
      /\ UNCHANGED <<application, closed, stopped, queue, thread, batch, failures, worker, answer,
                     fate, countedAs>>
      /\ flushed' = [flushed EXCEPT ![f].returned = result, ![f].observed = observed]
  BY <1>1 DEF Acknowledge, Flushing
<1>3. PICK new \in Caller : caller' = [caller EXCEPT ![t] = new] /\ new.at \in {"stop", "idle"}
  BY ReturnMoves DEF Acknowledge
<1>4. observed \in Nat /\ observed <= failures
  BY <1>1 DEF Observed, LossesTold, TypeOK
<1>5. result \in {"true", "false"} /\ (result = "true" <=> observed = acked)
  OBVIOUS
<1> HIDE DEF observed, result
<1>6. flushed' = [flushed EXCEPT ![f] =
        [flushed[f] EXCEPT !.returned = result, !.observed = observed]]
  BY <1>2
<1>7. /\ flushed' \in [Flushes -> FlushRecord]
      /\ flushed'[f].before = flushed[f].before /\ flushed'[f].returned = result
      /\ flushed'[f].observed = observed
      /\ \A g \in Flushes : g # f => flushed'[g] = flushed[g]
  BY <1>4, <1>5, <1>6 DEF TypeOK, FlushRecord
<1>8. LossesTold'
  <2>1. \A i \in Items : Reported(i) => Reported(i)'
    BY <1>1, <1>2, <1>7 DEF Reported
  <2>2. ASSUME NEW i \in Items, fate'[i] = "lost", countedAs'[i] <= acked'
        PROVE  Reported(i)'
    <3>1. fate[i] = "lost" /\ countedAs[i] <= observed
      BY <1>2, <2>2
    <3>2. CASE observed = acked
      BY <2>1, <3>1, <3>2 DEF LossesTold
    <3>3. CASE observed # acked
      <4>1. flushed'[f].returned = "false" /\ flushed'[f].observed >= countedAs[i]
        BY <1>4, <1>5, <1>7, <3>1, <3>3 DEF TypeOK
      <4> QED  BY <1>2, <3>1, <4>1 DEF Reported
    <3> QED  BY <3>2, <3>3
  <2> QED  BY <1>2, <1>4, <2>2 DEF LossesTold
<1> QED  BY <1>1, <1>2, <1>3, <1>4, <1>5, <1>7, <1>8, FlushEndsKeeps

\* A flush that begins waits for what is queued, and where no thread lives
\* nothing is.
LEMMA FlushBeginsKeeps ==
  ASSUME DeliveryInv, NEW t \in Threads, NEW f \in Flushes, NEW closing \in BOOLEAN,
         caller[t].at = "idle", FlushFrom(t, f, closing), closed' \in BOOLEAN,
         UNCHANGED <<application, stopped, queue, thread, batch, failures, acked>>
  PROVE  DeliveryInv'
<1> USE DEF DeliveryInv
<1> DEFINE at == IF Alive(thread) THEN "mark" ELSE "acknowledge"
           new == [IdleCaller EXCEPT !.at = at, !.request = f, !.closing = closing]
<1>1. /\ flushed[f].returned = "unused"
      /\ flushed' = [flushed EXCEPT ![f] =
           [flushed[f] EXCEPT !.returned = "pending", !.before = QueuedSoFar]]
      /\ caller' = [caller EXCEPT ![t] = new]
      /\ UNCHANGED <<worker, answer, fate, countedAs>>
  BY DEF FlushFrom
<1>2. new \in Caller /\ new.at = at /\ new.request = f /\ at \in {"mark", "acknowledge"}
  BY DEF Caller, IdleCaller
<1>3. at = "mark" <=> Alive(thread)
  OBVIOUS
<1> HIDE DEF at, new
<1>4. /\ caller' \in [Threads -> Caller] /\ caller'[t] = new
      /\ \A o \in Threads : o # t => caller'[o] = caller[o]
  BY <1>1, <1>2, CallerMoves
<1>5. /\ flushed' \in [Flushes -> FlushRecord]
      /\ flushed'[f].before = QueuedSoFar /\ flushed'[f].returned = "pending"
      /\ \A g \in Flushes : g # f => flushed'[g] = flushed[g]
  <2>1. QueuedSoFar \in SUBSET Items
    BY DEF QueuedSoFar
  <2> QED  BY <1>1, <2>1 DEF TypeOK, FlushRecord
<1>6. TypeOK'
  BY <1>1, <1>4, <1>5 DEF TypeOK
<1>7. CallersHold'
  <2>1. \A o \in Threads : Flushing(o) => caller[o].request # f
    BY <1>1 DEF CallersHold
  <2> QED  BY <1>1, <1>2, <1>4, <1>5, <2>1 DEF CallersHold, Submitting, Flushing
<1>8. ItemsHeld'
  BY <1>1 DEF ItemsHeld
<1>9. LossesTold'
  BY <1>1, <1>5 DEF LossesTold, Reported
<1>10. FlushesBegin'
  BY <1>1, <1>5 DEF FlushesBegin, QueuedSoFar
<1>11. /\ answer[f] = Null
       /\ \A n \in DOMAIN queue : queue[n] # f
       /\ \A w \in Workers : worker[w].request # f
  BY <1>1 DEF FlushesBegin
<1>12. ASSUME ~stopped' PROVE OneThread' /\ FlushesWait'
  <2>1. ~stopped /\ OneThread /\ FlushesWait
    BY <1>12
  <2>2. Alive(thread)' <=> Alive(thread)
    BY <1>1 DEF Alive, Ended
  <2>3. OneThread'
    BY <1>1, <1>2, <1>3, <1>4, <2>1, <2>2 DEF OneThread
  <2>4. at = "acknowledge" => \A i \in QueuedSoFar : Final(i)
    <3> SUFFICES ASSUME ~Alive(thread), NEW i \in QueuedSoFar PROVE Final(i)
      BY <1>3
    <3>1. i \in Items /\ fate[i] \in {"queued", "sending", "landed", "lost", "discarded", "parent"}
      BY DEF QueuedSoFar, TypeOK, Fates
    <3>2. fate[i] # "queued"
      <4>1. queue = <<>> /\ \A k \in Kinds : batch[k] = {}
        BY <2>1 DEF OneThread
      <4> QED  BY <2>1, <3>1, <4>1 DEF OneThread
    <3>3. fate[i] # "sending"
      <4>1. \A w \in Workers : worker[w].at \in {"unborn", "forked"}
        BY <2>1, LiveThread DEF OneThread, TypeOK, Worker
      <4> QED  BY <2>1, <3>1, <4>1 DEF OneThread, ItemsHeld
    <3> QED  BY <3>1, <3>2, <3>3 DEF Final
  <2>5. /\ \A w \in Workers : worker[w].request # Null =>
             worker[w].request \in Flushes /\ worker[w].request # f
        /\ \A o \in Threads : caller[o].at = "acknowledge" =>
             caller[o].request \in Flushes /\ caller[o].request # f
    BY <1>1, <1>11 DEF TypeOK, Worker, CallersHold, Flushing
  <2>6. FlushesWait'
    BY <1>1, <1>2, <1>4, <1>5, <1>11, <2>1, <2>4, <2>5 DEF FlushesWait, Remains, Final
  <2> QED  BY <2>3, <2>6
<1> QED  BY <1>6, <1>7, <1>8, <1>9, <1>10, <1>12

LEMMA FlushKeeps ==
  ASSUME DeliveryInv, NEW t \in Threads, NEW f \in Flushes, Flush(t, f)
  PROVE  DeliveryInv'
BY FlushBeginsKeeps DEF Flush, shared, DeliveryInv, TypeOK

LEMMA CloseKeeps ==
  ASSUME DeliveryInv, NEW t \in Threads, NEW f \in Flushes, Close(t, f)
  PROVE  DeliveryInv'
BY FlushBeginsKeeps DEF Close

-----------------------------------------------------------------------------
(* The delivery thread.                                                     *)

\* What a thread may have before it.
LEMMA Agendas ==
  /\ SendBatches \in Seq(Kinds \cup {"answer"}) /\ AnswerLast \in Seq(Kinds \cup {"answer"})
  /\ AnswerLast = <<"log", "span", "answer">>
  /\ \A k \in Kinds : <<k>> \in Seq(Kinds \cup {"answer"})
  /\ <<>> \in Seq(Kinds \cup {"answer"})
  /\ <<>> \notin {<<"log", "span", "answer">>, <<"span", "answer">>, <<"answer">>}
  /\ Head(<<"log", "span", "answer">>) = "log"
  /\ Tail(<<"log", "span", "answer">>) = <<"span", "answer">>
  /\ Head(<<"span", "answer">>) = "span" /\ Tail(<<"span", "answer">>) = <<"answer">>
  /\ Head(<<"answer">>) = "answer" /\ Tail(<<"answer">>) = <<>>
  /\ <<"answer">> # <<"span", "answer">> /\ <<"answer">> # <<"log", "span", "answer">>
  /\ <<"span", "answer">> # <<"log", "span", "answer">>
<1>1. SendBatches \in Seq(Kinds \cup {"answer"}) /\ SendBatches = <<"log", "span">>
  BY DEF SendBatches, Kinds
<1>3. AnswerLast \in Seq(Kinds \cup {"answer"})
  BY <1>1 DEF AnswerLast
<1>2. AnswerLast = <<"log", "span", "answer">>
  <2>1. /\ AnswerLast \in Seq(Kinds \cup {"answer"}) /\ Len(AnswerLast) = 3
        /\ AnswerLast[1] = "log" /\ AnswerLast[2] = "span" /\ AnswerLast[3] = "answer"
    BY <1>1, <1>3 DEF AnswerLast
  <2>2. AnswerLast = [n \in 1 .. 3 |-> AnswerLast[n]]
    BY <2>1
  <2>3. <<"log", "span", "answer">> = [n \in 1 .. 3 |-> <<"log", "span", "answer">>[n]]
    OBVIOUS
  <2> QED  BY <2>1, <2>2, <2>3
<1>4. /\ \A k \in Kinds : <<k>> \in Seq(Kinds \cup {"answer"})
      /\ <<>> \in Seq(Kinds \cup {"answer"})
  OBVIOUS
<1>5. <<>> \notin {<<"log", "span", "answer">>, <<"span", "answer">>, <<"answer">>}
  OBVIOUS
<1>6. /\ Head(<<"log", "span", "answer">>) = "log"
      /\ Tail(<<"log", "span", "answer">>) = <<"span", "answer">>
  OBVIOUS
<1>7. /\ Head(<<"span", "answer">>) = "span" /\ Tail(<<"span", "answer">>) = <<"answer">>
      /\ Head(<<"answer">>) = "answer" /\ Tail(<<"answer">>) = <<>>
  OBVIOUS
<1>8. /\ <<"answer">> # <<"span", "answer">> /\ <<"answer">> # <<"log", "span", "answer">>
      /\ <<"span", "answer">> # <<"log", "span", "answer">>
  OBVIOUS
<1> QED  BY <1>1, <1>2, <1>3, <1>4, <1>5, <1>6, <1>7, <1>8

\* While nothing is stopped the others have nothing before them.
LEMMA OthersRest ==
  ASSUME DeliveryInv, ~stopped, NEW w \in Workers, worker[w].at \in {"get", "drain"}
  PROVE  /\ thread = w
         /\ \A v \in Workers : v # w =>
              worker[v].sending = {} /\ worker[v].agenda = <<>> /\ worker[v].request = Null
<1>1. thread = w
  BY DEF DeliveryInv, OneThread
<1>2. \A v \in Workers : v # w => worker[v].at \in {"unborn", "forked"}
  BY <1>1 DEF DeliveryInv, OneThread, TypeOK, Worker
<1> QED  BY <1>1, <1>2 DEF DeliveryInv, ItemsHeld

\* The head of the queue is taken; what is behind it moves up.
LEMMA TakeMoves ==
  ASSUME TypeOK, queue # <<>>, queue' = Tail(queue), UNCHANGED application
  PROVE  /\ queue' \in Seq(Items \cup Flushes \cup {Stop})
         /\ Len(queue') <= application.maxQueueSize
         /\ Len(queue) \in Nat /\ Len(queue) > 0
         /\ DOMAIN queue = 1 .. Len(queue) /\ DOMAIN queue' = 1 .. Len(queue) - 1
         /\ Head(queue) = queue[1] /\ 1 \in DOMAIN queue
         /\ queue[1] \in Items \cup Flushes \cup {Stop}
         /\ \A n \in DOMAIN queue' : n + 1 \in DOMAIN queue /\ queue'[n] = queue[n + 1]
         /\ \A n \in DOMAIN queue : n # 1 => n - 1 \in DOMAIN queue' /\ queue'[n - 1] = queue[n]
<1>1. queue \in Seq(Items \cup Flushes \cup {Stop}) /\ application \in Applications
  BY DEF TypeOK
<1>2. application.maxQueueSize \in Nat
  BY <1>1, DeliveryAssumption DEF DeliveryAssumption
<1>3. /\ queue' \in Seq(Items \cup Flushes \cup {Stop})
      /\ Len(queue) \in Nat /\ Len(queue) > 0 /\ Len(queue') = Len(queue) - 1
      /\ DOMAIN queue = 1 .. Len(queue) /\ DOMAIN queue' = 1 .. Len(queue) - 1
      /\ Head(queue) = queue[1] /\ 1 \in DOMAIN queue
      /\ queue[1] \in Items \cup Flushes \cup {Stop}
  BY <1>1
<1>4. \A n \in DOMAIN queue' : n + 1 \in DOMAIN queue /\ queue'[n] = queue[n + 1]
  BY <1>1, <1>3
<1>5. \A n \in DOMAIN queue : n # 1 => n - 1 \in DOMAIN queue' /\ queue'[n - 1] = queue[n]
  BY <1>1, <1>3, <1>4
<1>6. Len(queue') <= application.maxQueueSize
  BY <1>2, <1>3 DEF TypeOK
<1> QED  BY <1>3, <1>4, <1>5, <1>6

\* An item that is taken is nowhere behind the head; what else is queued still
\* is, and the markers keep their places.
LEMMA TakeKeepsOrder ==
  ASSUME DeliveryInv, queue # <<>>, queue' = Tail(queue), UNCHANGED application
  PROVE  /\ \A n \in DOMAIN queue' : queue'[n] \in Items =>
              /\ queue'[n] # queue[1] /\ fate[queue'[n]] = "queued"
              /\ \A k \in Kinds : queue'[n] \notin batch[k]
              /\ \A m \in DOMAIN queue' : queue'[m] = queue'[n] => m = n
         /\ \A f \in Flushes :
              (\A n \in DOMAIN queue : queue[n] # f) => \A n \in DOMAIN queue' : queue'[n] # f
         /\ ~stopped =>
              /\ \A n \in DOMAIN queue' : queue'[n] # Stop
              /\ \A i \in Items : i # queue[1] /\ fate[i] = "queued" =>
                   (\E n \in DOMAIN queue' : queue'[n] = i) \/ (\E k \in Kinds : i \in batch[k])
              /\ \A n, m \in DOMAIN queue' :
                   queue'[n] \in Flushes /\ n < m => queue'[m] \notin flushed[queue'[n]].before
<1> USE DEF DeliveryInv
<1>1. /\ Len(queue) \in Nat
      /\ DOMAIN queue = 1 .. Len(queue) /\ DOMAIN queue' = 1 .. Len(queue) - 1
      /\ 1 \in DOMAIN queue
      /\ \A n \in DOMAIN queue' : n + 1 \in DOMAIN queue /\ queue'[n] = queue[n + 1]
      /\ \A n \in DOMAIN queue : n # 1 => n - 1 \in DOMAIN queue' /\ queue'[n - 1] = queue[n]
  BY TakeMoves
<1>2. ASSUME NEW n \in DOMAIN queue', queue'[n] \in Items
      PROVE  /\ queue'[n] # queue[1] /\ fate[queue'[n]] = "queued"
             /\ \A k \in Kinds : queue'[n] \notin batch[k]
             /\ \A m \in DOMAIN queue' : queue'[m] = queue'[n] => m = n
  <2>1. /\ n + 1 \in DOMAIN queue /\ queue'[n] = queue[n + 1] /\ n \in Nat /\ n + 1 # 1
    BY <1>1, <1>2
  <2>2. /\ fate[queue[n + 1]] = "queued"
        /\ \A k \in Kinds : queue[n + 1] \notin batch[k]
        /\ \A m \in DOMAIN queue : queue[m] = queue[n + 1] => m = n + 1
    BY <1>2, <2>1 DEF ItemsHeld
  <2>3. queue[1] # queue[n + 1]
    BY <1>1, <2>1, <2>2
  <2>4. ASSUME NEW m \in DOMAIN queue', queue'[m] = queue'[n] PROVE m = n
    <3>1. m + 1 \in DOMAIN queue /\ queue[m + 1] = queue[n + 1] /\ m \in Nat
      BY <1>1, <2>1, <2>4
    <3> QED  BY <2>1, <2>2, <3>1
  <2> QED  BY <2>1, <2>2, <2>3, <2>4
<1>3. \A f \in Flushes :
        (\A n \in DOMAIN queue : queue[n] # f) => \A n \in DOMAIN queue' : queue'[n] # f
  BY <1>1
<1>4. ASSUME ~stopped
      PROVE  /\ \A n \in DOMAIN queue' : queue'[n] # Stop
             /\ \A i \in Items : i # queue[1] /\ fate[i] = "queued" =>
                  (\E n \in DOMAIN queue' : queue'[n] = i) \/ (\E k \in Kinds : i \in batch[k])
  <2>1. ASSUME NEW i \in Items, i # queue[1], NEW n \in DOMAIN queue, queue[n] = i
        PROVE  \E m \in DOMAIN queue' : queue'[m] = i
    BY <1>1, <2>1
  <2> QED  BY <1>1, <1>4, <2>1 DEF OneThread
<1>5. ASSUME ~stopped, NEW n \in DOMAIN queue', NEW m \in DOMAIN queue',
             queue'[n] \in Flushes, n < m
      PROVE  queue'[m] \notin flushed[queue'[n]].before
  <2>1. n + 1 \in DOMAIN queue /\ m + 1 \in DOMAIN queue /\ n + 1 < m + 1
        /\ queue'[n] = queue[n + 1] /\ queue'[m] = queue[m + 1]
    BY <1>1, <1>5
  <2> QED  BY <1>5, <2>1 DEF FlushesWait
<1> QED  BY <1>2, <1>3, <1>4, <1>5

\* A report is sent as soon as it is taken.
LEMMA TakeReportKeeps ==
  ASSUME DeliveryInv, NEW w \in Workers, GetNext(w), Ready(w, "get") \/ Ready(w, "drain"),
         Head(queue) \in Errors, Handle(w, Head(queue))
  PROVE  DeliveryInv'
<1> USE DEF DeliveryInv
<1>1. /\ queue # <<>> /\ queue' = Tail(queue)
      /\ UNCHANGED <<application, closed, stopped, thread, failures, acked, caller, answer,
                     countedAs, flushed>>
      /\ worker[w].at \in {"get", "drain"} /\ worker[w].agenda = <<>> /\ worker[w].sending = {}
  BY DEF GetNext, Ready
<1>2. /\ queue' \in Seq(Items \cup Flushes \cup {Stop})
      /\ Len(queue') <= application.maxQueueSize
      /\ Head(queue) = queue[1] /\ 1 \in DOMAIN queue
  BY <1>1, TakeMoves
<1>3. PICK x \in Items : x = queue[1] /\ x = Head(queue) /\ x \in Errors /\ fate[x] = "queued"
                        /\ \A k \in Kinds : x \notin batch[k]
  BY <1>2 DEF Items, ItemsHeld
<1>4. /\ worker' = [worker EXCEPT ![w].at = "drain", ![w].sending = {x}]
      /\ fate' = [fate EXCEPT ![x] = "sending"]
      /\ UNCHANGED batch
  BY <1>3, DeliveryAssumption DEF Handle, Items, DeliveryAssumption
<1>5. PICK new \in Worker :
        /\ worker' = [worker EXCEPT ![w] = new]
        /\ new.at = "drain" /\ new.sending = {x} /\ new.agenda = <<>>
        /\ new.request = worker[w].request
  <2> DEFINE new == [worker[w] EXCEPT !.at = "drain", !.sending = {x}]
  <2>1. worker[w] \in Worker
    BY DEF TypeOK
  <2>2. new \in Worker /\ new.at = "drain" /\ new.sending = {x} /\ new.agenda = <<>>
        /\ new.request = worker[w].request
    BY <1>1, <2>1 DEF Worker
  <2>3. worker' = [worker EXCEPT ![w] = new]
    BY <1>4
  <2> QED  BY <2>2, <2>3
<1>6. /\ worker' \in [Workers -> Worker] /\ worker'[w] = new
      /\ \A v \in Workers : v # w => worker'[v] = worker[v]
  BY <1>5, WorkerMoves
<1>7. /\ fate' \in [Items -> Fates] /\ fate'[x] = "sending"
      /\ \A j \in Items : j # x => fate'[j] = fate[j]
  BY <1>4 DEF TypeOK, Fates
<1>8. TypeOK'
  BY <1>1, <1>2, <1>4, <1>6, <1>7 DEF TypeOK
<1>9. CallersHold'
  <2>1. \A o \in Threads : Submitting(o) => caller[o].item # x
    BY <1>3 DEF CallersHold
  <2>2. \A o \in Threads : caller[o].at = "start" => caller[o].handle # w
    BY <1>1 DEF CallersHold
  <2> QED  BY <1>1, <1>6, <1>7, <2>1, <2>2 DEF CallersHold, Submitting, Flushing
<1>10. ItemsHeld'
  <2>1. \A n \in DOMAIN queue' : queue'[n] \in Items =>
          /\ fate'[queue'[n]] = "queued"
          /\ \A k \in Kinds : queue'[n] \notin batch[k]
          /\ \A m \in DOMAIN queue' : queue'[m] = queue'[n] => m = n
    BY <1>1, <1>3, <1>7, TakeKeepsOrder
  <2>2. \A k \in Kinds : \A j \in batch[k] : fate'[j] = "queued" /\ KindOf(j) = k
    BY <1>3, <1>7 DEF ItemsHeld, TypeOK
  <2>3. \A v \in Workers : v # w => \A j \in worker[v].sending : j # x /\ fate'[j] = "sending"
    BY <1>3, <1>7 DEF ItemsHeld, TypeOK, Worker
  <2>4. \A v \in Workers : \A j \in worker'[v].sending :
          /\ fate'[j] = "sending"
          /\ \A u \in Workers : j \in worker'[u].sending => u = v
    BY <1>5, <1>6, <1>7, <2>3 DEF ItemsHeld
  <2>5. \A v \in Workers : worker'[v].at \in {"unborn", "forked"} =>
          worker'[v].agenda = <<>> /\ worker'[v].sending = {} /\ worker'[v].request = Null
    BY <1>5, <1>6 DEF ItemsHeld
  <2> QED  BY <1>4, <2>1, <2>2, <2>4, <2>5 DEF ItemsHeld
<1>11. LossesTold'
  BY <1>1, <1>7 DEF LossesTold, Reported
<1>12. FlushesBegin'
  <2>1. \A v \in Workers : worker'[v].request = worker[v].request
    BY <1>5, <1>6
  <2>2. \A f \in Flushes :
          (\A n \in DOMAIN queue : queue[n] # f) => \A n \in DOMAIN queue' : queue'[n] # f
    BY <1>1, TakeKeepsOrder
  <2>3. \A f \in Flushes : \A i \in flushed[f].before :
          fate'[i] \notin {"new", "refused", "given", "ignored"}
    BY <1>7 DEF FlushesBegin, TypeOK, FlushRecord
  <2> QED  BY <1>1, <2>1, <2>2, <2>3 DEF FlushesBegin
<1>13. ASSUME ~stopped' PROVE OneThread' /\ FlushesWait'
  <2>1. ~stopped /\ OneThread /\ FlushesWait
    BY <1>1, <1>13
  <2>2. /\ thread = w /\ w # Null
        /\ \A v \in Workers : v # w =>
             worker[v].sending = {} /\ worker[v].agenda = <<>> /\ worker[v].request = Null
    BY <1>1, <2>1, OthersRest, DeliveryAssumption DEF DeliveryAssumption
  <2>3. Alive(thread)'
    BY <1>1, <1>5, <1>6, <2>2 DEF Alive, Ended
  <2>4. /\ \A n \in DOMAIN queue' : queue'[n] # Stop
        /\ \A i \in Items : i # x /\ fate[i] = "queued" =>
             (\E n \in DOMAIN queue' : queue'[n] = i) \/ (\E k \in Kinds : i \in batch[k])
        /\ \A n, m \in DOMAIN queue' :
             queue'[n] \in Flushes /\ n < m => queue'[m] \notin flushed[queue'[n]].before
    BY <1>1, <1>3, <2>1, TakeKeepsOrder
  <2>5. \A i \in Items : fate'[i] = "sending" => \E v \in Workers : i \in worker'[v].sending
    BY <1>1, <1>5, <1>6, <1>7, <2>1 DEF OneThread
  <2>6. OneThread'
    <3>1. \A v \in Workers :
            /\ worker'[v].at # "stopping"
            /\ worker'[v].at \in {"get", "drain"} => thread = v
      BY <1>5, <1>6, <2>1, <2>2 DEF OneThread
    <3>2. worker'[thread].at # "forked"
      BY <1>5, <1>6, <2>2
    <3>3. \A i \in Items : fate'[i] = "queued" =>
            (\E n \in DOMAIN queue' : queue'[n] = i) \/ (\E k \in Kinds : i \in batch'[k])
      BY <1>4, <1>7, <2>4
    <3>4. \A t \in Threads :
            /\ caller'[t].at \notin {"sentinel", "join", "forget"}
            /\ caller'[t].at = "start" => caller'[t].handle = thread
      BY <1>1, <2>1 DEF OneThread
    <3>5. thread' = thread
      BY <1>1
    <3> QED  BY <2>3, <2>4, <2>5, <3>1, <3>2, <3>3, <3>4, <3>5 DEF OneThread
  <2>7. \A v \in Workers : worker'[v].request = Null
    BY <1>1, <1>5, <1>6, <2>1, <2>2, Agendas DEF FlushesWait
  <2>8. \A i \in Items : Final(i) => Final(i)' /\ fate'[i] = fate[i]
    BY <1>3, <1>7 DEF Final
  <2>9. \A f \in Flushes : answer[f] # Null =>
          \A i \in flushed[f].before :
            Final(i)' /\ (fate'[i] = "lost" => countedAs[i] <= answer[f])
    BY <2>1, <2>8 DEF FlushesWait, TypeOK, FlushRecord
  <2>10. \A o \in Threads : caller[o].at = "acknowledge" =>
           \A i \in flushed[caller[o].request].before : Final(i)'
    BY <2>1, <2>8 DEF FlushesWait, TypeOK, FlushRecord, CallersHold, Flushing
  <2> QED  BY <1>1, <2>4, <2>6, <2>7, <2>9, <2>10 DEF FlushesWait
<1> QED  BY <1>8, <1>9, <1>10, <1>11, <1>12, <1>13

\* A log record or a span waits in its batch, which is sent when it is full.
LEMMA TakeRecordKeeps ==
  ASSUME DeliveryInv, NEW w \in Workers, GetNext(w), Ready(w, "get") \/ Ready(w, "drain"),
         Head(queue) \in Logs \cup Spans, Handle(w, Head(queue))
  PROVE  DeliveryInv'
<1> USE DEF DeliveryInv
<1>1. /\ queue # <<>> /\ queue' = Tail(queue)
      /\ UNCHANGED <<application, closed, stopped, thread, failures, acked, caller, answer,
                     countedAs, flushed>>
      /\ worker[w].at \in {"get", "drain"} /\ worker[w].agenda = <<>> /\ worker[w].sending = {}
  BY DEF GetNext, Ready
<1>2. /\ queue' \in Seq(Items \cup Flushes \cup {Stop})
      /\ Len(queue') <= application.maxQueueSize
      /\ Head(queue) = queue[1] /\ 1 \in DOMAIN queue
  BY <1>1, TakeMoves
<1>3. PICK x \in Items : /\ x = queue[1] /\ x = Head(queue) /\ x \in Logs \cup Spans
                         /\ fate[x] = "queued" /\ \A k \in Kinds : x \notin batch[k]
  BY <1>2 DEF Items, ItemsHeld
<1>4. PICK k \in Kinds : k = KindOf(x)
  BY DEF KindOf, Kinds
<1>5. PICK agenda \in {<<>>, <<k>>} :
        /\ worker' = [worker EXCEPT ![w].at = "drain", ![w].agenda = agenda]
        /\ batch' = [batch EXCEPT ![k] = @ \cup {x}]
        /\ UNCHANGED fate
  <2>1. x \notin Errors /\ x \notin Flushes
    BY <1>3, DeliveryAssumption DEF DeliveryAssumption
  <2> QED  BY <1>3, <1>4, <2>1 DEF Handle
<1>6. PICK new \in Worker :
        /\ worker' = [worker EXCEPT ![w] = new]
        /\ new.at = "drain" /\ new.sending = {} /\ new.request = worker[w].request
  <2> DEFINE new == [worker[w] EXCEPT !.at = "drain", !.agenda = agenda]
  <2>1. worker[w] \in Worker
    BY DEF TypeOK
  <2>2. agenda \in Seq(Kinds \cup {"answer"})
    BY Agendas
  <2>3. new \in Worker /\ new.at = "drain" /\ new.sending = {} /\ new.request = worker[w].request
    BY <1>1, <2>1, <2>2 DEF Worker
  <2>4. worker' = [worker EXCEPT ![w] = new]
    BY <1>5
  <2> QED  BY <2>3, <2>4
<1>7. /\ worker' \in [Workers -> Worker] /\ worker'[w] = new
      /\ \A v \in Workers : v # w => worker'[v] = worker[v]
  BY <1>6, WorkerMoves
<1>8. /\ batch' \in [Kinds -> SUBSET Items] /\ batch'[k] = batch[k] \cup {x}
      /\ \A h \in Kinds : h # k => batch'[h] = batch[h]
  BY <1>5 DEF TypeOK
<1>9. TypeOK'
  BY <1>1, <1>2, <1>5, <1>7, <1>8 DEF TypeOK
<1>10. CallersHold'
  <2>1. \A o \in Threads : caller[o].at = "start" => caller[o].handle # w
    BY <1>1 DEF CallersHold
  <2> QED  BY <1>1, <1>5, <1>7, <2>1 DEF CallersHold, Submitting, Flushing
<1>11. ItemsHeld'
  <2>1. \A n \in DOMAIN queue' : queue'[n] \in Items =>
          /\ fate[queue'[n]] = "queued"
          /\ \A h \in Kinds : queue'[n] \notin batch'[h]
          /\ \A m \in DOMAIN queue' : queue'[m] = queue'[n] => m = n
    <3>1. \A n \in DOMAIN queue' : queue'[n] \in Items =>
            /\ queue'[n] # x /\ fate[queue'[n]] = "queued"
            /\ \A h \in Kinds : queue'[n] \notin batch[h]
            /\ \A m \in DOMAIN queue' : queue'[m] = queue'[n] => m = n
      BY <1>1, <1>3, TakeKeepsOrder
    <3> QED  BY <1>8, <3>1
  <2>2. \A h \in Kinds : \A j \in batch'[h] : fate[j] = "queued" /\ KindOf(j) = h
    BY <1>3, <1>4, <1>8 DEF ItemsHeld
  <2>3. \A v \in Workers : worker'[v].sending = worker[v].sending
    BY <1>1, <1>6, <1>7
  <2>4. \A v \in Workers : worker'[v].at \in {"unborn", "forked"} =>
          worker'[v].agenda = <<>> /\ worker'[v].sending = {} /\ worker'[v].request = Null
    BY <1>6, <1>7 DEF ItemsHeld
  <2>5. \A v \in Workers : \A j \in worker'[v].sending :
          /\ fate[j] = "sending"
          /\ \A u \in Workers : j \in worker'[u].sending => u = v
    BY <2>3 DEF ItemsHeld
  <2> QED  BY <1>5, <2>1, <2>2, <2>4, <2>5 DEF ItemsHeld
<1>12. LossesTold'
  BY <1>1, <1>5 DEF LossesTold, Reported
<1>13. FlushesBegin'
  <2>1. \A v \in Workers : worker'[v].request = worker[v].request
    BY <1>6, <1>7
  <2>2. \A f \in Flushes :
          (\A n \in DOMAIN queue : queue[n] # f) => \A n \in DOMAIN queue' : queue'[n] # f
    BY <1>1, TakeKeepsOrder
  <2>3. \A f \in Flushes : \A i \in flushed[f].before :
          fate[i] \notin {"new", "refused", "given", "ignored"}
    BY DEF FlushesBegin
  <2>4. \A f \in Flushes : flushed[f].returned = "unused" =>
          /\ flushed[f].before = {} /\ answer[f] = Null
          /\ \A n \in DOMAIN queue' : queue'[n] # f
          /\ \A v \in Workers : worker'[v].request # f
    BY <2>1, <2>2 DEF FlushesBegin
  <2> QED  BY <1>1, <1>5, <2>3, <2>4 DEF FlushesBegin
<1>14. ASSUME ~stopped' PROVE OneThread' /\ FlushesWait'
  <2>1. ~stopped /\ OneThread /\ FlushesWait
    BY <1>1, <1>14
  <2>2. /\ thread = w /\ w # Null
        /\ \A v \in Workers : v # w =>
             worker[v].sending = {} /\ worker[v].agenda = <<>> /\ worker[v].request = Null
    BY <1>1, <2>1, OthersRest, DeliveryAssumption DEF DeliveryAssumption
  <2>3. Alive(thread)'
    BY <1>1, <1>6, <1>7, <2>2 DEF Alive, Ended
  <2>4. /\ \A n \in DOMAIN queue' : queue'[n] # Stop
        /\ \A i \in Items : i # x /\ fate[i] = "queued" =>
             (\E n \in DOMAIN queue' : queue'[n] = i) \/ (\E h \in Kinds : i \in batch[h])
        /\ \A n, m \in DOMAIN queue' :
             queue'[n] \in Flushes /\ n < m => queue'[m] \notin flushed[queue'[n]].before
    BY <1>1, <1>3, <2>1, TakeKeepsOrder
  <2>5. OneThread'
    <3>1. \A v \in Workers :
            /\ worker'[v].at # "stopping"
            /\ worker'[v].at \in {"get", "drain"} => thread = v
      BY <1>6, <1>7, <2>1, <2>2 DEF OneThread
    <3>2. worker'[thread].at # "forked"
      BY <1>6, <1>7, <2>2
    <3>3. \A i \in Items : fate'[i] = "queued" =>
            (\E n \in DOMAIN queue' : queue'[n] = i) \/ (\E h \in Kinds : i \in batch'[h])
      BY <1>5, <1>8, <2>4
    <3>4. \A t \in Threads :
            /\ caller'[t].at \notin {"sentinel", "join", "forget"}
            /\ caller'[t].at = "start" => caller'[t].handle = thread
      BY <1>1, <2>1 DEF OneThread
    <3>5. thread' = thread
      BY <1>1
    <3>6. \A i \in Items : fate'[i] = "sending" => \E v \in Workers : i \in worker'[v].sending
      BY <1>1, <1>5, <1>6, <1>7, <2>1 DEF OneThread
    <3> QED  BY <2>3, <2>4, <3>1, <3>2, <3>3, <3>4, <3>5, <3>6 DEF OneThread
  <2>6. \A v \in Workers : worker'[v].request = Null
    BY <1>1, <1>6, <1>7, <2>1, <2>2, Agendas DEF FlushesWait
  <2>7. \A i : Final(i)' <=> Final(i)
    BY <1>5 DEF Final
  <2> QED  BY <1>1, <1>5, <2>1, <2>4, <2>5, <2>6, <2>7 DEF FlushesWait
<1> QED  BY <1>9, <1>10, <1>11, <1>12, <1>13, <1>14

\* When the marker comes up, all that its flush waits for was ahead of it:
\* what is not over is in the batches, which are sent before the answer.
LEMMA TakeMarkerKeeps ==
  ASSUME DeliveryInv, NEW w \in Workers, GetNext(w), Ready(w, "get") \/ Ready(w, "drain"),
         Head(queue) \in Flushes, Handle(w, Head(queue))
  PROVE  DeliveryInv'
<1> USE DEF DeliveryInv
<1>1. /\ queue # <<>> /\ queue' = Tail(queue)
      /\ UNCHANGED <<application, closed, stopped, thread, failures, acked, caller, answer,
                     countedAs, flushed>>
      /\ worker[w].at \in {"get", "drain"} /\ worker[w].agenda = <<>> /\ worker[w].sending = {}
  BY DEF GetNext, Ready
<1>2. /\ queue' \in Seq(Items \cup Flushes \cup {Stop})
      /\ Len(queue') <= application.maxQueueSize
      /\ DOMAIN queue = 1 .. Len(queue) /\ Len(queue) \in Nat
      /\ Head(queue) = queue[1] /\ 1 \in DOMAIN queue
  BY <1>1, TakeMoves
<1>3. PICK f \in Flushes : f = queue[1] /\ f = Head(queue) /\ f \notin Items
  BY <1>2, DeliveryAssumption DEF DeliveryAssumption
<1>4. /\ worker' = [worker EXCEPT ![w].at = "drain", ![w].request = f, ![w].agenda = AnswerLast]
      /\ UNCHANGED <<batch, fate>>
  BY <1>3 DEF Handle, Items
<1>5. PICK new \in Worker :
        /\ worker' = [worker EXCEPT ![w] = new]
        /\ new.at = "drain" /\ new.sending = {} /\ new.request = f
        /\ new.agenda = <<"log", "span", "answer">>
  <2> DEFINE new == [worker[w] EXCEPT !.at = "drain", !.request = f, !.agenda = AnswerLast]
  <2>1. worker[w] \in Worker /\ AnswerLast \in Seq(Kinds \cup {"answer"})
    BY Agendas DEF TypeOK
  <2>2. new \in Worker /\ new.at = "drain" /\ new.sending = {} /\ new.request = f
        /\ new.agenda = AnswerLast
    BY <1>1, <2>1 DEF Worker
  <2>3. worker' = [worker EXCEPT ![w] = new]
    BY <1>4
  <2> QED  BY <2>2, <2>3, Agendas
<1>6. /\ worker' \in [Workers -> Worker] /\ worker'[w] = new
      /\ \A v \in Workers : v # w => worker'[v] = worker[v]
  BY <1>5, WorkerMoves
<1>7. TypeOK'
  BY <1>1, <1>2, <1>4, <1>6 DEF TypeOK
<1>8. CallersHold'
  <2>1. \A o \in Threads : caller[o].at = "start" => caller[o].handle # w
    BY <1>1 DEF CallersHold
  <2> QED  BY <1>1, <1>4, <1>6, <2>1 DEF CallersHold, Submitting, Flushing
<1>9. ItemsHeld'
  <2>1. \A n \in DOMAIN queue' : queue'[n] \in Items =>
          /\ fate[queue'[n]] = "queued"
          /\ \A h \in Kinds : queue'[n] \notin batch[h]
          /\ \A m \in DOMAIN queue' : queue'[m] = queue'[n] => m = n
    BY <1>1, TakeKeepsOrder
  <2>2. \A v \in Workers : worker'[v].sending = worker[v].sending
    BY <1>1, <1>5, <1>6
  <2>3. \A v \in Workers : worker'[v].at \in {"unborn", "forked"} =>
          worker'[v].agenda = <<>> /\ worker'[v].sending = {} /\ worker'[v].request = Null
    BY <1>5, <1>6 DEF ItemsHeld
  <2>4. \A v \in Workers : \A j \in worker'[v].sending :
          /\ fate[j] = "sending"
          /\ \A u \in Workers : j \in worker'[u].sending => u = v
    BY <2>2 DEF ItemsHeld
  <2>5. \A h \in Kinds : \A j \in batch[h] : fate[j] = "queued" /\ KindOf(j) = h
    BY DEF ItemsHeld
  <2> QED  BY <1>4, <2>1, <2>3, <2>4, <2>5 DEF ItemsHeld
<1>10. LossesTold'
  BY <1>1, <1>4 DEF LossesTold, Reported
<1>11. FlushesBegin'
  <2>1. flushed[f].returned # "unused"
    BY <1>2, <1>3 DEF FlushesBegin
  <2>2. \A g \in Flushes :
          (\A n \in DOMAIN queue : queue[n] # g) => \A n \in DOMAIN queue' : queue'[n] # g
    BY <1>1, TakeKeepsOrder
  <2> QED  BY <1>1, <1>4, <1>5, <1>6, <2>1, <2>2 DEF FlushesBegin
<1>12. ASSUME ~stopped' PROVE OneThread' /\ FlushesWait'
  <2>1. ~stopped /\ OneThread /\ FlushesWait
    BY <1>1, <1>12
  <2>2. /\ thread = w /\ w # Null
        /\ \A v \in Workers : v # w =>
             worker[v].sending = {} /\ worker[v].agenda = <<>> /\ worker[v].request = Null
    BY <1>1, <2>1, OthersRest, DeliveryAssumption DEF DeliveryAssumption
  <2>3. Alive(thread)'
    BY <1>1, <1>5, <1>6, <2>2 DEF Alive, Ended
  <2>4. /\ \A n \in DOMAIN queue' : queue'[n] # Stop
        /\ \A i \in Items : fate[i] = "queued" =>
             (\E n \in DOMAIN queue' : queue'[n] = i) \/ (\E h \in Kinds : i \in batch[h])
        /\ \A n, m \in DOMAIN queue' :
             queue'[n] \in Flushes /\ n < m => queue'[m] \notin flushed[queue'[n]].before
    BY <1>1, <1>3, <2>1, TakeKeepsOrder
  <2>5. OneThread'
    <3>1. \A v \in Workers :
            /\ worker'[v].at # "stopping"
            /\ worker'[v].at \in {"get", "drain"} => thread = v
      BY <1>5, <1>6, <2>1, <2>2 DEF OneThread
    <3>2. worker'[thread].at # "forked"
      BY <1>5, <1>6, <2>2
    <3>3. \A t \in Threads :
            /\ caller'[t].at \notin {"sentinel", "join", "forget"}
            /\ caller'[t].at = "start" => caller'[t].handle = thread
      BY <1>1, <2>1 DEF OneThread
    <3>4. thread' = thread
      BY <1>1
    <3>5. \A i \in Items : fate'[i] = "sending" => \E v \in Workers : i \in worker'[v].sending
      BY <1>1, <1>4, <1>5, <1>6, <2>1 DEF OneThread
    <3> QED  BY <1>4, <2>3, <2>4, <3>1, <3>2, <3>3, <3>4, <3>5 DEF OneThread
  <2>6. ASSUME NEW i \in flushed[f].before PROVE Remains(w, i)'
    <3>1. /\ i \in Items
          /\ fate[i] \in {"queued", "sending", "landed", "lost", "discarded", "parent"}
      BY DEF FlushesBegin, TypeOK, FlushRecord, Fates
    <3>2. fate[i] # "sending"
      BY <1>1, <2>1, <2>2, <3>1 DEF OneThread
    <3>3. ASSUME fate[i] = "queued" PROVE \E k \in Kinds : i \in batch[k]
      <4>1. \A n \in DOMAIN queue : queue[n] # i
        <5> SUFFICES ASSUME NEW n \in DOMAIN queue, queue[n] = i PROVE FALSE
          OBVIOUS
        <5>1. 1 < n
          BY <1>2, <1>3, <3>1
        <5> QED  BY <1>2, <1>3, <2>1, <5>1 DEF FlushesWait
      <4> QED  BY <2>1, <3>1, <3>3, <4>1 DEF OneThread
    <3> QED  BY <1>4, <1>5, <1>6, <3>1, <3>2, <3>3, Agendas DEF Remains, Final, Kinds
  <2>7. \A v \in Workers : v # w => worker'[v].request = Null
    BY <1>6, <2>2
  <2>8. \A i : Final(i)' <=> Final(i)
    BY <1>4 DEF Final
  <2>9. \A v \in Workers : worker'[v].request # Null =>
          /\ worker'[v].agenda \in
               {<<"log", "span", "answer">>, <<"span", "answer">>, <<"answer">>}
          /\ \A i \in flushed'[worker'[v].request].before : Remains(v, i)'
    BY <1>1, <1>5, <1>6, <2>6, <2>7
  <2> QED  BY <1>1, <1>4, <2>1, <2>4, <2>5, <2>8, <2>9 DEF FlushesWait
<1> QED  BY <1>7, <1>8, <1>9, <1>10, <1>11, <1>12

\* A thread that takes the sentinel has been stopped.
LEMMA TakeStopKeeps ==
  ASSUME DeliveryInv, NEW w \in Workers, GetNext(w), Ready(w, "get") \/ Ready(w, "drain"),
         NEW agenda \in Seq(Kinds \cup {"answer"}), Leave(w, agenda)
  PROVE  DeliveryInv'
<1> USE DEF DeliveryInv
<1>1. /\ queue # <<>> /\ queue' = Tail(queue)
      /\ UNCHANGED <<application, closed, stopped, thread, failures, acked, caller, answer,
                     countedAs, flushed>>
      /\ UNCHANGED <<batch, fate>>
      /\ worker[w].at \in {"get", "drain"} /\ worker[w].agenda = <<>> /\ worker[w].sending = {}
  BY DEF GetNext, Ready, Leave
<1>2. /\ queue' \in Seq(Items \cup Flushes \cup {Stop})
      /\ Len(queue') <= application.maxQueueSize
      /\ Head(queue) = queue[1] /\ 1 \in DOMAIN queue
  BY <1>1, TakeMoves
<1>3. queue[1] = Stop /\ stopped
  BY <1>2 DEF Leave, OneThread
<1>4. PICK new \in Worker :
        /\ worker' = [worker EXCEPT ![w] = new]
        /\ new.at = "stopping" /\ new.sending = {} /\ new.request = worker[w].request
  <2> DEFINE new == [worker[w] EXCEPT !.at = "stopping", !.agenda = agenda]
  <2>1. worker[w] \in Worker
    BY DEF TypeOK
  <2>2. new \in Worker /\ new.at = "stopping" /\ new.sending = {}
        /\ new.request = worker[w].request
    BY <1>1, <2>1 DEF Worker
  <2>3. worker' = [worker EXCEPT ![w] = new]
    BY DEF Leave
  <2> QED  BY <2>2, <2>3
<1>5. /\ worker' \in [Workers -> Worker] /\ worker'[w] = new
      /\ \A v \in Workers : v # w => worker'[v] = worker[v]
  BY <1>4, WorkerMoves
<1>6. TypeOK'
  BY <1>1, <1>2, <1>5 DEF TypeOK
<1>7. CallersHold'
  <2>1. \A o \in Threads : caller[o].at = "start" => caller[o].handle # w
    BY <1>1 DEF CallersHold
  <2> QED  BY <1>1, <1>5, <2>1 DEF CallersHold, Submitting, Flushing
<1>8. ItemsHeld'
  <2>1. \A n \in DOMAIN queue' : queue'[n] \in Items =>
          /\ fate[queue'[n]] = "queued"
          /\ \A h \in Kinds : queue'[n] \notin batch[h]
          /\ \A m \in DOMAIN queue' : queue'[m] = queue'[n] => m = n
    BY <1>1, TakeKeepsOrder
  <2>2. \A v \in Workers : worker'[v].sending = worker[v].sending
    BY <1>1, <1>4, <1>5
  <2>3. \A v \in Workers : worker'[v].at \in {"unborn", "forked"} =>
          worker'[v].agenda = <<>> /\ worker'[v].sending = {} /\ worker'[v].request = Null
    BY <1>4, <1>5 DEF ItemsHeld
  <2> QED  BY <1>1, <2>1, <2>2, <2>3 DEF ItemsHeld
<1>9. LossesTold'
  BY <1>1 DEF LossesTold, Reported
<1>10. FlushesBegin'
  <2>1. \A v \in Workers : worker'[v].request = worker[v].request
    BY <1>4, <1>5
  <2>2. \A f \in Flushes :
          (\A n \in DOMAIN queue : queue[n] # f) => \A n \in DOMAIN queue' : queue'[n] # f
    BY <1>1, TakeKeepsOrder
  <2> QED  BY <1>1, <2>1, <2>2 DEF FlushesBegin
<1> QED  BY <1>1, <1>3, <1>6, <1>7, <1>8, <1>9, <1>10

LEMMA GetNextKeeps ==
  ASSUME DeliveryInv, NEW w \in Workers, GetNext(w)
  PROVE  DeliveryInv'
<1>1. ASSUME Ready(w, "get") \/ Ready(w, "drain"), Handle(w, Head(queue)) PROVE DeliveryInv'
  <2>1. Head(queue) \in Errors \/ Head(queue) \in Logs \cup Spans \/ Head(queue) \in Flushes
    BY <1>1 DEF Handle
  <2> QED  BY <1>1, <2>1, TakeReportKeeps, TakeRecordKeeps, TakeMarkerKeeps
<1>2. ASSUME NEW agenda \in {<<>>, SendBatches}, Ready(w, "get") \/ Ready(w, "drain"),
             Leave(w, agenda)
      PROVE  DeliveryInv'
  <2>1. agenda \in Seq(Kinds \cup {"answer"})
    BY Agendas
  <2> QED  BY <1>2, <2>1, TakeStopKeeps
<1> QED  BY <1>1, <1>2 DEF GetNext

\* A thread goes on in what it has before it: the queue is left alone, and of
\* the events only those that it sends, or takes to send, go further.
LEMMA WorkerStepKeeps ==
  ASSUME DeliveryInv, NEW w \in Workers, worker[w].at \notin {"unborn", "forked"},
         UNCHANGED <<application, closed, stopped, queue, thread, acked, caller, flushed>>,
         NEW new \in Worker, worker' = [worker EXCEPT ![w] = new],
         new.at \notin {"unborn", "forked"}, new.at = "stopping" => worker[w].at = "stopping",
         batch' \in [Kinds -> SUBSET Items], \A k \in Kinds : batch'[k] \subseteq batch[k],
         failures' \in Nat, answer' \in [Flushes -> Nat \cup {Null}],
         countedAs' \in [Items -> Nat], LossesTold',
         fate' \in [Items -> Fates],
         \A i \in Items :
           \/ /\ fate'[i] = fate[i] /\ countedAs'[i] = countedAs[i]
              /\ i \in new.sending <=> i \in worker[w].sending
              /\ \A k \in Kinds : i \in batch'[k] <=> i \in batch[k]
           \/ /\ fate[i] = "queued" /\ fate'[i] \in {"sending", "discarded"}
              /\ fate'[i] = "sending" <=> i \in new.sending
              /\ \E k \in Kinds : i \in batch[k]
              /\ \A k \in Kinds : i \notin batch'[k]
           \/ /\ i \in worker[w].sending /\ i \notin new.sending
              /\ fate'[i] \in {"landed", "lost"}
              /\ \A k \in Kinds : i \in batch'[k] <=> i \in batch[k],
         \A f \in Flushes : answer'[f] # answer[f] => f = worker[w].request,
         new.request \in {Null, worker[w].request},
         ~stopped => FlushesWait'
  PROVE  DeliveryInv'
<1> USE DEF DeliveryInv
<1>1. /\ worker' \in [Workers -> Worker] /\ worker'[w] = new
      /\ \A v \in Workers : v # w => worker'[v] = worker[v]
  BY WorkerMoves
<1>2. TypeOK'
  BY <1>1 DEF TypeOK
<1>3. CallersHold'
  <2>1. \A o \in Threads : caller[o].at = "start" => caller[o].handle # w
    BY DEF CallersHold
  <2>2. \A i \in Items : fate[i] = "given" => fate'[i] = "given"
    BY DEF ItemsHeld
  <2> QED  BY <1>1, <2>1, <2>2 DEF CallersHold, Submitting, Flushing
<1>4. ItemsHeld'
  <2>1. \A n \in DOMAIN queue : queue[n] \in Items => \A k \in Kinds : queue[n] \notin batch[k]
    BY DEF ItemsHeld
  <2>2. \A n \in DOMAIN queue : queue[n] \in Items => fate'[queue[n]] = "queued"
    BY <2>1 DEF ItemsHeld
  <2>3. \A k \in Kinds : \A i \in batch'[k] : fate'[i] = "queued" /\ KindOf(i) = k
    <3> SUFFICES ASSUME NEW k \in Kinds, NEW i \in batch'[k]
                 PROVE  fate'[i] = "queued" /\ KindOf(i) = k
      OBVIOUS
    <3>1. i \in Items /\ i \in batch[k] /\ fate[i] = "queued" /\ KindOf(i) = k
      BY DEF ItemsHeld
    <3>2. i \notin worker[w].sending
      BY <3>1 DEF ItemsHeld
    <3> QED  BY <3>1, <3>2
  <2>4. \A i \in Items : i \in new.sending => fate'[i] = "sending"
    BY DEF ItemsHeld
  <2>5. \A v \in Workers : v # w => \A i \in worker[v].sending :
          i \in Items /\ fate'[i] = "sending" /\ i \notin new.sending
    <3> SUFFICES ASSUME NEW v \in Workers, v # w, NEW i \in worker[v].sending
                 PROVE  i \in Items /\ fate'[i] = "sending" /\ i \notin new.sending
      OBVIOUS
    <3>1. i \in Items /\ fate[i] = "sending" /\ i \notin worker[w].sending
      BY DEF ItemsHeld, TypeOK, Worker
    <3> QED  BY <3>1
  <2>6. new.sending \subseteq Items
    BY DEF Worker
  <2>7. \A v \in Workers : \A i \in worker'[v].sending :
          /\ fate'[i] = "sending"
          /\ \A u \in Workers : i \in worker'[u].sending => u = v
    BY <1>1, <2>4, <2>5, <2>6 DEF ItemsHeld
  <2>8. \A v \in Workers : worker'[v].at \in {"unborn", "forked"} =>
          worker'[v].agenda = <<>> /\ worker'[v].sending = {} /\ worker'[v].request = Null
    BY <1>1 DEF ItemsHeld
  <2>9. \A n \in DOMAIN queue : queue[n] \in Items =>
          /\ fate'[queue[n]] = "queued"
          /\ \A k \in Kinds : queue[n] \notin batch'[k]
          /\ \A m \in DOMAIN queue : queue[m] = queue[n] => m = n
    BY <2>1, <2>2 DEF ItemsHeld
  <2> QED  BY <2>3, <2>7, <2>8, <2>9 DEF ItemsHeld
<1>5. FlushesBegin'
  <2>1. \A f \in Flushes : flushed[f].returned = "unused" =>
          answer'[f] = Null /\ \A v \in Workers : worker'[v].request # f
    BY <1>1, DeliveryAssumption DEF FlushesBegin, DeliveryAssumption
  <2>2. \A f \in Flushes : \A i \in flushed[f].before :
          fate'[i] \notin {"new", "refused", "given", "ignored"}
    <3> SUFFICES ASSUME NEW f \in Flushes, NEW i \in flushed[f].before
                 PROVE  fate'[i] \notin {"new", "refused", "given", "ignored"}
      OBVIOUS
    <3>1. i \in Items /\ fate[i] \notin {"new", "refused", "given", "ignored"}
      BY DEF FlushesBegin, TypeOK, FlushRecord
    <3> QED  BY <3>1
  <2> QED  BY <2>1, <2>2 DEF FlushesBegin
<1>6. ASSUME ~stopped' PROVE OneThread' /\ FlushesWait'
  <2>1. ~stopped /\ OneThread
    BY <1>6
  <2>2. worker[w].at \in {"get", "drain"} /\ new.at \in {"get", "drain"}
    BY <2>1 DEF OneThread, TypeOK, Worker
  <2>3. thread = w /\ w # Null
    BY <2>1, <2>2, DeliveryAssumption DEF OneThread, DeliveryAssumption
  <2>4. Alive(thread)'
    BY <1>1, <2>2, <2>3 DEF Alive, Ended
  <2>5. \A v \in Workers :
          /\ worker'[v].at # "stopping"
          /\ worker'[v].at \in {"get", "drain"} => thread = v
    BY <1>1, <2>1, <2>2, <2>3 DEF OneThread
  <2>6. worker'[thread].at # "forked"
    BY <1>1, <2>3
  <2>7. \A i \in Items : fate'[i] = "queued" =>
          (\E n \in DOMAIN queue : queue[n] = i) \/ (\E k \in Kinds : i \in batch'[k])
    BY <2>1 DEF OneThread
  <2>8. \A i \in Items : fate'[i] = "sending" => \E v \in Workers : i \in worker'[v].sending
    BY <1>1, <2>1 DEF OneThread
  <2>9. OneThread'
    BY <2>1, <2>4, <2>5, <2>6, <2>7, <2>8 DEF OneThread
  <2> QED  BY <2>1, <2>9
<1> QED  BY <1>2, <1>3, <1>4, <1>5, <1>6

\* An empty queue makes the thread send both batches.
LEMMA EmptyQueueKeeps ==
  ASSUME DeliveryInv, NEW w \in Workers, DrainEmpty(w)
  PROVE  DeliveryInv'
<1> USE DEF DeliveryInv
<1>1. /\ worker[w].at = "drain" /\ worker[w].agenda = <<>> /\ worker[w].sending = {}
      /\ UNCHANGED <<application, closed, stopped, queue, thread, batch, failures, acked>>
      /\ UNCHANGED <<caller, answer, fate, countedAs, flushed>>
  BY DEF DrainEmpty, Ready, shared, history
<1>2. PICK new \in Worker :
        /\ worker' = [worker EXCEPT ![w] = new]
        /\ new.at = "get" /\ new.sending = {} /\ new.request = worker[w].request
  <2> DEFINE new == [worker[w] EXCEPT !.at = "get", !.agenda = SendBatches]
  <2>1. worker[w] \in Worker /\ SendBatches \in Seq(Kinds \cup {"answer"})
    BY Agendas DEF TypeOK
  <2>2. new \in Worker /\ new.at = "get" /\ new.sending = {} /\ new.request = worker[w].request
    BY <1>1, <2>1 DEF Worker
  <2>3. worker' = [worker EXCEPT ![w] = new]
    BY DEF DrainEmpty
  <2> QED  BY <2>2, <2>3
<1>3. /\ worker' \in [Workers -> Worker] /\ worker'[w] = new
      /\ \A v \in Workers : v # w => worker'[v] = worker[v]
  BY <1>2, WorkerMoves
<1>4. LossesTold'
  BY <1>1 DEF LossesTold, Reported
<1>5. ASSUME ~stopped PROVE FlushesWait'
  <2>1. worker[w].request = Null
    BY <1>1, <1>5, Agendas DEF FlushesWait
  <2>2. worker'[w].request = Null /\ \A v \in Workers : v # w => worker'[v] = worker[v]
    BY <1>2, <1>3, <2>1
  <2> QED  BY <1>1, <1>5, <2>2 DEF FlushesWait, Remains, Final
<1>6. /\ batch' \in [Kinds -> SUBSET Items] /\ failures' \in Nat
      /\ answer' \in [Flushes -> Nat \cup {Null}]
      /\ countedAs' \in [Items -> Nat] /\ fate' \in [Items -> Fates]
  BY <1>1 DEF TypeOK
<1> QED  BY <1>1, <1>2, <1>4, <1>5, <1>6, WorkerStepKeeps

\* What a flush waits for in a batch is sent, or thrown away, with the batch.
LEMMA BatchTakenKeeps ==
  ASSUME DeliveryInv, NEW w \in Workers, NEW k \in Kinds, TakeBatch(w, k)
  PROVE  DeliveryInv'
<1> USE DEF DeliveryInv
<1> DEFINE sent == IF k \in Senders THEN batch[k] ELSE {}
<1>1. /\ worker[w].sending = {} /\ worker[w].agenda # <<>> /\ Head(worker[w].agenda) = k
      /\ UNCHANGED <<application, closed, stopped, queue, thread, failures, acked, caller, answer,
                     countedAs, flushed>>
      /\ batch' = [batch EXCEPT ![k] = {}]
      /\ worker' = [worker EXCEPT ![w].agenda = Tail(@), ![w].sending = sent]
  BY DEF TakeBatch, Due
<1>2. /\ sent \subseteq batch[k] /\ sent \subseteq Items /\ batch[k] \subseteq Items
      /\ \A i \in batch[k] : fate[i] = "queued"
      /\ \A h \in Kinds : h # k => batch[h] \cap batch[k] = {}
  BY DEF TypeOK, ItemsHeld
<1>3. fate' = [i \in Items |-> IF i \in sent THEN "sending"
                               ELSE IF i \in batch[k] THEN "discarded" ELSE fate[i]]
  BY DEF TakeBatch
<1> HIDE DEF sent
<1>4. PICK new \in Worker :
        /\ worker' = [worker EXCEPT ![w] = new]
        /\ new.at = worker[w].at /\ new.sending = sent /\ new.request = worker[w].request
        /\ new.agenda = Tail(worker[w].agenda)
  <2> DEFINE new == [worker[w] EXCEPT !.agenda = Tail(worker[w].agenda), !.sending = sent]
  <2>1. worker[w] \in Worker
    BY DEF TypeOK
  <2>2. Tail(worker[w].agenda) \in Seq(Kinds \cup {"answer"})
    BY <1>1, <2>1 DEF Worker
  <2>3. /\ new \in Worker /\ new.at = worker[w].at /\ new.sending = sent
        /\ new.request = worker[w].request /\ new.agenda = Tail(worker[w].agenda)
    BY <1>2, <2>1, <2>2 DEF Worker
  <2>4. worker' = [worker EXCEPT ![w] = new]
    BY <1>1
  <2> QED  BY <2>3, <2>4
<1>5. /\ worker' \in [Workers -> Worker] /\ worker'[w] = new
      /\ \A v \in Workers : v # w => worker'[v] = worker[v]
  BY <1>4, WorkerMoves
<1>6. /\ batch' \in [Kinds -> SUBSET Items] /\ batch'[k] = {}
      /\ \A h \in Kinds : h # k => batch'[h] = batch[h]
  BY <1>1 DEF TypeOK
<1>7. /\ fate' \in [Items -> Fates]
      /\ \A i \in sent : fate'[i] = "sending"
      /\ \A i \in batch[k] : i \notin sent => fate'[i] = "discarded"
      /\ \A i \in Items : i \notin batch[k] => fate'[i] = fate[i]
  BY <1>2, <1>3 DEF TypeOK, Fates
<1>8. LossesTold'
  <2>1. \A i \in Items : fate'[i] = "lost" <=> fate[i] = "lost"
    BY <1>2, <1>7
  <2> QED  BY <1>1, <2>1 DEF LossesTold, Reported
<1>9. ASSUME ~stopped PROVE FlushesWait'
  <2>1. worker[w].at \in {"get", "drain"}
    BY <1>1, <1>9 DEF OneThread, ItemsHeld, TypeOK, Worker
  <2>2. \A v \in Workers : v # w => worker[v].request = Null
    BY <1>9, <2>1, OthersRest
  <2>3. \A i \in Items : Final(i) => Final(i)' /\ fate'[i] = fate[i]
    BY <1>2, <1>7 DEF Final
  <2>4. \A f \in Flushes : answer[f] # Null =>
          \A i \in flushed[f].before :
            Final(i)' /\ (fate'[i] = "lost" => countedAs[i] <= answer[f])
    BY <1>9, <2>3 DEF FlushesWait, TypeOK, FlushRecord
  <2>5. \A o \in Threads : caller[o].at = "acknowledge" =>
          \A i \in flushed[caller[o].request].before : Final(i)'
    BY <1>9, <2>3 DEF FlushesWait, TypeOK, FlushRecord, CallersHold, Flushing
  <2>6. ASSUME worker[w].request # Null
        PROVE  /\ new.agenda \in
                    {<<"log", "span", "answer">>, <<"span", "answer">>, <<"answer">>}
               /\ \A i \in flushed[worker[w].request].before : Remains(w, i)'
    <3>1. /\ worker[w].agenda \in
               {<<"log", "span", "answer">>, <<"span", "answer">>, <<"answer">>}
          /\ \A i \in flushed[worker[w].request].before : Remains(w, i)
          /\ worker[w].request \in Flushes
      BY <1>9, <2>6 DEF FlushesWait, TypeOK, Worker
    <3>2. "answer" \notin Kinds /\ "log" \in Kinds /\ "span" \in Kinds
      BY DEF Kinds
    <3>3. \/ /\ k = "log" /\ worker[w].agenda = <<"log", "span", "answer">>
             /\ new.agenda = <<"span", "answer">>
          \/ /\ k = "span" /\ worker[w].agenda = <<"span", "answer">>
             /\ new.agenda = <<"answer">>
      BY <1>1, <1>4, <3>1, <3>2, Agendas
    <3>4. ASSUME NEW i \in flushed[worker[w].request].before PROVE Remains(w, i)'
      <4>1. i \in Items /\ Remains(w, i)
        BY <3>1 DEF TypeOK, FlushRecord
      <4>2. CASE Final(i)
        BY <2>3, <4>1, <4>2 DEF Remains
      <4>3. CASE i \in batch[k]
        BY <1>4, <1>5, <1>7, <4>3 DEF Remains, Final
      <4>4. CASE ~Final(i) /\ i \notin batch[k]
        <5>1. k = "log" /\ i \in batch["span"] /\ worker[w].agenda = <<"log", "span", "answer">>
              /\ new.agenda = <<"span", "answer">>
          BY <1>1, <3>3, <4>1, <4>4, Agendas DEF Remains
        <5>2. i \in batch'["span"]
          BY <1>6, <3>2, <5>1
        <5> QED  BY <1>5, <5>1, <5>2, Agendas DEF Remains
      <4> QED  BY <4>2, <4>3, <4>4
    <3> QED  BY <3>3, <3>4
  <2>7. \A v \in Workers : worker'[v].request # Null =>
          /\ worker'[v].agenda \in
               {<<"log", "span", "answer">>, <<"span", "answer">>, <<"answer">>}
          /\ \A i \in flushed'[worker'[v].request].before : Remains(v, i)'
    BY <1>1, <1>4, <1>5, <2>2, <2>6
  <2> QED  BY <1>1, <1>9, <2>4, <2>5, <2>7 DEF FlushesWait
<1>10. \A i \in Items :
         \/ /\ fate'[i] = fate[i] /\ countedAs'[i] = countedAs[i]
            /\ i \in new.sending <=> i \in worker[w].sending
            /\ \A h \in Kinds : i \in batch'[h] <=> i \in batch[h]
         \/ /\ fate[i] = "queued" /\ fate'[i] \in {"sending", "discarded"}
            /\ fate'[i] = "sending" <=> i \in new.sending
            /\ \E h \in Kinds : i \in batch[h]
            /\ \A h \in Kinds : i \notin batch'[h]
  <2> SUFFICES ASSUME NEW i \in Items
               PROVE  \/ /\ fate'[i] = fate[i] /\ countedAs'[i] = countedAs[i]
                         /\ i \in new.sending <=> i \in worker[w].sending
                         /\ \A h \in Kinds : i \in batch'[h] <=> i \in batch[h]
                      \/ /\ fate[i] = "queued" /\ fate'[i] \in {"sending", "discarded"}
                         /\ fate'[i] = "sending" <=> i \in new.sending
                         /\ \E h \in Kinds : i \in batch[h]
                         /\ \A h \in Kinds : i \notin batch'[h]
    OBVIOUS
  <2>1. CASE i \in batch[k]
    BY <1>2, <1>4, <1>6, <1>7, <2>1
  <2>2. CASE i \notin batch[k]
    BY <1>1, <1>2, <1>4, <1>6, <1>7, <2>2
  <2> QED  BY <2>1, <2>2
<1>11. /\ \A h \in Kinds : batch'[h] \subseteq batch[h]
       /\ worker[w].at \notin {"unborn", "forked"}
  BY <1>1, <1>6 DEF ItemsHeld
<1>12. /\ failures' \in Nat /\ answer' \in [Flushes -> Nat \cup {Null}]
       /\ countedAs' \in [Items -> Nat]
  BY <1>1 DEF TypeOK
<1>13. /\ new.at \notin {"unborn", "forked"}
       /\ new.at = "stopping" => worker[w].at = "stopping"
       /\ new.request \in {Null, worker[w].request}
       /\ \A f \in Flushes : answer'[f] # answer[f] => f = worker[w].request
       /\ ~stopped => FlushesWait'
  BY <1>1, <1>4, <1>9, <1>11
<1>14. \A i \in Items :
         \/ /\ fate'[i] = fate[i] /\ countedAs'[i] = countedAs[i]
            /\ i \in new.sending <=> i \in worker[w].sending
            /\ \A h \in Kinds : i \in batch'[h] <=> i \in batch[h]
         \/ /\ fate[i] = "queued" /\ fate'[i] \in {"sending", "discarded"}
            /\ fate'[i] = "sending" <=> i \in new.sending
            /\ \E h \in Kinds : i \in batch[h]
            /\ \A h \in Kinds : i \notin batch'[h]
         \/ /\ i \in worker[w].sending /\ i \notin new.sending
            /\ fate'[i] \in {"landed", "lost"}
            /\ \A h \in Kinds : i \in batch'[h] <=> i \in batch[h]
  BY <1>10
<1>15. UNCHANGED <<application, closed, stopped, queue, thread, acked, caller, flushed>>
  BY <1>1
<1>16. worker' = [worker EXCEPT ![w] = new]
  BY <1>4
<1>17. batch' \in [Kinds -> SUBSET Items] /\ fate' \in [Items -> Fates]
  BY <1>6, <1>7
<1> HIDE DEF DeliveryInv
<1> QED
  BY <1>8, <1>11, <1>12, <1>13, <1>14, <1>15, <1>16, <1>17, WorkerStepKeeps

\* What was sent has arrived, or is counted as lost before the flush is answered.
LEMMA SendEndsKeeps ==
  ASSUME DeliveryInv, NEW w \in Workers, worker[w].sending # {},
         UNCHANGED <<application, closed, stopped, queue, thread, batch, acked, caller, answer,
                     flushed>>,
         worker' = [worker EXCEPT ![w].sending = {}],
         NEW what \in {"landed", "lost"},
         fate' = [i \in Items |-> IF i \in worker[w].sending THEN what ELSE fate[i]],
         countedAs' \in [Items -> Nat],
         \A i \in Items : i \notin worker[w].sending => countedAs'[i] = countedAs[i],
         failures' \in Nat, LossesTold'
  PROVE  DeliveryInv'
<1> USE DEF DeliveryInv
<1>1. PICK new \in Worker :
        /\ worker' = [worker EXCEPT ![w] = new]
        /\ new.at = worker[w].at /\ new.sending = {} /\ new.request = worker[w].request
        /\ new.agenda = worker[w].agenda
  <2> DEFINE new == [worker[w] EXCEPT !.sending = {}]
  <2>1. worker[w] \in Worker
    BY DEF TypeOK
  <2>2. /\ new \in Worker /\ new.at = worker[w].at /\ new.sending = {}
        /\ new.request = worker[w].request /\ new.agenda = worker[w].agenda
    BY <2>1 DEF Worker
  <2>3. worker' = [worker EXCEPT ![w] = new]
    OBVIOUS
  <2> QED  BY <2>2, <2>3
<1>2. /\ worker' \in [Workers -> Worker] /\ worker'[w] = new
      /\ \A v \in Workers : v # w => worker'[v] = worker[v]
  BY <1>1, WorkerMoves
<1>3. /\ fate' \in [Items -> Fates]
      /\ \A i \in Items : i \in worker[w].sending => fate[i] = "sending" /\ fate'[i] = what
      /\ \A i \in Items : i \notin worker[w].sending => fate'[i] = fate[i]
  BY DEF TypeOK, Fates, ItemsHeld
<1>4. ASSUME ~stopped PROVE FlushesWait'
  <2>1. worker[w].at \in {"get", "drain"}
    BY <1>4 DEF OneThread, ItemsHeld, TypeOK, Worker
  <2>2. \A v \in Workers : v # w => worker[v].request = Null
    BY <1>4, <2>1, OthersRest
  <2>3. \A i \in Items : Final(i) => Final(i)' /\ fate'[i] = fate[i] /\ countedAs'[i] = countedAs[i]
    BY <1>3 DEF Final
  <2>4. \A f \in Flushes : answer[f] # Null =>
          \A i \in flushed[f].before :
            Final(i)' /\ (fate'[i] = "lost" => countedAs'[i] <= answer[f])
    BY <1>4, <2>3 DEF FlushesWait, TypeOK, FlushRecord
  <2>5. \A o \in Threads : caller[o].at = "acknowledge" =>
          \A i \in flushed[caller[o].request].before : Final(i)'
    BY <1>4, <2>3 DEF FlushesWait, TypeOK, FlushRecord, CallersHold, Flushing
  <2>6. ASSUME worker[w].request # Null
        PROVE  /\ new.agenda \in
                    {<<"log", "span", "answer">>, <<"span", "answer">>, <<"answer">>}
               /\ \A i \in flushed[worker[w].request].before : Remains(w, i)'
    <3>1. /\ worker[w].agenda \in
               {<<"log", "span", "answer">>, <<"span", "answer">>, <<"answer">>}
          /\ \A i \in flushed[worker[w].request].before : Remains(w, i)
          /\ worker[w].request \in Flushes
      BY <1>4, <2>6 DEF FlushesWait, TypeOK, Worker
    <3>2. ASSUME NEW i \in flushed[worker[w].request].before PROVE Remains(w, i)'
      <4>1. i \in Items /\ Remains(w, i)
        BY <3>1 DEF TypeOK, FlushRecord
      <4>2. CASE Final(i)
        BY <2>3, <4>1, <4>2 DEF Remains
      <4>3. CASE i \in worker[w].sending
        BY <1>3, <4>1, <4>3 DEF Remains, Final
      <4>4. CASE ~Final(i) /\ i \notin worker[w].sending
        BY <1>1, <1>2, <4>1, <4>4 DEF Remains
      <4> QED  BY <4>2, <4>3, <4>4
    <3> QED  BY <1>1, <3>1, <3>2
  <2>7. \A v \in Workers : worker'[v].request # Null =>
          /\ worker'[v].agenda \in
               {<<"log", "span", "answer">>, <<"span", "answer">>, <<"answer">>}
          /\ \A i \in flushed'[worker'[v].request].before : Remains(v, i)'
    BY <1>1, <1>2, <2>2, <2>6
  <2> QED  BY <1>4, <2>4, <2>5, <2>7 DEF FlushesWait
<1>5. /\ batch' \in [Kinds -> SUBSET Items] /\ \A k \in Kinds : batch'[k] \subseteq batch[k]
      /\ answer' \in [Flushes -> Nat \cup {Null}]
      /\ worker[w].at \notin {"unborn", "forked"}
  BY DEF TypeOK, ItemsHeld
<1> QED  BY <1>1, <1>3, <1>4, <1>5, WorkerStepKeeps

LEMMA SendReturnsKeeps ==
  ASSUME DeliveryInv, NEW w \in Workers, SendReturns(w)
  PROVE  DeliveryInv'
<1> USE DEF DeliveryInv
<1>1. /\ worker[w].sending # {}
      /\ UNCHANGED <<application, closed, stopped, queue, thread, batch, acked, caller, answer,
                     flushed>>
      /\ UNCHANGED <<failures, countedAs>>
      /\ worker' = [worker EXCEPT ![w].sending = {}]
      /\ fate' = [i \in Items |-> IF i \in worker[w].sending THEN "landed" ELSE fate[i]]
  BY DEF SendReturns, shared
<1>2. LossesTold'
  <2>1. \A i \in Items : fate'[i] = "lost" => fate[i] = "lost"
    BY <1>1
  <2>2. \A i \in Items : fate'[i] = "lost" /\ Reported(i) => Reported(i)'
    BY <1>1 DEF Reported
  <2> QED  BY <1>1, <2>1, <2>2 DEF LossesTold
<1>3. countedAs' \in [Items -> Nat] /\ failures' \in Nat
  BY <1>1 DEF TypeOK
<1> QED  BY <1>1, <1>2, <1>3, SendEndsKeeps

LEMMA SendRaisesKeeps ==
  ASSUME DeliveryInv, NEW w \in Workers, SendRaises(w)
  PROVE  DeliveryInv'
<1> USE DEF DeliveryInv
<1> DEFINE lost == worker[w].sending
<1>1. /\ lost # {} /\ failures' = failures + 1
      /\ UNCHANGED <<application, closed, stopped, queue, thread, batch, acked, caller, answer,
                     flushed>>
      /\ worker' = [worker EXCEPT ![w].sending = {}]
      /\ fate' = [i \in Items |-> IF i \in lost THEN "lost" ELSE fate[i]]
      /\ countedAs' = [i \in Items |-> IF i \in lost THEN failures + 1 ELSE countedAs[i]]
  BY DEF SendRaises
<1>2. /\ failures \in Nat /\ failures' \in Nat /\ acked \in Nat
      /\ countedAs' \in [Items -> Nat]
  BY <1>1 DEF TypeOK
<1>3. LossesTold'
  <2>1. \A i \in Items : i \notin lost =>
          countedAs'[i] = countedAs[i] /\ countedAs[i] \in Nat /\ countedAs[i] <= failures
    BY <1>1 DEF LossesTold, TypeOK
  <2>2. \A i \in Items : i \in lost => countedAs'[i] = failures + 1
    BY <1>1
  <2>3. \A f \in Flushes : answer[f] # Null => answer[f] \in Nat /\ answer[f] <= failures
    BY DEF LossesTold, TypeOK
  <2>4. acked <= failures
    BY DEF LossesTold
  <2>5. acked' <= failures' /\ \A f \in Flushes : answer'[f] # Null => answer'[f] <= failures'
    BY <1>1, <1>2, <2>3, <2>4
  <2>6. \A i \in Items : countedAs'[i] <= failures'
    BY <1>1, <1>2, <2>1, <2>2
  <2>7. ASSUME NEW i \in Items, fate'[i] = "lost", countedAs'[i] <= acked'
        PROVE  Reported(i)'
    <3>1. i \notin lost
      BY <1>1, <1>2, <2>2, <2>4, <2>7
    <3>2. fate[i] = "lost" /\ countedAs[i] <= acked
      BY <1>1, <2>1, <2>7, <3>1
    <3>3. Reported(i)
      BY <3>2 DEF LossesTold
    <3> QED  BY <1>1, <2>1, <2>7, <3>1, <3>3 DEF Reported
  <2> QED  BY <2>5, <2>6, <2>7 DEF LossesTold
<1>4. \A i \in Items : i \notin worker[w].sending => countedAs'[i] = countedAs[i]
  BY <1>1
<1> QED  BY <1>1, <1>2, <1>3, <1>4, SendEndsKeeps

\* The answer comes when nothing remains, with a count that covers the losses.
LEMMA AnswerKeeps ==
  ASSUME DeliveryInv, NEW w \in Workers, Answer(w)
  PROVE  DeliveryInv'
<1> USE DEF DeliveryInv
<1>1. /\ worker[w].sending = {} /\ worker[w].agenda # <<>> /\ Head(worker[w].agenda) = "answer"
      /\ UNCHANGED <<application, closed, stopped, queue, thread, batch, failures, acked>>
      /\ UNCHANGED <<caller, fate, countedAs, flushed>>
      /\ answer' = [answer EXCEPT ![worker[w].request] = failures]
      /\ worker' = [worker EXCEPT ![w].agenda = Tail(@), ![w].request = Null]
  BY DEF Answer, Due, shared, history
<1>2. PICK new \in Worker :
        /\ worker' = [worker EXCEPT ![w] = new]
        /\ new.at = worker[w].at /\ new.sending = {} /\ new.request = Null
  <2> DEFINE new == [worker[w] EXCEPT !.agenda = Tail(worker[w].agenda), !.request = Null]
  <2>1. worker[w] \in Worker
    BY DEF TypeOK
  <2>2. Tail(worker[w].agenda) \in Seq(Kinds \cup {"answer"})
    BY <1>1, <2>1 DEF Worker
  <2>3. new \in Worker /\ new.at = worker[w].at /\ new.sending = {} /\ new.request = Null
    BY <1>1, <2>1, <2>2 DEF Worker
  <2>4. worker' = [worker EXCEPT ![w] = new]
    BY <1>1
  <2> QED  BY <2>3, <2>4
<1>3. /\ worker' \in [Workers -> Worker] /\ worker'[w] = new
      /\ \A v \in Workers : v # w => worker'[v] = worker[v]
  BY <1>2, WorkerMoves
<1>4. /\ answer' \in [Flushes -> Nat \cup {Null}]
      /\ \A f \in Flushes : f # worker[w].request => answer'[f] = answer[f]
      /\ \A f \in Flushes : f = worker[w].request => answer'[f] = failures
      /\ failures \in Nat
  BY <1>1 DEF TypeOK
<1>5. LossesTold'
  <2>1. \A f \in Flushes : answer'[f] # Null => answer'[f] <= failures
    BY <1>4 DEF LossesTold
  <2> QED  BY <1>1, <2>1 DEF LossesTold, Reported
<1>6. ASSUME ~stopped PROVE FlushesWait'
  <2>1. worker[w].at \in {"get", "drain"}
    BY <1>1, <1>6 DEF OneThread, ItemsHeld, TypeOK, Worker
  <2>2. \A v \in Workers : worker'[v].request = Null
    BY <1>2, <1>3, <1>6, <2>1, OthersRest
  <2>3. ASSUME NEW f \in Flushes, f = worker[w].request, NEW i \in flushed[f].before
        PROVE  Final(i) /\ countedAs[i] <= failures
    <3>1. i \in Items /\ worker[w].request # Null
      BY <2>3, DeliveryAssumption DEF TypeOK, FlushRecord, DeliveryAssumption
    <3>2. /\ worker[w].agenda \in
               {<<"log", "span", "answer">>, <<"span", "answer">>, <<"answer">>}
          /\ Remains(w, i)
      BY <1>6, <2>3, <3>1 DEF FlushesWait
    <3>3. worker[w].agenda = <<"answer">>
      BY <1>1, <3>2, Agendas
    <3>4. Final(i)
      BY <1>1, <3>2, <3>3, Agendas DEF Remains
    <3> QED  BY <3>1, <3>4 DEF LossesTold
  <2>4. \A i : Final(i)' <=> Final(i)
    BY <1>1 DEF Final
  <2>5. \A f \in Flushes : answer'[f] # Null =>
          \A i \in flushed[f].before :
            Final(i) /\ (fate[i] = "lost" => countedAs[i] <= answer'[f])
    BY <1>4, <1>6, <2>3 DEF FlushesWait
  <2> QED  BY <1>1, <1>6, <2>2, <2>4, <2>5 DEF FlushesWait
<1>7. /\ batch' \in [Kinds -> SUBSET Items] /\ \A k \in Kinds : batch'[k] \subseteq batch[k]
      /\ failures' \in Nat /\ countedAs' \in [Items -> Nat] /\ fate' \in [Items -> Fates]
      /\ worker[w].at \notin {"unborn", "forked"}
  BY <1>1 DEF TypeOK, ItemsHeld
<1>8. \A i \in Items :
        /\ fate'[i] = fate[i] /\ countedAs'[i] = countedAs[i]
        /\ i \in new.sending <=> i \in worker[w].sending
        /\ \A k \in Kinds : i \in batch'[k] <=> i \in batch[k]
  BY <1>1, <1>2
<1>9. /\ new.at \notin {"unborn", "forked"}
      /\ new.at = "stopping" => worker[w].at = "stopping"
      /\ new.request \in {Null, worker[w].request}
      /\ \A f \in Flushes : answer'[f] # answer[f] => f = worker[w].request
      /\ ~stopped => FlushesWait'
  BY <1>2, <1>4, <1>6, <1>7
<1>10. /\ UNCHANGED <<application, closed, stopped, queue, thread, acked, caller, flushed>>
       /\ worker' = [worker EXCEPT ![w] = new]
       /\ answer' \in [Flushes -> Nat \cup {Null}]
  BY <1>1, <1>2, <1>4
<1> HIDE DEF DeliveryInv
<1> QED  BY <1>5, <1>7, <1>8, <1>9, <1>10, WorkerStepKeeps

-----------------------------------------------------------------------------
(* fork(), and every step.                                                  *)

\* The child begins with nothing that is the parent's.
LEMMA ForkKeeps ==
  ASSUME DeliveryInv, NEW t \in Threads, Fork(t)
  PROVE  DeliveryInv'
<1> USE DEF DeliveryInv
<1>1. /\ UNCHANGED <<application, closed, stopped, failures, acked, answer, countedAs, flushed>>
      /\ queue' = <<>> /\ thread' = Null
      /\ batch' = [k \in Kinds |-> {}]
      /\ caller' = [o \in Threads |-> IdleCaller]
      /\ fate' = [i \in Items |-> IF i \in ParentHas THEN "parent" ELSE fate[i]]
  BY DEF Fork
<1>2. /\ worker' \in [Workers -> Worker]
      /\ \A w \in Workers : /\ worker'[w].at \in {"unborn", "forked"}
                            /\ worker'[w].agenda = <<>> /\ worker'[w].sending = {}
                            /\ worker'[w].request = Null
  <2>1. worker' = [w \in Workers |->
          IF worker[w].at = "unborn" THEN Unborn ELSE [Unborn EXCEPT !.at = "forked"]]
    BY DEF Fork
  <2>2. /\ [Unborn EXCEPT !.at = "forked"] \in Worker
        /\ [Unborn EXCEPT !.at = "forked"].at = "forked"
        /\ [Unborn EXCEPT !.at = "forked"].agenda = <<>>
        /\ [Unborn EXCEPT !.at = "forked"].sending = {}
        /\ [Unborn EXCEPT !.at = "forked"].request = Null
    BY RestTyped DEF Unborn, Worker
  <2> QED  BY <2>1, <2>2, RestTyped
<1>3. /\ caller' \in [Threads -> Caller]
      /\ \A o \in Threads : caller'[o].at = "idle"
  BY <1>1, RestTyped
<1>4. /\ fate' \in [Items -> Fates]
      /\ \A i \in Items : fate'[i] = fate[i] \/ fate'[i] = "parent"
      /\ \A i \in Items : fate'[i] \notin {"queued", "sending", "given"}
      /\ \A i \in Items : Final(i) => fate'[i] = fate[i]
  BY <1>1 DEF TypeOK, Fates, ParentHas, Final
<1>5. TypeOK'
  <2>1. application.maxQueueSize \in Nat
    BY DeliveryAssumption DEF DeliveryAssumption, TypeOK
  <2>2. /\ queue' \in Seq(Items \cup Flushes \cup {Stop})
        /\ Len(queue') <= application'.maxQueueSize
    BY <1>1, <2>1
  <2>3. batch' \in [Kinds -> SUBSET Items]
    BY <1>1
  <2> QED  BY <1>1, <1>2, <1>3, <1>4, <2>2, <2>3 DEF TypeOK
<1>6. CallersHold'
  BY <1>3 DEF CallersHold, Submitting, Flushing
<1>7. DOMAIN queue' = {} /\ \A k \in Kinds : batch'[k] = {}
  BY <1>1
<1>8. ItemsHeld'
  BY <1>2, <1>7 DEF ItemsHeld
<1>9. LossesTold'
  <2>1. \A i \in Items : fate'[i] = "lost" => fate[i] = "lost"
    BY <1>4
  <2>2. \A i \in Items : fate'[i] = "lost" /\ Reported(i) => Reported(i)'
    BY <1>1 DEF Reported
  <2> QED  BY <1>1, <2>1, <2>2 DEF LossesTold
<1>10. FlushesBegin'
  <2>1. \A w \in Workers : \A f \in Flushes : worker'[w].request # f
    BY <1>2, DeliveryAssumption DEF DeliveryAssumption
  <2>2. \A f \in Flushes : flushed[f].before \subseteq Items
    BY DEF TypeOK, FlushRecord
  <2> QED  BY <1>1, <1>4, <1>7, <2>1, <2>2 DEF FlushesBegin
<1>11. ASSUME ~stopped PROVE OneThread'
  <2>1. ~Alive(thread)'
    BY <1>1 DEF Alive
  <2> QED  BY <1>1, <1>2, <1>3, <1>4, <1>7, <2>1 DEF OneThread
<1>12. ASSUME ~stopped PROVE FlushesWait'
  <2>1. \A i \in Items : Final(i) => Final(i)' /\ fate'[i] = fate[i]
    BY <1>4 DEF Final
  <2>2. \A f \in Flushes : answer'[f] # Null =>
          \A i \in flushed'[f].before :
            Final(i)' /\ (fate'[i] = "lost" => countedAs'[i] <= answer'[f])
    BY <1>1, <1>12, <2>1 DEF FlushesWait, TypeOK, FlushRecord
  <2> QED  BY <1>2, <1>3, <1>7, <2>2 DEF FlushesWait
<1> QED  BY <1>1, <1>5, <1>6, <1>8, <1>9, <1>10, <1>11, <1>12

\* Nothing has been captured.
LEMMA InitKeeps == Init => DeliveryInv
<1> SUFFICES ASSUME Init PROVE DeliveryInv
  OBVIOUS
<1>1. /\ application \in Applications /\ closed = FALSE /\ stopped = FALSE
      /\ queue = <<>> /\ thread = Null /\ batch = [k \in Kinds |-> {}]
      /\ failures = 0 /\ acked = 0
      /\ worker = [w \in Workers |-> Unborn] /\ caller = [t \in Threads |-> IdleCaller]
      /\ answer = [f \in Flushes |-> Null] /\ fate = [i \in Items |-> "new"]
      /\ countedAs = [i \in Items |-> 0] /\ flushed = [f \in Flushes |-> Unused]
  BY DEF Init
<1>2. /\ worker \in [Workers -> Worker]
      /\ \A w \in Workers : /\ worker[w].at = "unborn"
                            /\ worker[w].agenda = <<>> /\ worker[w].sending = {}
                            /\ worker[w].request = Null
  BY <1>1, RestTyped
<1>3. caller \in [Threads -> Caller] /\ \A t \in Threads : caller[t].at = "idle"
  BY <1>1, RestTyped
<1>4. /\ flushed \in [Flushes -> FlushRecord]
      /\ \A f \in Flushes : flushed[f].returned = "unused" /\ flushed[f].before = {}
  BY <1>1 DEF Unused, FlushRecord
<1>5. DOMAIN queue = {} /\ (\A k \in Kinds : batch[k] = {}) /\ \A i \in Items : fate[i] = "new"
  BY <1>1
<1>6. TypeOK
  <2>1. application.maxQueueSize \in Nat
    BY <1>1, DeliveryAssumption DEF DeliveryAssumption
  <2>2. queue \in Seq(Items \cup Flushes \cup {Stop}) /\ Len(queue) <= application.maxQueueSize
    BY <1>1, <2>1
  <2>3. /\ batch \in [Kinds -> SUBSET Items] /\ answer \in [Flushes -> Nat \cup {Null}]
        /\ fate \in [Items -> Fates] /\ countedAs \in [Items -> Nat]
    BY <1>1 DEF Fates
  <2> QED  BY <1>1, <1>2, <1>3, <1>4, <2>2, <2>3 DEF TypeOK
<1>7. CallersHold
  BY <1>3 DEF CallersHold, Submitting, Flushing
<1>8. ItemsHeld
  BY <1>2, <1>5 DEF ItemsHeld
<1>9. LossesTold
  BY <1>1, <1>5 DEF LossesTold
<1>10. FlushesBegin
  <2>1. \A w \in Workers : \A f \in Flushes : worker[w].request # f
    BY <1>2, DeliveryAssumption DEF DeliveryAssumption
  <2> QED  BY <1>1, <1>4, <1>5, <2>1 DEF FlushesBegin
<1>11. OneThread
  <2>1. ~Alive(thread)
    BY <1>1 DEF Alive
  <2> QED  BY <1>1, <1>2, <1>3, <1>5, <2>1 DEF OneThread
<1>12. FlushesWait
  BY <1>1, <1>2, <1>3, <1>5 DEF FlushesWait
<1> QED  BY <1>6, <1>7, <1>8, <1>9, <1>10, <1>11, <1>12 DEF DeliveryInv

\* A step in which nothing happens.
LEMMA StutterKeeps ==
  ASSUME DeliveryInv, UNCHANGED vars
  PROVE  DeliveryInv'
BY DEF DeliveryInv, TypeOK, CallersHold, Submitting, Flushing, ItemsHeld, LossesTold, Reported,
       FlushesBegin, OneThread, Alive, Ended, FlushesWait, Remains, Final, vars, shared, history

LEMMA StepKeeps == DeliveryInv /\ [Next]_vars => DeliveryInv'
<1> SUFFICES ASSUME DeliveryInv, [Next]_vars PROVE DeliveryInv'
  OBVIOUS
<1>1. /\ application.closers \subseteq Threads /\ application.forkers \subseteq Threads
      /\ application.events \subseteq Items /\ application.flushes \subseteq Flushes
  BY DeliveryAssumption DEF DeliveryAssumption, DeliveryInv, TypeOK
<1>2. ASSUME NEW t \in Threads, NEW i \in application.events,
             CaptureRefused(t, i) \/ Capture(t, i)
      PROVE  DeliveryInv'
  BY <1>1, <1>2, CaptureRefusedKeeps, CaptureKeeps
<1>3. ASSUME NEW t \in Threads, Submit(t) PROVE DeliveryInv'
  BY <1>3, PutIgnoredKeeps, PutAcceptedKeeps, ThreadRunsKeeps, CreateThreadKeeps,
     StartThreadKeeps, EnqueueKeeps, DropKeeps DEF Submit
<1>4. ASSUME NEW t \in Threads, FinishFlush(t) PROVE DeliveryInv'
  BY <1>4, PutMarkerKeeps, TimeoutKeeps, WaitEndsKeeps, AcknowledgeKeeps DEF FinishFlush
<1>5. ASSUME NEW t \in Threads, FinishClose(t) PROVE DeliveryInv'
  BY <1>5, StopAcceptingKeeps, PutSentinelKeeps, JoinKeeps, ForgetThreadKeeps DEF FinishClose
<1>6. ASSUME NEW t \in Threads, NEW f \in application.flushes, Flush(t, f) PROVE DeliveryInv'
  BY <1>1, <1>6, FlushKeeps
<1>7. ASSUME NEW t \in application.closers, NEW f \in application.flushes, Close(t, f)
      PROVE  DeliveryInv'
  BY <1>1, <1>7, CloseKeeps
<1>8. ASSUME NEW t \in application.forkers, Fork(t) PROVE DeliveryInv'
  BY <1>1, <1>8, ForkKeeps
<1>9. ASSUME NEW w \in Workers, Deliver(w) PROVE DeliveryInv'
  BY <1>9, GetNextKeeps, EmptyQueueKeeps, BatchTakenKeeps, SendReturnsKeeps, SendRaisesKeeps,
     AnswerKeeps DEF Deliver
<1> QED  BY <1>2, <1>3, <1>4, <1>5, <1>6, <1>7, <1>8, <1>9, StutterKeeps DEF Next

-----------------------------------------------------------------------------
(* What holds of the client and its worker.                                 *)

\* An event is in one place, a loss is counted once and told of once
\* acknowledged, and, until close() stops the worker, one delivery thread has
\* whatever a flush still waits for before that flush's answer.
THEOREM DeliveryInvariant == Spec => []DeliveryInv
<1> QED  BY InitKeeps, StepKeeps, PTL DEF Spec

\* Every variable of the worker keeps its type and the queue its maximum, also
\* through fork() and close() by several threads.
THEOREM DeliveryTypeCorrect == Spec => []TypeOK
<1>1. DeliveryInv => TypeOK
  BY DEF DeliveryInv
<1> QED  BY <1>1, DeliveryInvariant, PTL

\* Only an event that is queued is handed to a transport,
LEMMA SendingWasQueued ==
  ASSUME DeliveryInv, [Next]_vars, NEW i \in Items, fate'[i] = "sending", fate[i] # "sending"
  PROVE  fate[i] = "queued"
<1> USE DEF DeliveryInv
<1>1. ASSUME NEW w \in Workers, Deliver(w) PROVE fate[i] = "queued"
  <2>1. CASE GetNext(w)
    <3>1. fate' # fate
      OBVIOUS
    <3>2. queue # <<>> /\ Handle(w, Head(queue))
      BY <2>1, <3>1 DEF GetNext, Leave
    <3>3. Head(queue) \in Errors /\ fate' = [fate EXCEPT ![Head(queue)] = "sending"]
      BY <3>1, <3>2 DEF Handle
    <3>4. i = Head(queue)
      BY <3>3 DEF TypeOK
    <3>5. 1 \in DOMAIN queue /\ queue[1] = Head(queue)
      BY <3>2 DEF TypeOK
    <3> QED  BY <3>4, <3>5 DEF ItemsHeld
  <2>2. ASSUME NEW k \in Kinds, TakeBatch(w, k) PROVE fate[i] = "queued"
    <3>1. i \in batch[k]
      BY <2>2 DEF TakeBatch
    <3> QED  BY <3>1 DEF ItemsHeld
  <2>3. CASE DrainEmpty(w) \/ SendReturns(w) \/ SendRaises(w) \/ Answer(w)
    BY <2>3 DEF DrainEmpty, SendReturns, SendRaises, Answer, history
  <2> QED  BY <1>1, <2>1, <2>2, <2>3 DEF Deliver
<1>2. ASSUME NEW t \in Threads, Submit(t) \/ FinishFlush(t) \/ FinishClose(t)
      PROVE  fate[i] = "queued"
  <2>1. fate' = fate \/ \E what \in {"ignored", "queued", "lost"} :
                          fate' = [fate EXCEPT ![caller[t].item] = what]
    BY <1>2 DEF Submit, PutIgnored, PutAccepted, ThreadRuns, CreateThread, StartThread, Enqueue,
                Drop, FinishFlush, PutMarker, MarkerFull, WaitEnds, WaitTimesOut, Acknowledge,
                FinishClose, StopAccepting, PutSentinel, Join, ForgetThread, history
  <2> QED  BY <2>1 DEF TypeOK
<1>3. ASSUME NEW t \in Threads, NEW j, CaptureRefused(t, j) \/ Capture(t, j)
      PROVE  fate[i] = "queued"
  BY <1>3 DEF CaptureRefused, Capture, TypeOK
<1>4. ASSUME NEW t, NEW f, Flush(t, f) \/ Close(t, f) PROVE fate[i] = "queued"
  BY <1>4 DEF Flush, Close, FlushFrom
<1>5. ASSUME NEW t, Fork(t) PROVE fate[i] = "queued"
  BY <1>5 DEF Fork
<1>6. CASE UNCHANGED vars
  BY <1>6 DEF vars, history
<1> QED  BY <1>1, <1>2, <1>3, <1>4, <1>5, <1>6 DEF Next

\* so no event is sent twice: neither by two delivery threads, nor by a forked
\* child while the parent still has it.
THEOREM NothingIsSentTwice == Spec => SentOnce
<1>1. DeliveryInv /\ [Next]_vars =>
        [\A i \in Items : fate'[i] = "sending" /\ fate[i] # "sending" => fate[i] = "queued"]_vars
  BY SendingWasQueued
<1> QED  BY <1>1, DeliveryInvariant, PTL DEF Spec, SentOnce

\* Only acknowledging makes flush() answer True, and what it waited for is over
\* by then: it landed, or a flush that answered False has counted its loss.
LEMMA TrueIsSettled ==
  ASSUME DeliveryInv, [Next]_vars, NEW f \in Flushes,
         flushed[f].returned # "true", flushed'[f].returned = "true", ~stopped
  PROVE  AllSettled(f)
<1> USE DEF DeliveryInv
<1>1. flushed \in [Flushes -> FlushRecord]
  BY DEF TypeOK
<1>2. ASSUME NEW t \in Threads, Acknowledge(t) PROVE AllSettled(f)
  <2> DEFINE g == caller[t].request
             observed == Observed(g)
             result == IF observed = acked THEN "true" ELSE "false"
  <2>1. /\ caller[t].at = "acknowledge"
        /\ flushed' = [flushed EXCEPT ![g].returned = result, ![g].observed = observed]
    BY <1>2 DEF Acknowledge
  <2>2. f = g /\ observed = acked
    BY <1>1, <2>1
  <2>3. /\ acked \in Nat /\ failures \in Nat /\ countedAs \in [Items -> Nat]
        /\ flushed[f].before \subseteq Items
        /\ answer[f] = Null \/ answer[f] \in Nat
    BY DEF TypeOK, FlushRecord
  <2>4. ASSUME NEW i \in flushed[f].before PROVE Settled(i)
    <3>1. i \in Items /\ Final(i)
      BY <2>1, <2>2, <2>3 DEF FlushesWait
    <3>2. ASSUME fate[i] = "lost" PROVE countedAs[i] <= acked
      <4>1. CASE answer[f] = Null
        BY <2>2, <3>1, <4>1 DEF Observed, LossesTold
      <4>2. CASE answer[f] # Null
        BY <2>2, <3>1, <3>2, <4>2 DEF Observed, FlushesWait
      <4> QED  BY <4>1, <4>2
    <3> QED  BY <3>1, <3>2 DEF LossesTold, Settled, Final
  <2> QED  BY <2>4 DEF AllSettled
<1>3. ASSUME NEW t \in Threads, MarkerFull(t) \/ WaitTimesOut(t) PROVE FALSE
  <2>1. flushed' = [flushed EXCEPT ![caller[t].request].returned = "timeout"]
    BY <1>3 DEF MarkerFull, WaitTimesOut, FlushReturns
  <2> QED  BY <1>1, <2>1 DEF FlushRecord
<1>4. ASSUME NEW t, NEW g, FlushFrom(t, g, FALSE) \/ FlushFrom(t, g, TRUE) PROVE FALSE
  <2>1. flushed' = [flushed EXCEPT ![g].returned = "pending", ![g].before = QueuedSoFar]
    BY <1>4 DEF FlushFrom
  <2> QED  BY <1>1, <2>1
<1>5. flushed' # flushed
  OBVIOUS
<1>6. ASSUME NEW t, NEW g, Flush(t, g) \/ Close(t, g) PROVE FALSE
  BY <1>4, <1>6 DEF Flush, Close
<1>7. ASSUME NEW t \in Threads, Submit(t) \/ FinishClose(t) PROVE FALSE
  BY <1>5, <1>7 DEF Submit, PutIgnored, PutAccepted, ThreadRuns, CreateThread, StartThread,
       Enqueue, Drop, FinishClose, StopAccepting, PutSentinel, Join, ForgetThread, history
<1>8. ASSUME NEW t \in Threads, FinishFlush(t) PROVE AllSettled(f)
  BY <1>2, <1>3, <1>5, <1>8 DEF FinishFlush, PutMarker, WaitEnds, history
<1>9. ASSUME NEW t, NEW i, CaptureRefused(t, i) \/ Capture(t, i) PROVE FALSE
  BY <1>5, <1>9 DEF CaptureRefused, Capture
<1>10. ASSUME NEW w \in Workers, Deliver(w) PROVE FALSE
  BY <1>5, <1>10 DEF Deliver, GetNext, DrainEmpty, TakeBatch, SendReturns, SendRaises, Answer,
                     history
<1>11. ASSUME NEW t, Fork(t) PROVE FALSE
  BY <1>5, <1>11 DEF Fork
<1>12. CASE UNCHANGED vars
  BY <1>5, <1>12 DEF vars, history
<1> QED  BY <1>6, <1>7, <1>8, <1>9, <1>10, <1>11, <1>12 DEF Next

\* Until close() stops the worker, a flush() that answers True has nothing left
\* to wait for and no loss that no flush told of, in whatever order several
\* flushes are answered and acknowledge.
THEOREM FlushesTellTheTruth == Spec => FlushTruth
<1>1. DeliveryInv /\ [Next]_vars =>
        [\A f \in Flushes :
           flushed[f].returned # "true" /\ flushed'[f].returned = "true" /\ ~stopped =>
             AllSettled(f)]_vars
  BY TrueIsSettled
<1> QED  BY <1>1, DeliveryInvariant, PTL DEF Spec, FlushTruth

=============================================================================
