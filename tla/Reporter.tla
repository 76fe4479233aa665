------------------------------ MODULE Reporter ------------------------------
(***************************************************************************)
(* Client of the JavaScript reporter (packages/core/src/client.ts): what   *)
(* becomes of a captured record on the one thread of its runtime.  A       *)
(* record goes through the application's hook, which is awaited; a report  *)
(* is sent by itself, a log record or a span waits in its queue for the    *)
(* batch that the next microtask, a full queue or a flush sends.  Each hook*)
(* and each send is a promise the client keeps track of; one that rejects  *)
(* because the application's callback for failures throws may end the      *)
(* process.                                                                *)
(***************************************************************************)
EXTENDS Naturals, Sequences, FiniteSets, SequencesExt

CONSTANTS
  Reports, Logs, Spans,  \* the records the application may capture
  Callers,               \* calls of flush and close that may overlap
  Closers,               \* which of them are calls of close
  MaxBatch               \* MAX_LOG_BATCH_SIZE and MAX_SPAN_BATCH_SIZE

Records == Reports \cup Logs \cup Spans
Kinds   == {"log", "span"}

KindOf(r) == IF r \in Logs THEN "log" ELSE "span"

ASSUME ReporterAssumption ==
  /\ MaxBatch \in Nat \ {0} /\ Closers \subseteq Callers
  /\ Reports \cap (Logs \cup Spans) = {} /\ Logs \cap Spans = {}

VARIABLES
  record,            \* what became of each record
  queue,             \* #logQueue and #spanQueue
  drainScheduled,    \* #logDrainScheduled and #spanDrainScheduled
  pending,           \* #pending: the promise of one record, or of the send of a batch
  closed,            \* #closed
  failedSinceFlush,  \* #failedSinceFlush
  caller,            \* the calls of flush and close
  up,                \* the process has not ended by an unhandled rejection
  told               \* history: the failures a completed flush has answered false for

queueVars == <<queue, drainScheduled>>
reporterVars == <<record, queueVars, pending, closed, failedSinceFlush, caller, up, told>>

Hook(r)  == [send |-> FALSE, of |-> {r}]
Send(rs) == [send |-> TRUE, of |-> rs]

NoCall == [step |-> "idle", waits |-> {}, covers |-> {}, answer |-> FALSE]

\* A call that is over, or begins; what it waited for keeps its handler.
Over(c) == [NoCall EXCEPT !.waits = caller[c].waits]

ReporterInit ==
  /\ record = [r \in Records |-> "new"]
  /\ queue = [k \in Kinds |-> <<>>]
  /\ drainScheduled = [k \in Kinds |-> FALSE]
  /\ pending = {}
  /\ closed = FALSE
  /\ failedSinceFlush = FALSE
  /\ caller = [c \in Callers |-> NoCall]
  /\ up = TRUE
  /\ told = {}

-----------------------------------------------------------------------------
(* A record and its promises *)

\* A client that is closed and still takes what ends after that.
TakeAnyway == TRUE

Open == ~closed

\* #capture, captureLog, and a span that ends.
Capture(r) ==
  /\ record[r] = "new"
  /\ IF Open
     THEN record' = [record EXCEPT ![r] = "hook"] /\ pending' = pending \cup {Hook(r)}
     ELSE record' = [record EXCEPT ![r] = "refused"] /\ UNCHANGED pending
  /\ UNCHANGED <<queueVars, closed, failedSinceFlush, caller, told, up>>

Settled(task) == caller' = [c \in Callers |-> [caller[c] EXCEPT !.waits = @ \ {task}]]

\* The `finally` of #track.
Untrack(task) == pending \ {task}

\* No flush has waited for the promise, not even one that its deadline ended.
Unheard(task) == \A c \in Callers : task \notin caller[c].waits

\* A promise that rejects unheard ends the process, unless the application
\* listens for rejections or the runtime goes on; a listener of the reporter
\* may then capture one more report.
StaysUp(task, throws) == IF throws /\ Unheard(task) THEN BOOLEAN ELSE {TRUE}

\* The `catch` of #track, and the application's callback, which may throw: the
\* promise is off the list all the same, but rejects.
Fails(task, throws) ==
  /\ record' = [r \in Records |-> IF r \in task.of THEN "failed" ELSE record[r]]
  /\ pending' = Untrack(task)
  /\ failedSinceFlush' = TRUE
  /\ Settled(task)
  /\ up' \in StaysUp(task, throws)
  /\ UNCHANGED <<queueVars, closed, told>>

\* beforeSend, beforeSendLogRecord or beforeSendSpan says no.
HookDrops(r) ==
  /\ record[r] = "hook"
  /\ record' = [record EXCEPT ![r] = "dropped"]
  /\ pending' = pending \ {Hook(r)}
  /\ Settled(Hook(r))
  /\ UNCHANGED <<queueVars, closed, failedSinceFlush, told, up>>

HookThrows(r, throws) ==
  /\ record[r] = "hook"
  /\ Fails(Hook(r), throws)

\* A report is sent under the promise of its hook.
SendReport(r) ==
  /\ record[r] = "hook" /\ r \in Reports
  /\ record' = [record EXCEPT ![r] = "sending"]
  /\ UNCHANGED <<queueVars, pending, closed, failedSinceFlush, caller, told, up>>

\* The batches of #drainLogQueue and #drainSpanQueue, at most MaxBatch each.
Batches(q) ==
  {{q[j] : j \in {n \in i..Len(q) : n < i + MaxBatch}} :
     i \in {n \in 1..Len(q) : n % MaxBatch = 1 % MaxBatch}}

Drained(q, rs) == [r \in Records |-> IF r \in ToSet(q) THEN "sending" ELSE rs[r]]

Full(q) == Len(q) >= MaxBatch

\* A log record or a span joins its queue; a full queue is drained at once, any
\* other by a microtask, of which there is one at a time.
Enqueue(r) ==
  LET k == KindOf(r)
      q == Append(queue[k], r)
      rs == [record EXCEPT ![r] = "queued"] IN
  /\ record[r] = "hook" /\ r \notin Reports
  /\ IF Full(q)
     THEN /\ record' = Drained(q, rs)
          /\ queue' = [queue EXCEPT ![k] = <<>>]
          /\ pending' = (pending \ {Hook(r)}) \cup {Send(b) : b \in Batches(q)}
          /\ UNCHANGED drainScheduled
     ELSE /\ record' = rs
          /\ queue' = [queue EXCEPT ![k] = q]
          /\ pending' = pending \ {Hook(r)}
          /\ drainScheduled' = [drainScheduled EXCEPT ![k] = TRUE]
  /\ Settled(Hook(r))
  /\ UNCHANGED <<closed, failedSinceFlush, told, up>>

DrainMicrotask(k) ==
  /\ drainScheduled[k]
  /\ drainScheduled' = [drainScheduled EXCEPT ![k] = FALSE]
  /\ record' = Drained(queue[k], record)
  /\ pending' = pending \cup {Send(b) : b \in Batches(queue[k])}
  /\ queue' = [queue EXCEPT ![k] = <<>>]
  /\ UNCHANGED <<closed, failedSinceFlush, caller, told, up>>

\* A request is under way under this promise.
Requested(task) == task \in pending /\ \A r \in task.of : record[r] = "sending"

SendSucceeds(task) ==
  /\ Requested(task)
  /\ record' = [r \in Records |-> IF r \in task.of THEN "sent" ELSE record[r]]
  /\ pending' = pending \ {task}
  /\ Settled(task)
  /\ UNCHANGED <<queueVars, closed, failedSinceFlush, told, up>>

SendFails(task, throws) ==
  /\ Requested(task)
  /\ Fails(task, throws)

-----------------------------------------------------------------------------
(* flush and close *)

Accepted == {r \in Records : record[r] \notin {"new", "refused"}}

\* close is flush with the door shut first.
Call(c) ==
  /\ caller[c].step = "idle"
  /\ closed' = (closed \/ c \in Closers)
  /\ caller' = [caller EXCEPT ![c] = [Over(c) EXCEPT !.step = "loop", !.covers = Accepted]]
  /\ UNCHANGED <<record, queueVars, pending, failedSinceFlush, told, up>>

\* The condition of the loop.
NothingLeft(c) == pending = {} /\ \A k \in Kinds : queue[k] = <<>>

LoopEnds(c) ==
  /\ caller[c].step = "loop"
  /\ NothingLeft(c)
  /\ caller' = [caller EXCEPT ![c].step = "transports"]
  /\ UNCHANGED <<record, queueVars, pending, closed, failedSinceFlush, told, up>>

\* Both queues are drained before the wait for all that is pending by then, and
\* before a deadline that has passed by then.
LoopWaits(c, late) ==
  LET now == pending \cup UNION {{Send(b) : b \in Batches(queue[k])} : k \in Kinds} IN
  /\ caller[c].step = "loop"
  /\ ~NothingLeft(c)
  /\ record' = [r \in Records |-> IF record[r] = "queued" THEN "sending" ELSE record[r]]
  /\ pending' = now
  /\ queue' = [k \in Kinds |-> <<>>]
  /\ caller' = [caller EXCEPT ![c] = IF late THEN Over(c)
                                    ELSE [caller[c] EXCEPT !.step = "wait", !.waits = now]]
  /\ UNCHANGED <<drainScheduled, closed, failedSinceFlush, told, up>>

WaitEnds(c) ==
  /\ caller[c].step = "wait"
  /\ caller[c].waits = {}
  /\ caller' = [caller EXCEPT ![c].step = "loop"]
  /\ UNCHANGED <<record, queueVars, pending, closed, failedSinceFlush, told, up>>

\* The deadline: false, and the record of a failure stays for the next flush.
TimesOut(c) ==
  /\ caller[c].step = "wait"
  /\ caller' = [caller EXCEPT ![c] = Over(c)]
  /\ UNCHANGED <<record, queueVars, pending, closed, failedSinceFlush, told, up>>

\* What failed while this flush waited, and not what a flush before has told.
NeverForgets == failedSinceFlush

Forgets == FALSE

\* The HTTP transports have no flush or close of their own, but are awaited.
FlushReturns(c) ==
  /\ caller[c].step = "transports"
  /\ caller' = [caller EXCEPT ![c] = [NoCall EXCEPT !.answer = ~failedSinceFlush]]
  /\ failedSinceFlush' = Forgets
  /\ told' = told \cup {r \in Records : record[r] = "failed"}
  /\ UNCHANGED <<record, queueVars, pending, closed, up>>

-----------------------------------------------------------------------------

RecordStep(r) ==
  \/ HookDrops(r) \/ SendReport(r) \/ Enqueue(r)
  \/ \E throws \in BOOLEAN : HookThrows(r, throws)

TaskStep(task) ==
  \/ SendSucceeds(task)
  \/ \E throws \in BOOLEAN : SendFails(task, throws)

CallerStep(c) ==
  \/ Call(c) \/ LoopEnds(c) \/ WaitEnds(c) \/ TimesOut(c) \/ FlushReturns(c)
  \/ \E late \in BOOLEAN : LoopWaits(c, late)

ReporterNext ==
  /\ up
  /\ \/ \E r \in Records : Capture(r) \/ RecordStep(r)
     \/ \E task \in pending : TaskStep(task)
     \/ \E k \in Kinds : DrainMicrotask(k)
     \/ \E c \in Callers : CallerStep(c)

\* As long as there is a process, microtasks run and the promises of hooks and
\* requests settle.
ReporterFairness ==
  /\ \A r \in Records : WF_reporterVars(up /\ RecordStep(r))
  /\ WF_reporterVars(up /\ \E task \in pending : TaskStep(task))
  /\ \A k \in Kinds : WF_reporterVars(up /\ DrainMicrotask(k))

-----------------------------------------------------------------------------
(* Properties *)

Tasks == [send : BOOLEAN, of : {rs \in SUBSET Records : Cardinality(rs) \in 1..MaxBatch}]

\* Every variable has its type; no batch is empty or larger than the server takes.
ReporterTypeOK ==
  /\ record \in [Records -> {"new", "hook", "queued", "sending", "sent", "failed", "dropped", "refused"}]
  /\ queue \in [Kinds -> Seq(Records)]
  /\ drainScheduled \in [Kinds -> BOOLEAN]
  /\ pending \subseteq Tasks
  /\ closed \in BOOLEAN /\ failedSinceFlush \in BOOLEAN
  /\ caller \in [Callers -> [step : {"idle", "loop", "wait", "transports"},
                             waits : SUBSET Tasks, covers : SUBSET Records, answer : BOOLEAN]]
  /\ told \subseteq Records /\ up \in BOOLEAN

\* What waits in a queue is less than a batch and has a microtask coming for it,
\* whatever flushes and full queues have drained in between.
QueuedHasADrain ==
  \A k \in Kinds : queue[k] # <<>> => drainScheduled[k] /\ Len(queue[k]) < MaxBatch

\* A completed flush answers true only when everything captured before it began
\* was sent or dropped on purpose, whatever hooks were still running then, but
\* for failures another flush has already answered false for; it answers false
\* only when there is a failure nobody was told of.
FlushTruth ==
  [][\A c \in Callers : caller[c].step = "transports" /\ caller'[c].step = "idle" =>
       IF caller'[c].answer
       THEN \A r \in caller[c].covers : record[r] \in {"sent", "dropped"} \/ r \in told
       ELSE \E r \in Records : record[r] = "failed" /\ r \notin told]_reporterVars

\* A client whose close has answered true has nothing left under way, and never
\* will have.
ClosedIsQuiet ==
  (\E c \in Closers : caller[c].step = "idle" /\ caller[c].answer)
    => pending = {} /\ \A k \in Kinds : queue[k] = <<>>

\* Every captured record ends, and its promise with it, so that no flush waits
\* for what is over, unless the process ends first: a callback for failures threw
\* over something no flush had waited for.
EveryRecordEnds ==
  /\ \A r \in Records : record[r] = "hook" ~> record[r] \in {"sent", "failed", "dropped"} \/ ~up
  /\ <>[](pending = {} \/ ~up)

\* The invariant of the client: what is queued has a drain coming, and a client
\* that said it was closed is.
ReporterInv == ReporterTypeOK /\ QueuedHasADrain /\ ClosedIsQuiet

\* What an application may rely on: a flush says the truth about what was
\* captured before it, and everything captured comes to an end, unless a callback
\* for failures ends the process by throwing.
CapturedIsAccountedFor == FlushTruth /\ EveryRecordEnds

=============================================================================
