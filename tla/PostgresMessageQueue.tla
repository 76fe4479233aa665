------------------------ MODULE PostgresMessageQueue ------------------------
(***************************************************************************)
(* apps/api/src/message-queue/postgres-message-queue.ts over the table     *)
(* QueueMessage, for one queue.                                            *)
(*                                                                         *)
(* Every operation is one SQL statement in a transaction of its own, run   *)
(* at READ COMMITTED.  Two facts of PostgreSQL carry the behaviour that is *)
(* hard to test and are kept: CURRENT_TIMESTAMP is the time at which the   *)
(* transaction BEGAN, so a statement may act later than the time it reads; *)
(* and the TIMESTAMPTZ(3) columns ROUND what is stored to a millisecond.   *)
(* Time is therefore counted in ticks, TicksPerMs of them to the           *)
(* millisecond.  A claim is two steps, the locking select and the update,  *)
(* because SKIP LOCKED makes the locks held between them visible.          *)
(***************************************************************************)
EXTENDS Integers, Sequences, FiniteSets

CONSTANTS
  Messages,      \* the ids gen_random_uuid may return
  Consumers,     \* callers of claim, acknowledge and retry
  Producers,     \* callers of enqueue
  Keys,          \* deduplication keys
  Null,          \* SQL NULL, and an argument that is not there
  TicksPerMs,    \* resolution of the database clock
  Visibility,    \* values of visibilityTimeoutMs
  Delays,        \* values of delayMs, and of how far ahead availableAt is set
  Limits,        \* values of limit
  MaxNow,        \* bound: the last tick of the clock
  MaxDeliveries  \* bound: deliveries of one message

ASSUME QueueAssumption ==
  /\ TicksPerMs \in Nat \ {0}
  /\ Visibility \subseteq Nat \ {0}     \* requireIntegerInRange(..., 1, ...)
  /\ Delays \subseteq Nat               \* requireIntegerInRange(..., 0, ...)
  /\ Limits \subseteq Nat \ {0}
  /\ MaxNow \in Nat
  /\ MaxDeliveries \in Nat
  /\ Null \notin Keys
  /\ Null \notin [token : Nat, expiresAt : Int]

VARIABLES
  now,           \* the database clock, in ticks
  stored,        \* the ids that have a row
  key,           \* column deduplicationKey
  availableAt,   \* column availableAt
  attempt,       \* column attempt
  lease,         \* columns leaseToken and leaseExpiresAt
  statement,     \* the statement each consumer has in flight
  request,       \* the enqueue each producer has in flight
  held,          \* the leases a consumer has been handed and remembers
  dueAt,         \* history: when the last enqueue or retry asked for the message
  deliveries     \* history: every delivery, with its expiry and its outcome

table   == <<stored, key, availableAt, attempt, lease>>
history == <<dueAt, deliveries>>
vars    == <<now, table, statement, request, held, history>>

Handle == [id : Messages, token : Nat]

\* `at` is CURRENT_TIMESTAMP of the transaction, `rows` are the rows a claim has
\* locked, `handle` is the lease passed to acknowledge or retry.
Idle      == [step |-> "idle", at |-> 0, rows |-> {}, handle |-> Null]
NoRequest == [step |-> "idle", at |-> 0, key |-> Null]

-----------------------------------------------------------------------------
(* Timestamps as the columns keep them. *)

\* As the defaults were before the migration that truncates them.
TruncMsByCast(t) == LET u == t + TicksPerMs \div 2 IN u - (u % TicksPerMs)

TruncMs(t) == t - (t % TicksPerMs)

\* Half a millisecond and more rounds up, as a cast to TIMESTAMPTZ(3) does.
RoundMs(t) == TruncMs(t + TicksPerMs \div 2)

Ticks(ms) == ms * TicksPerMs

(* What the WHERE clauses say of a row, read at CURRENT_TIMESTAMP = t. *)

\* A claim that never takes over a lease.
ClaimableIfUnleased(m, t) == m \in stored /\ availableAt[m] <= t /\ lease[m] = Null

Claimable(m, t) ==
  /\ m \in stored
  /\ availableAt[m] <= t
  /\ lease[m] = Null \/ lease[m].expiresAt <= t

\* A guard on the row and its expiry that forgets the token.
OwnsById(handle, t) ==
  handle.id \in stored /\ lease[handle.id] # Null /\ lease[handle.id].expiresAt > t

Owns(handle, t) ==
  /\ handle.id \in stored
  /\ lease[handle.id] # Null
  /\ lease[handle.id].token = handle.token
  /\ lease[handle.id].expiresAt > t

\* Candidates selected without FOR UPDATE SKIP LOCKED.
NoLockedRows == {}

LockedRows == UNION {statement[c].rows : c \in Consumers}

\* gen_random_uuid never returns an id or a token it returned before.
Fresh(m) == m \notin stored /\ deliveries[m] = <<>>

\* A unique index on the rows that are not leased only.
WithKeyUnleased(k) == {m \in stored : key[m] = k /\ lease[m] = Null}

WithKey(k) == {m \in stored : key[m] = k}

-----------------------------------------------------------------------------

Init ==
  /\ now \in {t \in 0 .. MaxNow : t < TicksPerMs}   \* anywhere within a millisecond
  /\ stored = {}
  /\ key = [m \in Messages |-> Null]
  /\ availableAt = [m \in Messages |-> 0]
  /\ attempt = [m \in Messages |-> 0]
  /\ lease = [m \in Messages |-> Null]
  /\ statement = [c \in Consumers |-> Idle]
  /\ request = [p \in Producers |-> NoRequest]
  /\ held = [c \in Consumers |-> {}]
  /\ dueAt = [m \in Messages |-> 0]
  /\ deliveries = [m \in Messages |-> <<>>]

Tick ==
  /\ now < MaxNow
  /\ now' = now + 1
  /\ UNCHANGED <<table, statement, request, held, history>>

-----------------------------------------------------------------------------
(* enqueue *)

\* Bound: an enqueue that could find neither a row nor a fresh id is not begun.
BeginEnqueue(p, k) ==
  /\ request[p].step = "idle"
  /\ k # Null \/ \E m \in Messages : Fresh(m)
  /\ request' = [request EXCEPT ![p] =
       [step |-> IF k = Null THEN "insert" ELSE "lookup", at |-> now, key |-> k]]
  /\ UNCHANGED <<now, table, statement, held, history>>

\* upsert with `update: {}`: a row that has the key is the answer, untouched.
LookupKey(p) ==
  /\ request[p].step = "lookup"
  /\ request' = [request EXCEPT ![p] =
       IF WithKey(request[p].key) # {} THEN NoRequest ELSE [@ EXCEPT !.step = "insert"]]
  /\ UNCHANGED <<now, table, statement, held, history>>

\* The insert.  Without availableAt the column default truncates the time the
\* transaction began; with it the caller's instant, a whole number of
\* milliseconds, is stored as it is.
InsertMessage(p, m) ==
  LET start == request[p].at IN
  /\ request[p].step = "insert"
  /\ request[p].key # Null => WithKey(request[p].key) = {}
  /\ Fresh(m)
  /\ stored' = stored \cup {m}
  /\ key' = [key EXCEPT ![m] = request[p].key]
  /\ \/ /\ availableAt' = [availableAt EXCEPT ![m] = TruncMs(start)]
        /\ dueAt' = [dueAt EXCEPT ![m] = start]
     \/ \E delay \in Delays :
        /\ availableAt' = [availableAt EXCEPT ![m] = TruncMs(start) + Ticks(delay)]
        /\ dueAt' = [dueAt EXCEPT ![m] = TruncMs(start) + Ticks(delay)]
  /\ request' = [request EXCEPT ![p] = NoRequest]
  /\ UNCHANGED <<now, attempt, lease, statement, held, deliveries>>

\* Another producer inserted the key since the lookup: the unique index on
\* (queue, deduplicationKey) keeps the second row out, and the caller is told of
\* the first one or of the conflict.
InsertConflict(p) ==
  /\ request[p].step = "insert"
  /\ request[p].key # Null
  /\ WithKey(request[p].key) # {}
  /\ request' = [request EXCEPT ![p] = NoRequest]
  /\ UNCHANGED <<now, table, statement, held, history>>

-----------------------------------------------------------------------------
(* claim *)

BeginClaim(c) ==
  /\ statement[c].step = "idle"
  /\ statement' = [statement EXCEPT ![c] = [Idle EXCEPT !.step = "claim", !.at = now]]
  /\ UNCHANGED <<now, table, request, held, history>>

\* At most `limit` of the candidates, the earliest available first; enqueuedAt
\* and the random id, which only break ties, are left open.
Earliest(batch, candidates, limit) ==
  /\ Cardinality(batch) <= limit
  /\ Cardinality(batch) < limit => batch = candidates
  /\ \A m \in batch, other \in candidates \ batch : availableAt[m] <= availableAt[other]

\* The candidates of the common table expression: FOR UPDATE locks them and
\* SKIP LOCKED leaves out what another claim has locked.
LockCandidates(c) ==
  LET candidates == {m \in Messages \ LockedRows :
                       Claimable(m, statement[c].at) /\ attempt[m] < MaxDeliveries} IN
  /\ statement[c].step = "claim"
  /\ \E limit \in Limits, batch \in SUBSET candidates :
        /\ Earliest(batch, candidates, limit)
        /\ statement' = [statement EXCEPT ![c].step = "locked", ![c].rows = batch]
  /\ UNCHANGED <<now, table, request, held, history>>

\* The token of a delivery is its number: like a fresh uuid, no other delivery
\* of the message has it.
NextToken(m) == Len(deliveries[m]) + 1

\* The update and the commit; the reply with the leases may be lost.
CommitClaim(c) ==
  LET batch == statement[c].rows IN
  /\ statement[c].step = "locked"
  /\ \E visibility \in Visibility :
       LET expiry == RoundMs(statement[c].at + Ticks(visibility)) IN
       /\ lease' = [m \in Messages |->
            IF m \in batch THEN [token |-> NextToken(m), expiresAt |-> expiry] ELSE lease[m]]
       /\ deliveries' = [m \in Messages |->
            IF m \in batch
            THEN Append(deliveries[m], [expiresAt |-> expiry, outcome |-> "open"])
            ELSE deliveries[m]]
  /\ attempt' = [m \in Messages |-> IF m \in batch THEN attempt[m] + 1 ELSE attempt[m]]
  /\ \/ held' = [held EXCEPT ![c] = @ \cup {[id |-> m, token |-> NextToken(m)] : m \in batch}]
     \/ UNCHANGED held
  /\ statement' = [statement EXCEPT ![c] = Idle]
  /\ UNCHANGED <<now, stored, key, availableAt, request, dueAt>>

-----------------------------------------------------------------------------
(* acknowledge and retry, for any lease the consumer was ever handed *)

BeginSettle(c, verb, handle) ==
  /\ statement[c].step = "idle"
  /\ handle \in held[c]
  /\ statement' = [statement EXCEPT ![c] =
       [Idle EXCEPT !.step = verb, !.at = now, !.handle = handle]]
  /\ UNCHANGED <<now, table, request, held, history>>

\* The WHERE clause matches; the statement waits for a row a claim has locked.
Settles(c, verb) ==
  /\ statement[c].step = verb
  /\ Owns(statement[c].handle, statement[c].at)
  /\ statement[c].handle.id \notin LockedRows
  /\ statement' = [statement EXCEPT ![c] = Idle]

Settled(past, n, outcome) == [past EXCEPT ![n].outcome = outcome]

RecordOutcome(handle, outcome) ==
  deliveries' = [deliveries EXCEPT ![handle.id] = Settled(@, handle.token, outcome)]

Acknowledge(c) ==
  LET m == statement[c].handle.id IN
  /\ Settles(c, "acknowledge")
  /\ stored' = stored \ {m}
  /\ RecordOutcome(statement[c].handle, "acknowledged")
  /\ UNCHANGED <<now, key, availableAt, attempt, lease, request, held, dueAt>>

Retry(c) ==
  LET m == statement[c].handle.id IN
  /\ Settles(c, "retry")
  /\ \E delay \in Delays :
       LET asked == statement[c].at + Ticks(delay) IN
       /\ availableAt' = [availableAt EXCEPT ![m] = RoundMs(asked)]
       /\ dueAt' = [dueAt EXCEPT ![m] = asked]
  /\ lease' = [lease EXCEPT ![m] = Null]
  /\ RecordOutcome(statement[c].handle, "retried")
  /\ UNCHANGED <<now, stored, key, attempt, request, held>>

\* The WHERE clause matches no row: the caller is told false.
SettleNothing(c) ==
  /\ statement[c].step \in {"acknowledge", "retry"}
  /\ ~Owns(statement[c].handle, statement[c].at)
  /\ statement' = [statement EXCEPT ![c] = Idle]
  /\ UNCHANGED <<now, table, request, held, history>>

-----------------------------------------------------------------------------
(* Failures of the callers and of their connections *)

\* The connection goes before the statement commits: PostgreSQL rolls it back.
LoseStatement(c) ==
  /\ statement[c].step # "idle"
  /\ statement' = [statement EXCEPT ![c] = Idle]
  /\ UNCHANGED <<now, table, request, held, history>>

\* A consumer that restarts has forgotten its leases.
CrashConsumer(c) ==
  /\ statement[c].step = "idle"
  /\ held[c] # {}
  /\ held' = [held EXCEPT ![c] = {}]
  /\ UNCHANGED <<now, table, statement, request, history>>

LoseEnqueue(p) ==
  /\ request[p].step # "idle"
  /\ request' = [request EXCEPT ![p] = NoRequest]
  /\ UNCHANGED <<now, table, statement, held, history>>

-----------------------------------------------------------------------------

ProducerStep(p) ==
  \/ \E k \in Keys \cup {Null} : BeginEnqueue(p, k)
  \/ LookupKey(p)
  \/ \E m \in Messages : InsertMessage(p, m)
  \/ InsertConflict(p)
  \/ LoseEnqueue(p)

ConsumerStep(c) ==
  \/ BeginClaim(c)
  \/ LockCandidates(c)
  \/ CommitClaim(c)
  \/ \E verb \in {"acknowledge", "retry"}, handle \in held[c] : BeginSettle(c, verb, handle)
  \/ Acknowledge(c)
  \/ Retry(c)
  \/ SettleNothing(c)
  \/ LoseStatement(c)
  \/ CrashConsumer(c)

Next ==
  \/ Tick
  \/ \E p \in Producers : ProducerStep(p)
  \/ \E c \in Consumers : ConsumerStep(c)

Spec == Init /\ [][Next]_vars

(* What must go on for messages to move.  A statement ends, by its commit or *)
(* with its connection.  One consumer at least polls again and again; the     *)
(* others may stop at any time.  And of the claims that lock a message not    *)
(* all are lost.  Those two are strong fairness, because a crash or a lost    *)
(* connection may always interrupt.  Nobody need acknowledge or retry what it *)
(* was handed.                                                                *)

StatementEnds(c) == WF_vars(CommitClaim(c) \/ Acknowledge(c) \/ Retry(c) \/ SettleNothing(c) \/ LoseStatement(c))

Polls(c) == SF_vars(BeginClaim(c)) /\ SF_vars(LockCandidates(c))

CommitDelivery(c, m) == m \in statement[c].rows /\ CommitClaim(c)

NotAllLost(m) == SF_vars(\E c \in Consumers : CommitDelivery(c, m))
-----------------------------------------------------------------------------
(* Properties *)

Delivery == [expiresAt : Int, outcome : {"open", "acknowledged", "retried"}]
ClaimStatement  == [step : {"idle", "claim", "locked"}, at : 0 .. MaxNow,
                    rows : SUBSET Messages, handle : {Null}]
SettleStatement == [step : {"acknowledge", "retry"}, at : 0 .. MaxNow,
                    rows : {{}}, handle : Handle]
Request  == [step : {"idle", "lookup", "insert"}, at : 0 .. MaxNow, key : Keys \cup {Null}]
Lease    == [token : Nat, expiresAt : Int]

\* Every variable has its type.
TypeOK ==
  /\ now \in 0 .. MaxNow
  /\ stored \subseteq Messages
  /\ key \in [Messages -> Keys \cup {Null}]
  /\ availableAt \in [Messages -> Int]
  /\ attempt \in [Messages -> Nat]
  /\ lease \in [Messages -> Lease \cup {Null}]
  /\ statement \in [Consumers -> ClaimStatement \cup SettleStatement]
  /\ request \in [Producers -> Request]
  /\ held \in [Consumers -> SUBSET Handle]
  /\ dueAt \in [Messages -> Int]
  /\ deliveries \in [Messages -> Seq(Delivery)]

InForce(m, n) == deliveries[m][n].outcome = "open" /\ deliveries[m][n].expiresAt > now

\* At any instant of the database clock at most one of the leases ever handed
\* out for a message is in force, however late the claim that granted it acted
\* on the time it had read.
LeaseExclusive ==
  \A m \in Messages : \A i, j \in DOMAIN deliveries[m] :
    InForce(m, i) /\ InForce(m, j) => i = j

\* A message leaves the table only through its latest delivery, settled by an
\* acknowledge; every message that is gone was acknowledged exactly once, and
\* a settled delivery that is not the last one was a retry.
AcknowledgedOnce ==
  \A m \in Messages : \A n \in DOMAIN deliveries[m] :
    deliveries[m][n].outcome = "acknowledged" <=> (n = Len(deliveries[m]) /\ m \notin stored)

\* The attempt a consumer is shown is the number of times the message has been
\* handed out, whatever was lost, retried or expired in between.
AttemptCountsDeliveries == \A m \in stored : attempt[m] = Len(deliveries[m])

\* One row per deduplication key, whichever producers raced for it.
OneRowPerKey ==
  \A m, other \in stored : key[m] # Null /\ key[m] = key[other] => m = other

\* Once a delivery is superseded by a newer one, no call of its holder changes
\* the row any more: what acknowledge and retry settle is always the latest.
StaleLeaseIsInert ==
  [][\A m \in Messages : \A n \in DOMAIN deliveries[m] :
       n < Len(deliveries[m]) => deliveries'[m][n] = deliveries[m][n]]_vars

Unleased(m) == m \in stored /\ lease[m] = Null

\* A message that was enqueued is claimable at the time it was asked for: the
\* column default truncates the clock, so the row is not a fraction of a
\* millisecond ahead of it.
EnqueuedIsDue ==
  \A m \in stored : Unleased(m) /\ deliveries[m] = <<>> => availableAt[m] <= dueAt[m]

\* A message is never stranded: after any crash, lost reply, expired lease or
\* retry it is delivered again, until it is acknowledged (or the bound on
\* deliveries ends the model).
NoMessageStranded ==
  \A m \in Messages : \A n \in 0 .. MaxDeliveries - 1 :
    (m \in stored /\ Len(deliveries[m]) = n) ~> (m \notin stored \/ Len(deliveries[m]) > n)

(* The inductive invariant behind them: what the table, the locks and the   *)
(* history have to do with each other between any two steps.                *)

\* A row is leased exactly when its latest delivery is open, under that token.
LeaseIsLatest ==
  \A m \in stored :
    LET n == Len(deliveries[m]) IN
    IF lease[m] # Null
    THEN /\ n > 0
         /\ lease[m] = [token |-> n, expiresAt |-> deliveries[m][n].expiresAt]
         /\ deliveries[m][n].outcome = "open"
    ELSE n > 0 => deliveries[m][n].outcome = "retried"

\* A message without a row was never inserted or was acknowledged.
GoneIsAcknowledged ==
  \A m \in Messages \ stored :
    LET n == Len(deliveries[m]) IN
    IF n = 0 THEN lease[m] = Null /\ attempt[m] = 0
             ELSE deliveries[m][n].outcome = "acknowledged"

\* What was delivered before the latest delivery was retried, or its time is up.
OldIsOver ==
  \A m \in Messages : \A n \in 1 .. Len(deliveries[m]) - 1 :
    \/ deliveries[m][n].outcome = "retried"
    \/ deliveries[m][n].outcome = "open" /\ deliveries[m][n].expiresAt <= now

\* No transaction began in the future, and the rows a claim has locked are
\* claimable at its time until it commits, by it alone.
LocksHold ==
  /\ \A c \in Consumers : statement[c].at <= now
  /\ \A c \in Consumers : \A m \in statement[c].rows :
       statement[c].step = "locked" /\ Claimable(m, statement[c].at)
  /\ \A c, d \in Consumers : c # d => statement[c].rows \cap statement[d].rows = {}

QueueInv ==
  /\ TypeOK
  /\ LeaseIsLatest
  /\ GoneIsAcknowledged
  /\ OldIsOver
  /\ LocksHold
  /\ AttemptCountsDeliveries

\* The invariant of the table: beside that, a deduplication key has one row, and
\* what was enqueued is due when it was asked for.
TableInv == QueueInv /\ OneRowPerKey /\ EnqueuedIsDue

\* The contract of message-queue.contract.ts, read off the table: the messages
\* whose lease is in force, and what became of every delivery.
Leased == {m \in stored : lease[m] # Null /\ lease[m].expiresAt > now}

Outcomes == [m \in Messages |-> [n \in DOMAIN deliveries[m] |-> deliveries[m][n].outcome]]

Contract == INSTANCE MessageQueue WITH
  waiting <- stored, leased <- Leased, outcomes <- Outcomes

ImplementsContract == Contract!ContractSpec

=============================================================================
