--------------------- MODULE PostgresMessageQueueProofs ---------------------
(***************************************************************************)
(* Proofs about PostgresMessageQueue for every set of messages, consumers  *)
(* and producers, every resolution of the clock and every visibility.      *)
(***************************************************************************)
EXTENDS PostgresMessageQueue, TLAPS

(* What a successful acknowledge or retry writes into the history. *)

LEMMA OutcomeRecorded ==
  ASSUME NEW s \in Seq(Delivery), NEW n \in 1 .. Len(s),
         NEW o \in {"open", "acknowledged", "retried"}
  PROVE  /\ Settled(s, n, o) \in Seq(Delivery)
         /\ Len(Settled(s, n, o)) = Len(s)
         /\ Settled(s, n, o)[n] = [expiresAt |-> s[n].expiresAt, outcome |-> o]
         /\ \A i \in 1 .. Len(s) : i # n => Settled(s, n, o)[i] = s[i]
<1> DEFINE t == Settled(s, n, o)
<1>1. s[n] \in Delivery
  OBVIOUS
<1>2. t = [i \in 1 .. Len(s) |-> IF i = n THEN [s[n] EXCEPT !.outcome = o] ELSE s[i]]
  <2>1. DOMAIN s = 1 .. Len(s)
    OBVIOUS
  <2> QED
    BY ONLY <2>1 DEF Settled
<1>3. [s[n] EXCEPT !.outcome = o] = [expiresAt |-> s[n].expiresAt, outcome |-> o]
  BY <1>1 DEF Delivery
<1>4. [s[n] EXCEPT !.outcome = o] \in Delivery
  BY <1>1, <1>3 DEF Delivery
<1>5. \A i \in 1 .. Len(s) : t[i] \in Delivery
  BY <1>2, <1>4
<1>6. t \in Seq(Delivery) /\ Len(t) = Len(s)
  BY <1>2, <1>5
<1> QED
  BY <1>2, <1>3, <1>6

LEMMA TimestampType ==
  ASSUME NEW t \in Int
  PROVE  TruncMs(t) \in Int /\ RoundMs(t) \in Int /\ Ticks(t) \in Int
<1>1. \A u \in Int : u % TicksPerMs \in Int
  BY QueueAssumption DEF QueueAssumption
<1>2. t + TicksPerMs \div 2 \in Int /\ t * TicksPerMs \in Int
  BY QueueAssumption DEF QueueAssumption
<1> QED
  BY <1>1, <1>2 DEF RoundMs, TruncMs, Ticks

-----------------------------------------------------------------------------
(* The statements and requests the actions put in flight have their type. *)

Statement == ClaimStatement \cup SettleStatement

LEMMA InFlightType ==
  /\ Idle \in Statement
  /\ NoRequest \in Request
  /\ \A k \in Keys \cup {Null}, t \in 0 .. MaxNow, s \in {"lookup", "insert"} :
       [step |-> s, at |-> t, key |-> k] \in Request
  /\ \A t \in 0 .. MaxNow : [Idle EXCEPT !.step = "claim", !.at = t] \in Statement
  /\ \A t \in 0 .. MaxNow, h \in Handle, v \in {"acknowledge", "retry"} :
       [Idle EXCEPT !.step = v, !.at = t, !.handle = h] \in Statement
  /\ \A r \in Request : [r EXCEPT !.step = "insert"] \in Request
<1>1. 0 \in 0 .. MaxNow
  BY QueueAssumption DEF QueueAssumption
<1>2. Idle \in Statement /\ NoRequest \in Request
  BY <1>1 DEF Idle, NoRequest, Statement, ClaimStatement, Request
<1>3. \A t \in 0 .. MaxNow : [Idle EXCEPT !.step = "claim", !.at = t] \in Statement
  BY DEF Idle, Statement, ClaimStatement
<1>4. \A t \in 0 .. MaxNow, h \in Handle, v \in {"acknowledge", "retry"} :
        [Idle EXCEPT !.step = v, !.at = t, !.handle = h] \in Statement
  BY DEF Idle, Statement, SettleStatement
<1> QED
  BY <1>2, <1>3, <1>4 DEF Request

LEMMA LockingType ==
  ASSUME NEW s \in Statement, s.step = "claim", NEW batch \in SUBSET Messages
  PROVE  [s EXCEPT !.step = "locked", !.rows = batch] \in Statement
BY DEF Statement, ClaimStatement, SettleStatement

LEMMA InFlightFields ==
  ASSUME NEW s \in Statement
  PROVE  /\ s.at \in 0 .. MaxNow /\ s.at \in Int
         /\ s.rows \in SUBSET Messages
         /\ s.step \in {"acknowledge", "retry"} => s.handle \in Handle /\ s.rows = {}
BY QueueAssumption DEF QueueAssumption, Statement, ClaimStatement, SettleStatement

(* A statement that owns a row owns it through the row's lease. *)
LEMMA OwnerFields ==
  ASSUME TypeOK, NEW c \in Consumers, statement[c].step \in {"acknowledge", "retry"},
         Owns(statement[c].handle, statement[c].at)
  PROVE  /\ statement[c].handle \in Handle
         /\ statement[c].handle.id \in Messages
         /\ statement[c].handle.token \in Nat
         /\ lease[statement[c].handle.id] \in Lease
         /\ lease[statement[c].handle.id].token = statement[c].handle.token
<1>1. statement[c].handle \in Handle
  BY InFlightFields DEF TypeOK, Statement
<1>2. lease[statement[c].handle.id] \in Lease
  BY <1>1 DEF Owns, TypeOK, Handle
<1> QED
  BY <1>1, <1>2 DEF Owns, Handle

-----------------------------------------------------------------------------
(* Every variable keeps its type. *)

LEMMA CommitExpiry ==
  ASSUME TypeOK, NEW c \in Consumers, CommitClaim(c)
  PROVE  \E e \in Int :
           /\ lease' = [m \in Messages |->
                IF m \in statement[c].rows
                THEN [token |-> NextToken(m), expiresAt |-> e] ELSE lease[m]]
           /\ deliveries' = [m \in Messages |->
                IF m \in statement[c].rows
                THEN Append(deliveries[m], [expiresAt |-> e, outcome |-> "open"])
                ELSE deliveries[m]]
<1>1. statement[c].at \in Int
  BY InFlightFields DEF TypeOK, Statement
<1>2. \A v \in Visibility : RoundMs(statement[c].at + Ticks(v)) \in Int
  <2>1. \A v \in Visibility : Ticks(v) \in Int
    BY TimestampType, QueueAssumption DEF QueueAssumption
  <2>2. \A v \in Visibility : statement[c].at + Ticks(v) \in Int
    BY <1>1, <2>1
  <2> QED
    BY <2>2, TimestampType
<1> QED
  BY <1>2 DEF CommitClaim

LEMMA CommitType ==
  ASSUME TypeOK, NEW c \in Consumers, CommitClaim(c)
  PROVE  /\ lease' \in [Messages -> Lease \cup {Null}]
         /\ deliveries' \in [Messages -> Seq(Delivery)]
         /\ attempt' \in [Messages -> Nat]
         /\ held' \in [Consumers -> SUBSET Handle]
<1> DEFINE batch == statement[c].rows
<1>1. PICK e \in Int :
        /\ lease' = [m \in Messages |->
             IF m \in batch THEN [token |-> NextToken(m), expiresAt |-> e] ELSE lease[m]]
        /\ deliveries' = [m \in Messages |->
             IF m \in batch THEN Append(deliveries[m], [expiresAt |-> e, outcome |-> "open"])
                            ELSE deliveries[m]]
  BY CommitExpiry
<1>2. \A m \in Messages : NextToken(m) \in Nat
  BY DEF NextToken, TypeOK
<1> HIDE DEF batch
<1>3. lease' \in [Messages -> Lease \cup {Null}]
  <2>1. \A m \in Messages : [token |-> NextToken(m), expiresAt |-> e] \in Lease
    BY <1>2 DEF Lease
  <2> QED
    BY <1>1, <2>1 DEF TypeOK
<1>4. deliveries' \in [Messages -> Seq(Delivery)]
  <2>1. [expiresAt |-> e, outcome |-> "open"] \in Delivery
    BY DEF Delivery
  <2>2. \A m \in Messages :
          Append(deliveries[m], [expiresAt |-> e, outcome |-> "open"]) \in Seq(Delivery)
    BY <2>1 DEF TypeOK
  <2> QED
    BY <1>1, <2>2 DEF TypeOK
<1>5. attempt' \in [Messages -> Nat]
  BY DEF CommitClaim, TypeOK
<1>6. held' \in [Consumers -> SUBSET Handle]
  <2>1. {[id |-> m, token |-> NextToken(m)] : m \in batch} \in SUBSET Handle
    <3>1. batch \subseteq Messages
      BY InFlightFields DEF TypeOK, Statement, batch
    <3> QED
      BY <3>1, <1>2 DEF Handle
  <2>2. held' = [held EXCEPT ![c] = @ \cup {[id |-> m, token |-> NextToken(m)] : m \in batch}]
        \/ held' = held
    BY DEF CommitClaim, batch
  <2> QED
    BY <2>1, <2>2 DEF TypeOK
<1> QED
  BY <1>3, <1>4, <1>5, <1>6

LEMMA SettleType ==
  ASSUME TypeOK, LeaseIsLatest, NEW c \in Consumers,
         NEW verb \in {"acknowledge", "retry"}, Settles(c, verb),
         NEW o \in {"open", "acknowledged", "retried"},
         RecordOutcome(statement[c].handle, o)
  PROVE  deliveries' \in [Messages -> Seq(Delivery)]
<1> DEFINE m == statement[c].handle.id
<1> DEFINE n == statement[c].handle.token
<1>1. m \in Messages /\ n \in 1 .. Len(deliveries[m]) /\ deliveries[m] \in Seq(Delivery)
  <2>1. m \in stored /\ lease[m] # Null /\ m \in Messages /\ lease[m].token = n
    BY OwnerFields DEF Settles, Owns
  <2>2. n = Len(deliveries[m]) /\ n > 0
    <3>1. /\ lease[m] = [token |-> Len(deliveries[m]),
                         expiresAt |-> deliveries[m][Len(deliveries[m])].expiresAt]
          /\ Len(deliveries[m]) > 0
      BY <2>1 DEF LeaseIsLatest
    <3> QED
      BY <2>1, <3>1
  <2>3. deliveries[m] \in Seq(Delivery)
    BY <2>1 DEF TypeOK
  <2> QED
    BY <2>1, <2>2, <2>3
<1>2. Settled(deliveries[m], n, o) \in Seq(Delivery)
  BY <1>1, OutcomeRecorded
<1>3. deliveries' = [deliveries EXCEPT ![m] = Settled(deliveries[m], n, o)]
  BY DEF RecordOutcome, TypeOK
<1> QED
  BY <1>1, <1>2, <1>3 DEF TypeOK

LEMMA TypeStep == TypeOK /\ LeaseIsLatest /\ [Next]_vars => TypeOK'
<1> SUFFICES ASSUME TypeOK, LeaseIsLatest, [Next]_vars PROVE TypeOK'
  OBVIOUS
<1>0. statement \in [Consumers -> Statement] /\ request \in [Producers -> Request]
  BY DEF TypeOK, Statement
<1> USE DEF TypeOK
<1>1. CASE Tick
  BY <1>1, QueueAssumption DEF Tick, table, history, QueueAssumption
<1>2. ASSUME NEW p \in Producers, ProducerStep(p) PROVE TypeOK'
  <2>1. ASSUME NEW k \in Keys \cup {Null}, BeginEnqueue(p, k) PROVE TypeOK'
    <3>1. request' \in [Producers -> Request]
      BY <1>0, <2>1, InFlightType DEF BeginEnqueue
    <3> QED
      BY <2>1, <3>1 DEF BeginEnqueue, table, history
  <2>2. CASE LookupKey(p)
    <3>1. request' \in [Producers -> Request]
      BY <1>0, <2>2, InFlightType DEF LookupKey
    <3> QED
      BY <2>2, <3>1 DEF LookupKey, table, history
  <2>3. ASSUME NEW m \in Messages, InsertMessage(p, m) PROVE TypeOK'
    <3>1. request[p].at \in Int /\ request[p].key \in Keys \cup {Null}
      BY <1>0, QueueAssumption DEF Request, QueueAssumption
    <3>2. TruncMs(request[p].at) \in Int
      BY <3>1, TimestampType
    <3>3. \A d \in Delays : TruncMs(request[p].at) + Ticks(d) \in Int
      BY <3>2, TimestampType, QueueAssumption DEF QueueAssumption
    <3>4. request' \in [Producers -> Request]
      BY <1>0, <2>3, InFlightType DEF InsertMessage
    <3>5. availableAt' \in [Messages -> Int] /\ dueAt' \in [Messages -> Int]
      BY <2>3, <3>1, <3>2, <3>3 DEF InsertMessage
    <3>6. stored' \subseteq Messages /\ key' \in [Messages -> Keys \cup {Null}]
      BY <2>3, <3>1 DEF InsertMessage
    <3> QED
      BY <2>3, <3>4, <3>5, <3>6 DEF InsertMessage
  <2>4. CASE InsertConflict(p) \/ LoseEnqueue(p)
    <3>1. request' \in [Producers -> Request]
      BY <1>0, <2>4, InFlightType DEF InsertConflict, LoseEnqueue
    <3> QED
      BY <2>4, <3>1 DEF InsertConflict, LoseEnqueue, table, history
  <2> QED
    BY <1>2, <2>1, <2>2, <2>3, <2>4 DEF ProducerStep
<1>3. ASSUME NEW c \in Consumers, ConsumerStep(c) PROVE TypeOK'
  <2>1. CASE BeginClaim(c)
    <3>1. statement' \in [Consumers -> Statement]
      BY <1>0, <2>1, InFlightType DEF BeginClaim
    <3> QED
      BY <2>1, <3>1 DEF BeginClaim, table, history, Statement
  <2>2. CASE LockCandidates(c)
    <3>1. PICK batch \in SUBSET Messages :
            statement' = [statement EXCEPT ![c].step = "locked", ![c].rows = batch]
      BY <2>2 DEF LockCandidates
    <3>2. statement' \in [Consumers -> Statement]
      BY <1>0, <2>2, <3>1, LockingType DEF LockCandidates
    <3> QED
      BY <2>2, <3>2 DEF LockCandidates, table, history, Statement
  <2>3. CASE CommitClaim(c)
    <3>1. statement' \in [Consumers -> Statement]
      BY <1>0, <2>3, InFlightType DEF CommitClaim
    <3> QED
      BY <2>3, <3>1, CommitType DEF CommitClaim, Statement
  <2>4. ASSUME NEW verb \in {"acknowledge", "retry"}, NEW handle \in held[c],
               BeginSettle(c, verb, handle)
        PROVE  TypeOK'
    <3>1. statement' \in [Consumers -> Statement]
      BY <1>0, <2>4, InFlightType DEF BeginSettle
    <3> QED
      BY <2>4, <3>1 DEF BeginSettle, table, history, Statement
  <2>5. CASE Acknowledge(c)
    <3>1. statement' \in [Consumers -> Statement]
      BY <1>0, <2>5, InFlightType DEF Acknowledge, Settles
    <3>2. deliveries' \in [Messages -> Seq(Delivery)]
      BY <2>5, SettleType DEF Acknowledge
    <3> QED
      BY <2>5, <3>1, <3>2 DEF Acknowledge, Statement
  <2>6. CASE Retry(c)
    <3>1. statement' \in [Consumers -> Statement]
      BY <1>0, <2>6, InFlightType DEF Retry, Settles
    <3>2. deliveries' \in [Messages -> Seq(Delivery)]
      BY <2>6, SettleType DEF Retry
    <3>3. \A d \in Delays : /\ statement[c].at + Ticks(d) \in Int
                            /\ RoundMs(statement[c].at + Ticks(d)) \in Int
      <4>1. statement[c].at \in Int
        BY <1>0, InFlightFields
      <4>2. \A d \in Delays : Ticks(d) \in Int
        BY TimestampType, QueueAssumption DEF QueueAssumption
      <4>3. \A d \in Delays : statement[c].at + Ticks(d) \in Int
        BY <4>1, <4>2
      <4> QED
        BY <4>3, TimestampType
    <3>4. availableAt' \in [Messages -> Int] /\ dueAt' \in [Messages -> Int]
      <4> DEFINE m == statement[c].handle.id
      <4>1. PICK delay \in Delays :
              LET asked == statement[c].at + Ticks(delay) IN
              /\ availableAt' = [availableAt EXCEPT ![m] = RoundMs(asked)]
              /\ dueAt' = [dueAt EXCEPT ![m] = asked]
        BY <2>6 DEF Retry
      <4> DEFINE asked == statement[c].at + Ticks(delay)
      <4>2. asked \in Int /\ RoundMs(asked) \in Int
        BY <3>3
      <4>3. /\ availableAt' = [availableAt EXCEPT ![m] = RoundMs(asked)]
            /\ dueAt' = [dueAt EXCEPT ![m] = asked]
        BY <4>1
      <4>4. availableAt \in [Messages -> Int] /\ dueAt \in [Messages -> Int]
        BY DEF TypeOK
      <4> HIDE DEF m, asked
      <4> QED
        BY ONLY <4>2, <4>3, <4>4
    <3>5. lease' \in [Messages -> Lease \cup {Null}]
      BY <2>6 DEF Retry
    <3> QED
      BY <2>6, <3>1, <3>2, <3>4, <3>5 DEF Retry, Statement
  <2>7. CASE SettleNothing(c) \/ LoseStatement(c)
    <3>1. statement' \in [Consumers -> Statement]
      BY <1>0, <2>7, InFlightType DEF SettleNothing, LoseStatement
    <3> QED
      BY <2>7, <3>1 DEF SettleNothing, LoseStatement, table, history, Statement
  <2>8. CASE CrashConsumer(c)
    BY <2>8 DEF CrashConsumer, table, history
  <2> QED
    BY <1>3, <2>1, <2>2, <2>3, <2>4, <2>5, <2>6, <2>7, <2>8 DEF ConsumerStep
<1>4. CASE UNCHANGED vars
  BY <1>4 DEF vars, table, history
<1> QED
  BY <1>1, <1>2, <1>3, <1>4 DEF Next

-----------------------------------------------------------------------------
(* The inductive invariant. *)

(* A statement that is begun, ends or is lost holds no row lock. *)
LEMMA LocksReleased ==
  ASSUME QueueInv, NEW c \in Consumers, NEW s \in Statement, s.at <= now, s.rows = {},
         statement' = [statement EXCEPT ![c] = s],
         UNCHANGED <<now, stored, availableAt, lease>>
  PROVE  LocksHold'
<1>1. \A d \in Consumers : statement'[d] = IF d = c THEN s ELSE statement[d]
  BY DEF QueueInv, TypeOK
<1> QED
  BY <1>1 DEF QueueInv, LocksHold, Claimable

LEMMA TableUntouched ==
  ASSUME QueueInv, UNCHANGED <<now, stored, lease, attempt, deliveries>>
  PROVE  /\ LeaseIsLatest' /\ GoneIsAcknowledged' /\ OldIsOver'
         /\ AttemptCountsDeliveries'
BY DEF QueueInv, LeaseIsLatest, GoneIsAcknowledged, OldIsOver, AttemptCountsDeliveries

LEMMA InsertKeepsInv ==
  ASSUME QueueInv, NEW p \in Producers, NEW m \in Messages, InsertMessage(p, m)
  PROVE  LeaseIsLatest' /\ GoneIsAcknowledged' /\ OldIsOver' /\ LocksHold'
         /\ AttemptCountsDeliveries'
<1>1. /\ m \notin stored /\ deliveries[m] = <<>> /\ Len(deliveries[m]) = 0
      /\ lease[m] = Null /\ attempt[m] = 0
  BY DEF InsertMessage, Fresh, QueueInv, GoneIsAcknowledged
<1>2. stored' = stored \cup {m} /\ UNCHANGED <<now, lease, attempt, deliveries, statement>>
  BY DEF InsertMessage
<1>3. \A other \in Messages : other # m => availableAt'[other] = availableAt[other]
  BY DEF InsertMessage, QueueInv, TypeOK
<1>4. LeaseIsLatest' /\ GoneIsAcknowledged' /\ OldIsOver' /\ AttemptCountsDeliveries'
  BY <1>1, <1>2 DEF QueueInv, LeaseIsLatest, GoneIsAcknowledged, OldIsOver,
                    AttemptCountsDeliveries
<1>5. LocksHold'
  <2>1. \A c \in Consumers : \A x \in statement[c].rows :
          x # m /\ x \in Messages /\ Claimable(x, statement[c].at)
    BY <1>1 DEF QueueInv, LocksHold, Claimable, TypeOK
  <2>2. \A c \in Consumers : \A x \in statement[c].rows : Claimable(x, statement[c].at)'
    BY <1>2, <1>3, <2>1 DEF Claimable
  <2> QED
    BY <1>2, <2>2 DEF QueueInv, LocksHold
<1> QED
  BY <1>4, <1>5

LEMMA LockKeepsLocks ==
  ASSUME QueueInv, NEW c \in Consumers, LockCandidates(c)
  PROVE  LocksHold'
<1>1. PICK batch \in SUBSET Messages :
        /\ batch \cap LockedRows = {}
        /\ \A m \in batch : Claimable(m, statement[c].at)
        /\ statement' = [statement EXCEPT ![c].step = "locked", ![c].rows = batch]
  BY DEF LockCandidates
<1>2. \A d \in Consumers : statement[d] \in Statement
  BY DEF QueueInv, TypeOK, Statement
<1>3. statement[c].step = "claim" /\ statement[c] \in ClaimStatement
  BY <1>2 DEF LockCandidates, Statement, SettleStatement
<1>4. /\ statement'[c].step = "locked" /\ statement'[c].rows = batch
      /\ statement'[c].at = statement[c].at
  BY <1>1, <1>3 DEF ClaimStatement, QueueInv, TypeOK
<1>5. \A d \in Consumers : d # c => statement'[d] = statement[d]
  BY <1>1 DEF QueueInv, TypeOK
<1>6. UNCHANGED <<now, stored, availableAt, lease>>
  BY DEF LockCandidates, table
<1>7. \A d \in Consumers : statement[d].rows \cap batch = {}
  BY <1>1 DEF LockedRows
<1>8. \A d \in Consumers : statement'[d].at <= now'
  BY <1>4, <1>5, <1>6 DEF QueueInv, LocksHold
<1>9. \A d \in Consumers : \A m \in statement'[d].rows :
         statement'[d].step = "locked" /\ Claimable(m, statement[d].at)
  BY <1>1, <1>4, <1>5 DEF QueueInv, LocksHold
<1>10. \A d \in Consumers : statement'[d].at = statement[d].at
  BY <1>4, <1>5
<1>11. \A d \in Consumers : \A m \in statement'[d].rows : Claimable(m, statement[d].at)'
  BY <1>6, <1>9, <1>10 DEF Claimable
<1>12. \A d, e \in Consumers : d # e => statement'[d].rows \cap statement'[e].rows = {}
  BY <1>4, <1>5, <1>7 DEF QueueInv, LocksHold
<1> QED
  BY <1>8, <1>9, <1>11, <1>12 DEF LocksHold

(* The rows a claim has locked have no lease that is in force. *)
LEMMA BatchIsFree ==
  ASSUME QueueInv, NEW c \in Consumers, NEW m \in statement[c].rows
  PROVE  /\ m \in stored /\ m \in Messages
         /\ lease[m] = Null \/ lease[m].expiresAt <= now
<1>1. Claimable(m, statement[c].at) /\ statement[c].at <= now
  BY DEF QueueInv, LocksHold
<1>2. m \in stored /\ m \in Messages
  BY <1>1 DEF Claimable, QueueInv, TypeOK
<1>3. CASE lease[m] = Null
  BY <1>2, <1>3
<1>4. CASE lease[m] # Null
  <2>1. lease[m].expiresAt \in Int /\ statement[c].at \in Int /\ now \in Int
    BY <1>2, <1>4, InFlightFields, QueueAssumption
       DEF QueueInv, TypeOK, Lease, Statement, QueueAssumption
  <2>2. lease[m].expiresAt <= statement[c].at
    BY <1>1, <1>4 DEF Claimable
  <2> QED
    BY <1>1, <1>2, <2>1, <2>2
<1> QED
  BY <1>3, <1>4

(* Committing a claim: its rows were claimable at a time that is past, so    *)
(* the deliveries they had are over.                                         *)
LEMMA CommitKeepsInv ==
  ASSUME QueueInv, NEW c \in Consumers, CommitClaim(c)
  PROVE  LeaseIsLatest' /\ GoneIsAcknowledged' /\ OldIsOver' /\ LocksHold'
         /\ AttemptCountsDeliveries'
<1> DEFINE batch == statement[c].rows
<1>1. \A m \in batch : /\ m \in stored /\ m \in Messages
                       /\ lease[m] = Null \/ lease[m].expiresAt <= now
  BY BatchIsFree
<1>2. PICK e \in Int :
        /\ lease' = [m \in Messages |->
             IF m \in batch THEN [token |-> NextToken(m), expiresAt |-> e] ELSE lease[m]]
        /\ deliveries' = [m \in Messages |->
             IF m \in batch THEN Append(deliveries[m], [expiresAt |-> e, outcome |-> "open"])
                            ELSE deliveries[m]]
  BY CommitExpiry DEF QueueInv
<1>3. \A m \in Messages : deliveries[m] \in Seq(Delivery)
  BY DEF QueueInv, TypeOK
<1>4. \A m \in batch :
        /\ Len(deliveries'[m]) = Len(deliveries[m]) + 1
        /\ deliveries'[m][Len(deliveries[m]) + 1] = [expiresAt |-> e, outcome |-> "open"]
        /\ \A n \in 1 .. Len(deliveries[m]) : deliveries'[m][n] = deliveries[m][n]
        /\ lease'[m] = [token |-> Len(deliveries[m]) + 1, expiresAt |-> e]
  BY <1>1, <1>2, <1>3 DEF NextToken
<1>5. \A m \in Messages \ batch : deliveries'[m] = deliveries[m] /\ lease'[m] = lease[m]
  BY <1>2
<1>6. stored' = stored /\ now' = now /\ availableAt' = availableAt
  BY DEF CommitClaim
<1>7. \A m \in Messages : Len(deliveries[m]) \in Nat
  BY <1>3
<1> HIDE DEF batch
<1>8. \A m \in batch : \A n \in 1 .. Len(deliveries[m]) :
        \/ deliveries[m][n].outcome = "retried"
        \/ deliveries[m][n].outcome = "open" /\ deliveries[m][n].expiresAt <= now
  <2> SUFFICES ASSUME NEW m \in batch, NEW n \in 1 .. Len(deliveries[m])
               PROVE  \/ deliveries[m][n].outcome = "retried"
                      \/ deliveries[m][n].outcome = "open" /\ deliveries[m][n].expiresAt <= now
    OBVIOUS
  <2>0. Len(deliveries[m]) \in Nat /\ m \in Messages
    BY <1>1, <1>7
  <2>1. CASE n < Len(deliveries[m])
    <3>1. n \in 1 .. Len(deliveries[m]) - 1
      BY <2>0, <2>1
    <3> QED
      BY <2>0, <3>1 DEF QueueInv, OldIsOver
  <2>2. CASE n = Len(deliveries[m]) /\ lease[m] = Null
    <3>1. Len(deliveries[m]) > 0 => deliveries[m][Len(deliveries[m])].outcome = "retried"
      BY <1>1, <2>2 DEF QueueInv, LeaseIsLatest
    <3> QED
      BY <2>0, <2>2, <3>1
  <2>3. CASE n = Len(deliveries[m]) /\ lease[m] # Null
    <3>1. /\ lease[m] = [token |-> n, expiresAt |-> deliveries[m][n].expiresAt]
          /\ deliveries[m][n].outcome = "open"
      BY <1>1, <2>3 DEF QueueInv, LeaseIsLatest
    <3>2. lease[m].expiresAt <= now
      BY <1>1, <2>3
    <3> QED
      BY <3>1, <3>2
  <2> QED
    BY <1>1, <2>0, <2>1, <2>2, <2>3
<1>9. LeaseIsLatest'
  <2> SUFFICES ASSUME NEW m \in stored' PROVE
        LET n == Len(deliveries'[m]) IN
        IF lease'[m] # Null
        THEN /\ n > 0
             /\ lease'[m] = [token |-> n, expiresAt |-> deliveries'[m][n].expiresAt]
             /\ deliveries'[m][n].outcome = "open"
        ELSE n > 0 => deliveries'[m][n].outcome = "retried"
    BY DEF LeaseIsLatest
  <2>0. m \in stored /\ m \in Messages
    BY <1>6 DEF QueueInv, TypeOK
  <2>1. CASE m \notin batch
    BY <1>5, <2>0, <2>1 DEF QueueInv, LeaseIsLatest
  <2>2. CASE m \in batch
    <3> DEFINE n == Len(deliveries[m]) + 1
    <3>1. /\ n \in Nat /\ n > 0
          /\ Len(deliveries'[m]) = n
          /\ lease'[m] = [token |-> n, expiresAt |-> e]
          /\ deliveries'[m][n] = [expiresAt |-> e, outcome |-> "open"]
      BY <1>4, <1>7, <2>0, <2>2
    <3>2. lease'[m] # Null
      BY <3>1, QueueAssumption DEF QueueAssumption
    <3> HIDE DEF n
    <3> QED
      BY <3>1, <3>2
  <2> QED
    BY <2>1, <2>2
<1>10. GoneIsAcknowledged' /\ AttemptCountsDeliveries'
  <2>1. attempt' = [m \in Messages |-> IF m \in batch THEN attempt[m] + 1 ELSE attempt[m]]
    BY DEF CommitClaim, batch
  <2> QED
    BY <1>1, <1>4, <1>5, <1>6, <2>1
       DEF QueueInv, TypeOK, GoneIsAcknowledged, AttemptCountsDeliveries
<1>11. OldIsOver'
  <2> SUFFICES ASSUME NEW m \in Messages, NEW n \in 1 .. Len(deliveries'[m]) - 1
               PROVE  \/ deliveries'[m][n].outcome = "retried"
                      \/ /\ deliveries'[m][n].outcome = "open"
                         /\ deliveries'[m][n].expiresAt <= now'
    BY DEF OldIsOver
  <2>1. CASE m \in batch
    <3>1. Len(deliveries'[m]) = Len(deliveries[m]) + 1 /\ Len(deliveries[m]) \in Nat
      BY <1>4, <1>7, <2>1
    <3>2. n \in 1 .. Len(deliveries[m])
      BY <3>1
    <3>3. deliveries'[m][n] = deliveries[m][n]
      BY <1>4, <2>1, <3>2
    <3> QED
      BY <1>6, <1>8, <2>1, <3>2, <3>3
  <2>2. CASE m \notin batch
    BY <1>5, <1>6, <2>2 DEF QueueInv, OldIsOver
  <2> QED
    BY <2>1, <2>2
<1>12. LocksHold'
  <2>1. \A d \in Consumers : statement'[d] = IF d = c THEN Idle ELSE statement[d]
    BY DEF CommitClaim, QueueInv, TypeOK
  <2>2. \A d \in Consumers : d # c => \A m \in statement[d].rows : m \in Messages \ batch
    BY DEF QueueInv, LocksHold, Claimable, TypeOK, batch
  <2>3. Idle.rows = {} /\ Idle.at = 0 /\ 0 <= now
    BY DEF Idle, QueueInv, TypeOK
  <2>4. \A d \in Consumers : statement'[d].at <= now'
    BY <1>6, <2>1, <2>3 DEF QueueInv, LocksHold
  <2>5. \A d \in Consumers : \A m \in statement'[d].rows :
          statement'[d].step = "locked" /\ Claimable(m, statement[d].at)
          /\ statement'[d].at = statement[d].at /\ lease'[m] = lease[m]
    BY <1>5, <2>1, <2>2, <2>3 DEF QueueInv, LocksHold
  <2>6. \A d \in Consumers : \A m \in statement'[d].rows : Claimable(m, statement[d].at)'
    BY <1>6, <2>5 DEF Claimable
  <2>7. \A d1, d2 \in Consumers : d1 # d2 => statement'[d1].rows \cap statement'[d2].rows = {}
    BY <2>1, <2>3 DEF QueueInv, LocksHold
  <2> QED
    BY <2>4, <2>5, <2>6, <2>7 DEF LocksHold
<1> QED
  BY <1>9, <1>10, <1>11, <1>12

(* A settled delivery is the latest, and its row is locked by no claim. *)
LEMMA SettleEffect ==
  ASSUME QueueInv, NEW c \in Consumers, NEW verb \in {"acknowledge", "retry"},
         Settles(c, verb), NEW o \in {"open", "acknowledged", "retried"},
         RecordOutcome(statement[c].handle, o),
         NEW m \in {statement[c].handle.id}, NEW n \in {Len(deliveries[m])}
  PROVE  /\ m \in stored /\ m \in Messages /\ n \in Nat /\ n > 0
         /\ statement[c].handle.token = n
         /\ deliveries[m][n].outcome = "open"
         /\ Len(deliveries'[m]) = n
         /\ deliveries'[m][n] = [expiresAt |-> deliveries[m][n].expiresAt, outcome |-> o]
         /\ \A i \in 1 .. n : i # n => deliveries'[m][i] = deliveries[m][i]
         /\ \A other \in Messages : other # m => deliveries'[other] = deliveries[other]
         /\ \A d \in Consumers : m \notin statement[d].rows
<1>1. /\ m \in stored /\ lease[m] # Null /\ m \in Messages
      /\ lease[m].token = statement[c].handle.token
  BY OwnerFields DEF Settles, Owns, QueueInv
<1>2. /\ lease[m] = [token |-> n, expiresAt |-> deliveries[m][n].expiresAt]
      /\ n > 0 /\ deliveries[m][n].outcome = "open"
  BY <1>1 DEF QueueInv, LeaseIsLatest
<1>3. statement[c].handle.token = n
  BY <1>1, <1>2
<1>4. deliveries[m] \in Seq(Delivery) /\ n \in Nat /\ n \in 1 .. n
  BY <1>1, <1>2 DEF QueueInv, TypeOK
<1>5. deliveries' = [deliveries EXCEPT ![m] = Settled(deliveries[m], n, o)]
  BY <1>3 DEF RecordOutcome, QueueInv, TypeOK
<1>6. /\ deliveries'[m] = Settled(deliveries[m], n, o)
      /\ \A other \in Messages : other # m => deliveries'[other] = deliveries[other]
  BY <1>1, <1>5 DEF QueueInv, TypeOK
<1>7. \A d \in Consumers : m \notin statement[d].rows
  BY DEF Settles, LockedRows
<1>8. /\ Len(deliveries'[m]) = n
      /\ deliveries'[m][n] = [expiresAt |-> deliveries[m][n].expiresAt, outcome |-> o]
      /\ \A i \in 1 .. n : i # n => deliveries'[m][i] = deliveries[m][i]
  <2>1. deliveries[m] \in Seq(Delivery) /\ n \in 1 .. Len(deliveries[m])
    BY <1>4
  <2>2. /\ Len(deliveries'[m]) = Len(deliveries[m])
        /\ deliveries'[m][n] = [expiresAt |-> deliveries[m][n].expiresAt, outcome |-> o]
        /\ \A i \in 1 .. Len(deliveries[m]) : i # n => deliveries'[m][i] = deliveries[m][i]
    <3>1. /\ Len(Settled(deliveries[m], n, o)) = Len(deliveries[m])
          /\ Settled(deliveries[m], n, o)[n] =
               [expiresAt |-> deliveries[m][n].expiresAt, outcome |-> o]
      BY ONLY <2>1, OutcomeRecorded, o \in {"open", "acknowledged", "retried"}
    <3>2. \A i \in 1 .. Len(deliveries[m]) :
            i # n => Settled(deliveries[m], n, o)[i] = deliveries[m][i]
      BY ONLY <2>1, OutcomeRecorded, o \in {"open", "acknowledged", "retried"}
    <3> QED
      BY <1>6, <3>1, <3>2
  <2> QED
    BY <2>2
<1> QED
  BY <1>1, <1>2, <1>3, <1>4, <1>6, <1>7, <1>8

LEMMA OldKept ==
  ASSUME OldIsOver, now' = now, NEW m \in Messages,
         Len(deliveries'[m]) = Len(deliveries[m]), Len(deliveries[m]) \in Nat,
         \A i \in 1 .. Len(deliveries[m]) :
           i # Len(deliveries[m]) => deliveries'[m][i] = deliveries[m][i],
         \A other \in Messages : other # m => deliveries'[other] = deliveries[other]
  PROVE  OldIsOver'
<1> SUFFICES ASSUME NEW x \in Messages, NEW i \in 1 .. Len(deliveries'[x]) - 1
             PROVE  \/ deliveries'[x][i].outcome = "retried"
                    \/ /\ deliveries'[x][i].outcome = "open"
                       /\ deliveries'[x][i].expiresAt <= now'
  BY DEF OldIsOver
<1>1. i \in 1 .. Len(deliveries[x]) - 1 /\ deliveries'[x][i] = deliveries[x][i]
  <2>1. CASE x = m
    BY <2>1
  <2>2. CASE x # m
    BY <2>2
  <2> QED
    BY <2>1, <2>2
<1> QED
  BY <1>1 DEF OldIsOver

LEMMA SettleKeepsLocks ==
  ASSUME QueueInv, NEW c \in Consumers, NEW m \in Messages,
         \A d \in Consumers : m \notin statement[d].rows,
         statement' = [statement EXCEPT ![c] = Idle], now' = now,
         \A other \in Messages : other # m =>
           /\ other \in stored => other \in stored'
           /\ availableAt'[other] = availableAt[other] /\ lease'[other] = lease[other]
  PROVE  LocksHold'
<1>1. \A d \in Consumers : statement'[d] = IF d = c THEN Idle ELSE statement[d]
  BY DEF QueueInv, TypeOK
<1>2. Idle.rows = {} /\ Idle.at = 0 /\ 0 <= now
  BY DEF Idle, QueueInv, TypeOK
<1>3. \A d \in Consumers : statement'[d].at <= now'
  BY <1>1, <1>2 DEF QueueInv, LocksHold
<1>4. \A d \in Consumers : \A x \in statement'[d].rows :
        /\ x # m /\ x \in Messages /\ statement'[d] = statement[d]
        /\ statement[d].step = "locked" /\ Claimable(x, statement[d].at)
  BY <1>1, <1>2 DEF QueueInv, LocksHold, Claimable, TypeOK
<1>5. \A d \in Consumers : \A x \in statement'[d].rows : Claimable(x, statement[d].at)'
  BY <1>4 DEF Claimable
<1>6. \A d1, d2 \in Consumers : d1 # d2 => statement'[d1].rows \cap statement'[d2].rows = {}
  BY <1>1, <1>2 DEF QueueInv, LocksHold
<1> QED
  BY <1>3, <1>4, <1>5, <1>6 DEF LocksHold

LEMMA SettleKeepsInv ==
  ASSUME QueueInv, NEW c \in Consumers, Acknowledge(c) \/ Retry(c)
  PROVE  LeaseIsLatest' /\ GoneIsAcknowledged' /\ OldIsOver' /\ LocksHold'
         /\ AttemptCountsDeliveries'
<1> DEFINE m == statement[c].handle.id
<1> DEFINE n == Len(deliveries[m])
<1>1. CASE Acknowledge(c)
  <2>1. /\ m \in stored /\ m \in Messages /\ n \in Nat /\ n > 0
        /\ Len(deliveries'[m]) = n
        /\ deliveries'[m][n].outcome = "acknowledged"
        /\ \A i \in 1 .. n : i # n => deliveries'[m][i] = deliveries[m][i]
        /\ \A other \in Messages : other # m => deliveries'[other] = deliveries[other]
        /\ \A d \in Consumers : m \notin statement[d].rows
    <3>1. Settles(c, "acknowledge") /\ RecordOutcome(statement[c].handle, "acknowledged")
      BY <1>1 DEF Acknowledge
    <3>2. /\ m \in stored /\ m \in Messages /\ n \in Nat /\ n > 0
          /\ \A d \in Consumers : m \notin statement[d].rows
      BY <3>1, SettleEffect, m \in {statement[c].handle.id}, n \in {Len(deliveries[m])}
    <3>3. /\ Len(deliveries'[m]) = n
          /\ deliveries'[m][n] = [expiresAt |-> deliveries[m][n].expiresAt, outcome |-> "acknowledged"]
          /\ \A i \in 1 .. n : i # n => deliveries'[m][i] = deliveries[m][i]
          /\ \A other \in Messages : other # m => deliveries'[other] = deliveries[other]
      BY <3>1, SettleEffect, m \in {statement[c].handle.id}, n \in {Len(deliveries[m])}
    <3>4. deliveries'[m][n].outcome = "acknowledged"
      BY <3>3
    <3> HIDE DEF m, n
    <3> QED
      BY ONLY <3>2, <3>3, <3>4
  <2>2. /\ stored' = stored \ {m} /\ UNCHANGED <<now, availableAt, attempt, lease>>
        /\ statement' = [statement EXCEPT ![c] = Idle]
    BY <1>1 DEF Acknowledge, Settles
  <2>3. LocksHold'
    BY <2>1, <2>2, SettleKeepsLocks
  <2> HIDE DEF m, n
  <2>4. LeaseIsLatest' /\ AttemptCountsDeliveries'
    <3>1. \A x \in stored' : /\ x \in stored /\ deliveries'[x] = deliveries[x]
                             /\ lease'[x] = lease[x] /\ attempt'[x] = attempt[x]
      BY <2>1, <2>2 DEF QueueInv, TypeOK
    <3>2. LeaseIsLatest /\ AttemptCountsDeliveries
      BY DEF QueueInv
    <3> QED
      BY ONLY <3>1, <3>2 DEF LeaseIsLatest, AttemptCountsDeliveries
  <2>5. GoneIsAcknowledged'
    BY <2>1, <2>2 DEF QueueInv, GoneIsAcknowledged
  <2>6. OldIsOver'
    BY <2>1, <2>2, OldKept DEF QueueInv, n
  <2> QED
    BY <2>3, <2>4, <2>5, <2>6
<1>2. CASE Retry(c)
  <2>1. /\ m \in stored /\ m \in Messages /\ n \in Nat /\ n > 0
        /\ Len(deliveries'[m]) = n
        /\ deliveries'[m][n].outcome = "retried"
        /\ \A i \in 1 .. n : i # n => deliveries'[m][i] = deliveries[m][i]
        /\ \A other \in Messages : other # m => deliveries'[other] = deliveries[other]
        /\ \A d \in Consumers : m \notin statement[d].rows
    <3>1. Settles(c, "retry") /\ RecordOutcome(statement[c].handle, "retried")
      BY <1>2 DEF Retry
    <3>2. /\ m \in stored /\ m \in Messages /\ n \in Nat /\ n > 0
          /\ \A d \in Consumers : m \notin statement[d].rows
      BY <3>1, SettleEffect, m \in {statement[c].handle.id}, n \in {Len(deliveries[m])}
    <3>3. /\ Len(deliveries'[m]) = n
          /\ deliveries'[m][n] = [expiresAt |-> deliveries[m][n].expiresAt, outcome |-> "retried"]
          /\ \A i \in 1 .. n : i # n => deliveries'[m][i] = deliveries[m][i]
          /\ \A other \in Messages : other # m => deliveries'[other] = deliveries[other]
      BY <3>1, SettleEffect, m \in {statement[c].handle.id}, n \in {Len(deliveries[m])}
    <3>4. deliveries'[m][n].outcome = "retried"
      BY <3>3
    <3> HIDE DEF m, n
    <3> QED
      BY ONLY <3>2, <3>3, <3>4
  <2>2. /\ UNCHANGED <<now, stored, attempt>>
        /\ lease'[m] = Null
        /\ \A other \in Messages : other # m =>
             availableAt'[other] = availableAt[other] /\ lease'[other] = lease[other]
        /\ statement' = [statement EXCEPT ![c] = Idle]
    BY <1>2, <2>1 DEF Retry, Settles, QueueInv, TypeOK
  <2>3. LocksHold'
    BY <2>1, <2>2, SettleKeepsLocks
  <2> HIDE DEF m, n
  <2>4. LeaseIsLatest' /\ AttemptCountsDeliveries'
    <3>1. \A x \in stored' : x # m => /\ deliveries'[x] = deliveries[x] /\ lease'[x] = lease[x]
      BY <2>1, <2>2 DEF QueueInv, TypeOK
    <3>2. /\ Len(deliveries'[m]) = Len(deliveries[m]) /\ lease'[m] = Null
          /\ deliveries'[m][Len(deliveries'[m])].outcome = "retried"
      BY <2>1, <2>2 DEF n
    <3>3. LeaseIsLatest /\ AttemptCountsDeliveries /\ UNCHANGED <<stored, attempt>>
      BY <2>2 DEF QueueInv
    <3>4. LeaseIsLatest'
      BY ONLY <3>1, <3>2, <3>3 DEF LeaseIsLatest
    <3>5. AttemptCountsDeliveries'
      BY ONLY <3>1, <3>2, <3>3 DEF AttemptCountsDeliveries
    <3> QED
      BY <3>4, <3>5
  <2>5. GoneIsAcknowledged'
    BY <2>1, <2>2 DEF QueueInv, GoneIsAcknowledged
  <2>6. OldIsOver'
    BY <2>1, <2>2, OldKept DEF QueueInv, n
  <2> QED
    BY <2>3, <2>4, <2>5, <2>6
<1> QED
  BY <1>1, <1>2

LEMMA QueueInit == Init => QueueInv
<1> SUFFICES ASSUME Init PROVE QueueInv
  OBVIOUS
<1>1. TypeOK
  <2>1. statement \in [Consumers -> Statement] /\ request \in [Producers -> Request]
    BY InFlightType DEF Init
  <2> QED
    BY <2>1, QueueAssumption DEF Init, TypeOK, Statement, QueueAssumption
<1>2. LeaseIsLatest /\ GoneIsAcknowledged /\ OldIsOver /\ AttemptCountsDeliveries
  BY DEF Init, LeaseIsLatest, GoneIsAcknowledged, OldIsOver, AttemptCountsDeliveries
<1>3. LocksHold
  BY DEF Init, LocksHold, Idle
<1> QED
  BY <1>1, <1>2, <1>3 DEF QueueInv

LEMMA QueueStep == QueueInv /\ [Next]_vars => QueueInv'
<1> SUFFICES ASSUME QueueInv, [Next]_vars
             PROVE  LeaseIsLatest' /\ GoneIsAcknowledged' /\ OldIsOver' /\ LocksHold'
                    /\ AttemptCountsDeliveries'
  BY TypeStep DEF QueueInv
<1>0. /\ statement \in [Consumers -> Statement]
      /\ Idle.rows = {} /\ Idle.at = 0 /\ 0 <= now /\ Idle \in Statement
  <2>1. statement \in [Consumers -> Statement] /\ 0 <= now
    BY QueueAssumption DEF QueueInv, TypeOK, Statement, QueueAssumption
  <2>2. Idle.rows = {} /\ Idle.at = 0
    BY DEF Idle
  <2> QED
    BY <2>1, <2>2, InFlightType
<1>1. CASE Tick
  <2>1. now' = now + 1 /\ now \in Int
        /\ UNCHANGED <<stored, availableAt, lease, attempt, statement, deliveries>>
    BY <1>1, QueueAssumption DEF Tick, table, history, QueueInv, TypeOK, QueueAssumption
  <2>2. OldIsOver'
    <3>1. \A m \in Messages : \A n \in 1 .. Len(deliveries[m]) - 1 :
            deliveries[m][n].expiresAt \in Int
      <4> SUFFICES ASSUME NEW m \in Messages, NEW n \in 1 .. Len(deliveries[m]) - 1
                   PROVE  deliveries[m][n].expiresAt \in Int
        OBVIOUS
      <4>1. deliveries[m] \in Seq(Delivery)
        BY DEF QueueInv, TypeOK
      <4>2. deliveries[m][n] \in Delivery
        BY <4>1
      <4> QED
        BY <4>2 DEF Delivery
    <3> QED
      BY <2>1, <3>1 DEF QueueInv, OldIsOver
  <2>3. LocksHold'
    <3>1. \A c \in Consumers : statement[c].at \in Int
      BY <1>0, InFlightFields
    <3> QED
      BY <2>1, <3>1 DEF QueueInv, LocksHold, Claimable
  <2> QED
    BY <2>1, <2>2, <2>3
       DEF QueueInv, LeaseIsLatest, GoneIsAcknowledged, AttemptCountsDeliveries
<1>2. ASSUME NEW p \in Producers, ProducerStep(p)
      PROVE  LeaseIsLatest' /\ GoneIsAcknowledged' /\ OldIsOver' /\ LocksHold'
             /\ AttemptCountsDeliveries'
  <2>1. ASSUME NEW m \in Messages, InsertMessage(p, m)
        PROVE  LeaseIsLatest' /\ GoneIsAcknowledged' /\ OldIsOver' /\ LocksHold'
               /\ AttemptCountsDeliveries'
    BY <2>1, InsertKeepsInv
  <2>2. CASE \/ \E k \in Keys \cup {Null} : BeginEnqueue(p, k)
             \/ LookupKey(p) \/ InsertConflict(p) \/ LoseEnqueue(p)
    <3>1. UNCHANGED <<now, stored, availableAt, lease, attempt, statement, deliveries>>
      BY <2>2 DEF BeginEnqueue, LookupKey, InsertConflict, LoseEnqueue, table, history
    <3>2. LocksHold'
      BY <3>1 DEF QueueInv, LocksHold, Claimable
    <3> QED
      BY <3>1, <3>2, TableUntouched
  <2> QED
    BY <1>2, <2>1, <2>2 DEF ProducerStep
<1>3. ASSUME NEW c \in Consumers, ConsumerStep(c)
      PROVE  LeaseIsLatest' /\ GoneIsAcknowledged' /\ OldIsOver' /\ LocksHold'
             /\ AttemptCountsDeliveries'
  <2>1. CASE BeginClaim(c)
    <3> DEFINE s == [Idle EXCEPT !.step = "claim", !.at = now]
    <3>1. s \in Statement /\ s.at <= now /\ s.rows = {}
      <4>1. now \in 0 .. MaxNow /\ now \in Int
        BY QueueAssumption DEF QueueInv, TypeOK, QueueAssumption
      <4>2. s \in Statement
        BY <4>1, InFlightType
      <4> QED
        BY <4>1, <4>2 DEF Idle
    <3>2. statement' = [statement EXCEPT ![c] = s]
          /\ UNCHANGED <<now, stored, availableAt, lease, attempt, deliveries>>
      BY <2>1 DEF BeginClaim, table, history
    <3> QED
      BY <3>1, <3>2, LocksReleased, TableUntouched
  <2>2. CASE LockCandidates(c)
    <3>1. UNCHANGED <<now, stored, lease, attempt, deliveries>>
      BY <2>2 DEF LockCandidates, table, history
    <3> QED
      BY <2>2, <3>1, LockKeepsLocks, TableUntouched
  <2>3. CASE CommitClaim(c)
    BY <2>3, CommitKeepsInv
  <2>4. ASSUME NEW verb \in {"acknowledge", "retry"}, NEW handle \in held[c],
               BeginSettle(c, verb, handle)
        PROVE  LeaseIsLatest' /\ GoneIsAcknowledged' /\ OldIsOver' /\ LocksHold'
               /\ AttemptCountsDeliveries'
    <3> DEFINE s == [Idle EXCEPT !.step = verb, !.at = now, !.handle = handle]
    <3>1. handle \in Handle /\ now \in 0 .. MaxNow /\ now \in Int
      BY QueueAssumption DEF QueueInv, TypeOK, QueueAssumption
    <3>2. s \in Statement
      BY <3>1, InFlightType
    <3>3. s.at <= now /\ s.rows = {}
      BY <3>1 DEF Idle
    <3>4. statement' = [statement EXCEPT ![c] = s]
          /\ UNCHANGED <<now, stored, availableAt, lease, attempt, deliveries>>
      BY <2>4 DEF BeginSettle, table, history
    <3> QED
      BY <3>2, <3>3, <3>4, LocksReleased, TableUntouched
  <2>5. CASE Acknowledge(c) \/ Retry(c)
    BY <2>5, SettleKeepsInv
  <2>6. CASE SettleNothing(c) \/ LoseStatement(c)
    <3>1. statement' = [statement EXCEPT ![c] = Idle]
          /\ UNCHANGED <<now, stored, availableAt, lease, attempt, deliveries>>
      BY <2>6 DEF SettleNothing, LoseStatement, table, history
    <3> QED
      BY <1>0, <3>1, LocksReleased, TableUntouched
  <2>7. CASE CrashConsumer(c)
    <3>1. UNCHANGED <<now, stored, availableAt, lease, attempt, statement, deliveries>>
      BY <2>7 DEF CrashConsumer, table, history
    <3>2. LocksHold'
      BY <3>1 DEF QueueInv, LocksHold, Claimable
    <3> QED
      BY <3>1, <3>2, TableUntouched
  <2> QED
    BY <1>3, <2>1, <2>2, <2>3, <2>4, <2>5, <2>6, <2>7 DEF ConsumerStep
<1>4. CASE UNCHANGED vars
  <2>1. UNCHANGED <<now, stored, availableAt, lease, attempt, statement, deliveries>>
    BY <1>4 DEF vars, table, history
  <2>2. LocksHold'
    BY <2>1 DEF QueueInv, LocksHold, Claimable
  <2> QED
    BY <2>1, <2>2, TableUntouched
<1> QED
  BY <1>1, <1>2, <1>3, <1>4 DEF Next

(* The table, the locks and the history agree in every reachable state of   *)
(* the queue: the invariant of enqueue, claim, acknowledge and retry.       *)
THEOREM QueueInvariant == Spec => []QueueInv
BY QueueInit, QueueStep, PTL DEF Spec

-----------------------------------------------------------------------------
(* What the invariant is for. *)

(* Every variable keeps its type. *)
THEOREM TypeCorrect == Spec => []TypeOK
<1>1. QueueInv => TypeOK
  BY DEF QueueInv
<1> QED
  BY <1>1, QueueInvariant, PTL

(* At most one lease of a message is in force at any instant, although claim *)
(* compares leases with the time its transaction began and not with the time *)
(* at which it acts.                                                         *)
THEOREM LeasesAreExclusive == Spec => []LeaseExclusive
<1>1. QueueInv => LeaseExclusive
  <2> SUFFICES ASSUME QueueInv, NEW m \in Messages, NEW i \in DOMAIN deliveries[m],
                      NEW j \in DOMAIN deliveries[m], InForce(m, i), InForce(m, j)
               PROVE  i = j
    BY DEF LeaseExclusive
  <2>1. deliveries[m] \in Seq(Delivery)
    BY DEF QueueInv, TypeOK
  <2>2. ASSUME NEW n \in DOMAIN deliveries[m], InForce(m, n)
        PROVE  n = Len(deliveries[m])
    <3>1. n \in 1 .. Len(deliveries[m]) /\ Len(deliveries[m]) \in Nat
          /\ deliveries[m][n].expiresAt \in Int /\ now \in Int
      <4>1. n \in 1 .. Len(deliveries[m]) /\ Len(deliveries[m]) \in Nat
        BY <2>1
      <4>2. deliveries[m][n] \in Delivery
        BY <2>1, <4>1
      <4>3. now \in Int
        BY QueueAssumption DEF QueueInv, TypeOK, QueueAssumption
      <4> QED
        BY <4>1, <4>2, <4>3 DEF Delivery
    <3>2. n \in 1 .. Len(deliveries[m]) - 1 => deliveries[m][n].expiresAt <= now
      BY <2>2 DEF QueueInv, OldIsOver, InForce
    <3> QED
      BY <2>2, <3>1, <3>2 DEF InForce
  <2> QED
    BY <2>2
<1> QED
  BY <1>1, QueueInvariant, PTL

(* A message is gone exactly when its latest delivery was acknowledged, and *)
(* no other delivery of it ever was.                                        *)
THEOREM AcknowledgedExactlyOnce == Spec => []AcknowledgedOnce
<1>1. QueueInv => AcknowledgedOnce
  <2> SUFFICES ASSUME QueueInv, NEW m \in Messages, NEW n \in DOMAIN deliveries[m]
               PROVE  deliveries[m][n].outcome = "acknowledged"
                        <=> (n = Len(deliveries[m]) /\ m \notin stored)
    BY DEF AcknowledgedOnce
  <2>1. deliveries[m] \in Seq(Delivery) /\ n \in 1 .. Len(deliveries[m])
        /\ Len(deliveries[m]) \in Nat
    BY DEF QueueInv, TypeOK
  <2>2. CASE n # Len(deliveries[m])
    <3>1. n \in 1 .. Len(deliveries[m]) - 1
      BY <2>1, <2>2
    <3>2. deliveries[m][n].outcome \in {"retried", "open"}
      BY <3>1 DEF QueueInv, OldIsOver
    <3> QED
      BY <2>2, <3>2
  <2>3. CASE n = Len(deliveries[m]) /\ m \in stored
    <3>1. Len(deliveries[m]) > 0
      BY <2>1
    <3>2. deliveries[m][Len(deliveries[m])].outcome \in {"retried", "open"}
      BY <2>3, <3>1 DEF QueueInv, LeaseIsLatest
    <3> QED
      BY <2>3, <3>2
  <2>4. CASE n = Len(deliveries[m]) /\ m \notin stored
    BY <2>1, <2>4 DEF QueueInv, GoneIsAcknowledged
  <2> QED
    BY <2>2, <2>3, <2>4
<1> QED
  BY <1>1, QueueInvariant, PTL

(* No step changes what has become of a delivery that is not the latest of  *)
(* its message: the previous lease can no longer mutate it.                 *)
THEOREM StaleLeasesAreInert == Spec => StaleLeaseIsInert
<1> DEFINE Inert == \A m \in Messages : \A n \in DOMAIN deliveries[m] :
                      n < Len(deliveries[m]) => deliveries'[m][n] = deliveries[m][n]
<1>1. QueueInv /\ [Next]_vars => Inert
  <2> SUFFICES ASSUME QueueInv, Next, NEW x \in Messages, NEW i \in DOMAIN deliveries[x],
                      i < Len(deliveries[x])
               PROVE  deliveries'[x][i] = deliveries[x][i]
    BY DEF vars, history
  <2>0. deliveries[x] \in Seq(Delivery) /\ i \in 1 .. Len(deliveries[x])
    BY DEF QueueInv, TypeOK
  <2>1. ASSUME NEW c \in Consumers, CommitClaim(c)
        PROVE  deliveries'[x][i] = deliveries[x][i]
    <3>1. PICK e \in Int : deliveries' = [m \in Messages |->
             IF m \in statement[c].rows
             THEN Append(deliveries[m], [expiresAt |-> e, outcome |-> "open"])
             ELSE deliveries[m]]
      BY <2>1, CommitExpiry DEF QueueInv
    <3> QED
      BY <2>0, <3>1
  <2>2. ASSUME NEW c \in Consumers, Acknowledge(c) \/ Retry(c)
        PROVE  deliveries'[x][i] = deliveries[x][i]
    <3>1. PICK verb \in {"acknowledge", "retry"}, o \in {"acknowledged", "retried"} :
            Settles(c, verb) /\ RecordOutcome(statement[c].handle, o)
      BY <2>2 DEF Acknowledge, Retry
    <3> DEFINE m == statement[c].handle.id
    <3> DEFINE n == Len(deliveries[m])
    <3>2. /\ \A k \in 1 .. n : k # n => deliveries'[m][k] = deliveries[m][k]
          /\ \A other \in Messages : other # m => deliveries'[other] = deliveries[other]
      BY <3>1, SettleEffect, m \in {statement[c].handle.id}, n \in {Len(deliveries[m])}
    <3>3. CASE x = m
      BY <2>0, <3>2, <3>3
    <3>4. CASE x # m
      BY <3>2, <3>4
    <3> QED
      BY <3>3, <3>4
  <2>3. CASE UNCHANGED deliveries
    BY <2>3
  <2>4. \/ UNCHANGED deliveries
        \/ \E c \in Consumers : CommitClaim(c) \/ Acknowledge(c) \/ Retry(c)
    BY DEF Next, Tick, ProducerStep, BeginEnqueue, LookupKey, InsertMessage, InsertConflict,
           LoseEnqueue, ConsumerStep, BeginClaim, LockCandidates, BeginSettle, SettleNothing,
           LoseStatement, CrashConsumer, table, history
  <2> QED
    BY <2>1, <2>2, <2>3, <2>4
<1>2. QueueInv /\ [Next]_vars => [Inert]_vars
  BY <1>1
<1> QED
  BY <1>2, QueueInvariant, PTL DEF Spec, StaleLeaseIsInert
-----------------------------------------------------------------------------
(* The rest of the table's invariant. *)

LEMMA TableInit == Init => OneRowPerKey /\ EnqueuedIsDue
BY DEF Init, OneRowPerKey, EnqueuedIsDue

LEMMA TruncatedIsBefore ==
  ASSUME NEW t \in Int
  PROVE  TruncMs(t) <= t
<1>1. t % TicksPerMs \in Nat
  BY QueueAssumption DEF QueueAssumption
<1> QED
  BY <1>1 DEF TruncMs

(* The unique index keeps a second row of a key out, and an insert never     *)
(* stores a time after the one that was asked for.                           *)
LEMMA InsertKeepsTable ==
  ASSUME QueueInv, OneRowPerKey, EnqueuedIsDue,
         NEW p \in Producers, NEW m \in Messages, InsertMessage(p, m)
  PROVE  OneRowPerKey' /\ EnqueuedIsDue'
<1>1. /\ stored' = stored \cup {m} /\ stored \subseteq Messages /\ m \notin stored
      /\ UNCHANGED <<lease, deliveries>>
      /\ key'[m] = request[p].key
      /\ \A other \in Messages : other # m =>
           /\ key'[other] = key[other]
           /\ availableAt'[other] = availableAt[other] /\ dueAt'[other] = dueAt[other]
  BY DEF InsertMessage, Fresh, QueueInv, TypeOK
<1>2. request[p].key # Null => \A other \in stored : key[other] # request[p].key
  BY DEF InsertMessage, WithKey
<1>3. OneRowPerKey'
  BY <1>1, <1>2 DEF OneRowPerKey
<1>4. availableAt'[m] <= dueAt'[m]
  <2>1. request[p].at \in Int
    BY QueueAssumption DEF QueueInv, TypeOK, Request, QueueAssumption
  <2>2. TruncMs(request[p].at) <= request[p].at
    BY <2>1, TruncatedIsBefore
  <2>3. \A d \in Delays : TruncMs(request[p].at) + Ticks(d) \in Int
    <3>1. \A d \in Delays : Ticks(d) \in Int
      BY TimestampType, QueueAssumption DEF QueueAssumption
    <3> QED
      BY <2>1, <3>1, TimestampType
  <2>4. \/ availableAt'[m] = TruncMs(request[p].at) /\ dueAt'[m] = request[p].at
        \/ \E d \in Delays : /\ availableAt'[m] = TruncMs(request[p].at) + Ticks(d)
                             /\ dueAt'[m] = TruncMs(request[p].at) + Ticks(d)
    BY DEF InsertMessage, QueueInv, TypeOK
  <2> QED
    BY <2>2, <2>3, <2>4
<1>5. EnqueuedIsDue'
  BY <1>1, <1>4 DEF EnqueuedIsDue, Unleased
<1> QED
  BY <1>3, <1>5

LEMMA TableStep ==
  QueueInv /\ OneRowPerKey /\ EnqueuedIsDue /\ [Next]_vars => OneRowPerKey' /\ EnqueuedIsDue'
<1> SUFFICES ASSUME QueueInv, OneRowPerKey, EnqueuedIsDue, [Next]_vars
             PROVE  OneRowPerKey' /\ EnqueuedIsDue'
  OBVIOUS
<1>1. ASSUME NEW p \in Producers, NEW m \in Messages, InsertMessage(p, m)
      PROVE  OneRowPerKey' /\ EnqueuedIsDue'
  BY <1>1, InsertKeepsTable
<1>2. ASSUME NEW c \in Consumers, CommitClaim(c)
      PROVE  OneRowPerKey' /\ EnqueuedIsDue'
  <2>1. PICK e \in Int :
          /\ lease' = [m \in Messages |->
               IF m \in statement[c].rows
               THEN [token |-> NextToken(m), expiresAt |-> e] ELSE lease[m]]
          /\ deliveries' = [m \in Messages |->
               IF m \in statement[c].rows
               THEN Append(deliveries[m], [expiresAt |-> e, outcome |-> "open"])
               ELSE deliveries[m]]
    BY <1>2, CommitExpiry DEF QueueInv
  <2>2. UNCHANGED <<stored, key, availableAt, dueAt>>
    BY <1>2 DEF CommitClaim
  <2>3. \A m \in stored : /\ m \in Messages
                          /\ m \in statement[c].rows => deliveries'[m] # <<>>
                          /\ m \notin statement[c].rows => deliveries'[m] = deliveries[m]
                                                          /\ lease'[m] = lease[m]
    <3>1. \A m \in Messages : deliveries[m] \in Seq(Delivery)
      BY DEF QueueInv, TypeOK
    <3>2. [expiresAt |-> e, outcome |-> "open"] \in Delivery
      BY DEF Delivery
    <3>3. \A m \in Messages :
            Append(deliveries[m], [expiresAt |-> e, outcome |-> "open"]) # <<>>
      BY <3>1, <3>2
    <3>4. stored \subseteq Messages
      BY DEF QueueInv, TypeOK
    <3> QED
      BY <2>1, <3>3, <3>4
  <2> QED
    BY <2>2, <2>3 DEF OneRowPerKey, EnqueuedIsDue, Unleased
<1>3. ASSUME NEW c \in Consumers, Acknowledge(c) \/ Retry(c)
      PROVE  OneRowPerKey' /\ EnqueuedIsDue'
  <2> DEFINE m == statement[c].handle.id
  <2> DEFINE n == Len(deliveries[m])
  <2>1. PICK verb \in {"acknowledge", "retry"}, o \in {"acknowledged", "retried"} :
          Settles(c, verb) /\ RecordOutcome(statement[c].handle, o)
    BY <1>3 DEF Acknowledge, Retry
  <2>2. /\ m \in Messages /\ n \in Nat /\ n > 0 /\ Len(deliveries'[m]) = n
        /\ \A other \in Messages : other # m => deliveries'[other] = deliveries[other]
    BY <2>1, SettleEffect, m \in {statement[c].handle.id}, n \in {Len(deliveries[m])}
  <2>3. deliveries'[m] # <<>>
    BY <2>2
  <2>4. /\ stored' \subseteq stored /\ stored \subseteq Messages /\ UNCHANGED key
        /\ \A other \in Messages : other # m =>
             /\ lease'[other] = lease[other]
             /\ availableAt'[other] = availableAt[other] /\ dueAt'[other] = dueAt[other]
    BY <1>3, <2>2 DEF Acknowledge, Retry, QueueInv, TypeOK
  <2> HIDE DEF m
  <2> QED
    BY <2>2, <2>3, <2>4 DEF OneRowPerKey, EnqueuedIsDue, Unleased
<1>4. CASE UNCHANGED <<table, history>>
  BY <1>4 DEF OneRowPerKey, EnqueuedIsDue, Unleased, table, history
<1>5. \/ UNCHANGED <<table, history>>
      \/ \E p \in Producers, m \in Messages : InsertMessage(p, m)
      \/ \E c \in Consumers : CommitClaim(c) \/ Acknowledge(c) \/ Retry(c)
  BY DEF vars, Next, Tick, ProducerStep, BeginEnqueue, LookupKey, InsertConflict, LoseEnqueue,
         ConsumerStep, BeginClaim, LockCandidates, BeginSettle, SettleNothing, LoseStatement,
         CrashConsumer
<1> QED
  BY <1>1, <1>2, <1>3, <1>4, <1>5

(* The invariant of the table holds, with what deduplication and the column *)
(* default of availableAt promise: one row for a key, whichever producers   *)
(* race for it, and a message that is due when it was asked for.            *)
THEOREM TableInvariant == Spec => []TableInv
<1>1. Init => TableInv
  BY QueueInit, TableInit DEF TableInv
<1>2. TableInv /\ [Next]_vars => TableInv'
  BY QueueStep, TableStep DEF TableInv
<1> QED
  BY <1>1, <1>2, PTL DEF Spec

(* Whatever producers race, a deduplication key has one row. *)
THEOREM KeysAreUnique == Spec => []OneRowPerKey
<1>1. TableInv => OneRowPerKey
  BY DEF TableInv
<1> QED
  BY <1>1, TableInvariant, PTL

-----------------------------------------------------------------------------
(* The queue implements its contract: every step of the table is a step of  *)
(* MessageQueue on what Contract reads off it, or leaves that unchanged.    *)

LEMMA OutcomesRead ==
  ASSUME QueueInv
  PROVE  /\ Outcomes = [m \in Messages |-> Outcomes[m]]
         /\ \A m \in Messages :
              /\ Len(deliveries[m]) \in Nat
              /\ Outcomes[m] = [n \in 1 .. Len(deliveries[m]) |-> deliveries[m][n].outcome]
              /\ Outcomes[m] \in Seq({"open", "acknowledged", "retried"})
              /\ Len(Outcomes[m]) = Len(deliveries[m])
<1>1. Outcomes = [m \in Messages |-> Outcomes[m]]
  BY DEF Outcomes
<1>2. ASSUME NEW m \in Messages
      PROVE  /\ Len(deliveries[m]) \in Nat
             /\ Outcomes[m] = [n \in 1 .. Len(deliveries[m]) |-> deliveries[m][n].outcome]
             /\ Outcomes[m] \in Seq({"open", "acknowledged", "retried"})
             /\ Len(Outcomes[m]) = Len(deliveries[m])
  <2>1. deliveries[m] \in Seq(Delivery)
    BY DEF QueueInv, TypeOK
  <2>2. Len(deliveries[m]) \in Nat /\ DOMAIN deliveries[m] = 1 .. Len(deliveries[m])
    BY <2>1
  <2>3. Outcomes[m] = [n \in 1 .. Len(deliveries[m]) |-> deliveries[m][n].outcome]
    BY <2>2 DEF Outcomes
  <2>4. \A n \in 1 .. Len(deliveries[m]) :
          deliveries[m][n].outcome \in {"open", "acknowledged", "retried"}
    <3>1. \A n \in 1 .. Len(deliveries[m]) : deliveries[m][n] \in Delivery
      BY <2>1
    <3> QED
      BY <3>1 DEF Delivery
  <2> QED
    BY <2>2, <2>3, <2>4
<1> QED
  BY <1>1, <1>2

LEMMA ContractUntouched ==
  ASSUME UNCHANGED <<stored, lease, deliveries, now>>
  PROVE  UNCHANGED Contract!contractVars
BY DEF Contract!contractVars, Leased, Outcomes

LEMMA InsertIsEnqueue ==
  ASSUME QueueInv, NEW p \in Producers, NEW m \in Messages, InsertMessage(p, m)
  PROVE  Contract!Enqueue(m)
<1>1. /\ m \notin stored /\ deliveries[m] = <<>> /\ lease[m] = Null
      /\ stored' = stored \cup {m} /\ UNCHANGED <<now, lease, deliveries>>
  BY DEF InsertMessage, Fresh, QueueInv, GoneIsAcknowledged
<1>2. Outcomes[m] = <<>>
  BY <1>1 DEF Outcomes
<1>3. Outcomes' = Outcomes
  BY <1>1 DEF Outcomes
<1>4. Leased' = Leased
  BY <1>1 DEF Leased
<1> QED
  BY <1>1, <1>2, <1>3, <1>4 DEF Contract!Enqueue

(* The leases that end as the clock moves on. *)
LEMMA TickIsExpire ==
  ASSUME QueueInv, Tick
  PROVE  UNCHANGED Contract!contractVars
         \/ \E batch \in SUBSET Messages : Contract!Expire(batch)
<1> DEFINE over == Leased \ Leased'
<1>1. /\ now' = now + 1 /\ now \in Int /\ stored \subseteq Messages
      /\ UNCHANGED <<stored, lease, deliveries>>
  BY QueueAssumption DEF Tick, table, history, QueueInv, TypeOK, QueueAssumption
<1>2. Outcomes' = Outcomes
  BY <1>1 DEF Outcomes
<1>3. \A m \in stored : lease[m] # Null => lease[m].expiresAt \in Int
  BY DEF QueueInv, TypeOK, Lease
<1>4. Leased' \subseteq Leased /\ Leased \subseteq Messages
  BY <1>1, <1>3 DEF Leased
<1>5. CASE over = {}
  <2>1. Leased' = Leased
    BY <1>4, <1>5
  <2> QED
    BY <1>1, <1>2, <2>1 DEF Contract!contractVars
<1>6. CASE over # {}
  <2>1. Leased' = Leased \ over /\ over \in SUBSET Messages /\ over \subseteq Leased
    BY <1>4
  <2> HIDE DEF over
  <2>2. Contract!Expire(over)
    BY <1>1, <1>2, <1>6, <2>1 DEF Contract!Expire
  <2> QED
    BY <2>1, <2>2
<1> QED
  BY <1>5, <1>6

(* A claim delivers the rows it has locked; if it is slower than the lease it *)
(* grants, none of them is leased when it commits.                            *)
LEMMA CommitIsClaim ==
  ASSUME QueueInv, NEW c \in Consumers, CommitClaim(c)
  PROVE  UNCHANGED Contract!contractVars
         \/ \E batch \in SUBSET Messages : \E lasting \in SUBSET batch :
               Contract!Claim(batch, lasting)
<1> DEFINE batch == statement[c].rows
<1>1. PICK e \in Int :
        /\ lease' = [m \in Messages |->
             IF m \in batch THEN [token |-> NextToken(m), expiresAt |-> e] ELSE lease[m]]
        /\ deliveries' = [m \in Messages |->
             IF m \in batch THEN Append(deliveries[m], [expiresAt |-> e, outcome |-> "open"])
                            ELSE deliveries[m]]
  BY CommitExpiry DEF QueueInv
<1>2. UNCHANGED <<now, stored>> /\ now \in Int
  BY QueueAssumption DEF CommitClaim, QueueInv, TypeOK, QueueAssumption
<1>3. \A m \in batch : /\ m \in stored /\ m \in Messages
                       /\ lease[m] = Null \/ lease[m].expiresAt <= now
  BY BatchIsFree
<1>4. \A m \in stored : m \in Messages /\ (lease[m] # Null => lease[m].expiresAt \in Int)
  BY DEF QueueInv, TypeOK, Lease
<1>5. \A m \in Messages : NextToken(m) \in Nat
  BY DEF NextToken, QueueInv, TypeOK
<1> HIDE DEF batch
<1> DEFINE lasting == IF e > now THEN batch ELSE {}
<1>6. Leased' = Leased \cup lasting
  <2>1. \A m \in batch : /\ lease'[m] = [token |-> Len(deliveries[m]) + 1, expiresAt |-> e]
                         /\ Len(deliveries[m]) + 1 \in Nat
    BY <1>1, <1>3, <1>5 DEF NextToken
  <2>2. \A m \in batch : lease'[m].expiresAt = e /\ lease'[m] # Null
    <3> SUFFICES ASSUME NEW m \in batch PROVE lease'[m].expiresAt = e /\ lease'[m] # Null
      OBVIOUS
    <3> DEFINE granted == lease'[m]
               n == Len(deliveries[m]) + 1
    <3>1. granted = [token |-> n, expiresAt |-> e] /\ n \in Nat
      BY <2>1
    <3> HIDE DEF granted, n
    <3>2. granted.expiresAt = e /\ granted # Null
      BY ONLY <3>1, e \in Int, QueueAssumption DEF QueueAssumption
    <3> QED
      BY <3>2 DEF granted
  <2>3. \A m \in stored \ batch : lease'[m] = lease[m]
    BY <1>1, <1>4
  <2>4. \A m \in batch : m \notin Leased
    BY <1>2, <1>3, <1>4 DEF Leased
  <2>5. \A m \in stored : m \in Leased' <=> m \in Leased \/ m \in lasting
    BY <1>2, <2>2, <2>3, <2>4 DEF Leased
  <2>6. Leased' \subseteq stored /\ Leased \subseteq stored /\ lasting \subseteq stored
    BY <1>2, <1>3 DEF Leased
  <2> HIDE DEF lasting
  <2> QED
    BY <2>5, <2>6
<1>7. Outcomes' = [m \in Messages |->
                     IF m \in batch THEN Append(Outcomes[m], "open") ELSE Outcomes[m]]
  <2>1. ASSUME NEW m \in Messages
        PROVE  Outcomes'[m] = IF m \in batch THEN Append(Outcomes[m], "open") ELSE Outcomes[m]
    <3>0. /\ deliveries[m] \in Seq(Delivery) /\ Len(deliveries[m]) \in Nat
          /\ [expiresAt |-> e, outcome |-> "open"] \in Delivery
      BY DEF QueueInv, TypeOK, Delivery
    <3>1. CASE m \notin batch
      BY <1>1, <3>1 DEF Outcomes
    <3>2. CASE m \in batch
      <4> DEFINE n == Len(deliveries[m])
                 s == deliveries'[m]
      <4>1. s = Append(deliveries[m], [expiresAt |-> e, outcome |-> "open"])
        BY <1>1, <3>2
      <4>2. /\ DOMAIN s = 1 .. n + 1
            /\ s[n + 1] = [expiresAt |-> e, outcome |-> "open"]
            /\ \A i \in 1 .. n : s[i] = deliveries[m][i]
        BY <3>0, <4>1
      <4>3. Outcomes'[m] = [i \in DOMAIN s |-> s[i].outcome]
        BY DEF Outcomes
      <4>4. /\ Outcomes[m] \in Seq({"open", "acknowledged", "retried"}) /\ Len(Outcomes[m]) = n
            /\ \A i \in 1 .. n : Outcomes[m][i] = deliveries[m][i].outcome
        BY OutcomesRead
      <4>5. Append(Outcomes[m], "open") =
              [i \in 1 .. n + 1 |-> IF i = n + 1 THEN "open" ELSE Outcomes[m][i]]
        BY <3>0, <4>4
      <4> HIDE DEF n, s
      <4>6. \A i \in 1 .. n + 1 :
              s[i].outcome = IF i = n + 1 THEN "open" ELSE Outcomes[m][i]
        <5>1. n \in Nat
          BY <3>0 DEF n
        <5> QED
          BY <4>2, <4>4, <5>1
      <4>7. Outcomes'[m] = Append(Outcomes[m], "open")
        BY ONLY <4>2, <4>3, <4>5, <4>6
      <4> QED
        BY <3>2, <4>7
    <3> QED
      BY <3>1, <3>2
  <2>2. Outcomes' = [m \in Messages |-> Outcomes'[m]]
    BY DEF Outcomes
  <2> QED
    BY <2>1, <2>2
<1>8. CASE batch = {}
  <2>1. Leased' = Leased
    BY <1>6, <1>8
  <2>2. Outcomes' = Outcomes
    BY <1>7, <1>8, OutcomesRead
  <2> QED
    BY <1>2, <2>1, <2>2 DEF Contract!contractVars
<1>9. CASE batch # {}
  <2>1. batch \in SUBSET Messages /\ batch \subseteq stored \ Leased /\ lasting \in SUBSET batch
    BY <1>2, <1>3, <1>4 DEF Leased
  <2> HIDE DEF lasting
  <2>2. Contract!Claim(batch, lasting)
    BY <1>2, <1>6, <1>7, <1>9, <2>1 DEF Contract!Claim
  <2> QED
    BY <2>1, <2>2
<1> QED
  BY <1>8, <1>9

(* A settled delivery is the latest one of a message that is not gone. *)
LEMMA SettleIsSettle ==
  ASSUME QueueInv, NEW c \in Consumers, NEW verb \in {"acknowledge", "retry"},
         Settles(c, verb), NEW o \in {"acknowledged", "retried"},
         RecordOutcome(statement[c].handle, o),
         NEW m \in {statement[c].handle.id},
         Leased' = Leased \ {m}
  PROVE  m \in Messages /\ Contract!Settle(m, o)
<1> DEFINE n == Len(deliveries[m])
<1>1. /\ m \in stored /\ m \in Messages /\ n \in Nat /\ n > 0
      /\ deliveries[m][n].outcome = "open"
      /\ Len(deliveries'[m]) = n
      /\ deliveries'[m][n] = [expiresAt |-> deliveries[m][n].expiresAt, outcome |-> o]
      /\ \A i \in 1 .. n : i # n => deliveries'[m][i] = deliveries[m][i]
      /\ \A other \in Messages : other # m => deliveries'[other] = deliveries[other]
  BY SettleEffect, n \in {Len(deliveries[m])}
<1>2. /\ Len(Outcomes[m]) = n /\ Outcomes[m] \in Seq({"open", "acknowledged", "retried"})
      /\ \A i \in 1 .. n : Outcomes[m][i] = deliveries[m][i].outcome
  BY <1>1, OutcomesRead
<1>3. deliveries' \in [Messages -> Seq(Delivery)]
  BY SettleType DEF QueueInv
<1>4. Outcomes'[m] = [Outcomes[m] EXCEPT ![n] = o]
  <2>1. Outcomes'[m] = [i \in 1 .. n |-> deliveries'[m][i].outcome]
    <3>1. DOMAIN deliveries'[m] = 1 .. n
      BY <1>1, <1>3
    <3> QED
      BY <1>1, <3>1 DEF Outcomes
  <2>2. [Outcomes[m] EXCEPT ![n] = o] = [i \in 1 .. n |-> IF i = n THEN o ELSE Outcomes[m][i]]
    <3>1. DOMAIN Outcomes[m] = 1 .. n
      BY ONLY <1>2
    <3> QED
      BY ONLY <3>1
  <2>3. deliveries'[m][n].outcome = o
    BY <1>1
  <2> HIDE DEF n
  <2>4. \A i \in 1 .. n : deliveries'[m][i].outcome = IF i = n THEN o ELSE Outcomes[m][i]
    BY <1>1, <1>2, <2>3
  <2> QED
    BY <2>1, <2>2, <2>4
<1>5. \A other \in Messages : other # m => Outcomes'[other] = Outcomes[other]
  BY <1>1 DEF Outcomes
<1>6. Outcomes' = [Outcomes EXCEPT ![m][Len(Outcomes[m])] = o]
  <2>1. Outcomes' = [x \in Messages |-> Outcomes'[x]] /\ Outcomes = [x \in Messages |-> Outcomes[x]]
    BY DEF Outcomes
  <2> QED
    BY <1>1, <1>2, <1>4, <1>5, <2>1
<1>7. Outcomes[m] # <<>> /\ Outcomes[m][Len(Outcomes[m])] = "open"
  BY <1>1, <1>2
<1> QED
  BY <1>1, <1>6, <1>7 DEF Contract!Settle, Contract!LastDelivery

LEMMA AcknowledgeIsAcknowledge ==
  ASSUME QueueInv, NEW c \in Consumers, Acknowledge(c)
  PROVE  \E m \in Messages : Contract!Acknowledge(m)
<1> DEFINE m == statement[c].handle.id
<1>1. /\ Settles(c, "acknowledge") /\ RecordOutcome(statement[c].handle, "acknowledged")
      /\ stored' = stored \ {m} /\ UNCHANGED <<now, lease>>
  BY DEF Acknowledge
<1>2. Leased' = Leased \ {m}
  BY <1>1 DEF Leased
<1>3. m \in Messages /\ Contract!Settle(m, "acknowledged")
  BY <1>1, <1>2, SettleIsSettle, m \in {statement[c].handle.id}
<1> HIDE DEF m
<1>4. Contract!Acknowledge(m)
  BY <1>1, <1>3 DEF Contract!Acknowledge
<1> QED
  BY <1>3, <1>4

LEMMA RetryIsRetry ==
  ASSUME QueueInv, NEW c \in Consumers, Retry(c)
  PROVE  \E m \in Messages : Contract!Retry(m)
<1> DEFINE m == statement[c].handle.id
<1>1. /\ Settles(c, "retry") /\ RecordOutcome(statement[c].handle, "retried")
      /\ UNCHANGED <<now, stored>> /\ lease' = [lease EXCEPT ![m] = Null]
  BY DEF Retry
<1>2. stored \subseteq Messages /\ lease = [x \in Messages |-> lease[x]]
  BY DEF QueueInv, TypeOK
<1>3. Leased' = Leased \ {m}
  <2>1. \A x \in stored : x # m => lease'[x] = lease[x]
    BY <1>1, <1>2
  <2>2. m \in stored => lease'[m] = Null
    BY <1>1, <1>2
  <2> HIDE DEF m
  <2> QED
    BY <1>1, <2>1, <2>2 DEF Leased
<1>4. m \in Messages /\ Contract!Settle(m, "retried")
  BY <1>1, <1>3, SettleIsSettle, m \in {statement[c].handle.id}
<1> HIDE DEF m
<1>5. Contract!Retry(m)
  BY <1>1, <1>4 DEF Contract!Retry
<1> QED
  BY <1>4, <1>5

(* At-least-once delivery under leases, as message-queue.contract.ts promises *)
(* it: what enqueue, claim, acknowledge and retry do to the table, and what   *)
(* the clock does to the leases, is what the contract lets them do.           *)
THEOREM QueueImplementsContract == Spec => ImplementsContract
<1>1. Init => Contract!ContractInit
  BY DEF Init, Contract!ContractInit, Leased, Outcomes
<1>2. QueueInv /\ [Next]_vars => [Contract!ContractNext]_Contract!contractVars
  <2> SUFFICES ASSUME QueueInv, [Next]_vars
               PROVE  Contract!ContractNext \/ UNCHANGED Contract!contractVars
    OBVIOUS
  <2>1. CASE Tick
    BY <2>1, TickIsExpire DEF Contract!ContractNext
  <2>2. ASSUME NEW p \in Producers, NEW m \in Messages, InsertMessage(p, m)
        PROVE  Contract!ContractNext
    BY <2>2, InsertIsEnqueue DEF Contract!ContractNext
  <2>3. ASSUME NEW c \in Consumers, CommitClaim(c)
        PROVE  Contract!ContractNext \/ UNCHANGED Contract!contractVars
    BY <2>3, CommitIsClaim DEF Contract!ContractNext
  <2>4. ASSUME NEW c \in Consumers, Acknowledge(c)
        PROVE  Contract!ContractNext
    BY <2>4, AcknowledgeIsAcknowledge DEF Contract!ContractNext
  <2>5. ASSUME NEW c \in Consumers, Retry(c)
        PROVE  Contract!ContractNext
    BY <2>5, RetryIsRetry DEF Contract!ContractNext
  <2>6. CASE UNCHANGED <<now, table, deliveries>>
    BY <2>6, ContractUntouched DEF table
  <2>7. \/ Tick \/ UNCHANGED <<now, table, deliveries>>
        \/ \E p \in Producers, m \in Messages : InsertMessage(p, m)
        \/ \E c \in Consumers : CommitClaim(c) \/ Acknowledge(c) \/ Retry(c)
    BY DEF vars, Next, ProducerStep, BeginEnqueue, LookupKey, InsertConflict, LoseEnqueue,
           ConsumerStep, BeginClaim, LockCandidates, BeginSettle, SettleNothing, LoseStatement,
           CrashConsumer, history
  <2> QED
    BY <2>1, <2>2, <2>3, <2>4, <2>5, <2>6, <2>7
<1> QED
  BY <1>1, <1>2, QueueInvariant, PTL DEF Spec, ImplementsContract, Contract!ContractSpec
=============================================================================
