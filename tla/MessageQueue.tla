---------------------------- MODULE MessageQueue ----------------------------
(***************************************************************************)
(* The contract of apps/api/src/message-queue/message-queue.contract.ts:   *)
(* at-least-once delivery under leases.  No clock and no database: a lease *)
(* is in force until it ends, which it may do at any moment, and the only  *)
(* thing a consumer is promised is that a delivery can be settled (by      *)
(* acknowledge or retry) while no later delivery of the message exists.    *)
(***************************************************************************)
EXTENDS Sequences, Naturals

CONSTANT Messages

VARIABLES
  waiting,    \* the messages accepted by enqueue and not yet acknowledged
  leased,     \* the waiting messages whose latest delivery holds a lease in force
  outcomes    \* outcomes[m][n] is what became of the n-th delivery of m

contractVars == <<waiting, leased, outcomes>>

LastDelivery(m) == outcomes[m][Len(outcomes[m])]

Settle(m, outcome) ==
  /\ m \in waiting
  /\ outcomes[m] # <<>>
  /\ LastDelivery(m) = "open"
  /\ outcomes' = [outcomes EXCEPT ![m][Len(outcomes[m])] = outcome]
  /\ leased' = leased \ {m}

-----------------------------------------------------------------------------

ContractInit ==
  /\ waiting = {}
  /\ leased = {}
  /\ outcomes = [m \in Messages |-> <<>>]

Enqueue(m) ==
  /\ m \notin waiting
  /\ outcomes[m] = <<>>
  /\ waiting' = waiting \cup {m}
  /\ UNCHANGED <<leased, outcomes>>

\* A claim delivers every message of `batch`, none of which is leased; a slow
\* claim may hand out a lease that is already over, so only those of `lasting`
\* are in force afterwards.
Claim(batch, lasting) ==
  /\ batch # {}
  /\ batch \subseteq waiting \ leased
  /\ lasting \subseteq batch
  /\ outcomes' = [m \in Messages |->
                    IF m \in batch THEN Append(outcomes[m], "open") ELSE outcomes[m]]
  /\ leased' = leased \cup lasting
  /\ UNCHANGED waiting

Expire(batch) ==
  /\ batch # {}
  /\ batch \subseteq leased
  /\ leased' = leased \ batch
  /\ UNCHANGED <<waiting, outcomes>>

Acknowledge(m) ==
  /\ Settle(m, "acknowledged")
  /\ waiting' = waiting \ {m}

Retry(m) ==
  /\ Settle(m, "retried")
  /\ UNCHANGED waiting

ContractNext ==
  \/ \E m \in Messages : Enqueue(m) \/ Acknowledge(m) \/ Retry(m)
  \/ \E batch \in SUBSET Messages :
        Expire(batch) \/ \E lasting \in SUBSET batch : Claim(batch, lasting)

ContractSpec == ContractInit /\ [][ContractNext]_contractVars

=============================================================================
