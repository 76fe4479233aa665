----------------------- MODULE MCPostgresMessageQueue -----------------------
EXTENDS PostgresMessageQueue, TLC

Symmetry == Permutations(Messages) \cup Permutations(Consumers) \cup Permutations(Producers)

(* For liveness the clock is not cut off: it ticks while some row still waits *)
(* for it, which is as long as a tick can make a difference to a claim, and   *)
(* MaxNow is out of reach because deliveries are bounded.                     *)

ClockMatters ==
  \E m \in stored : availableAt[m] > now \/ (lease[m] # Null /\ lease[m].expiresAt > now)

LiveNext == (ClockMatters /\ Tick) \/ (Next /\ UNCHANGED now)

(* All consumers are alike: which of them goes on polling does not matter.    *)

Poller == CHOOSE c \in Consumers : TRUE

LiveSpec ==
  /\ Init /\ [][LiveNext]_vars /\ WF_vars(ClockMatters /\ Tick)
  /\ Polls(Poller)
  /\ \A c \in Consumers : StatementEnds(c)
  /\ \A m \in Messages : NotAllLost(m)

=============================================================================
