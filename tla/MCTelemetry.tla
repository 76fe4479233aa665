---------------------------- MODULE MCTelemetry ----------------------------
(* Two projects, one token, two senders and two people at the token list;   *)
(* both reporters, and three exceptions in every graph of references.       *)
EXTENDS Telemetry, TLC

\* A small and a capital spelling, alone, of two ids and of one.
Small(i) == [id |-> i, capital |-> FALSE]
Capital(i) == [id |-> i, capital |-> TRUE]
BatchesSent == {{Small(2)}, {Small(2), Capital(1)}, {Small(1), Capital(1)}}

Configured(legacy, production) == [legacy |-> legacy, production |-> production]
Configurations == {Configured(TRUE, TRUE), Configured(FALSE, TRUE), Configured(FALSE, FALSE)}

Ran(starts, durations) == [i \in 1..4 |-> [start |-> starts[i], duration |-> durations[i]]]
WhenTheyRan ==
    {Ran(<<1, 0, 2, 2>>, <<4, 1, 1, 1>>), Ran(<<4, 1, 0, 2>>, <<1, 1, 5, 1>>)}

Symmetry == Permutations(Senders) \cup Permutations(Managers)
=============================================================================
