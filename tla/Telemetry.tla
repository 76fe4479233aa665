------------------------------ MODULE Telemetry ------------------------------
(***************************************************************************)
(* What is sent to the server besides its own users' requests: how it is   *)
(* stored and read (Traces), and what of it the schemas at its door take   *)
(* (WireContract).  The schemas are looked at before anything is stored    *)
(* and know nothing of the store, so that a behaviour runs one of the two. *)
(***************************************************************************)
EXTENDS Traces, WireContract

VARIABLE part

telemetryVars == <<part, tracesVars, wireVars>>

TelemetryInit ==
    /\ part \in {"store", "wire"}
    /\ Init
    /\ part # "store" => signal = "trace" /\ stored = {}
    /\ WireInit
    /\ part # "wire" => sdk = "js" /\ uses = "spans"

TelemetryNext ==
    \/ part = "store" /\ Next /\ UNCHANGED <<part, wireVars>>
    \/ part = "wire" /\ WireNext /\ UNCHANGED <<part, tracesVars>>

TelemetrySpec == TelemetryInit /\ [][TelemetryNext]_telemetryVars
=============================================================================
