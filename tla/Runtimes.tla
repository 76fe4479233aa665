------------------------------- MODULE Runtimes -------------------------------
(***************************************************************************)
(* A reporter as a runtime package puts it together: the client that sends *)
(* (Reporter), what is active where (Contexts), and who reports a crash    *)
(* (Hooks). They share no state, so that a behaviour runs one of them,     *)
(* chosen at its start.                                                    *)
(***************************************************************************)
EXTENDS Reporter, Contexts, Hooks

VARIABLE part

runtimesVars == <<part, reporterVars, contextVars, hooksVars>>

Init ==
    /\ part \in {"client", "contexts", "hooks"}
    /\ ReporterInit
    /\ ContextsInit /\ (part # "contexts" => store = "asynclocal")
    /\ HooksInit /\ (part # "hooks" => runtime = "javascript")

Next ==
    \/ part = "client" /\ ReporterNext /\ UNCHANGED <<part, contextVars, hooksVars>>
    \/ part = "contexts" /\ ContextsNext /\ UNCHANGED <<part, reporterVars, hooksVars>>
    \/ part = "hooks" /\ HooksNext /\ UNCHANGED <<part, reporterVars, contextVars>>

Spec == Init /\ [][Next]_runtimesVars /\ ReporterFairness
=============================================================================
