------------------------------ MODULE MCSignIn ------------------------------
(* A small instance of signing in, and of a screen's controls: which flows,  *)
(* browsers, people, rows and requests there are.                            *)
EXTENDS WebApplication, TLC

Symmetry ==
  UNION {Permutations(S) : S \in {Flows, Browsers, Allowlist \ Mocks, Entries, Calls}}
=============================================================================
