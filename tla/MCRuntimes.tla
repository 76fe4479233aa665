----------------------------- MODULE MCRuntimes -----------------------------
(* One report and two log records; two chains; two libraries, three inits.  *)
EXTENDS Runtimes, TLC
=============================================================================
