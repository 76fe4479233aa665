--------------------------- MODULE MCWireContract ---------------------------
(* A small instance of WireContract.                                         *)
EXTENDS WireContract, TLC
=============================================================================
