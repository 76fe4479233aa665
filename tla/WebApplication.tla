--------------------------- MODULE WebApplication ---------------------------
(***************************************************************************)
(* A reader of the web application, before and after the sign-in: a        *)
(* behaviour is about the way in (SignIn), or about the controls of a      *)
(* screen that was reached by it (Controls).  They share no state: what a  *)
(* session that ends does to a screen is an answer that any of its         *)
(* requests may get.                                                       *)
(***************************************************************************)
EXTENDS SignIn, Controls

VARIABLE part

webVars == <<part, vars, controlVars>>

WebInit ==
  \/ /\ part = "signin" /\ Init
     /\ ControlsInit /\ panel = {}
  \/ /\ part = "controls" /\ ControlsInit
     /\ Init /\ joined = {} /\ \A a \in Addresses : holder[a] \notin Allowlist

WebNext ==
  /\ part' = part
  /\ \/ part = "signin" /\ Next /\ UNCHANGED controlVars
     \/ part = "controls" /\ ControlsNext /\ UNCHANGED vars

WebSpec == WebInit /\ [][WebNext]_webVars

=============================================================================
