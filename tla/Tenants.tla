------------------------------- MODULE Tenants -------------------------------
(***************************************************************************)
(* Who belongs to an organization, and what belongs to it: its members and *)
(* the links that add them, and the routes to its projects.  The routes    *)
(* meet the members in the guard only, for which a membership may change   *)
(* in any way, so that a behaviour runs one of the two.                    *)
(***************************************************************************)
EXTENDS Invitations, Tenancy

VARIABLE part

tenantsVars == <<part, vars, tenancyVars>>

TenantsInit ==
  /\ part \in {"people", "routes"}
  /\ Init /\ (part # "people" => quota = CHOOSE q \in Quotas : TRUE)
  /\ TenancyInit /\ (part # "routes" => scope = CHOOSE s \in Scopes : TRUE)

TenantsNext ==
  \/ part = "people" /\ Next /\ UNCHANGED <<part, tenancyVars>>
  \/ part = "routes" /\ TenancyNext /\ UNCHANGED <<part, vars>>

TenantsSpec == TenantsInit /\ [][TenantsNext]_tenantsVars
=============================================================================
