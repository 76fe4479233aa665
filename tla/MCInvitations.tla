---------------------------- MODULE MCInvitations ----------------------------
EXTENDS Invitations, TLC

Symmetry == Permutations(Requests) \cup Permutations(Links)

\* A second owner comes by a link; then requests alone.
OwnersOnly == {[people |-> {u, Founder}, roles |-> {"OWNER"}, requests |-> 2, calls |-> 1, links |-> 1] : u \in Users \ {Founder}}

\* One link at a time, for two people in turn.
LinksInTurn == {[people |-> Users, roles |-> Roles, requests |-> 0, calls |-> 1, links |-> 2]}

=============================================================================
