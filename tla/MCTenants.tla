----------------------------- MODULE MCTenants -----------------------------
EXTENDS Tenants, TLC

CONSTANTS u1, u2

\* Requests are Organizations, Calls are Projects, and Links are Items.
Symmetry == Permutations(Requests) \cup Permutations(Calls) \cup Permutations(Links)

\* Two overlapping requests beside a call about one link, two overlapping
\* calls about one link beside a request, two about two links by themselves;
\* links that anybody who may invite sends to anybody, and requests of an admin.
SmallQuotas ==
  {[people |-> {u1, u2}, roles |-> {"MEMBER", "OWNER"}, requests |-> 2, calls |-> 1, links |-> 1],
   [people |-> {u1, u2}, roles |-> {"MEMBER"}, requests |-> 1, calls |-> 2, links |-> 1],
   [people |-> {u1, u2}, roles |-> {"MEMBER"}, requests |-> 0, calls |-> 2, links |-> 2],
   [people |-> Users, roles |-> Roles, requests |-> 0, calls |-> 1, links |-> 2],
   [people |-> {u1, u2}, roles |-> {"ADMIN", "OWNER"}, requests |-> 1, calls |-> 1, links |-> 1]}

\* One of the names has no slug.
MCDerivedSlug == [n \in Names |-> IF n = "Acme" THEN "acme" ELSE None]

\* Every route by itself while memberships end, and two at once where each writes.
MakesProjects == Route("project", "create")

Alone(routes, ranks) ==
  [routes |-> routes, viewers |-> {u1}, ranks |-> ranks, projects |-> 2, items |-> 1, visits |-> {"v1"}]
AtOnce(routes) == [Alone(routes, {"NONE"}) EXCEPT !.projects = 1, !.visits = {"v1", "v2"}]

SmallScopes ==
  {Alone(OrganizationRoutes \cup ProjectRoutes \cup TokenRoutes, {"NONE", "MEMBER"}),
   Alone({MakesProjects} \cup RuleRoutes \cup ReportRoutes \cup LogRoutes, {"NONE"}),
   Alone({MakesProjects} \cup TraceRoutes \cup SummaryRoutes, {"NONE"}),
   [Alone(MemberRoutes, {"NONE", "ADMIN", "OWNER"}) EXCEPT !.viewers = Viewers],
   [Alone(LinkRoutes, {"NONE"}) EXCEPT !.items = 2],
   [AtOnce({MakesProjects, Route("project", "update")}) EXCEPT !.projects = 2],
   AtOnce({MakesProjects, Route("token", "create"), Route("token", "revoke")}),
   AtOnce({MakesProjects} \cup (RuleRoutes \ {Route("rule", "list")})),
   AtOnce(LinkRoutes \ {Route("invitation", "list")}),
   [AtOnce({Route("member", "delete"), Route("membership", "delete")}) EXCEPT !.viewers = Viewers]}

=============================================================================
