------------------------------- MODULE Tenancy -------------------------------
(***************************************************************************)
(* Organizations, the projects they own and what is stored for a project:  *)
(* OrganizationService and ProjectService, and how every route under       *)
(* orgs/:orgSlug is kept to the organization its path names.               *)
(*                                                                         *)
(* A request is let in by OrgMembershipGuard, which resolves the slug and  *)
(* the caller's role in one query.  Its handler then runs one statement,   *)
(* or one that looks for the project (or the item) within the organization *)
(* and later ones that go by the identifier alone.  Names are left out:    *)
(* nothing compares them.  What overlapping requests make of members and   *)
(* links is for Memberships and Invitations; here it matters whose members *)
(* and whose links a route reaches, and the transaction of an invitation   *)
(* is one step.                                                            *)
(***************************************************************************)
EXTENDS Naturals, FiniteSets

CONSTANTS
  Organizations, Projects, Items,  \* identifiers, those of rows to come included
  Viewers,      \* signed-in accounts
  Slugs, Names,
  DerivedSlug,  \* deriveProjectSlug: the slug of each name, None where it has none
  Visits,       \* requests that may overlap
  Scopes,       \* bounds: the routes taken, who may belong, as what, how many projects and items, which requests overlap
  None

Ranks == {"OWNER", "ADMIN", "MEMBER"}
Kinds == {"token", "rule", "report", "log", "span", "invitation"}

VARIABLES
  scope,         \* the bound of this instance
  organization,  \* the slug of each organization
  seat,          \* table Membership: the rank of a viewer in an organization
  project,       \* table Project
  item,          \* tables ProjectToken, AlertRule, ErrorReport, LogRecord, Span and Invitation
  visit          \* the requests under way

tenancyVars == <<scope, organization, seat, project, item, visit>>

Database == [organization |-> organization, seat |-> seat, project |-> project, item |-> item]

NoProject == [owner |-> None, slug |-> None]
NoItem    == [kind |-> "token", of |-> None, login |-> None, mark |-> "gone"]
NoVisit   == [step |-> "idle", on |-> "organization", does |-> "show", path |-> None, owner |-> None,
              role |-> "MEMBER", project |-> None, item |-> None, slug |-> None, user |-> None,
              rank |-> "NONE", rows |-> {}]

TenancyInit ==
  /\ scope \in Scopes
  /\ organization = [o \in Organizations |-> None]
  /\ seat = [s \in Viewers \X Organizations |-> "NONE"]
  /\ project = [p \in Projects |-> NoProject]
  /\ item = [i \in Items |-> NoItem]
  /\ visit = [v \in Visits |-> NoVisit]

\* What a form without a slug gets: that of its name, if it has one.
SlugOf(name, slug) == IF slug # None THEN slug ELSE DerivedSlug[name]

-----------------------------------------------------------------------------
(* The routes *)

Route(on, does) == [on |-> on, does |-> does]

OrganizationRoutes == {Route("organization", d) : d \in {"show", "update"}} \cup {Route("member", "list")}
MemberRoutes  == {Route("member", "update"), Route("member", "delete"), Route("membership", "delete")}
LinkRoutes    == {Route("invitation", d) : d \in {"list", "create", "revoke"}}
ProjectRoutes == {Route("project", d) : d \in {"list", "create", "update"}}
TokenRoutes   == {Route("token", d) : d \in {"list", "create", "revoke"}}
RuleRoutes    == {Route("rule", d) : d \in {"list", "create", "update", "delete"}}
ReportRoutes  == {Route("report", d) : d \in {"list", "show"}}
LogRoutes     == {Route("log", "list")}
TraceRoutes   == {Route("span", d) : d \in {"list", "show"}}
SummaryRoutes == {Route("dashboard", "show")}

Routes == OrganizationRoutes \cup MemberRoutes \cup LinkRoutes \cup ProjectRoutes \cup TokenRoutes \cup RuleRoutes
            \cup ReportRoutes \cup LogRoutes \cup TraceRoutes \cup SummaryRoutes

ASSUME TenancyAssumption ==
  /\ DerivedSlug \in [Names -> Slugs \cup {None}]
  /\ None \notin Organizations \cup Projects \cup Items \cup Slugs \cup Viewers
  /\ Scopes \subseteq [routes : SUBSET Routes, viewers : SUBSET Viewers, ranks : SUBSET (Ranks \cup {"NONE"}),
                       projects : Nat, items : Nat, visits : SUBSET Visits]

\* RequireOrgRole: reading is for every member, except who was invited, and so is leaving.
Needs(route) ==
  IF route.on = "membership" \/ (route.does \in {"list", "show"} /\ route.on # "invitation") THEN Ranks
  ELSE IF route.on = "organization" THEN {"OWNER"} ELSE {"OWNER", "ADMIN"}

\* The identifiers of a path: what is addressed below the organization.
ProjectsOf(route) ==
  IF \/ route.on \in {"organization", "member", "membership", "invitation"}
     \/ route \in {Route("project", d) : d \in {"list", "create"}}
  THEN {None} ELSE Projects
ItemsOf(route) ==
  IF route.does = "revoke" \/ route \in {Route("rule", "update"), Route("rule", "delete"), Route("report", "show")}
  THEN Items ELSE {None}

\* Whom a request is about: anyone a path or a form names, or who leaves.
UsersOf(route, viewer) ==
  CASE route.on = "membership" -> {viewer}
    [] route \in {Route("member", "update"), Route("member", "delete"), Route("invitation", "create")} -> Viewers
    [] OTHER -> {None}

\* What a membership is to become.
RanksOf(route) == IF route = Route("member", "update") THEN Ranks ELSE {"NONE"}

\* The slugs a form may come with.
SlugsOf(route) ==
  CASE route = Route("project", "create") -> {SlugOf(n, s) : n \in Names, s \in Slugs \cup {None}}
    [] route = Route("project", "update") -> Slugs \cup {None}
    [] OTHER -> {None}

\* The organization a path names, for a member of it.
Resolved(viewer, path, db) ==
  {o \in Organizations : db.organization[o] = path /\ db.seat[viewer, o] # "NONE"}

\* The guard: not a member reads as not found, too low a role as forbidden.
Guard(viewer, path, route, db) ==
  IF Resolved(viewer, path, db) = {} THEN "not found"
  ELSE IF \E o \in Resolved(viewer, path, db) : db.seat[viewer, o] \in Needs(route) THEN "ok"
  ELSE "forbidden"

-----------------------------------------------------------------------------
(* Looking for a row *)

\* Looking for a project by its identifier alone.
OwnedByAnyone(p, o, db) == p \in Projects /\ db.project[p].owner # None

\* requireProject: both halves of the scope.
Owned(p, o, db) == p \in Projects /\ db.project[p].owner = o

Stored(kind, p, db) == {i \in Items : db.item[i].mark # "gone" /\ db.item[i].kind = kind /\ db.item[i].of = p}

\* requireRule, and every read that names the project and the organization at once.
StoredWithin(kind, p, o, db) == IF Owned(p, o, db) THEN Stored(kind, p, db) ELSE {}

\* The unique index on a project's organization and slug, for a row other than p.
SlugTaken(o, p, slug, db) == \E q \in Projects \ {p} : db.project[q] = [owner |-> o, slug |-> slug]

\* Who was invited to an organization, the links that are spent or withdrawn included.
Invited(o, db) == {i \in Items : db.item[i].kind = "invitation" /\ db.item[i].of = o}

WithProject(p, row, db) == [db EXCEPT !.project = [db.project EXCEPT ![p] = row]]
WithItem(i, row, db)    == [db EXCEPT !.item = [db.item EXCEPT ![i] = row]]

-----------------------------------------------------------------------------
(* What a handler answers, with the rows it names and the database it leaves, or *)
(* "found" or "counted" with the rows its next statement goes by                 *)

Outcome(status, rows, db) == [status |-> status, rows |-> rows, db |-> db]

\* The organization is in the context the guard attached; its new name is left out.
OrganizationShown(w, db) == Outcome("ok", {w.owner}, db)

MembersListed(w, db) == Outcome("ok", {u \in Viewers : db.seat[u, w.owner] # "NONE"}, db)

LinksListed(w, db) == Outcome("ok", Invited(w.owner, db), db)

ProjectsListed(w, db) == Outcome("ok", {p \in Projects : Owned(p, w.owner, db)}, db)

\* A slug in use is a conflict, a name without one is refused.
ProjectCreated(w, new, db) ==
  IF w.slug = None THEN Outcome("bad request", {}, db)
  ELSE IF SlugTaken(w.owner, new, w.slug, db) THEN Outcome("conflict", {}, db)
  ELSE Outcome("ok", {new}, WithProject(new, [owner |-> w.owner, slug |-> w.slug], db))

\* A report that is not there and one of another organization are the same.
ReportShown(w, db) ==
  IF w.item \in StoredWithin("report", w.project, w.owner, db)
  THEN Outcome("ok", {w.item}, db) ELSE Outcome("not found", {}, db)

\* Reports, records and the spans of a trace: none of a project that is not there.
ItemsListed(w, db) == Outcome("ok", StoredWithin(w.on, w.project, w.owner, db), db)

\* The first of two statements: the project, the rule or token, or the roots of the traces.
ProjectFound(w, db) ==
  Outcome(IF Owned(w.project, w.owner, db) THEN "found" ELSE "not found", {}, db)

RuleFound(w, db) ==
  Outcome(IF w.item \in StoredWithin("rule", w.project, w.owner, db) THEN "found" ELSE "not found", {}, db)

\* An already revoked token is the answer as it is.
TokenFound(w, db) ==
  IF w.item \notin StoredWithin("token", w.project, w.owner, db) THEN Outcome("not found", {}, db)
  ELSE IF db.item[w.item].mark = "revoked" THEN Outcome("ok", {w.item}, db)
  ELSE Outcome("found", {}, db)

LinkFound(w, db) ==
  IF w.item \notin Invited(w.owner, db) THEN Outcome("not found", {}, db)
  ELSE IF db.item[w.item].mark = "revoked" THEN Outcome("ok", {w.item}, db)
  ELSE Outcome("found", {}, db)

\* A login that is a member already is not invited.
InviteeSought(w, db) == Outcome(IF db.seat[w.user, w.owner] = "NONE" THEN "found" ELSE "conflict", {}, db)

\* requireMembership.  Ownership is an owner's to grant or withdraw, and no owner
\* goes before the others are counted.  To leave takes no role.
MemberFound(w, db) ==
  LET was == db.seat[w.user, w.owner] IN
  IF was = "NONE" THEN Outcome("not found", {}, db)
  ELSE IF w.on = "member" /\ w.role # "OWNER" /\ "OWNER" \in {was, w.rank} THEN Outcome("forbidden", {}, db)
  ELSE Outcome(IF was = "OWNER" /\ w.rank # "OWNER" THEN "found" ELSE "counted", {}, db)

RootsFound(w, db) == Outcome("found", StoredWithin("span", w.project, w.owner, db), db)

\* The second goes by the identifiers alone.
ProjectUpdated(w, db) ==
  IF w.slug = None THEN Outcome("ok", {w.project}, db)
  ELSE IF SlugTaken(db.project[w.project].owner, w.project, w.slug, db) THEN Outcome("conflict", {}, db)
  ELSE Outcome("ok", {w.project}, WithProject(w.project, [db.project[w.project] EXCEPT !.slug = w.slug], db))

\* The tokens and the rules of a project.
ListedOf(w, db) == Outcome("ok", Stored(w.on, w.project, db), db)

\* issueToken, and a new rule.
AddedTo(w, new, db) == Outcome("ok", {new}, WithItem(new, [kind |-> w.on, of |-> w.project, login |-> None, mark |-> "live"], db))

\* A token or a link.
Revoked(w, db) == Outcome("ok", {w.item}, WithItem(w.item, [db.item[w.item] EXCEPT !.mark = "revoked"], db))

\* create: the live links to the login are withdrawn and a new one is issued.
LinkIssued(w, new, db) ==
  Outcome("ok", {new}, [db EXCEPT !.item = [i \in Items |->
    IF i = new THEN [kind |-> "invitation", of |-> w.owner, login |-> w.user, mark |-> "live"]
    ELSE IF i \in Invited(w.owner, db) /\ db.item[i].login = w.user /\ db.item[i].mark = "live"
         THEN [db.item[i] EXCEPT !.mark = "revoked"]
    ELSE db.item[i]]])

\* refuseIfLastOwner.
OwnersCounted(w, db) ==
  Outcome(IF \E u \in Viewers \ {w.user} : db.seat[u, w.owner] = "OWNER" THEN "counted" ELSE "conflict", {}, db)

\* A membership that is gone by now is an error, which nobody catches.
MemberWritten(w, db) ==
  IF db.seat[w.user, w.owner] = "NONE" THEN Outcome("error", {}, db)
  ELSE Outcome("ok", {w.user}, [db EXCEPT !.seat = [db.seat EXCEPT ![<<w.user, w.owner>>] = w.rank]])

\* A rule that is gone by now is an error, which nobody catches.
RuleChanged(w, db) ==
  IF db.item[w.item].mark = "gone" THEN Outcome("error", {}, db)
  ELSE IF w.does = "delete" THEN Outcome("ok", {w.item}, WithItem(w.item, [db.item[w.item] EXCEPT !.mark = "gone"], db))
  ELSE Outcome("ok", {w.item}, db)

\* The spans of the listed traces.
SpansCounted(w, db) == Outcome("ok", IF w.rows = {} THEN {} ELSE Stored("span", w.project, db), db)

ActivitySummed(w, db) == Outcome("ok", UNION {Stored(k, w.project, db) : k \in {"report", "log", "span"}}, db)

FindsProject(w) ==
  \/ w.on = "project" /\ w.does = "update"
  \/ w.on \in {"token", "rule"} /\ w.does \in {"list", "create"}
  \/ w.on = "dashboard"
FindsMember(w) == w.on = "membership" \/ (w.on = "member" /\ w.does # "list")
FindsRule(w)  == w.on = "rule" /\ w.does \in {"update", "delete"}
FindsRoots(w) == w.on = "span" /\ w.does = "list"

FirstStatement(w, new, db) ==
  CASE w.on = "organization" -> OrganizationShown(w, db)
    [] w.on = "member" /\ w.does = "list" -> MembersListed(w, db)
    [] FindsMember(w) -> MemberFound(w, db)
    [] w.on = "invitation" /\ w.does = "list" -> LinksListed(w, db)
    [] w.on = "invitation" /\ w.does = "create" -> InviteeSought(w, db)
    [] w.on = "invitation" /\ w.does = "revoke" -> LinkFound(w, db)
    [] w.on = "project" /\ w.does = "list" -> ProjectsListed(w, db)
    [] w.on = "project" /\ w.does = "create" -> ProjectCreated(w, new, db)
    [] w.on = "report" /\ w.does = "show" -> ReportShown(w, db)
    [] FindsProject(w) -> ProjectFound(w, db)
    [] FindsRule(w) -> RuleFound(w, db)
    [] w.on = "token" /\ w.does = "revoke" -> TokenFound(w, db)
    [] FindsRoots(w) -> RootsFound(w, db)
    [] OTHER -> ItemsListed(w, db)

SecondStatement(w, new, db) ==
  CASE w.on = "project" -> ProjectUpdated(w, db)
    [] FindsMember(w) -> OwnersCounted(w, db)
    [] w.on = "invitation" /\ w.does = "create" -> LinkIssued(w, new, db)
    [] w.on = "dashboard" -> ActivitySummed(w, db)
    [] w.on = "span" -> SpansCounted(w, db)
    [] w.on \in {"token", "rule"} /\ w.does = "list" -> ListedOf(w, db)
    [] w.on \in {"token", "rule"} /\ w.does = "create" -> AddedTo(w, new, db)
    [] w.does = "revoke" -> Revoked(w, db)
    [] OTHER -> RuleChanged(w, db)

Statement(w, new, db) ==
  CASE w.step = "admitted" -> FirstStatement(w, new, db)
    [] w.step = "found"    -> SecondStatement(w, new, db)
    [] OTHER               -> MemberWritten(w, db)

-----------------------------------------------------------------------------
(* Actions *)

\* An organization is created with its owner, in one statement.  Its slug is
\* unique across the instance.
CreateOrganization(viewer, o, slug) ==
  /\ slug # None /\ organization[o] = None
  /\ \A other \in Organizations : organization[other] # slug
  /\ organization' = [organization EXCEPT ![o] = slug]
  /\ seat' = [seat EXCEPT ![<<viewer, o>>] = "OWNER"]
  /\ UNCHANGED <<scope, project, item, visit>>

\* What other requests about members, and redeemed links, do.
MembershipChanges(viewer, o, rank) ==
  /\ organization[o] # None
  /\ seat' = [seat EXCEPT ![<<viewer, o>>] = rank]
  /\ UNCHANGED <<scope, organization, project, item, visit>>

\* The identifiers left for new rows.
Unowned == {p \in Projects : project[p].owner = None}
Unused  == {i \in Items : item[i].of = None}
FreeProjects == IF Cardinality(Projects \ Unowned) < scope.projects THEN Unowned ELSE {}
Free         == IF Cardinality(Items \ Unused) < scope.items THEN Unused ELSE {}

\* A token of the project stores a report, a record or a span.
Ingest(i, kind, p) ==
  /\ kind \in {"report", "log", "span"} /\ kind \in {route.on : route \in scope.routes}
  /\ i \in Free /\ project[p].owner # None
  /\ item' = [item EXCEPT ![i] = [kind |-> kind, of |-> p, login |-> None, mark |-> "live"]]
  /\ UNCHANGED <<scope, organization, seat, project, visit>>

\* Retention sweeps records and spans.
Sweep(i) ==
  /\ item[i].kind \in {"log", "span"} /\ item[i].mark = "live"
  /\ item' = [item EXCEPT ![i].mark = "gone"]
  /\ UNCHANGED <<scope, organization, seat, project, visit>>

\* redeem marks a link.  The membership it grants is one of the changes above.
SpendLink(i) ==
  /\ item[i].kind = "invitation" /\ item[i].mark = "live"
  /\ item' = [item EXCEPT ![i].mark = "spent"]
  /\ UNCHANGED <<scope, organization, seat, project, visit>>

\* The guard lets a request in, with the organization it resolved.  A refused
\* request, or one whose identifiers or form are malformed, leaves no trace.
LetIn(v, viewer, path, route, p, i, slug, user, rank) ==
  /\ visit[v] = NoVisit /\ v \in scope.visits
  /\ Guard(viewer, path, route, Database) = "ok"
  /\ \E o \in Resolved(viewer, path, Database) :
       visit' = [visit EXCEPT ![v] =
         [step |-> "admitted", on |-> route.on, does |-> route.does, path |-> path, owner |-> o,
          role |-> seat[viewer, o], project |-> p, item |-> i, slug |-> slug, user |-> user, rank |-> rank,
          rows |-> {}]]
  /\ UNCHANGED <<scope, organization, seat, project, item>>

\* Where the row a handler creates may go.
NewRows(w) ==
  CASE w.does # "create" -> {None}
    [] w.on = "project"  -> FreeProjects
    [] OTHER             -> Free

\* The next statement of a handler, and its answer unless there is another.
Step(v, new) ==
  LET w == visit[v]  out == Statement(w, new, Database) IN
  /\ w.step # "idle"
  /\ seat' = out.db.seat /\ project' = out.db.project /\ item' = out.db.item
  /\ visit' = [visit EXCEPT ![v] =
       IF out.status \in {"found", "counted"} THEN [w EXCEPT !.step = out.status, !.rows = out.rows] ELSE NoVisit]
  /\ UNCHANGED <<scope, organization>>

\* The caller or the process goes before the answer.
CutOff(v) ==
  /\ visit[v].step # "idle"
  /\ visit' = [visit EXCEPT ![v] = NoVisit]
  /\ UNCHANGED <<scope, organization, seat, project, item>>

TenancyNext ==
  \/ \E viewer \in scope.viewers, o \in Organizations :
       \/ \E name \in Names, slug \in Slugs \cup {None} : CreateOrganization(viewer, o, SlugOf(name, slug))
       \/ \E rank \in scope.ranks : MembershipChanges(viewer, o, rank)
  \/ \E i \in Items : Sweep(i) \/ SpendLink(i) \/ \E kind \in Kinds, p \in Projects : Ingest(i, kind, p)
  \/ \E v \in Visits :
       \/ \E viewer \in scope.viewers, path \in Slugs, route \in scope.routes :
            \E p \in ProjectsOf(route), i \in ItemsOf(route), slug \in SlugsOf(route),
               user \in UsersOf(route, viewer), rank \in RanksOf(route) :
              LetIn(v, viewer, path, route, p, i, slug, user, rank)
       \/ \E new \in NewRows(visit[v]) : Step(v, new)
       \/ CutOff(v)

TenancySpec == TenancyInit /\ [][TenancyNext]_tenancyVars
-----------------------------------------------------------------------------
(* Properties *)

Visit == [step : {"idle", "admitted", "found", "counted"},
          on : Kinds \cup {"organization", "member", "membership", "project", "dashboard"},
          does : {"list", "show", "create", "update", "revoke", "delete"}, path : Slugs \cup {None},
          owner : Organizations \cup {None}, role : Ranks, project : Projects \cup {None},
          item : Items \cup {None}, slug : Slugs \cup {None}, user : Viewers \cup {None},
          rank : Ranks \cup {"NONE"}, rows : SUBSET Items]

\* Every variable has its type.
TenancyTypeOK ==
  /\ scope \in Scopes
  /\ organization \in [Organizations -> Slugs \cup {None}]
  /\ seat \in [Viewers \X Organizations -> Ranks \cup {"NONE"}]
  /\ project \in [Projects -> [owner : Organizations \cup {None}, slug : Slugs \cup {None}]]
  /\ item \in [Items -> [kind : Kinds, of : Projects \cup Organizations \cup {None},
                        login : Viewers \cup {None}, mark : {"live", "revoked", "spent", "gone"}]]
  /\ visit \in [Visits -> Visit] /\ \A v \in Visits : Route(visit[v].on, visit[v].does) \in Routes

\* A slug names one organization, and one project of an organization.
SlugsNameOne ==
  /\ \A o, other \in Organizations : organization[o] # None /\ organization[o] = organization[other] => o = other
  /\ \A p, q \in Projects : project[p].owner # None /\ project[p] = project[q] => p = q

\* The row belongs to the organization: an invitation by itself, the rest with its project.
Belongs(i, o, db) ==
  IF db.item[i].kind = "invitation" THEN db.item[i].of = o ELSE Owned(db.item[i].of, o, db)

\* A project is of an organization that exists, and an item of such a project, or,
\* an invitation, of such an organization.
RowsHaveOwners ==
  /\ \A p \in Projects : (project[p].owner = None <=> project[p].slug = None)
                          /\ (project[p].owner # None => organization[project[p].owner] # None)
  /\ \A i \in Items : IF item[i].of = None THEN item[i] = NoItem
                       ELSE \E o \in Organizations : organization[o] # None /\ Belongs(i, o, Database)

\* The organization a request was let in to is the one its path names, until its end.
PathStillNamesIt ==
  \A v \in Visits : visit[v].step # "idle" =>
    visit[v].owner \in Organizations /\ organization[visit[v].owner] = visit[v].path /\ visit[v].path # None

\* What a later statement goes by is still where the first one found it.  (A
\* membership, and the links to a login, are looked for once more.)
FoundStaysWithin ==
  \A v \in Visits : visit[v].step \in {"found", "counted"} =>
    LET w == visit[v] IN
    IF FindsMember(w) THEN w.user \in Viewers
    ELSE /\ w.step = "found"
         /\ IF w.on = "invitation" THEN IF w.does = "revoke" THEN w.item \in Invited(w.owner, Database)
                                         ELSE w.does = "create" /\ w.user \in Viewers
            ELSE /\ FindsProject(w) \/ FindsRule(w) \/ w.does = "revoke" \/ FindsRoots(w)
                 /\ Owned(w.project, w.owner, Database) \/ (FindsRoots(w) /\ w.rows = {})
                 /\ FindsRule(w) \/ w.does = "revoke" => /\ w.item \in Items /\ item[w.item].of = w.project
                                                        /\ item[w.item].kind = w.on

\* The database as if the given organizations were all there are.
Within(owners, db) ==
  [organization |-> [o \in Organizations |-> IF o \in owners THEN db.organization[o] ELSE None],
   seat    |-> [s \in Viewers \X Organizations |-> IF s[2] \in owners THEN db.seat[s] ELSE "NONE"],
   project |-> [p \in Projects |-> IF db.project[p].owner \in owners THEN db.project[p] ELSE NoProject],
   item    |-> [i \in Items |-> IF \E o \in owners : Belongs(i, o, db) THEN db.item[i] ELSE NoItem]]

\* A request is answered as if its organization were the only one: what belongs
\* to another reads as what does not exist, and is left as it was.
OthersDoNotShow ==
  \A v \in Visits : visit[v].step # "idle" => \A new \in NewRows(visit[v]) :
    LET w == visit[v]
        all == Statement(w, new, Database)
        own == Statement(w, new, Within({w.owner}, Database)) IN
    /\ all.status = own.status /\ all.rows = own.rows
    /\ Within({w.owner}, all.db) = own.db
    /\ Within(Organizations \ {w.owner}, all.db) = Within(Organizations \ {w.owner}, Database)

\* The guard tells a viewer of no organization but those with a seat for them.
GuardTellsOfOwn ==
  \A viewer \in Viewers :
    LET own == Within({o \in Organizations : seat[viewer, o] # "NONE"}, Database) IN
    \A path \in Slugs, route \in Routes : Guard(viewer, path, route, Database) = Guard(viewer, path, route, own)

TenancyInv ==
  /\ TenancyTypeOK
  /\ SlugsNameOne
  /\ RowsHaveOwners
  /\ PathStillNamesIt
  /\ FoundStaysWithin
  /\ OthersDoNotShow
  /\ GuardTellsOfOwn

=============================================================================
