---------------------------- MODULE Memberships ----------------------------
(***************************************************************************)
(* Who belongs to one organization, and as what: OrganizationService with  *)
(* the OrgMembershipGuard in front of it (apps/api/src/organizations).     *)
(*                                                                         *)
(* A request is a chain of separate statements: the guard reads the role   *)
(* of the caller, the service reads the membership it will change, counts  *)
(* the other owners when an owner is about to go, and only then writes.    *)
(* Nothing holds these together, so requests interleave between them.      *)
(***************************************************************************)
EXTENDS FiniteSets

CONSTANTS
  Users,      \* accounts
  Founder,    \* the account that created the organization
  Requests,   \* requests that may be under way at once
  NoRole      \* no membership

ASSUME MembershipAssumption ==
  /\ Founder \in Users
  /\ NoRole \notin {"OWNER", "ADMIN", "MEMBER"}

VARIABLES
  member,     \* table Membership: the role of each account
  request,    \* the requests under way
  raced       \* history: two withdrawals of ownership were decided at once

memberVars == <<member, request, raced>>

Roles == {"OWNER", "ADMIN", "MEMBER"}

\* `newRole` is NoRole for a request that deletes the membership.
NoRequest == [step |-> "idle", verb |-> "leave", actorRole |-> NoRole, target |-> Founder,
              newRole |-> NoRole, existing |-> NoRole]

Owners == {u \in Users : member[u] = "OWNER"}

OtherOwners(u) == Owners \ {u}

\* create: the organization and its first owner in one statement.
MemberInit ==
  /\ member = [u \in Users |-> IF u = Founder THEN "OWNER" ELSE NoRole]
  /\ request = [r \in Requests |-> NoRequest]
  /\ raced = FALSE

Finish(r) == request' = [request EXCEPT ![r] = NoRequest]

-----------------------------------------------------------------------------

\* OrgMembershipGuard: the caller is a member, and an owner or an admin for
\* everything but leaving.
Admit(r, actor, verb, target, newRole) ==
  /\ request[r].step = "idle"
  /\ member[actor] # NoRole
  /\ verb # "leave" => member[actor] \in {"OWNER", "ADMIN"}
  /\ verb = "leave" => target = actor
  /\ verb = "update" <=> newRole # NoRole
  /\ request' = [request EXCEPT ![r] =
       [step |-> "read", verb |-> verb, actorRole |-> member[actor], target |-> target,
        newRole |-> newRole, existing |-> NoRole]]
  /\ UNCHANGED <<member, raced>>

\* A check of the role that is held and not of the one that is given.
MayActOnTarget(actorRole, verb, existing, newRole) ==
  verb = "leave" \/ actorRole = "OWNER" \/ existing # "OWNER"

\* Only an owner may grant or withdraw ownership.
MayAct(actorRole, verb, existing, newRole) ==
  verb = "leave" \/ actorRole = "OWNER" \/ (existing # "OWNER" /\ newRole # "OWNER")

\* requireMembership, and the refusals that follow from what it read.
ReadTarget(r) ==
  LET q == request[r]
      existing == member[q.target] IN
  /\ q.step = "read"
  /\ IF existing = NoRole \/ ~MayAct(q.actorRole, q.verb, existing, q.newRole)
     THEN Finish(r)
     ELSE request' = [request EXCEPT ![r].existing = existing, ![r].step =
            IF existing = "OWNER" /\ q.newRole # "OWNER" THEN "count" ELSE "write"]
  /\ UNCHANGED <<member, raced>>

\* An owner who will be demoted or removed by a request that is past its check.
Withdrawing(r) ==
  /\ request[r].step = "write"
  /\ request[r].existing = "OWNER" /\ request[r].newRole # "OWNER"

\* A count of the owners that includes the one who is about to go.
LeavesAnOwnerOrSelf(u) == Owners # {}

LeavesAnOwner(u) == OtherOwners(u) # {}

\* refuseIfLastOwner.
CountOwners(r) ==
  /\ request[r].step = "count"
  /\ IF LeavesAnOwner(request[r].target)
     THEN /\ request' = [request EXCEPT ![r].step = "write"]
          /\ raced' = (raced \/ \E other \in Requests : Withdrawing(other))
     ELSE Finish(r) /\ UNCHANGED raced
  /\ UNCHANGED member

\* The update or the delete.  A membership that is gone fails it (P2025); one
\* that became an owner's since it was read is demoted or removed unchecked.
Write(r) ==
  LET q == request[r] IN
  /\ q.step = "write"
  /\ member' = IF member[q.target] = NoRole THEN member
               ELSE [member EXCEPT ![q.target] = q.newRole]
  /\ raced' = (raced \/ (member[q.target] = "OWNER" /\ q.newRole # "OWNER" /\ ~Withdrawing(r)))
  /\ Finish(r)

\* The connection or the process goes between two statements.
Abandon(r) ==
  /\ request[r].step # "idle"
  /\ Finish(r)
  /\ UNCHANGED <<member, raced>>

\* An upsert whose update sets the role.
GrantedAnew(u, role) == [member EXCEPT ![u] = role]

\* The membership an invitation grants: upsert with `update: {}`.
Granted(u, role) ==
  IF member[u] = NoRole THEN [member EXCEPT ![u] = role] ELSE member

Join(u, role) ==
  /\ member' = Granted(u, role)
  /\ UNCHANGED <<request, raced>>

-----------------------------------------------------------------------------

RequestStep(r) ==
  \/ \E actor, target \in Users, verb \in {"update", "remove", "leave"},
        newRole \in Roles \cup {NoRole} : Admit(r, actor, verb, target, newRole)
  \/ ReadTarget(r)
  \/ CountOwners(r)
  \/ Write(r)
  \/ Abandon(r)

MemberNext ==
  \/ \E r \in Requests : RequestStep(r)
  \/ \E u \in Users, role \in Roles : Join(u, role)

MemberSpec == MemberInit /\ [][MemberNext]_memberVars
-----------------------------------------------------------------------------
(* Properties *)

Request == [step : {"idle", "read", "count", "write"}, verb : {"update", "remove", "leave"},
            actorRole : Roles \cup {NoRole}, target : Users,
            newRole : Roles \cup {NoRole}, existing : Roles \cup {NoRole}]

\* Every variable has its type.
MemberTypeOK ==
  /\ member \in [Users -> Roles \cup {NoRole}]
  /\ request \in [Requests -> Request]
  /\ raced \in BOOLEAN

\* The organization always has an owner, as the comment on refuseIfLastOwner and
\* the one on updateMember say: nothing else could restore one.
NeverOwnerless == Owners # {}

\* What refuseIfLastOwner does achieve, in any number of overlapping requests:
\* the organization can only lose its last owner when two withdrawals of
\* ownership were past their checks together, or one acted on a role that had
\* become OWNER since it was read.
OwnerlessOnlyByRace == raced \/ Owners # {}

\* A request that makes u an owner, let in as that of somebody of the given roles.
Grants(u, roles) ==
  \E r \in Requests : request[r].target = u /\ request[r].newRole = "OWNER" /\ request[r].actorRole \in roles

\* An existing member becomes an owner only through a request whose caller was an
\* owner when the guard let it in, whatever changed while it was under way.
PromotedByOwner ==
  [][\A u \in Users : member[u] \in {"ADMIN", "MEMBER"} /\ member'[u] = "OWNER" => Grants(u, {"OWNER"})]_memberVars

(* The inductive invariant behind them. *)

\* Until there was a race, whoever is past the check is alone there, and still
\* leaves an owner behind.
CheckStillHolds ==
  ~raced =>
    /\ \A r \in Requests : Withdrawing(r) => OtherOwners(request[r].target) # {}
    /\ \A r, other \in Requests : Withdrawing(r) /\ Withdrawing(other) => r = other

\* A request that will make somebody an owner was let in from an owner.
GrantsComeFromOwners ==
  \A r \in Requests :
    /\ request[r].step # "idle" => (request[r].verb = "update" <=> request[r].newRole # NoRole)
    /\ request[r].step = "write" /\ request[r].newRole = "OWNER" => request[r].actorRole = "OWNER"
    /\ request[r].step = "count" => request[r].existing = "OWNER" /\ request[r].newRole # "OWNER"

MemberInv ==
  /\ MemberTypeOK
  /\ CheckStillHolds
  /\ GrantsComeFromOwners
  /\ OwnerlessOnlyByRace

=============================================================================
