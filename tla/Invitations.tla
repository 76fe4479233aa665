---------------------------- MODULE Invitations ----------------------------
(***************************************************************************)
(* The links that add people to an organization: InvitationService, over   *)
(* the memberships of module Memberships, whose requests go on meanwhile.  *)
(*                                                                         *)
(* Each operation reads in one statement and writes in a later one.  The   *)
(* $transaction of create is at READ COMMITTED: the rows its first         *)
(* statement withdraws are the ones committed when it started.  Of the     *)
(* three timestamps of a link only whether they are set, or are past, is   *)
(* kept.  A login and the account that has it are the same here.           *)
(***************************************************************************)
EXTENDS Memberships, Integers

CONSTANTS
  Links,   \* the invitations that may be issued
  Calls,   \* calls of create, revoke and accept that may overlap
  Quotas,  \* bounds: who there is, which roles are given, how many requests and calls overlap, and how many links are issued
  Null

ASSUME InvitationAssumption ==
  /\ Quotas \subseteq [people : SUBSET Users, roles : SUBSET Roles, requests : Nat, calls : Nat, links : Nat]
  /\ Null \notin Links

VARIABLES
  quota,       \* the bound of this instance
  invitation,  \* table Invitation
  call,        \* the calls under way
  beside       \* history: the links a new one was issued beside, unseen by its create

inviteVars == <<quota, invitation, call, beside>>
vars       == <<memberVars, inviteVars>>

\* `by` is what its creator was when the guard let the request in.
Unissued == [issued |-> FALSE, by |-> NoRole, login |-> Founder, role |-> "MEMBER",
             expired |-> FALSE, accepted |-> FALSE, revoked |-> FALSE]

NoCall == [step |-> "idle", by |-> NoRole, link |-> Null, login |-> Founder, role |-> "MEMBER",
           rows |-> {}, seen |-> {}]

Init ==
  /\ MemberInit
  /\ quota \in Quotas
  /\ invitation = [i \in Links |-> Unissued]
  /\ call = [c \in Calls |-> NoCall]
  /\ beside = [i \in Links |-> {}]

AllIssued == {i \in Links : invitation[i].issued}

\* Neither spent nor withdrawn.
Outstanding(i) ==
  invitation[i].issued /\ ~invitation[i].accepted /\ ~invitation[i].revoked

\* findLive: still good for joining.
Live(i) == Outstanding(i) /\ ~invitation[i].expired

CallsUnderWay == {c \in Calls : call[c].step # "idle"}
RequestsUnderWay == {r \in Requests : request[r].step # "idle"}

Begin(c, step, fields) ==
  /\ call[c].step = "idle" /\ Cardinality(CallsUnderWay) < quota.calls
  /\ call' = [call EXCEPT ![c] = [fields EXCEPT !.step = step]]
  /\ UNCHANGED <<memberVars, quota, invitation, beside>>

Done(c) == call' = [call EXCEPT ![c] = NoCall]

\* The seven days pass.  Of a link that is spent or withdrawn nobody asks.
Expire(i) ==
  /\ Live(i)
  /\ invitation' = [invitation EXCEPT ![i].expired = TRUE]
  /\ UNCHANGED <<memberVars, quota, call, beside>>

-----------------------------------------------------------------------------
(* create *)

\* Every route of InvitationController is for an owner or an admin.
MayInvite(actor) == member[actor] \in {"OWNER", "ADMIN"}

\* The login is not a member yet.  Nothing asks which role is offered by whom.
BeginCreate(c, actor, login, role) ==
  /\ MayInvite(actor)
  /\ member[login] = NoRole
  /\ Begin(c, "withdraw", [NoCall EXCEPT !.by = member[actor], !.login = login, !.role = role])

\* A new link without the withdrawal of the one before.
NothingToWithdraw(login) == {}

ToWithdraw(login) == {i \in Links : Outstanding(i) /\ invitation[i].login = login}

\* The first statement of the transaction: the outstanding links it can see.
WithdrawOutstanding(c) ==
  /\ call[c].step = "withdraw"
  /\ call' = [call EXCEPT ![c].step = "issue", ![c].rows = ToWithdraw(call[c].login),
                          ![c].seen = AllIssued]
  /\ UNCHANGED <<memberVars, quota, invitation, beside>>

Issued(by, login, role) == [Unissued EXCEPT !.issued = TRUE, !.by = by, !.login = login, !.role = role]

\* The second statement and the commit.  A row another call has changed since
\* is looked at again before it is withdrawn.
IssueLink(c, i) ==
  /\ call[c].step = "issue"
  /\ ~invitation[i].issued /\ Cardinality(AllIssued) < quota.links
  /\ invitation' = [j \in Links |->
       IF j = i THEN Issued(call[c].by, call[c].login, call[c].role)
       ELSE IF j \in call[c].rows /\ Outstanding(j) THEN [invitation[j] EXCEPT !.revoked = TRUE]
       ELSE invitation[j]]
  /\ beside' = [beside EXCEPT ![i] = AllIssued \ call[c].seen]
  /\ Done(c)
  /\ UNCHANGED <<memberVars, quota>>

-----------------------------------------------------------------------------
(* revoke: an already revoked link is the answer as it is *)

ReadForRevoke(c, i) ==
  /\ \E actor \in Users : MayInvite(actor)
  /\ invitation[i].issued /\ ~invitation[i].revoked
  /\ Begin(c, "revoke", [NoCall EXCEPT !.link = i])

\* The update does not ask whether the link was accepted since.
Revoke(c) ==
  /\ call[c].step = "revoke"
  /\ invitation' = [invitation EXCEPT ![call[c].link].revoked = TRUE]
  /\ Done(c)
  /\ UNCHANGED <<memberVars, quota, beside>>

-----------------------------------------------------------------------------
(* acceptAsViewer, and the end of a sign-in that began with a link *)

CheckLink(c, i) ==
  /\ Live(i)
  /\ Begin(c, "redeem", [NoCall EXCEPT !.link = i])

Spend(i) == IF Outstanding(i) THEN [invitation EXCEPT ![i].accepted = TRUE] ELSE invitation

\* The two statements without the transaction: the link may be marked alone.
RedeemInParts(c) ==
  LET i == call[c].link IN
  /\ call[c].step = "redeem"
  /\ member' \in {member, Granted(invitation[i].login, invitation[i].role)}
  /\ invitation' = Spend(i)
  /\ Done(c)
  /\ UNCHANGED <<request, raced, quota, beside>>

\* redeem: the membership and the mark on the link in one transaction.  Only the
\* mark depends on what became of the link since it was checked.
Redeem(c) ==
  LET i == call[c].link IN
  /\ call[c].step = "redeem"
  /\ member' = Granted(invitation[i].login, invitation[i].role)
  /\ invitation' = Spend(i)
  /\ Done(c)
  /\ UNCHANGED <<request, raced, quota, beside>>

\* The connection or the process goes: a transaction that did not commit is
\* rolled back.
AbandonCall(c) ==
  /\ call[c].step # "idle"
  /\ Done(c)
  /\ UNCHANGED <<memberVars, quota, invitation, beside>>

-----------------------------------------------------------------------------

CallStep(c) ==
  \/ \E actor, login \in quota.people, role \in quota.roles : BeginCreate(c, actor, login, role)
  \/ WithdrawOutstanding(c)
  \/ \E i \in Links : IssueLink(c, i) \/ ReadForRevoke(c, i) \/ CheckLink(c, i)
  \/ Revoke(c)
  \/ Redeem(c)
  \/ AbandonCall(c)

\* The requests of Memberships.  Its Join is Redeem here.
MembershipStep ==
  /\ \E r \in Requests :
       /\ RequestStep(r)
       /\ request[r].step = "idle" =>
            /\ Cardinality(RequestsUnderWay) < quota.requests
            /\ request'[r].target \in quota.people /\ request'[r].newRole \in quota.roles \cup {NoRole}
  /\ UNCHANGED inviteVars

Next ==
  \/ MembershipStep
  \/ \E i \in Links : Expire(i)
  \/ \E c \in Calls : CallStep(c)

Spec == Init /\ [][Next]_vars
-----------------------------------------------------------------------------
(* Properties *)

Invitation == [issued : BOOLEAN, by : Roles \cup {NoRole}, login : Users, role : Roles,
               expired : BOOLEAN, accepted : BOOLEAN, revoked : BOOLEAN]
Call == [step : {"idle", "withdraw", "issue", "revoke", "redeem"}, by : Roles \cup {NoRole},
         link : Links \cup {Null}, login : Users, role : Roles, rows : SUBSET Links, seen : SUBSET Links]

\* Every variable has its type.
TypeOK ==
  /\ MemberTypeOK
  /\ quota \in Quotas
  /\ invitation \in [Links -> Invitation]
  /\ call \in [Calls -> Call]
  /\ beside \in [Links -> SUBSET Links]

\* A link is never marked accepted without the membership it was accepted for:
\* the login it names is a member at that very instant.
AcceptedMeansJoined ==
  [][\A i \in Links : ~invitation[i].accepted /\ invitation'[i].accepted =>
       member'[invitation[i].login] # NoRole]_vars

\* What became of a link stays: it is not unspent or brought back, and one that
\* is withdrawn is never marked accepted, however old the check of its holder.
LinkIsFinal ==
  [][\A i \in Links :
       /\ invitation[i].accepted => invitation'[i].accepted
       /\ invitation[i].revoked  => /\ invitation'[i].revoked
                                    /\ invitation'[i].accepted = invitation[i].accepted]_vars

\* A link somebody kept never rewrites the role of a member: roles of members
\* change through the requests of Memberships only.
LinkKeepsRole ==
  [][\A u \in Users : member[u] # NoRole /\ member'[u] # member[u] => request' # request]_vars

\* A link does what it was sent for, once: whoever it is accepted for is a
\* member, what became of it stays, and it rewrites no role.
LinksKeepTheirWord == AcceptedMeansJoined /\ LinkIsFinal /\ LinkKeepsRole

\* u joins as an owner, by a link that somebody of the given roles issued.
InvitedAsOwner(u, roles) ==
  /\ member[u] = NoRole
  /\ \E c \in Calls : call[c].step = "redeem" /\
       LET link == invitation[call[c].link] IN link.login = u /\ link.role = "OWNER" /\ link.by \in roles

\* Nobody becomes an owner but through a request of an owner, or by joining with a
\* link that offers ownership, which an owner or an admin issued: not by what
\* changed between two statements, and not by a link for a member.
OwnershipIsGranted ==
  [][\A u \in Users : member[u] # "OWNER" /\ member'[u] = "OWNER" =>
       Grants(u, {"OWNER"}) \/ InvitedAsOwner(u, {"OWNER", "ADMIN"})]_vars

\* Only an owner may grant ownership, and an admin manages whoever is below, as
\* README.md:176 and the comment on updateMemberRole have it.
OnlyOwnersMakeOwners ==
  [][\A u \in Users : member[u] # "OWNER" /\ member'[u] = "OWNER" =>
       Grants(u, {"OWNER"}) \/ InvitedAsOwner(u, {"OWNER"})]_vars

\* Re-inviting withdraws the link before it, so a seat has one live link: two
\* only when each was issued by a create that could not yet see the other, which
\* two admins who invite the same login at once do.
OneLiveLinkPerSeat ==
  \A i, j \in Links :
    /\ i # j /\ Outstanding(i) /\ Outstanding(j)
    /\ invitation[i].login = invitation[j].login
    => i \in beside[j] \/ j \in beside[i]

(* The inductive invariant behind them. *)

\* Nothing has become of a link that was not issued.
BlankUntilIssued == \A i \in Links : ~invitation[i].issued => invitation[i] = Unissued

\* A link is issued by an owner or an admin, and is about to be.
IssuedByManagers ==
  /\ \A i \in AllIssued : invitation[i].by \in {"OWNER", "ADMIN"}
  /\ \A c \in Calls : call[c].step \in {"withdraw", "issue"} => call[c].by \in {"OWNER", "ADMIN"}

\* A link that is about to be revoked or redeemed was issued.
CallsKnowTheirLink ==
  \A c \in Calls : call[c].step \in {"revoke", "redeem"} => call[c].link \in AllIssued

\* A create that has yet to issue its link will withdraw every link to its login
\* that it could see and that is still good.
WithdrawalsHold ==
  \A c \in Calls : call[c].step = "issue" =>
    /\ call[c].seen \subseteq AllIssued
    /\ ToWithdraw(call[c].login) \cap call[c].seen \subseteq call[c].rows

\* What is kept of links; what is kept of memberships is MemberInv.
LinkInv ==
  /\ TypeOK
  /\ BlankUntilIssued
  /\ IssuedByManagers
  /\ CallsKnowTheirLink
  /\ WithdrawalsHold
  /\ OneLiveLinkPerSeat

InvitationInv == MemberInv /\ LinkInv

=============================================================================
